--------------------------- MODULE FileSystemProofs ---------------------------
(***************************************************************************)
(* The reads of the file system return the bytes of the file, in order and *)
(* within the user page, and searches find names exactly, for every size   *)
(* of blocks and names, every image and every width of the integers: under *)
(* any calls, and under those that the programs make.  Of the programs,    *)
(* cat and ls print what they should, the shell tells how its children     *)
(* ended, and syserr finds no fault.                                       *)
(***************************************************************************)
EXTENDS UserPrograms, Induction, SequenceTheorems

----------------------------------------------------------------------------
(* Arithmetic.                                                             *)
LEMMA DivMod ==
  ASSUME NEW s \in Nat, s >= 1, NEW x \in Nat
  PROVE  /\ x \div s \in Nat /\ x % s \in 0 .. s - 1
         /\ x = (x \div s) * s + (x % s)
OBVIOUS

LEMMA DivModUnique ==
  ASSUME NEW s \in Nat, s >= 1, NEW q \in Nat, NEW r \in 0 .. s - 1
  PROVE  (q * s + r) \div s = q /\ (q * s + r) % s = r
OBVIOUS

LEMMA SmallMod ==
  ASSUME NEW x \in Uint PROVE x % Word = x
BY WidthAssumption DEF Uint

LEMMA Unsigned ==
  ASSUME NEW a \in Int, NEW b \in Int
  PROVE  /\ Add(a, b) \in Uint /\ Sub(a, b) \in Uint
         /\ a + b \in Uint => Add(a, b) = a + b
         /\ a - b \in Uint => Sub(a, b) = a - b
<1>1. Word \in Nat /\ Word >= 1
  BY WidthAssumption
<1>2. \A x \in Int : x % Word \in Uint
  BY <1>1 DEF Uint
<1>3. QED
  BY <1>2, SmallMod DEF Add, Sub

----------------------------------------------------------------------------
(* Bytes of a file.                                                        *)
LEMMA BytesSeq ==
  ASSUME NEW f, NEW from \in Nat, NEW n \in Nat
  PROVE  /\ BytesOf(f, from, n) \in Seq({FileByte(f, x) : x \in Nat})
         /\ Len(BytesOf(f, from, n)) = n
         /\ \A k \in 1 .. n : BytesOf(f, from, n)[k] = FileByte(f, from + k - 1)
<1> DEFINE S == {FileByte(f, x) : x \in Nat}
<1>1. \A k \in 1 .. n : FileByte(f, from + k - 1) \in S
  <2> TAKE k \in 1 .. n
  <2>1. from + k - 1 \in Nat
    OBVIOUS
  <2>2. QED
    BY <2>1
<1>2. /\ BytesOf(f, from, n) \in [1 .. n -> S]
      /\ \A k \in 1 .. n : BytesOf(f, from, n)[k] = FileByte(f, from + k - 1)
  <2> HIDE DEF S
  <2>1. QED
    BY <1>1 DEF BytesOf
<1> HIDE DEF S
<1>3. BytesOf(f, from, n) \in Seq(S)
  BY <1>2, SeqDef
<1>4. DOMAIN BytesOf(f, from, n) = 1 .. n
  BY <1>2
<1>5. Len(BytesOf(f, from, n)) = n
  BY <1>3, <1>4, LenProperties
<1>6. QED
  BY <1>2, <1>3, <1>5 DEF S

LEMMA BytesConcat ==
  ASSUME NEW f, NEW from \in Nat, NEW n \in Nat, NEW m \in Nat
  PROVE  BytesOf(f, from, n) \o BytesOf(f, from + n, m) = BytesOf(f, from, n + m)
<1> DEFINE S == {FileByte(f, x) : x \in Nat}
           s == BytesOf(f, from, n)
           t == BytesOf(f, from + n, m)
           u == BytesOf(f, from, n + m)
<1>1. /\ s \in Seq(S) /\ Len(s) = n
      /\ \A k \in 1 .. n : s[k] = FileByte(f, from + k - 1)
  BY BytesSeq
<1>2. /\ t \in Seq(S) /\ Len(t) = m
      /\ \A k \in 1 .. m : t[k] = FileByte(f, from + n + k - 1)
  <2>1. from + n \in Nat
    OBVIOUS
  <2>2. QED
    BY <2>1, BytesSeq
<1>3. /\ u \in Seq(S) /\ Len(u) = n + m
      /\ \A k \in 1 .. n + m : u[k] = FileByte(f, from + k - 1)
  <2>1. n + m \in Nat
    OBVIOUS
  <2>2. QED
    BY <2>1, BytesSeq
<1> HIDE DEF S, s, t, u
<1>4. /\ s \o t \in Seq(S) /\ Len(s \o t) = n + m
      /\ \A k \in 1 .. n + m : (s \o t)[k] = IF k =< n THEN s[k] ELSE t[k - n]
  BY <1>1, <1>2, ConcatProperties
<1>5. \A k \in 1 .. n + m : (s \o t)[k] = u[k]
  <2> TAKE k \in 1 .. n + m
  <2>0. /\ (s \o t)[k] = IF k =< n THEN s[k] ELSE t[k - n]
        /\ u[k] = FileByte(f, from + k - 1)
    BY <1>3, <1>4
  <2>1. CASE k =< n
    <3>1. k \in 1 .. n
      BY <2>1
    <3>2. s[k] = FileByte(f, from + k - 1)
      BY <1>1, <3>1
    <3>3. QED
      BY <2>0, <2>1, <3>2
  <2>2. CASE k > n
    <3>1. k - n \in 1 .. m
      BY <2>2
    <3>2. t[k - n] = FileByte(f, from + n + (k - n) - 1)
      BY <1>2, <3>1
    <3>3. from + n + (k - n) - 1 = from + k - 1
      OBVIOUS
    <3>4. ~(k =< n)
      BY <2>2
    <3>5. (s \o t)[k] = t[k - n]
      BY <2>0, <3>4
    <3>6. t[k - n] = u[k]
      BY <2>0, <3>2, <3>3
    <3>7. QED
      BY <3>5, <3>6
  <2>3. k =< n \/ k > n
    OBVIOUS
  <2>4. QED
    BY <2>1, <2>2, <2>3, Zenon
<1>6. s \o t = u
  BY <1>3, <1>4, <1>5, SeqEqual
<1>7. QED
  BY <1>6 DEF s, t, u

(* The bytes of one block that follow one another in it.                   *)
LEMMA WithinBlock ==
  ASSUME NEW off \in Nat, NEW n \in Nat, n < FS_BLOCK_SIZE - (off % FS_BLOCK_SIZE)
  PROVE  /\ (off + n) \div FS_BLOCK_SIZE = off \div FS_BLOCK_SIZE
         /\ (off + n) % FS_BLOCK_SIZE = (off % FS_BLOCK_SIZE) + n
<1> DEFINE q == off \div FS_BLOCK_SIZE
           r == off % FS_BLOCK_SIZE
<1>1. FS_BLOCK_SIZE \in Nat /\ FS_BLOCK_SIZE >= 1
  BY WidthAssumption
<1>2. /\ q \in Nat /\ r \in 0 .. FS_BLOCK_SIZE - 1
      /\ off = q * FS_BLOCK_SIZE + r
  BY <1>1, DivMod
<1>3. r + n \in 0 .. FS_BLOCK_SIZE - 1
  BY <1>1, <1>2
<1> HIDE DEF q, r
<1>4. /\ (q * FS_BLOCK_SIZE + (r + n)) \div FS_BLOCK_SIZE = q
      /\ (q * FS_BLOCK_SIZE + (r + n)) % FS_BLOCK_SIZE = r + n
  BY <1>1, <1>2, <1>3, DivModUnique
<1>5. q * FS_BLOCK_SIZE \in Nat
  BY <1>1, <1>2
<1>6. q * FS_BLOCK_SIZE + (r + n) = off + n
  BY <1>2, <1>5
<1>7. QED
  BY <1>4, <1>6 DEF q, r

LEMMA BlockBytes ==
  ASSUME NEW f, NEW off \in Nat, NEW c \in Nat,
         c =< FS_BLOCK_SIZE - (off % FS_BLOCK_SIZE)
  PROVE  /\ [k \in 1 .. c |-> <<f.data_blks[off \div FS_BLOCK_SIZE],
                                (off % FS_BLOCK_SIZE) + k - 1>>]
              = BytesOf(f, off, c)
         /\ HasBlock(f, off) => \A p \in off .. off + c - 1 : HasBlock(f, p)
<1>0. FS_BLOCK_SIZE \in Nat /\ off % FS_BLOCK_SIZE \in Nat
  BY WidthAssumption, DivMod
<1>1. \A k \in 1 .. c :
        /\ (off + k - 1) \div FS_BLOCK_SIZE = off \div FS_BLOCK_SIZE
        /\ (off + k - 1) % FS_BLOCK_SIZE = (off % FS_BLOCK_SIZE) + k - 1
  <2> TAKE k \in 1 .. c
  <2>1. k - 1 \in Nat /\ k - 1 < FS_BLOCK_SIZE - (off % FS_BLOCK_SIZE)
    BY <1>0
  <2>2. off + (k - 1) = off + k - 1
    OBVIOUS
  <2>3. (off % FS_BLOCK_SIZE) + (k - 1) = (off % FS_BLOCK_SIZE) + k - 1
    BY <1>0
  <2>4. /\ (off + (k - 1)) \div FS_BLOCK_SIZE = off \div FS_BLOCK_SIZE
        /\ (off + (k - 1)) % FS_BLOCK_SIZE = (off % FS_BLOCK_SIZE) + (k - 1)
    BY <2>1, WithinBlock
  <2>5. QED
    BY <2>2, <2>3, <2>4
<1>2. [k \in 1 .. c |-> <<f.data_blks[off \div FS_BLOCK_SIZE],
                          (off % FS_BLOCK_SIZE) + k - 1>>] = BytesOf(f, off, c)
  BY <1>1, Zenon DEF BytesOf, FileByte
<1>3. ASSUME HasBlock(f, off), NEW p \in off .. off + c - 1 PROVE HasBlock(f, p)
  <2>1. PICK k \in 1 .. c : p = off + k - 1
    <3>1. p - off + 1 \in 1 .. c /\ p = off + (p - off + 1) - 1
      OBVIOUS
    <3>2. QED
      BY <3>1
  <2>2. p \div FS_BLOCK_SIZE = off \div FS_BLOCK_SIZE
    BY <1>1, <2>1
  <2>3. QED
    BY <1>3, <2>2 DEF HasBlock
<1>4. QED
  BY <1>2, <1>3

LEMMA NoBytes ==
  ASSUME NEW f, NEW from \in Nat
  PROVE  BytesOf(f, from, 0) = <<>>
<1>1. /\ BytesOf(f, from, 0) \in Seq({FileByte(f, x) : x \in Nat})
      /\ Len(BytesOf(f, from, 0)) = 0
  BY BytesSeq
<1>2. QED
  BY <1>1, EmptySeq

----------------------------------------------------------------------------
(* Names.                                                                  *)
LEMMA SameAsNamed ==
  ASSUME NEW s, IsCString(s), NEW entry
  PROVE  SameName(s, entry) <=> Named(entry, s)
<1> DEFINE L == Len(s)
           M == FS_MAX_FNAME_LEN
<1>0. L \in Nat /\ M \in Nat
  BY WidthAssumption DEF IsCString
<1>1. \A k \in Nat : k < L => At(s, k) = s[k + 1] /\ At(s, k) # NUL
  <2> TAKE k \in Nat
  <2> HAVE k < L
  <2>1. k + 1 \in 1 .. L
    BY <1>0
  <2>2. QED
    BY <2>1 DEF At, IsCString
<1>2. \A k \in Nat : ~(k < L) => At(s, k) = NUL
  BY DEF At
<1>3. Named(entry, s) <=>
        /\ L =< M
        /\ \A k \in 0 .. M - 1 :
             IF k < L THEN entry[k] = s[k + 1] ELSE k = L => entry[k] = NUL
  BY DEF Named
<1>4. SameName(s, entry) <=>
        \/ \E j \in 0 .. M - 1 :
             At(s, j) = NUL /\ \A k \in 0 .. j : At(s, k) = entry[k]
        \/ (\A k \in 0 .. M - 1 : At(s, k) = entry[k]) /\ At(s, M) = NUL
  BY DEF SameName
<1> HIDE DEF L, M
<1>5. ASSUME NEW j \in 0 .. M - 1, At(s, j) = NUL,
             \A k \in 0 .. j : At(s, k) = entry[k]
      PROVE  Named(entry, s)
  <2>1. j \in Nat /\ L =< j
    BY <1>0, <1>1, <1>5
  <2>2. L =< M
    BY <1>0, <2>1
  <2>3. ASSUME NEW k \in 0 .. M - 1
        PROVE  IF k < L THEN entry[k] = s[k + 1] ELSE k = L => entry[k] = NUL
    <3>1. k \in Nat
      BY <1>0
    <3>2. k =< L => k \in 0 .. j
      BY <1>0, <2>1
    <3>3. k =< L => At(s, k) = entry[k]
      BY <1>5, <3>2
    <3>4. CASE k < L
      <4>1. At(s, k) = s[k + 1]
        BY <1>1, <3>1, <3>4
      <4>2. k =< L
        BY <1>0, <3>4
      <4>3. QED
        BY <3>3, <3>4, <4>1, <4>2
    <3>5. CASE ~(k < L)
      <4>1. At(s, k) = NUL
        BY <1>2, <3>1, <3>5
      <4>2. k = L => k =< L
        BY <1>0
      <4>3. QED
        BY <3>3, <3>5, <4>1, <4>2
    <3>6. QED
      BY <3>4, <3>5
  <2>4. QED
    BY <1>3, <2>2, <2>3
<1>6. ASSUME \A k \in 0 .. M - 1 : At(s, k) = entry[k], At(s, M) = NUL
      PROVE  Named(entry, s)
  <2>1. L =< M
    BY <1>0, <1>1, <1>6
  <2>2. ASSUME NEW k \in 0 .. M - 1
        PROVE  IF k < L THEN entry[k] = s[k + 1] ELSE k = L => entry[k] = NUL
    <3>1. k \in Nat /\ At(s, k) = entry[k]
      BY <1>0, <1>6
    <3>2. QED
      BY <1>1, <1>2, <3>1
  <2>3. QED
    BY <1>3, <2>1, <2>2
<1>7. ASSUME Named(entry, s) PROVE SameName(s, entry)
  <2>1. L =< M
    BY <1>3, <1>7
  <2>2. \A k \in 0 .. M - 1 : k =< L => At(s, k) = entry[k]
    <3> TAKE k \in 0 .. M - 1
    <3> HAVE k =< L
    <3>1. k \in Nat
      BY <1>0
    <3>2. IF k < L THEN entry[k] = s[k + 1] ELSE k = L => entry[k] = NUL
      BY <1>3, <1>7
    <3>3. ~(k < L) => k = L
      BY <1>0
    <3>4. QED
      BY <1>1, <1>2, <3>1, <3>2, <3>3
  <2>3. CASE L < M
    <3>1. L \in 0 .. M - 1 /\ L \in Nat /\ ~(L < L)
      BY <1>0, <2>3
    <3>2. At(s, L) = NUL
      BY <1>2, <3>1
    <3>3. ASSUME NEW k \in 0 .. L PROVE At(s, k) = entry[k]
      <4>1. k \in 0 .. M - 1 /\ k =< L
        BY <1>0, <2>3
      <4>2. QED
        BY <2>2, <4>1
    <3>4. QED
      BY <1>4, <3>1, <3>2, <3>3
  <2>4. CASE L = M
    <3>1. M \in Nat /\ ~(M < L)
      BY <1>0, <2>4
    <3>2. At(s, M) = NUL
      BY <1>2, <3>1
    <3>3. ASSUME NEW k \in 0 .. M - 1 PROVE At(s, k) = entry[k]
      <4>1. k =< L
        BY <1>0, <2>4
      <4>2. QED
        BY <2>2, <4>1
    <3>4. QED
      BY <1>4, <3>2, <3>3
  <2>5. L < M \/ L = M
    BY <1>0, <2>1
  <2>6. QED
    BY <2>3, <2>4, <2>5
<1>8. QED
  BY <1>4, <1>5, <1>6, <1>7

(* A search returns the first entry with the name.                         *)
LEMMA Finding ==
  ASSUME NEW s, IsCString(s), NEW e, image.num_dentries \in Nat,
         e = read_dentry_by_name(s)
  PROVE  /\ e \in Entries \cup {Null}
         /\ e = Null => \A d \in Entries : ~Named(image.dentries[d].filename, s)
         /\ e # Null =>
              /\ e \in Entries
              /\ Named(image.dentries[e].filename, s)
              /\ \A d \in 0 .. e - 1 : ~Named(image.dentries[d].filename, s)
<1> DEFINE same == {d \in Entries : SameName(s, image.dentries[d].filename)}
<1>1. \A d : SameName(s, image.dentries[d].filename)
               <=> Named(image.dentries[d].filename, s)
  BY SameAsNamed
<1>2. CASE same = {}
  <2>1. e = Null
    BY <1>2 DEF read_dentry_by_name
  <2>2. \A d \in Entries : ~Named(image.dentries[d].filename, s)
    BY <1>1, <1>2
  <2>3. QED
    BY <2>1, <2>2
<1>3. CASE same # {}
  <2>1. e = CHOOSE d \in same : \A x \in same : d =< x
    BY <1>3 DEF read_dentry_by_name
  <2>2. same \in SUBSET Nat
    BY DEF Entries
  <2>3. \E d \in same : \A x \in same : d =< x
    <3> HIDE DEF same
    <3>1. QED
      BY <1>3, <2>2, LeastNumber
  <2>4. e \in same /\ \A x \in same : e =< x
    <3> HIDE DEF same
    <3>1. QED
      BY <2>1, <2>3
  <2>5. e \in Entries /\ Named(image.dentries[e].filename, s)
    BY <1>1, <2>4
  <2>6. e \in 0 .. image.num_dentries - 1
    BY <2>5 DEF Entries
  <2>7. ASSUME NEW d \in 0 .. e - 1
        PROVE  ~Named(image.dentries[d].filename, s)
    <3>1. d \in 0 .. image.num_dentries - 1 /\ ~(e =< d)
      BY <2>6
    <3>2. d \notin same
      BY <2>4, <3>1
    <3>3. d \in Entries
      BY <3>1 DEF Entries
    <3>4. QED
      BY <1>1, <3>2, <3>3
  <2>8. e # Null
    BY <2>6, NameAssumption
  <2>9. QED
    BY <2>5, <2>7, <2>8
<1>4. QED
  BY <1>2, <1>3

----------------------------------------------------------------------------
(* The invariant.                                                          *)
Calls ==
  [inode : 0 .. image.num_inode - 1, pos : Uint, buf : Uint, length : Uint]

(* What holds at every iteration of read_data.                             *)
LoopInv ==
  pc \in Caller =>
    /\ call \in Calls
    /\ i \in 0 .. call.length
    /\ offset = call.pos + i /\ offset =< File.file_length
    /\ copied = BytesOf(File, call.pos, i)
    /\ \A p \in call.pos .. offset - 1 : HasBlock(File, p)

(* On whose behalf it runs, and with what.                                 *)
CallInv ==
  /\ pc = "file_read" =>
       /\ kind = "file" /\ inode < image.num_inode
       /\ call.inode = inode /\ call.pos = file_pos
       /\ UserStart =< call.buf /\ call.buf + call.length =< UserEnd
  /\ pc = "proc_entry" =>
       /\ call.buf = ProgStart
       /\ call.pos = 0 /\ File.file_length =< UserEnd - ProgStart

(* A descriptor never gets past the end of its file.                       *)
DescInv ==
  kind = "file" /\ inode < image.num_inode =>
    file_pos =< image.inodes[inode].file_length

Inv ==
  /\ TypeOK /\ LoopInv /\ CallInv /\ DescInv
  /\ FindsByName /\ ReadsAsAsked /\ ReadsInSequence

LEMMA Widths ==
  /\ Word \in Nat /\ Word >= 1 /\ FS_BLOCK_SIZE \in Nat /\ FS_BLOCK_SIZE >= 1
  /\ UserStart \in Nat /\ ProgStart \in Nat /\ UserEnd \in Uint
  /\ UserStart =< ProgStart /\ ProgStart < UserEnd
  /\ \A x \in Uint : x \in Nat /\ x =< Word - 1
  /\ Sizes \subseteq Uint /\ Buffers \subseteq Uint
<1>1. \A n \in Sizes : n \in Uint
  <2> TAKE n \in Sizes
  <2>1. n \in Nat /\ 2 * n < Word /\ Word \in Nat
    BY WidthAssumption, CallAssumption
  <2>2. QED
    BY <2>1 DEF Uint
<1>2. UserEnd \in Uint
  BY WidthAssumption DEF Uint
<1>3. \A x \in Uint : x \in Nat /\ x =< Word - 1
  BY WidthAssumption DEF Uint
<1>4. QED
  BY <1>1, <1>2, <1>3, WidthAssumption, CallAssumption

LEMMA ImageTypes ==
  ASSUME image \in Images
  PROVE  /\ image.num_inode \in Uint /\ image.num_inode \in Nat
         /\ image.num_dentries \in Uint /\ image.num_dentries \in Nat
         /\ \A d \in Entries : image.dentries[d].inode \in Uint
         /\ \A x \in Uint : x < image.num_inode =>
              /\ x \in 0 .. image.num_inode - 1
              /\ image.inodes[x].file_length \in Uint
<1>1. /\ image.num_inode \in Uint /\ image.num_dentries \in Uint
      /\ image.inodes \in [0 .. image.num_inode - 1 -> Inode]
      /\ \A d \in 0 .. image.num_dentries - 1 : image.dentries[d].inode \in Uint
  BY ImageAssumption
<1>2. image.num_inode \in Nat /\ image.num_dentries \in Nat
  BY <1>1, Widths
<1>3. \A x \in 0 .. image.num_inode - 1 : image.inodes[x].file_length \in Uint
  <2> TAKE x \in 0 .. image.num_inode - 1
  <2>1. image.inodes[x] \in Inode
    BY <1>1
  <2>2. QED
    BY <2>1 DEF Inode
<1>4. ASSUME NEW x \in Uint, x < image.num_inode
      PROVE  x \in 0 .. image.num_inode - 1
  BY <1>2, <1>4, Widths
<1>5. QED
  BY <1>1, <1>2, <1>3, <1>4 DEF Entries

(* What a step gets from the invariant while read_data runs.               *)
LEMMA Reading ==
  ASSUME Inv, pc \in Caller
  PROVE  /\ call.length \in Nat /\ call.pos \in Nat
         /\ call.inode \in 0 .. image.num_inode - 1 /\ call.inode \in Uint
         /\ i \in Nat /\ i =< call.length /\ call.length =< Word - 1
         /\ offset \in Nat /\ offset = call.pos + i
         /\ offset =< File.file_length
         /\ File.file_length \in Nat /\ File.file_length =< Word - 1
<1>1. call \in Calls /\ i \in 0 .. call.length /\ offset = call.pos + i
      /\ offset =< File.file_length /\ image \in Images
  BY DEF Inv, LoopInv, TypeOK
<1>2. call.inode \in 0 .. image.num_inode - 1 /\ call.length \in Uint
      /\ call.pos \in Uint
  BY <1>1 DEF Calls
<1>3. call.length \in Nat /\ call.pos \in Nat /\ call.length =< Word - 1
  BY <1>2, Widths
<1>4. call.inode \in Uint /\ call.inode < image.num_inode
  <2>1. image.num_inode \in Uint /\ image.num_inode \in Nat
    BY <1>1, ImageTypes
  <2>2. QED
    BY <1>2, <2>1, WidthAssumption DEF Uint
<1>5. File.file_length \in Uint
  BY <1>1, <1>4, ImageTypes DEF File
<1>6. File.file_length \in Nat /\ File.file_length =< Word - 1
  BY <1>5, Widths
<1>7. QED
  BY <1>1, <1>2, <1>3, <1>4, <1>6

----------------------------------------------------------------------------
(* The initial states.                                                     *)
LEMMA Start == Init => Inv
<1> SUFFICES ASSUME Init PROVE Inv
  OBVIOUS
<1>1. image \in Images /\ 0 \in Uint
  BY Widths, WidthAssumption DEF Init, Uint
<1>2. TypeOK
  BY <1>1, Widths DEF Init, TypeOK, Place
<1>3. LoopInv /\ CallInv /\ DescInv /\ FindsByName /\ ReadsAsAsked
      /\ ReadsInSequence
  BY DEF Init, LoopInv, CallInv, DescInv, FindsByName, ReadsAsAsked,
         ReadsInSequence, Caller
<1>4. QED
  BY <1>2, <1>3 DEF Inv

(* What is in the user page is shorter than a word can say.                *)
LEMMA Bounded ==
  ASSUME NEW buf \in Uint, NEW n \in Nat, check_user_bounds(buf, n)
  PROVE  n \in Uint /\ n =< Word - 1
<1>1. buf \in Int /\ UserEnd \in Int
  BY Widths
<1>2. Sub(UserEnd, buf) \in Uint
  BY <1>1, Unsigned
<1>3. n =< Sub(UserEnd, buf)
  BY DEF check_user_bounds
<1>4. QED
  BY <1>2, <1>3, WidthAssumption DEF Uint

(* A search of the directory, also by a call that then fails.              *)
LEMMA Searching ==
  ASSUME Inv, NEW s, IsCString(s), Search(s), image' = image
  PROVE  /\ found' \in Entries \cup {Null}
         /\ found' # Null => image.dentries[found'].inode \in Uint
         /\ FindsByName'
<1>1. image \in Images
  BY DEF Inv, TypeOK
<1>2. image.num_dentries \in Nat
  BY <1>1, ImageTypes
<1>3. found' = read_dentry_by_name(s) /\ fname' = s
  BY DEF Search
<1>4. /\ found' \in Entries \cup {Null}
      /\ found' = Null =>
           \A d \in Entries : ~Named(image.dentries[d].filename, s)
      /\ found' # Null =>
           /\ found' \in Entries
           /\ Named(image.dentries[found'].filename, s)
           /\ \A d \in 0 .. found' - 1 : ~Named(image.dentries[d].filename, s)
  BY <1>2, <1>3, Finding
<1>5. Entries' = Entries
  BY DEF Entries
<1>6. FindsByName'
  BY <1>3, <1>4, <1>5 DEF FindsByName
<1>7. QED
  BY <1>1, <1>4, <1>6, ImageTypes

(* What a step keeps that touches neither the last search nor the read.    *)
LEMMA SameSearch ==
  ASSUME Inv, fname' = fname, found' = found, image' = image
  PROVE  FindsByName' /\ found' \in (Entries \cup {Null})'
BY DEF Inv, TypeOK, FindsByName, Entries

LEMMA SameRead ==
  ASSUME Inv, pc' = pc, image' = image, call' = call, ret' = ret,
         copied' = copied
  PROVE  ReadsAsAsked'
BY DEF Inv, ReadsAsAsked, Wanted, HasBlock

LEMMA OpenStep ==
  ASSUME Inv, NEW s, IsCString(s), Open(s) PROVE Inv'
<1>1. /\ pc = "user" /\ pc' = "user" /\ Search(s) /\ found' # Null
      /\ Opens(image.dentries[found'])
      /\ kind' = image.dentries[found'].type
      /\ inode' = image.dentries[found'].inode
      /\ file_pos' = 0 /\ delivered' = <<>>
      /\ image' = image /\ call' = call /\ offset' = offset /\ i' = i
      /\ copied' = copied /\ ret' = ret
  BY DEF Open, loopVars
<1>2. found' \in Entries \cup {Null} /\ inode' \in Uint /\ FindsByName'
  BY <1>1, Searching
<1>3. TypeOK'
  <2>1. kind' \in {"none", "file", "directory", "rtc"}
    BY <1>1 DEF Opens
  <2>2. 0 \in Uint
    BY WidthAssumption DEF Uint
  <2>3. Entries' = Entries
    BY <1>1 DEF Entries
  <2>4. QED
    BY <1>1, <1>2, <2>1, <2>2, <2>3 DEF Inv, TypeOK
<1>4. LoopInv' /\ CallInv'
  BY <1>1 DEF LoopInv, CallInv, Caller
<1>5. DescInv' /\ ReadsInSequence'
  <2>1. ASSUME inode' < image.num_inode
        PROVE  /\ 0 =< image.inodes[inode'].file_length
               /\ <<>> = BytesOf(image.inodes[inode'], 0, 0)
    <3>1. image.inodes[inode'].file_length \in Uint
      BY <1>2, <2>1, ImageTypes DEF Inv, TypeOK
    <3>2. QED
      BY <3>1, Widths, NoBytes
  <2>2. QED
    BY <1>1, <2>1 DEF DescInv, ReadsInSequence
<1>6. ReadsAsAsked'
  BY <1>1, SameRead
<1>7. QED
  BY <1>2, <1>3, <1>4, <1>5, <1>6 DEF Inv

LEMMA OpenFailsStep ==
  ASSUME Inv, NEW s, IsCString(s), OpenFails(s) PROVE Inv'
<1>1. /\ pc = "user" /\ pc' = "user" /\ Search(s)
      /\ kind' = kind /\ inode' = inode
      /\ file_pos' = file_pos /\ delivered' = delivered
      /\ image' = image /\ call' = call /\ offset' = offset /\ i' = i
      /\ copied' = copied /\ ret' = ret
  BY DEF OpenFails, fdVars, loopVars
<1>2. found' \in Entries \cup {Null} /\ FindsByName'
  BY <1>1, Searching
<1>3. TypeOK'
  BY <1>1, <1>2 DEF Inv, TypeOK, Entries
<1>4. LoopInv' /\ CallInv'
  BY <1>1 DEF LoopInv, CallInv, Caller
<1>5. DescInv' /\ ReadsInSequence'
  BY <1>1 DEF Inv, DescInv, ReadsInSequence
<1>6. ReadsAsAsked'
  BY <1>1, SameRead
<1>7. QED
  BY <1>2, <1>3, <1>4, <1>5, <1>6 DEF Inv

LEMMA CloseStep == ASSUME Inv, Close PROVE Inv'
<1>1. /\ pc = "user" /\ pc' = "user" /\ kind' = "none" /\ inode' = inode
      /\ file_pos' = file_pos /\ delivered' = delivered
      /\ fname' = fname /\ found' = found
      /\ image' = image /\ call' = call /\ offset' = offset /\ i' = i
      /\ copied' = copied /\ ret' = ret
  BY DEF Close, loopVars
<1>2. TypeOK'
  BY <1>1 DEF Inv, TypeOK, Entries
<1>3. LoopInv' /\ CallInv' /\ DescInv' /\ ReadsInSequence'
  BY <1>1 DEF LoopInv, CallInv, DescInv, ReadsInSequence, Caller
<1>4. FindsByName' /\ ReadsAsAsked'
  BY <1>1, SameSearch, SameRead
<1>5. QED
  BY <1>2, <1>3, <1>4 DEF Inv

(* A read that stores nothing through read_data.                           *)
LEMMA ReadRefusedStep ==
  ASSUME Inv, NEW buf, NEW n, ReadRefused(buf, n)
  PROVE  Inv'
<1>1. /\ pc = "user" /\ pc' = "user" /\ kind' = kind /\ inode' = inode
      /\ file_pos' = file_pos /\ delivered' = delivered
      /\ fname' = fname /\ found' = found
      /\ image' = image /\ call' = Null /\ offset' = offset /\ i' = i
      /\ ret' = -1
  BY DEF ReadRefused, fdVars
<1>2. TypeOK'
  BY <1>1, Widths DEF Inv, TypeOK, Entries
<1>3. LoopInv' /\ CallInv' /\ ReadsAsAsked'
  BY <1>1 DEF LoopInv, CallInv, ReadsAsAsked, Caller
<1>4. FindsByName' /\ DescInv' /\ ReadsInSequence'
  BY <1>1, SameSearch DEF Inv, DescInv, ReadsInSequence
<1>5. QED
  BY <1>2, <1>3, <1>4 DEF Inv

LEMMA DirectoryStep ==
  ASSUME Inv, NEW buf \in Uint, NEW n \in Nat, directory_read(buf, n)
  PROVE  Inv'
<1>1. /\ pc = "user" /\ pc' = "user" /\ kind = "directory" /\ kind' = kind
      /\ inode' = inode
      /\ fname' = fname /\ found' = found
      /\ image' = image /\ call' = Null /\ offset' = offset /\ i' = i
      /\ \/ file_pos' = Add(file_pos, 1) /\ ret' = Least(n, FS_MAX_FNAME_LEN)
         \/ file_pos' = file_pos /\ ret' = 0
      /\ check_user_bounds(buf, n)
  BY DEF directory_read
<1>2. file_pos' \in Uint /\ ret' \in -1 .. Word - 1
  <2>1. file_pos \in Uint /\ file_pos \in Int
    BY Widths DEF Inv, TypeOK
  <2>2. Add(file_pos, 1) \in Uint
    BY <2>1, Unsigned
  <2>3. n \in Nat /\ n =< Word - 1
    BY <1>1, Bounded
  <2>4. Least(n, FS_MAX_FNAME_LEN) \in -1 .. Word - 1
    BY <2>3, WidthAssumption DEF Least
  <2>5. 0 \in -1 .. Word - 1
    BY Widths
  <2>6. QED
    BY <1>1, <2>1, <2>2, <2>4, <2>5
<1>3. TypeOK'
  BY <1>1, <1>2 DEF Inv, TypeOK, Entries
<1>4. LoopInv' /\ CallInv' /\ ReadsAsAsked' /\ DescInv' /\ ReadsInSequence'
  BY <1>1 DEF LoopInv, CallInv, ReadsAsAsked, Caller, DescInv, ReadsInSequence
<1>5. FindsByName'
  BY <1>1, SameSearch
<1>6. QED
  BY <1>3, <1>4, <1>5 DEF Inv

(* A read_data that is about to begin.                                     *)
LEMMA Begins ==
  ASSUME image \in Images, image' = image,
         NEW c \in Caller, NEW ino \in Uint, ino < image.num_inode,
         NEW pos \in Uint, pos =< image.inodes[ino].file_length,
         NEW buf \in Uint, NEW length \in Uint,
         StartRead(c, ino, pos, buf, length)
  PROVE  LoopInv'
<1>1. /\ call' = [inode |-> ino, pos |-> pos, buf |-> buf, length |-> length]
      /\ offset' = pos /\ i' = 0 /\ copied' = <<>>
  BY DEF StartRead
<1>2. call' \in Calls'
  <2>1. ino \in 0 .. image.num_inode - 1
    BY ImageTypes
  <2>2. QED
    BY <1>1, <2>1 DEF Calls
<1>3. pos \in Nat /\ length \in Nat
  BY Widths
<1>4. /\ call'.inode = ino /\ call'.pos = pos /\ call'.length = length
      /\ File' = image.inodes[ino]
  BY <1>1 DEF File
<1>5. <<>> = BytesOf(image.inodes[ino], pos, 0)
  BY <1>3, NoBytes
<1>6. i' \in 0 .. call'.length /\ offset' = call'.pos + i'
      /\ offset' =< File'.file_length
  BY <1>1, <1>3, <1>4
<1>7. \A p \in call'.pos .. offset' - 1 : HasBlock(File, p)'
  <2>1. ~\E p \in pos .. pos - 1 : TRUE
    BY <1>3
  <2>2. QED
    BY <1>1, <1>4, <2>1
<1>8. copied' = BytesOf(File', call'.pos, i')
  BY <1>1, <1>4, <1>5
<1>9. BytesOf(File', call'.pos, i') = BytesOf(File, call.pos, i)'
  BY DEF BytesOf, FileByte
<1>10. QED
  BY <1>2, <1>6, <1>7, <1>8, <1>9 DEF LoopInv

LEMMA ReadStarts ==
  ASSUME Inv, NEW buf \in Uint, NEW n \in Nat, Read(buf, n)
  PROVE  Inv'
<1>1. /\ pc = "user" /\ kind = "file" /\ inode < image.num_inode
      /\ check_user_bounds(buf, n)
      /\ StartRead("file_read", inode, file_pos, buf, n)
      /\ image' = image /\ fname' = fname /\ found' = found
      /\ kind' = kind /\ inode' = inode /\ file_pos' = file_pos
      /\ delivered' = delivered /\ ret' = ret
  BY DEF Read, fdVars
<1>2. /\ image \in Images /\ inode \in Uint /\ file_pos \in Uint
      /\ file_pos =< image.inodes[inode].file_length
      /\ buf \in Uint /\ n \in Uint
  BY <1>1, Widths, Bounded DEF Inv, TypeOK, DescInv
<1>3. LoopInv'
  <2>1. "file_read" \in Caller
    BY DEF Caller
  <2>2. QED
    BY <1>1, <1>2, <2>1, Begins
<1>4. /\ pc' = "file_read" /\ offset' = file_pos /\ i' = 0
      /\ call' = [inode |-> inode, pos |-> file_pos, buf |-> buf, length |-> n]
  BY <1>1 DEF StartRead
<1>5. CallInv'
  <2>1. buf \in Nat /\ n \in Nat /\ UserEnd \in Nat
    BY <1>2, Widths
  <2>2. UserEnd - buf \in Uint
    BY <1>1, <2>1, WidthAssumption DEF check_user_bounds, Uint
  <2>3. Sub(UserEnd, buf) = UserEnd - buf
    BY <2>1, <2>2, Unsigned
  <2>4. UserStart =< buf /\ buf + n =< UserEnd
    BY <1>1, <2>1, <2>3, Widths DEF check_user_bounds
  <2>5. QED
    BY <1>1, <1>4, <2>4 DEF CallInv
<1>6. TypeOK'
  <2>1. 0 \in Uint
    BY WidthAssumption DEF Uint
  <2>2. QED
    BY <1>1, <1>2, <1>4, <2>1 DEF Inv, TypeOK, Entries, Place, Caller
<1>7. FindsByName' /\ ReadsAsAsked'
  BY <1>1, <1>4, SameSearch DEF ReadsAsAsked
<1>8. DescInv' /\ ReadsInSequence'
  BY <1>1 DEF Inv, DescInv, ReadsInSequence
<1>9. QED
  BY <1>3, <1>5, <1>6, <1>7, <1>8 DEF Inv

LEMMA ExecuteStep ==
  ASSUME Inv, NEW s, IsCString(s), Execute(s) PROVE Inv'
<1> DEFINE dentry == image.dentries[found']
           f == image.inodes[dentry.inode]
<1>1. /\ pc = "user" /\ Search(s) /\ found' # Null
      /\ Executable(dentry)
      /\ StartRead("proc_entry", dentry.inode, 0, ProgStart,
                   Sub(UserEnd, UserStart))
      /\ image' = image /\ kind' = kind /\ inode' = inode
      /\ file_pos' = file_pos /\ delivered' = delivered /\ ret' = ret
  BY DEF Execute, fdVars
<1>2. /\ found' \in Entries \cup {Null} /\ dentry.inode \in Uint
      /\ FindsByName'
  BY <1>1, Searching
<1>3. dentry.inode < image.num_inode /\ f.file_length =< Sub(UserEnd, ProgStart)
  BY <1>1 DEF Executable
<1>4. image \in Images
  BY DEF Inv, TypeOK
<1>5. f.file_length \in Uint
  BY <1>2, <1>3, <1>4, ImageTypes
<1>6. /\ 0 \in Uint /\ ProgStart \in Uint /\ Sub(UserEnd, UserStart) \in Uint
      /\ Sub(UserEnd, ProgStart) = UserEnd - ProgStart
  <2>1. 0 \in Uint /\ ProgStart \in Uint /\ UserEnd - ProgStart \in Uint
    BY WidthAssumption DEF Uint
  <2>2. UserEnd \in Int /\ UserStart \in Int /\ ProgStart \in Int
    BY WidthAssumption
  <2>3. QED
    BY <2>1, <2>2, Unsigned
<1>7. 0 =< f.file_length
  BY <1>5, Widths
<1>8. LoopInv'
  <2>1. "proc_entry" \in Caller
    BY DEF Caller
  <2> HIDE DEF dentry
  <2>2. QED
    BY <1>1, <1>2, <1>3, <1>4, <1>6, <1>7, <2>1, Begins
<1>9. /\ pc' = "proc_entry" /\ offset' = 0 /\ i' = 0
      /\ call'.inode = dentry.inode /\ call'.pos = 0 /\ call'.buf = ProgStart
  BY <1>1 DEF StartRead
<1>10. CallInv'
  <2>1. File' = f
    BY <1>1, <1>9 DEF File
  <2> HIDE DEF f
  <2>2. QED
    BY <1>3, <1>6, <1>9, <2>1 DEF CallInv
<1>11. TypeOK'
  BY <1>1, <1>2, <1>6, <1>9 DEF Inv, TypeOK, Entries, Place, Caller
<1>12. ReadsAsAsked' /\ DescInv' /\ ReadsInSequence'
  BY <1>1, <1>9 DEF Inv, ReadsAsAsked, DescInv, ReadsInSequence
<1>13. QED
  BY <1>2, <1>8, <1>10, <1>11, <1>12 DEF Inv

(* What one iteration copies is asked for, in the block and in the file.   *)
LEMMA Counted ==
  ASSUME Inv, pc \in Caller, More
  PROVE  /\ Count \in Nat
         /\ i + Count =< call.length
         /\ offset + Count =< File.file_length
         /\ Count =< FS_BLOCK_SIZE - (offset % FS_BLOCK_SIZE)
<1> DEFINE r == offset % FS_BLOCK_SIZE
           a == Sub(call.length, i)
           b == Sub(FS_BLOCK_SIZE, r)
           c == Sub(File.file_length, offset)
<1>1. /\ call.length \in Nat /\ i \in Nat /\ i =< call.length
      /\ call.length =< Word - 1
      /\ offset \in Nat /\ offset =< File.file_length
      /\ File.file_length \in Nat /\ File.file_length =< Word - 1
  BY Reading
<1>2. r \in 0 .. FS_BLOCK_SIZE - 1
  BY <1>1, DivMod, WidthAssumption
<1>3. /\ Word \in Nat /\ FS_BLOCK_SIZE \in Nat /\ FS_BLOCK_SIZE < Word
  BY WidthAssumption
<1> HIDE DEF r
<1>4. a = call.length - i
  <2>1. call.length - i \in Uint
    BY <1>1, <1>3 DEF Uint
  <2>2. QED
    BY <1>1, <2>1, Unsigned
<1>5. b = FS_BLOCK_SIZE - r
  <2>1. FS_BLOCK_SIZE - r \in Uint
    BY <1>2, <1>3 DEF Uint
  <2>2. QED
    BY <1>2, <1>3, <2>1, Unsigned
<1>6. c = File.file_length - offset
  <2>1. File.file_length - offset \in Uint
    BY <1>1, <1>3 DEF Uint
  <2>2. QED
    BY <1>1, <2>1, Unsigned
<1>7. Count = Least(Least(a, b), c)
  BY DEF Count, r
<1> HIDE DEF a, b, c
<1>8. a \in Nat /\ b \in Nat /\ c \in Nat
  BY <1>1, <1>2, <1>3, <1>4, <1>5, <1>6
<1>9. Count \in Nat /\ Count =< a /\ Count =< b /\ Count =< c
  BY <1>7, <1>8 DEF Least
<1> HIDE DEF Count
<1>10. i + Count =< call.length
  BY <1>1, <1>4, <1>9
<1>11. offset + Count =< File.file_length
  BY <1>1, <1>6, <1>9
<1>12. Count =< FS_BLOCK_SIZE - r
  BY <1>5, <1>9
<1>13. QED
  BY <1>9, <1>10, <1>11, <1>12 DEF r

LEMMA CopyBlockStep == ASSUME Inv, CopyBlock PROVE Inv'
<1> DEFINE n == Count
           f == File
<1>1. /\ pc \in Caller /\ More /\ HasBlock(File, offset)
      /\ copied' = copied \o
           [k \in 1 .. n |-> <<f.data_blks[offset \div FS_BLOCK_SIZE],
                               (offset % FS_BLOCK_SIZE) + k - 1>>]
      /\ i' = Add(i, n) /\ offset' = Add(offset, n)
      /\ pc' = pc /\ call' = call /\ ret' = ret
      /\ image' = image /\ fname' = fname /\ found' = found
      /\ kind' = kind /\ inode' = inode /\ file_pos' = file_pos
      /\ delivered' = delivered
  BY DEF CopyBlock, fdVars
<1>2. /\ n \in Nat /\ i + n =< call.length /\ offset + n =< f.file_length
      /\ n =< FS_BLOCK_SIZE - (offset % FS_BLOCK_SIZE)
  BY <1>1, Counted
<1>3. /\ call.length \in Nat /\ call.pos \in Nat
      /\ i \in Nat /\ i =< call.length /\ call.length =< Word - 1
      /\ offset \in Nat /\ offset = call.pos + i
      /\ offset =< f.file_length
      /\ f.file_length \in Nat /\ f.file_length =< Word - 1
  BY <1>1, Reading
<1>4. /\ call \in Calls /\ copied = BytesOf(f, call.pos, i)
      /\ \A p \in call.pos .. offset - 1 : HasBlock(f, p)
  BY <1>1 DEF Inv, LoopInv
<1>6. File' = f /\ Calls' = Calls /\ f = File
  BY <1>1 DEF File, Calls
<1>7. HasBlock(f, offset)
  BY <1>1
<1> HIDE DEF n, f
<1>5. /\ [k \in 1 .. n |-> <<f.data_blks[offset \div FS_BLOCK_SIZE],
                             (offset % FS_BLOCK_SIZE) + k - 1>>]
           = BytesOf(f, offset, n)
      /\ \A p \in offset .. offset + n - 1 : HasBlock(f, p)
  <2>1. /\ offset \in Nat /\ n \in Nat
        /\ n =< FS_BLOCK_SIZE - (offset % FS_BLOCK_SIZE)
    BY <1>2, <1>3
  <2>2. QED
    BY <1>7, <2>1, BlockBytes, Zenon
<1>8. /\ i' = i + n /\ offset' = offset + n
      /\ i' \in Uint /\ offset' \in Uint
  <2>1. i + n \in Uint /\ offset + n \in Uint
    BY <1>2, <1>3, WidthAssumption DEF Uint
  <2>2. QED
    BY <1>1, <1>2, <1>3, <2>1, Unsigned
<1>9. copied' = BytesOf(f, call.pos, i')
  <2>1. copied' = BytesOf(f, call.pos, i) \o BytesOf(f, call.pos + i, n)
    BY <1>1, <1>3, <1>4, <1>5
  <2>2. BytesOf(f, call.pos, i) \o BytesOf(f, call.pos + i, n)
          = BytesOf(f, call.pos, i + n)
    <3>1. call.pos \in Nat /\ i \in Nat /\ n \in Nat
      BY <1>2, <1>3
    <3>2. QED
      BY <3>1, BytesConcat, Zenon
  <2>3. QED
    BY <1>8, <2>1, <2>2
<1>10. \A p \in call.pos .. offset' - 1 : HasBlock(f, p)
  <2> TAKE p \in call.pos .. offset' - 1
  <2>1. p \in call.pos .. offset - 1 \/ p \in offset .. offset + n - 1
    BY <1>2, <1>3, <1>8
  <2>2. QED
    BY <1>4, <1>5, <2>1
<1>11. LoopInv'
  <2>1. /\ (File.file_length)' = f.file_length
        /\ BytesOf(File, call.pos, i)' = BytesOf(f, call.pos, i')
    BY <1>1, <1>6 DEF BytesOf, FileByte
  <2>2. \A p : HasBlock(File, p)' <=> HasBlock(f, p)
    BY <1>1, <1>6 DEF HasBlock
  <2>3. /\ call' \in Calls' /\ i' \in 0 .. call'.length
        /\ offset' = call'.pos + i' /\ offset' =< (File.file_length)'
    BY <1>1, <1>2, <1>3, <1>4, <1>6, <1>8, <2>1
  <2>4. copied' = BytesOf(File, call.pos, i)'
    BY <1>9, <2>1
  <2>5. \A p \in call'.pos .. offset' - 1 : HasBlock(File, p)'
    BY <1>1, <1>10, <2>2
  <2>6. QED
    BY <2>3, <2>4, <2>5 DEF LoopInv
<1>12. TypeOK'
  BY <1>1, <1>8 DEF Inv, TypeOK, Entries
<1>13. CallInv'
  BY <1>1, <1>6 DEF Inv, CallInv
<1>14. FindsByName' /\ DescInv' /\ ReadsInSequence'
  BY <1>1, SameSearch DEF Inv, DescInv, ReadsInSequence
<1>15. ReadsAsAsked'
  BY <1>1 DEF ReadsAsAsked, Caller
<1>16. QED
  BY <1>11, <1>12, <1>13, <1>14, <1>15 DEF Inv

(* A block is missing: a position that was asked for is in it.             *)
LEMMA BlockMissingStep == ASSUME Inv, BlockMissing PROVE Inv'
<1>1. /\ pc \in Caller /\ More /\ ~HasBlock(File, offset)
      /\ ret' = -1 /\ pc' = IF pc = "file_read" THEN "user" ELSE "panic"
      /\ call' = call /\ offset' = offset /\ i' = i /\ copied' = copied
      /\ image' = image /\ fname' = fname /\ found' = found
      /\ kind' = kind /\ inode' = inode /\ file_pos' = file_pos
      /\ delivered' = delivered
  BY DEF BlockMissing, fdVars, loopVars
<1>2. TypeOK'
  BY <1>1, Widths DEF Inv, TypeOK, Entries, Place
<1>3. LoopInv' /\ CallInv'
  BY <1>1 DEF LoopInv, CallInv, Caller
<1>4. FindsByName' /\ DescInv' /\ ReadsInSequence'
  BY <1>1, SameSearch DEF Inv, DescInv, ReadsInSequence
<1>5. ReadsAsAsked'
  <2>1. /\ call.length \in Nat /\ call.pos \in Nat
        /\ i \in Nat /\ offset \in Nat /\ offset = call.pos + i
    BY <1>1, Reading
  <2>2. i < call.length /\ offset < image.inodes[call.inode].file_length
    BY <1>1 DEF More, File
  <2>3. offset \in call.pos .. call.pos + call.length - 1
    BY <2>1, <2>2
  <2>4. offset \in Wanted(call)
    BY <2>2, <2>3 DEF Wanted
  <2>5. ~\A p \in Wanted(call) : HasBlock(image.inodes[call.inode], p)
    BY <1>1, <2>4 DEF File
  <2>6. ~\A p \in Wanted(call)' : HasBlock(image.inodes[call.inode], p)'
    BY <1>1, <2>5 DEF Wanted, HasBlock
  <2>7. QED
    BY <1>1, <2>6 DEF ReadsAsAsked
<1>6. QED
  BY <1>2, <1>3, <1>4, <1>5 DEF Inv

(* The loop has ended: it has read all it was asked for and the file has.  *)
LEMMA Finished ==
  ASSUME Inv, pc \in Caller, ~More
  PROVE  /\ Wanted(call) = call.pos .. offset - 1
         /\ Cardinality(Wanted(call)) = i
         /\ \A p \in Wanted(call) : HasBlock(File, p)
         /\ copied = BytesOf(File, call.pos, i)
<1>1. /\ call.length \in Nat /\ call.pos \in Nat
      /\ i \in Nat /\ i =< call.length
      /\ offset \in Nat /\ offset = call.pos + i
      /\ offset =< File.file_length /\ File.file_length \in Nat
  BY Reading
<1>2. i = call.length \/ offset = File.file_length
  BY <1>1 DEF More
<1>3. Wanted(call) =
        {p \in call.pos .. call.pos + call.length - 1 : p < File.file_length}
  BY DEF Wanted, File
<1>4. Wanted(call) = call.pos .. offset - 1
  BY <1>1, <1>2, <1>3
<1>5. Cardinality(call.pos .. offset - 1) = i
  <2>1. call.pos \in Int /\ offset - 1 \in Int
    BY <1>1
  <2>2. Cardinality(call.pos .. offset - 1) =
          IF call.pos > offset - 1 THEN 0 ELSE offset - 1 - call.pos + 1
    BY <2>1, FS_Interval
  <2>3. QED
    BY <1>1, <2>2
<1>6. /\ \A p \in call.pos .. offset - 1 : HasBlock(File, p)
      /\ copied = BytesOf(File, call.pos, i)
  BY DEF Inv, LoopInv
<1>7. QED
  BY <1>4, <1>5, <1>6

LEMMA Returned ==
  ASSUME Inv, pc \in Caller, ~More, ret' = i, call' = call, image' = image,
         copied' = copied
  PROVE  ReadsAsAsked'
<1>1. /\ Cardinality(Wanted(call)) = i
      /\ \A p \in Wanted(call) : HasBlock(File, p)
      /\ copied = BytesOf(File, call.pos, i)
  BY Finished
<1>2. Wanted(call)' = Wanted(call) /\ File' = File
  BY DEF Wanted, File
<1>3. \A p \in Wanted(call)' : HasBlock(File, p)'
  BY <1>1, <1>2 DEF HasBlock
<1>4. ret' = Cardinality(Wanted(call))'
  BY <1>1, <1>2
<1>5. copied' = BytesOf(File, call.pos, ret)'
  BY <1>1, <1>2 DEF BytesOf, FileByte
<1>6. QED
  BY <1>3, <1>4, <1>5 DEF ReadsAsAsked, File

LEMMA ReadReturnsStep == ASSUME Inv, ReadReturns PROVE Inv'
<1>1. /\ pc = "file_read" /\ pc \in Caller /\ ~More
      /\ ret' = i /\ AfterRead(i) /\ pc' = "user"
      /\ call' = call /\ offset' = offset /\ i' = i /\ copied' = copied
      /\ image' = image /\ fname' = fname /\ found' = found
      /\ kind' = kind /\ inode' = inode
  BY DEF ReadReturns, loopVars, Caller
<1>2. /\ i \in Nat /\ i =< call.length /\ call.length \in Nat
      /\ call.length =< Word - 1
      /\ offset = call.pos + i /\ offset =< File.file_length
      /\ File.file_length \in Nat /\ File.file_length =< Word - 1
      /\ offset \in Nat
  BY <1>1, Reading
<1>3. kind = "file" /\ inode < image.num_inode /\ call.inode = inode
      /\ call.pos = file_pos
  BY <1>1 DEF Inv, CallInv
<1>4. file_pos \in Uint /\ file_pos \in Nat
  BY Widths DEF Inv, TypeOK
<1>5. file_pos' = file_pos + i /\ file_pos' \in Uint
  <2>1. file_pos + i \in Uint
    BY <1>2, <1>3, <1>4, WidthAssumption DEF Uint
  <2>2. Add(file_pos, i) = file_pos + i
    BY <1>2, <1>4, <2>1, Unsigned
  <2>3. QED
    BY <1>1, <1>2, <1>4, <2>1, <2>2 DEF AfterRead
<1>6. TypeOK'
  BY <1>1, <1>2, <1>5, Widths DEF Inv, TypeOK, Entries, Place
<1>7. LoopInv' /\ CallInv'
  BY <1>1 DEF LoopInv, CallInv, Caller
<1>8. FindsByName' /\ ReadsAsAsked'
  BY <1>1, SameSearch, Returned
<1>9. DescInv'
  BY <1>1, <1>2, <1>3, <1>5 DEF DescInv, File
<1>10. ReadsInSequence'
  <2> DEFINE f == image.inodes[inode]
  <2>1. delivered = BytesOf(f, 0, file_pos)
    BY <1>3 DEF Inv, ReadsInSequence
  <2>2. copied = BytesOf(f, file_pos, i)
    BY <1>1, <1>3 DEF Inv, LoopInv, File
  <2>3. delivered' = delivered \o copied
    BY <1>1 DEF AfterRead
  <2> HIDE DEF f
  <2>4. 0 \in Nat /\ 0 + file_pos = file_pos
    BY <1>4
  <2>5. BytesOf(f, 0, file_pos) \o BytesOf(f, 0 + file_pos, i)
          = BytesOf(f, 0, file_pos + i)
    <3>1. \A from \in Nat : BytesOf(f, from, file_pos)
                                  \o BytesOf(f, from + file_pos, i)
                              = BytesOf(f, from, file_pos + i)
      <4>1. file_pos \in Nat /\ i \in Nat
        BY <1>2, <1>4
      <4>2. QED
        BY <4>1, BytesConcat, Zenon
    <3>2. QED
      BY <2>4, <3>1
  <2>6. delivered' = BytesOf(f, 0, file_pos')
    BY <1>5, <2>1, <2>2, <2>3, <2>4, <2>5
  <2>7. QED
    BY <1>1, <2>6 DEF ReadsInSequence, BytesOf, FileByte, f
<1>11. QED
  BY <1>6, <1>7, <1>8, <1>9, <1>10 DEF Inv

LEMMA LoadedStep == ASSUME Inv, Loaded PROVE Inv'
<1>1. /\ pc = "proc_entry" /\ pc \in Caller /\ ~More
      /\ ret' = i /\ pc' = "user" /\ kind' = "none"
      /\ call' = call /\ offset' = offset /\ i' = i /\ copied' = copied
      /\ image' = image /\ fname' = fname /\ found' = found
      /\ inode' = inode /\ file_pos' = file_pos
  BY DEF Loaded, loopVars, Caller
<1>2. i \in Nat /\ i =< Word - 1
  <2>1. /\ i \in Nat /\ i =< call.length /\ call.length \in Nat
        /\ call.length =< Word - 1
    BY <1>1, Reading
  <2>2. QED
    BY <2>1, WidthAssumption
<1>3. TypeOK'
  BY <1>1, <1>2, Widths DEF Inv, TypeOK, Entries, Place
<1>4. LoopInv' /\ CallInv' /\ DescInv' /\ ReadsInSequence'
  BY <1>1 DEF LoopInv, CallInv, Caller, DescInv, ReadsInSequence
<1>5. FindsByName' /\ ReadsAsAsked'
  BY <1>1, SameSearch, Returned
<1>6. QED
  BY <1>3, <1>4, <1>5 DEF Inv

LEMMA StutterStep == ASSUME Inv, UNCHANGED vars PROVE Inv'
<1>1. /\ pc' = pc /\ ret' = ret /\ call' = call /\ offset' = offset /\ i' = i
      /\ copied' = copied /\ image' = image /\ fname' = fname
      /\ found' = found /\ kind' = kind /\ inode' = inode
      /\ file_pos' = file_pos /\ delivered' = delivered
  BY DEF vars, fdVars, loopVars
<1>2. TypeOK' /\ CallInv' /\ DescInv'
  BY <1>1 DEF Inv, TypeOK, Entries, CallInv, File, DescInv
<1>3. LoopInv' /\ ReadsInSequence'
  BY <1>1 DEF Inv, LoopInv, Calls, File, HasBlock, ReadsInSequence
<1>4. FindsByName' /\ ReadsAsAsked'
  BY <1>1, SameSearch, SameRead
<1>5. QED
  BY <1>2, <1>3, <1>4 DEF Inv

----------------------------------------------------------------------------
LEMMA Inductive == Inv /\ [Next]_vars => Inv'
<1> SUFFICES ASSUME Inv, [Next]_vars PROVE Inv'
  OBVIOUS
<1>1. CASE ReadStep
  BY <1>1, CopyBlockStep, BlockMissingStep, ReadReturnsStep, LoadedStep
     DEF ReadStep
<1>2. CASE Close
  BY <1>2, CloseStep
<1>3. CASE \E s \in FileNames : Open(s) \/ OpenFails(s) \/ Execute(s)
  BY <1>3, NameAssumption, OpenStep, OpenFailsStep, ExecuteStep
<1>4. CASE \E buf \in Buffers, n \in Sizes :
             Read(buf, n) \/ ReadRefused(buf, n) \/ directory_read(buf, n)
  <2>1. Buffers \subseteq Uint /\ Sizes \subseteq Nat
    BY CallAssumption
  <2>2. QED
    BY <1>4, <2>1, ReadStarts, ReadRefusedStep, DirectoryStep
<1>5. CASE UNCHANGED vars
  BY <1>5, StutterStep
<1>6. QED
  BY <1>1, <1>2, <1>3, <1>4, <1>5 DEF Next

(* read_data stores within the user page.                                  *)
LEMMA InvStays == Inv => StaysInUserPage
<1> SUFFICES ASSUME Inv, pc \in Caller
             PROVE  call.buf >= UserStart
                      /\ call.buf + Len(copied) =< UserEnd
  BY DEF StaysInUserPage
<1>1. /\ call.length \in Nat /\ call.pos \in Nat
      /\ i \in Nat /\ i =< call.length
      /\ offset = call.pos + i /\ offset =< File.file_length
      /\ File.file_length \in Nat
  BY Reading
<1>2. Len(copied) = i
  <2>1. copied = BytesOf(File, call.pos, i)
    BY DEF Inv, LoopInv
  <2>2. Len(BytesOf(File, call.pos, i)) = i
    BY <1>1, BytesSeq, Zenon
  <2>3. QED
    BY <2>1, <2>2
<1>3. call.buf \in Nat
  <2>1. call \in Calls
    BY DEF Inv, LoopInv
  <2>2. call.buf \in Uint
    BY <2>1 DEF Calls
  <2>3. QED
    BY <2>2, Widths
<1>4. CASE pc = "file_read"
  <2>1. UserStart =< call.buf /\ call.buf + call.length =< UserEnd
    BY <1>4 DEF Inv, CallInv
  <2>2. QED
    BY <1>1, <1>2, <1>3, <2>1, WidthAssumption
<1>5. CASE pc = "proc_entry"
  <2>1. call.buf = ProgStart /\ call.pos = 0
        /\ File.file_length =< UserEnd - ProgStart
    BY <1>5 DEF Inv, CallInv
  <2>2. QED
    BY <1>1, <1>2, <2>1, WidthAssumption
<1>6. QED
  BY <1>4, <1>5 DEF Caller

(* The invariant of the file system by itself.                             *)
THEOREM Invariance == Spec => []Inv
<1>1. QED
  BY Start, Inductive, PTL DEF Spec

(* The variables have their types: the arithmetic of read_data and of the  *)
(* positions stays within its width, whatever an image says.               *)
THEOREM TypeCorrect == Spec => []TypeOK
<1>1. Inv => TypeOK
  BY DEF Inv
<1>2. QED
  BY <1>1, Invariance, PTL

(* read_dentry_by_name finds the first entry with the very name.           *)
THEOREM Finds == Spec => []FindsByName
<1>1. Inv => FindsByName
  BY DEF Inv
<1>2. QED
  BY <1>1, Invariance, PTL

(* read_data returns as many bytes as were asked for and there are, and    *)
(* those, or fails because a block of them is missing.                     *)
THEOREM ReadsExactly == Spec => []ReadsAsAsked
<1>1. Inv => ReadsAsAsked
  BY DEF Inv
<1>2. QED
  BY <1>1, Invariance, PTL

(* The reads of a descriptor give the file from its beginning, no byte     *)
(* skipped and none twice.                                                 *)
THEOREM ReadsOn == Spec => []ReadsInSequence
<1>1. Inv => ReadsInSequence
  BY DEF Inv
<1>2. QED
  BY <1>1, Invariance, PTL

(* read_data stores within the user page only.                             *)
THEOREM StaysInside == Spec => []StaysInUserPage
<1>1. QED
  BY InvStays, Invariance, PTL

----------------------------------------------------------------------------
(* The programs.                                                           *)

(* The descriptor that grep has put aside is one that reads go on with.    *)
AsideInv ==
  /\ dirfd.kind \in {"none", "file", "directory", "rtc"}
  /\ dirfd.inode \in Uint /\ dirfd.file_pos \in Uint
  /\ dirfd.kind = "file" /\ dirfd.inode < image.num_inode =>
       LET f == image.inodes[dirfd.inode]
       IN  /\ dirfd.file_pos =< f.file_length
           /\ dirfd.delivered = BytesOf(f, 0, dirfd.file_pos)

StringsInv == IsCString(args) /\ IsCString(file) /\ IsText(line) /\ IsCString(line)

(* Where a program is while the kernel is in a call of its.                *)
PlaceInv ==
  /\ prog = "any" => step = "start"
  /\ pc = "file_read" => prog = "any" \/ step \in {"got", "name"}
  /\ pc \in {"proc_entry", "panic"} => prog = "any" \/ step = "wait"

(* What it has asked the last read for, and may have got.                  *)
Asked ==
  IF prog = "ls" \/ step = "name" THEN FS_MAX_FNAME_LEN
  ELSE IF prog = "cat" THEN BUFSIZE ELSE BUFSIZE - last

GotInv ==
  step \in {"got", "name"} =>
    /\ pc = "file_read" => call.length = Asked
    /\ pc = "user" => ret =< Asked /\ (ret > 0 => kind \in {"file", "directory"})

(* grep's places in its buffer.                                            *)
BufferInv ==
  prog = "grep" =>
    /\ last \in 0 .. BUFSIZE
    /\ step = "line" => line_start \in 0 .. last

ProgInv == Inv /\ AsideInv /\ StringsInv /\ PlaceInv /\ GotInv /\ BufferInv

LEMMA EmptyString == IsText(<<>>) /\ IsCString(<<>>)
  BY DEF IsText, IsCString

(* A C string is what stands before the first NUL.                         *)
LEMMA StringOf ==
  ASSUME NEW s, IsText(s)
  PROVE  /\ IsText(UpToNul(s)) /\ IsCString(UpToNul(s))
         /\ Len(UpToNul(s)) =< Len(s)
         /\ \A k \in 1 .. Len(UpToNul(s)) : UpToNul(s)[k] = s[k]
<1> DEFINE nuls == {k \in 1 .. Len(s) : s[k] = NUL}
           C == {s[k] : k \in 1 .. Len(s)}
<1>0. Len(s) \in Nat /\ s \in Seq(C)
  <2>1. Len(s) \in Nat /\ s = [k \in 1 .. Len(s) |-> s[k]]
    BY DEF IsText
  <2>2. \A k \in 1 .. Len(s) : s[k] \in C
    OBVIOUS
  <2>3. s \in [1 .. Len(s) -> C]
    <3> HIDE DEF C
    <3>1. QED
      BY <2>1, <2>2
  <2>4. QED
    BY <2>1, <2>3
<1>1. CASE nuls = {}
  <2>1. ~\E k \in 1 .. Len(s) : s[k] = NUL
    BY <1>1
  <2>2. UpToNul(s) = s
    BY <2>1 DEF UpToNul
  <2>3. IsCString(s)
    BY <1>0, <2>1 DEF IsCString
  <2>4. QED
    BY <1>0, <2>2, <2>3
<1>2. CASE nuls # {}
  <2>1. nuls \subseteq Nat
    OBVIOUS
  <2>2. PICK n \in nuls : \A m \in nuls : n =< m
    <3> HIDE DEF nuls
    <3>1. QED
      BY <1>2, <2>1, LeastNumber
  <2>3. n \in 1 .. Len(s) /\ s[n] = NUL /\ \A j \in 1 .. n - 1 : s[j] # NUL
    <3>1. \A j \in 1 .. n - 1 : j \in 1 .. Len(s) /\ ~(n =< j)
      BY <1>0
    <3>2. QED
      BY <2>2, <3>1
  <2> DEFINE c == CHOOSE k \in 1 .. Len(s) :
                       s[k] = NUL /\ \A j \in 1 .. k - 1 : s[j] # NUL
  <2>4. c \in 1 .. Len(s) /\ \A j \in 1 .. c - 1 : s[j] # NUL
    BY <2>3
  <2>5. UpToNul(s) = SubSeq(s, 1, c - 1)
    BY <2>3 DEF UpToNul
  <2> HIDE DEF c
  <2>6. SubSeq(s, 1, c - 1) = [k \in 1 .. c - 1 |-> s[k]]
    BY <1>0, <2>4
  <2>7. c - 1 \in Nat /\ c - 1 =< Len(s)
    BY <1>0, <2>4
  <2>8. Len(SubSeq(s, 1, c - 1)) = c - 1
    BY <2>6, <2>7
  <2>9. \A k \in 1 .. c - 1 : UpToNul(s)[k] = s[k]
    BY <2>5, <2>6
  <2>10. UpToNul(s) = [k \in 1 .. c - 1 |-> UpToNul(s)[k]]
    BY <2>5, <2>6, <2>9
  <2>11. Len(UpToNul(s)) = c - 1
    BY <2>5, <2>8
  <2>12. QED
    BY <2>4, <2>7, <2>9, <2>10, <2>11 DEF IsText, IsCString
<1>3. QED
  BY <1>1, <1>2

(* What a step of a program leaves that makes no call.                     *)
LEMMA NoCall ==
  ASSUME Inv, UNCHANGED vars
  PROVE  /\ Inv'
         /\ image' = image /\ pc' = pc /\ ret' = ret /\ kind' = kind
         /\ call' = call
BY StutterStep DEF vars, fdVars, loopVars

(* A read by a program.                                                    *)
LEMMA ReadsStep ==
  ASSUME Inv, pc = "user", NEW n \in Nat, Reads(n)
  PROVE  /\ Inv' /\ image' = image /\ kind' = kind
         /\ pc' \in {"user", "file_read"}
         /\ pc' = "file_read" => kind = "file" /\ call'.length = n
         /\ pc' = "user" => ret' =< n /\ (ret' > 0 => kind = "directory")
<1>0. UserStart \in Uint
  BY WidthAssumption DEF Uint
<1>1. CASE Read(UserStart, n)
  <2>1. Inv'
    BY <1>0, <1>1, ReadStarts
  <2>2. QED
    BY <1>1, <2>1 DEF Read, StartRead, fdVars
<1>2. CASE ReadRefused(UserStart, n)
  <2>1. Inv'
    BY <1>2, ReadRefusedStep
  <2>2. QED
    BY <1>2, <2>1 DEF ReadRefused, fdVars
<1>3. CASE directory_read(UserStart, n)
  <2>1. Inv'
    BY <1>0, <1>3, DirectoryStep
  <2>2. Least(n, FS_MAX_FNAME_LEN) =< n
    BY WidthAssumption DEF Least
  <2>3. QED
    BY <1>3, <2>1, <2>2 DEF directory_read
<1>4. CASE RtcRead
  <2>1. /\ pc' = "user" /\ kind' = kind /\ inode' = inode
        /\ file_pos' = file_pos /\ delivered' = delivered
        /\ fname' = fname /\ found' = found
        /\ image' = image /\ call' = Null /\ offset' = offset /\ i' = i
        /\ ret' = 0
    BY <1>4 DEF RtcRead, fdVars
  <2>2. 0 \in -1 .. Word - 1
    BY Widths
  <2>3. TypeOK'
    BY <2>1, <2>2 DEF Inv, TypeOK, Entries
  <2>4. LoopInv' /\ CallInv' /\ ReadsAsAsked'
    BY <2>1 DEF LoopInv, CallInv, ReadsAsAsked, Caller
  <2>5. FindsByName' /\ DescInv' /\ ReadsInSequence'
    BY <2>1, SameSearch DEF Inv, DescInv, ReadsInSequence
  <2>6. QED
    BY <2>1, <2>3, <2>4, <2>5 DEF Inv
<1>5. QED
  BY <1>1, <1>2, <1>3, <1>4 DEF Reads

(* A call to open by a program, and one that fails.                        *)
LEMMA OpensStep ==
  ASSUME Inv, NEW s, IsCString(s), Open(s) \/ OpenRefused(s)
  PROVE  Inv' /\ image' = image /\ pc' = pc
<1>1. CASE Open(s)
  <2>1. Inv'
    BY <1>1, OpenStep
  <2>2. QED
    BY <1>1, <2>1 DEF Open
<1>2. CASE OpenFails(s)
  <2>1. Inv'
    BY <1>2, OpenFailsStep
  <2>2. QED
    BY <1>2, <2>1 DEF OpenFails
<1>3. CASE NameTooLong(s)
  BY <1>3, NoCall DEF NameTooLong
<1>4. QED
  BY <1>1, <1>2, <1>3 DEF OpenRefused

(* The rest of the invariant, after a step of a program that is not in a   *)
(* call afterwards.                                                        *)
LEMMA AsideKept ==
  ASSUME AsideInv, dirfd' = dirfd, image' = image
  PROVE  AsideInv'
BY DEF AsideInv, BytesOf, FileByte

LEMMA StringsKept ==
  ASSUME StringsInv, args' = args, file' = file, line' = line
  PROVE  StringsInv'
BY DEF StringsInv

LEMMA Positions ==
  /\ BUFSIZE \in Nat /\ FS_MAX_FNAME_LEN \in Nat /\ FS_MAX_FNAME_LEN >= 1
  /\ FS_MAX_FNAME_LEN =< BUFSIZE
BY ProgramAssumption

(* A read of a program that is then at "got" or "name".                    *)
LEMMA ReadingStep ==
  ASSUME ProgInv, pc = "user", NEW n \in Nat, Reads(n),
         step' \in {"got", "name"}, prog # "any", n = Asked',
         UNCHANGED <<worldVars, out, status, localVars>>
  PROVE  ProgInv'
<1>1. /\ Inv' /\ image' = image /\ kind' = kind
      /\ pc' \in {"user", "file_read"}
      /\ pc' = "file_read" => kind = "file" /\ call'.length = n
      /\ pc' = "user" => ret' =< n /\ (ret' > 0 => kind = "directory")
  BY ReadsStep DEF ProgInv
<1>2. /\ prog' = prog /\ args' = args /\ file' = file /\ line' = line
      /\ dirfd' = dirfd /\ last' = last /\ line_start' = line_start
  BY DEF worldVars, localVars
<1>3. AsideInv' /\ StringsInv'
  BY <1>1, <1>2, AsideKept, StringsKept DEF ProgInv
<1>4. PlaceInv'
  BY <1>1, <1>2 DEF PlaceInv
<1>5. GotInv'
  BY <1>1 DEF GotInv
<1>6. BufferInv'
  BY <1>2 DEF ProgInv, BufferInv
<1>7. QED
  BY <1>1, <1>3, <1>4, <1>5, <1>6 DEF ProgInv

(* A step that opens, or gives up.                                         *)
LEMMA OpeningStep ==
  ASSUME ProgInv, pc = "user", NEW s, IsCString(s),
         Open(s) \/ OpenRefused(s) \/ UNCHANGED vars,
         step' \notin {"got", "name", "line"}, prog # "any",
         UNCHANGED <<worldVars, localVars>>
  PROVE  ProgInv'
<1>1. Inv' /\ image' = image /\ pc' = pc
  BY OpensStep, NoCall DEF ProgInv
<1>2. /\ prog' = prog /\ args' = args /\ file' = file /\ line' = line
      /\ dirfd' = dirfd /\ last' = last /\ line_start' = line_start
  BY DEF worldVars, localVars
<1>3. AsideInv' /\ StringsInv'
  BY <1>1, <1>2, AsideKept, StringsKept DEF ProgInv
<1>4. PlaceInv' /\ GotInv' /\ BufferInv'
  BY <1>1, <1>2 DEF ProgInv, PlaceInv, GotInv, BufferInv
<1>5. QED
  BY <1>1, <1>3, <1>4 DEF ProgInv

(* A step of the program alone.                                            *)
LEMMA LocalStep ==
  ASSUME ProgInv, pc = "user", UNCHANGED vars, prog # "any",
         step' \notin {"got", "name"}, UNCHANGED <<worldVars, dirfd>>,
         StringsInv', BufferInv'
  PROVE  ProgInv'
<1>1. Inv' /\ image' = image /\ pc' = pc
  BY NoCall DEF ProgInv
<1>2. prog' = prog /\ dirfd' = dirfd
  BY DEF worldVars
<1>3. AsideInv'
  BY <1>1, <1>2, AsideKept DEF ProgInv
<1>4. PlaceInv' /\ GotInv'
  BY <1>1, <1>2 DEF PlaceInv, GotInv
<1>5. QED
  BY <1>1, <1>3, <1>4 DEF ProgInv

LEMMA DotString == IsCString(<<Dot>>)
<1>1. Len(<<Dot>>) = 1 /\ <<Dot>>[1] = Dot
  OBVIOUS
<1>2. QED
  BY <1>1, ProgramAssumption DEF IsCString

LEMMA LsSteps ==
  ASSUME ProgInv, LsOpen \/ LsRead \/ LsWrite
  PROVE  ProgInv'
<1>1. CASE LsOpen
  <2>1. /\ pc = "user" /\ prog = "ls"
        /\ step' \notin {"got", "name", "line"}
        /\ Open(<<Dot>>) \/ OpenRefused(<<Dot>>)
        /\ UNCHANGED <<worldVars, localVars>>
    BY <1>1 DEF LsOpen, Does, Exit
  <2>2. prog # "any"
    BY <2>1
  <2>3. QED
    BY <2>1, <2>2, DotString, OpeningStep
<1>2. CASE LsRead
  <2>1. /\ pc = "user" /\ prog = "ls" /\ Reads(FS_MAX_FNAME_LEN)
        /\ step' = "got" /\ UNCHANGED <<worldVars, out, status, localVars>>
    BY <1>2 DEF LsRead, Does
  <2>2. prog' = prog
    BY <2>1 DEF worldVars
  <2>3. Asked' = FS_MAX_FNAME_LEN /\ prog # "any"
    BY <2>1, <2>2 DEF Asked
  <2>4. QED
    BY <2>1, <2>3, Positions, ReadingStep
<1>3. CASE LsWrite
  <2>1. /\ pc = "user" /\ prog = "ls" /\ step' \notin {"got", "name", "line"}
        /\ UNCHANGED vars /\ UNCHANGED <<worldVars, localVars>>
    BY <1>3 DEF LsWrite, Does, Exit
  <2>2. QED
    BY <2>1, DotString, OpeningStep
<1>4. QED
  BY <1>1, <1>2, <1>3

LEMMA CatSteps ==
  ASSUME ProgInv, CatOpen \/ CatRead \/ CatWrite
  PROVE  ProgInv'
<1>0. IsCString(args)
  BY DEF ProgInv, StringsInv
<1>1. CASE CatOpen
  <2>1. /\ pc = "user" /\ prog = "cat"
        /\ step' \notin {"got", "name", "line"}
        /\ Open(args) \/ OpenRefused(args) \/ UNCHANGED vars
        /\ UNCHANGED <<worldVars, localVars>>
    BY <1>1 DEF CatOpen, Does, Exit
  <2>2. prog # "any"
    BY <2>1
  <2>3. QED
    BY <1>0, <2>1, <2>2, OpeningStep
<1>2. CASE CatRead
  <2>1. /\ pc = "user" /\ prog = "cat" /\ Reads(BUFSIZE)
        /\ step' = "got" /\ UNCHANGED <<worldVars, out, status, localVars>>
    BY <1>2 DEF CatRead, Does
  <2>2. prog' = prog
    BY <2>1 DEF worldVars
  <2>3. Asked' = BUFSIZE /\ prog # "any"
    BY <2>1, <2>2 DEF Asked
  <2>4. QED
    BY <2>1, <2>3, Positions, ReadingStep
<1>3. CASE CatWrite
  <2>1. /\ pc = "user" /\ prog = "cat" /\ step' \notin {"got", "name", "line"}
        /\ UNCHANGED vars /\ UNCHANGED <<worldVars, localVars>>
    BY <1>3 DEF CatWrite, Does, Exit
  <2>2. QED
    BY <2>1, DotString, OpeningStep
<1>4. QED
  BY <1>1, <1>2, <1>3

(* What a read has put into a buffer.                                      *)
LEMMA GotText ==
  ASSUME ProgInv, pc = "user", step \in {"got", "name"}, Asked \in Nat
  PROVE  /\ IsText(Got) /\ Len(Got) = IF ret > 0 THEN ret ELSE 0
         /\ Len(Got) =< Asked
<1>1. ret \in Int /\ ret =< Asked /\ (ret > 0 => kind \in {"file", "directory"})
  BY Widths DEF ProgInv, Inv, TypeOK, GotInv
<1>2. CASE ret =< 0
  <2>1. Got = <<>>
    BY <1>1, <1>2 DEF Got
  <2>2. QED
    BY <1>1, <1>2, <2>1, EmptyString
<1>3. CASE ret > 0 /\ kind = "file"
  <2>1. Got = [k \in 1 .. ret |-> contents[copied[k]]]
    BY <1>1, <1>3 DEF Got
  <2>2. ret \in Nat
    BY <1>1, <1>3
  <2>3. Len(Got) = ret
    BY <2>1, <2>2
  <2>4. QED
    BY <1>1, <1>3, <2>1, <2>2, <2>3 DEF IsText
<1>4. CASE ret > 0 /\ kind = "directory"
  <2>1. Got = [k \in 1 .. ret |-> image.dentries[file_pos - 1].filename[k - 1]]
    BY <1>1, <1>4 DEF Got
  <2>2. ret \in Nat
    BY <1>1, <1>4
  <2>3. Len(Got) = ret
    BY <2>1, <2>2
  <2>4. QED
    BY <1>1, <1>4, <2>1, <2>2, <2>3 DEF IsText
<1>5. QED
  BY <1>1, <1>2, <1>3, <1>4

(* A line ends at a newline or at the end of what the buffer has.          *)
LEMMA LineEnds ==
  ASSUME line_start \in Nat, last \in Nat, line_start =< last
  PROVE  /\ LineEnd \in line_start .. last
         /\ LineEnd = last \/ data[LineEnd] = NL
         /\ \A k \in line_start .. LineEnd - 1 : data[k] # NL
<1> DEFINE T == {e \in line_start .. last : e = last \/ data[e] = NL}
<1>1. T \subseteq Nat /\ last \in T
  OBVIOUS
<1>2. PICK e \in T : \A x \in T : e =< x
  <2> HIDE DEF T
  <2>1. QED
    BY <1>1, LeastNumber
<1>3. \A k \in line_start .. e - 1 : data[k] # NL
  <2> TAKE k \in line_start .. e - 1
  <2>1. k \in line_start .. last /\ ~(e =< k)
    BY <1>2
  <2>2. QED
    BY <1>2, <2>1
<1>4. \E x \in line_start .. last :
        (x = last \/ data[x] = NL) /\ \A k \in line_start .. x - 1 : data[k] # NL
  BY <1>2, <1>3
<1>5. QED
  BY <1>4 DEF LineEnd

LEMMA GrepCalls ==
  ASSUME ProgInv, GrepOpenDir \/ GrepReadDir \/ GrepOpen \/ GrepRead
  PROVE  ProgInv'
<1>0. IsCString(args) /\ IsCString(file)
  BY DEF ProgInv, StringsInv
<1>1. CASE GrepOpenDir
  <2>1. /\ pc = "user" /\ prog = "grep"
        /\ step' \notin {"got", "name", "line"}
        /\ Open(<<Dot>>) \/ OpenRefused(<<Dot>>) \/ UNCHANGED vars
        /\ UNCHANGED <<worldVars, localVars>>
    BY <1>1 DEF GrepOpenDir, Does, Exit
  <2>2. prog # "any"
    BY <2>1
  <2>3. QED
    BY <2>1, <2>2, DotString, OpeningStep
<1>2. CASE GrepReadDir
  <2>1. /\ pc = "user" /\ prog = "grep" /\ Reads(FS_MAX_FNAME_LEN)
        /\ step' = "name" /\ UNCHANGED <<worldVars, out, status, localVars>>
    BY <1>2 DEF GrepReadDir, Does
  <2>2. Asked' = FS_MAX_FNAME_LEN /\ prog # "any"
    BY <2>1 DEF Asked
  <2>3. QED
    BY <2>1, <2>2, Positions, ReadingStep
<1>3. CASE GrepOpen
  <2>1. /\ pc = "user" /\ prog = "grep"
        /\ step' \notin {"got", "name", "line"}
        /\ Open(file) \/ OpenRefused(file)
        /\ UNCHANGED <<worldVars, localVars>>
    BY <1>3 DEF GrepOpen, Does, Exit
  <2>2. prog # "any"
    BY <2>1
  <2>3. QED
    BY <1>0, <2>1, <2>2, OpeningStep
<1>4. CASE GrepRead
  <2>1. /\ pc = "user" /\ prog = "grep" /\ Reads(BUFSIZE - last)
        /\ step' = "got" /\ UNCHANGED <<worldVars, out, status, localVars>>
    BY <1>4 DEF GrepRead, Does
  <2>2. prog' = prog /\ last' = last /\ prog # "any"
    BY <2>1 DEF worldVars, localVars
  <2>3. Asked' = BUFSIZE - last
    BY <2>1, <2>2 DEF Asked
  <2>4. BUFSIZE - last \in Nat
    BY <2>1, Positions DEF ProgInv, BufferInv
  <2>5. QED
    BY <2>1, <2>2, <2>3, <2>4, ReadingStep
<1>5. QED
  BY <1>1, <1>2, <1>3, <1>4

LEMMA GrepEntersStep == ASSUME ProgInv, GrepEnters PROVE ProgInv'
<1>1. /\ pc = "user" /\ pc' = "user" /\ prog = "grep" /\ step = "name" /\ ret > 0
      /\ dirfd' = [kind |-> kind, inode |-> inode, file_pos |-> file_pos,
                   delivered |-> delivered]
      /\ kind' = "none" /\ inode' = inode
      /\ file_pos' = file_pos /\ delivered' = delivered
      /\ file' = ReadName /\ last' = 0 /\ step' = "open"
      /\ image' = image /\ fname' = fname /\ found' = found /\ ret' = ret
      /\ call' = call /\ offset' = offset /\ i' = i /\ copied' = copied
      /\ prog' = prog /\ args' = args /\ line' = line
  BY DEF GrepEnters, Does, loopVars, worldVars
<1>2. Inv'
  <2>1. TypeOK'
    BY <1>1 DEF ProgInv, Inv, TypeOK, Entries
  <2>2. LoopInv' /\ CallInv' /\ DescInv' /\ ReadsInSequence'
    BY <1>1 DEF LoopInv, CallInv, DescInv, ReadsInSequence, Caller
  <2>3. FindsByName' /\ ReadsAsAsked'
    BY <1>1, SameSearch, SameRead DEF ProgInv
  <2>4. QED
    BY <2>1, <2>2, <2>3 DEF Inv
<1>3. AsideInv'
  <2>1. /\ kind \in {"none", "file", "directory", "rtc"}
        /\ inode \in Uint /\ file_pos \in Uint
        /\ kind = "file" /\ inode < image.num_inode =>
             /\ file_pos =< image.inodes[inode].file_length
             /\ delivered = BytesOf(image.inodes[inode], 0, file_pos)
    BY DEF ProgInv, Inv, TypeOK, DescInv, ReadsInSequence
  <2>2. /\ dirfd'.kind = kind /\ dirfd'.inode = inode
        /\ dirfd'.file_pos = file_pos /\ dirfd'.delivered = delivered
    BY <1>1
  <2>3. QED
    BY <1>1, <2>1, <2>2 DEF AsideInv, BytesOf, FileByte
<1>4. StringsInv'
  <2>1. Asked = FS_MAX_FNAME_LEN
    BY <1>1 DEF Asked
  <2>2. IsText(Got)
    BY <1>1, <2>1, Positions, GotText
  <2>3. IsCString(ReadName)
    BY <2>2, StringOf DEF ReadName
  <2>4. IsCString(file')
    BY <1>1, <2>3
  <2>5. QED
    BY <1>1, <2>4 DEF ProgInv, StringsInv
<1>5. PlaceInv' /\ GotInv' /\ BufferInv'
  BY <1>1, Positions DEF PlaceInv, GotInv, BufferInv
<1>6. QED
  BY <1>2, <1>3, <1>4, <1>5 DEF ProgInv

LEMMA GrepClosesStep == ASSUME ProgInv, GrepCloses PROVE ProgInv'
<1>1. /\ pc = "user" /\ pc' = "user" /\ prog = "grep" /\ prog' = prog
      /\ kind' = dirfd.kind /\ inode' = dirfd.inode
      /\ file_pos' = dirfd.file_pos /\ delivered' = dirfd.delivered
      /\ step' = "next"
      /\ image' = image /\ fname' = fname /\ found' = found /\ ret' = ret
      /\ call' = call /\ offset' = offset /\ i' = i /\ copied' = copied
      /\ args' = args /\ file' = file /\ line' = line /\ dirfd' = dirfd
      /\ last' = last
  BY DEF GrepCloses, Does, loopVars, worldVars, localVars
<1>2. Inv'
  <2>1. TypeOK'
    BY <1>1 DEF ProgInv, Inv, TypeOK, Entries, AsideInv
  <2>2. LoopInv' /\ CallInv'
    BY <1>1 DEF LoopInv, CallInv, Caller
  <2>3. DescInv' /\ ReadsInSequence'
    BY <1>1 DEF ProgInv, AsideInv, DescInv, ReadsInSequence, BytesOf, FileByte
  <2>4. FindsByName' /\ ReadsAsAsked'
    BY <1>1, SameSearch, SameRead DEF ProgInv
  <2>5. QED
    BY <2>1, <2>2, <2>3, <2>4 DEF Inv
<1>3. AsideInv' /\ StringsInv'
  BY <1>1, AsideKept, StringsKept DEF ProgInv
<1>4. PlaceInv' /\ GotInv' /\ BufferInv'
  BY <1>1 DEF ProgInv, PlaceInv, GotInv, BufferInv
<1>5. QED
  BY <1>2, <1>3, <1>4 DEF ProgInv

LEMMA GrepLocal ==
  ASSUME ProgInv,
         GrepDirEnds \/ GrepSkips \/ GrepGot \/ GrepCarries \/ GrepLine
  PROVE  ProgInv'
<1>1. CASE GrepDirEnds \/ GrepSkips
  <2>1. /\ pc = "user" /\ prog = "grep" /\ step' \notin {"got", "name", "line"}
        /\ UNCHANGED vars /\ UNCHANGED <<worldVars, localVars>>
    BY <1>1 DEF GrepDirEnds, GrepSkips, Does, Exit
  <2>2. QED
    BY <2>1, DotString, OpeningStep
<1>2. CASE GrepGot
  <2>1. /\ pc = "user" /\ prog = "grep" /\ step = "got"
        /\ step' \notin {"got", "name"} /\ UNCHANGED vars
        /\ last' = last + Len(Got) /\ line_start' = 0
        /\ UNCHANGED <<worldVars, dirfd>> /\ prog' = prog
        /\ args' = args /\ file' = file /\ line' = line
    BY <1>2 DEF GrepGot, Does, Exit, worldVars
  <2>2. last \in 0 .. BUFSIZE
    BY <2>1 DEF ProgInv, BufferInv
  <2>3. Asked = BUFSIZE - last
    BY <2>1 DEF Asked
  <2>4. Asked \in Nat
    BY <2>2, <2>3, Positions
  <2>5. IsText(Got) /\ Len(Got) =< Asked
    BY <2>1, <2>4, GotText
  <2>6. Len(Got) \in Nat
    BY <2>5 DEF IsText
  <2>7. last' \in 0 .. BUFSIZE /\ 0 \in 0 .. last'
    BY <2>1, <2>2, <2>3, <2>5, <2>6, Positions
  <2>8. StringsInv' /\ BufferInv'
    BY <2>1, <2>7, StringsKept DEF ProgInv, BufferInv
  <2>9. QED
    BY <2>1, <2>8, LocalStep
<1>3. CASE GrepCarries
  <2>1. /\ pc = "user" /\ prog = "grep" /\ step = "line" /\ step' = "read"
        /\ UNCHANGED vars /\ last' = last - line_start
        /\ UNCHANGED <<worldVars, dirfd>> /\ prog' = prog
        /\ args' = args /\ file' = file /\ line' = line
    BY <1>3 DEF GrepCarries, Does, worldVars
  <2>2. last \in 0 .. BUFSIZE /\ line_start \in 0 .. last
    BY <2>1 DEF ProgInv, BufferInv
  <2>3. last' \in 0 .. BUFSIZE
    BY <2>1, <2>2, Positions
  <2>4. StringsInv' /\ BufferInv'
    BY <2>1, <2>3, StringsKept DEF ProgInv, BufferInv
  <2>5. QED
    BY <2>1, <2>4, LocalStep
<1>4. CASE GrepLine
  <2>1. /\ pc = "user" /\ prog = "grep" /\ step = "line"
        /\ step' \in {"line", "close", "read"} /\ UNCHANGED vars
        /\ \/ LineEnd + 1 < last /\ line_start' = LineEnd + 1 /\ last' = last
           \/ last' = 0 /\ step' # "line"
        /\ UNCHANGED <<worldVars, dirfd>> /\ prog' = prog
        /\ args' = args /\ file' = file /\ line' = line
    BY <1>4 DEF GrepLine, Does, worldVars
  <2>2. last \in 0 .. BUFSIZE /\ line_start \in 0 .. last
    BY <2>1 DEF ProgInv, BufferInv
  <2>3. LineEnd \in line_start .. last
    BY <2>2, Positions, LineEnds
  <2>4. last' \in 0 .. BUFSIZE /\ (step' = "line" => line_start' \in 0 .. last')
    BY <2>1, <2>2, <2>3, Positions
  <2>5. StringsInv' /\ BufferInv'
    BY <2>1, <2>4, StringsKept DEF ProgInv, BufferInv
  <2>6. QED
    BY <2>1, <2>5, LocalStep
<1>5. QED
  BY <1>1, <1>2, <1>3, <1>4

(* Parts of a text.                                                        *)
LEMMA TextSeq ==
  ASSUME NEW s, IsText(s)
  PROVE  Len(s) \in Nat /\ s \in Seq({s[k] : k \in 1 .. Len(s)})
<1> DEFINE C == {s[k] : k \in 1 .. Len(s)}
<1>1. Len(s) \in Nat /\ s = [k \in 1 .. Len(s) |-> s[k]]
  BY DEF IsText
<1>2. \A k \in 1 .. Len(s) : s[k] \in C
  OBVIOUS
<1>3. s \in [1 .. Len(s) -> C]
  <2> HIDE DEF C
  <2>1. QED
    BY <1>1, <1>2
<1>4. QED
  BY <1>1, <1>3

LEMMA PartOf ==
  ASSUME NEW s, IsText(s), NEW m \in 1 .. Len(s) + 1, NEW n \in m - 1 .. Len(s)
  PROVE  /\ IsText(SubSeq(s, m, n)) /\ Len(SubSeq(s, m, n)) = n - m + 1
         /\ \A k \in 1 .. n - m + 1 : SubSeq(s, m, n)[k] = s[m + k - 1]
         /\ IsCString(s) => IsCString(SubSeq(s, m, n))
<1>1. Len(s) \in Nat /\ s \in Seq({s[k] : k \in 1 .. Len(s)})
  BY TextSeq
<1>2. m \in Int /\ n \in Int /\ n - m + 1 \in Nat
  BY <1>1
<1>3. SubSeq(s, m, n) = [k \in 1 .. n - m + 1 |-> s[m + k - 1]]
  BY <1>1, <1>2
<1>4. Len(SubSeq(s, m, n)) = n - m + 1
  BY <1>2, <1>3
<1>5. \A k \in 1 .. n - m + 1 : SubSeq(s, m, n)[k] = s[m + k - 1]
  BY <1>3
<1>6. IsText(SubSeq(s, m, n))
  BY <1>2, <1>3, <1>4, <1>5 DEF IsText
<1>7. ASSUME IsCString(s) PROVE IsCString(SubSeq(s, m, n))
  <2>1. \A k \in 1 .. n - m + 1 : m + k - 1 \in 1 .. Len(s)
    BY <1>1, <1>2
  <2>2. QED
    BY <1>2, <1>4, <1>5, <1>7, <2>1 DEF IsCString
<1>8. QED
  BY <1>4, <1>5, <1>6, <1>7

(* The first place from k on that is blank, or is not, or the end.         *)
LEMMA Skipping ==
  ASSUME NEW blank \in BOOLEAN, NEW s, IsText(s), NEW k \in 1 .. Len(s) + 1
  PROVE  /\ SkipTo(blank, s, k) \in k .. Len(s) + 1
         /\ \/ SkipTo(blank, s, k) = Len(s) + 1
            \/ (s[SkipTo(blank, s, k)] \in Blank) = blank
         /\ \A m \in k .. SkipTo(blank, s, k) - 1 : (s[m] \in Blank) # blank
<1> DEFINE N == Len(s) + 1
           T == {j \in k .. N : j = N \/ (s[j] \in Blank) = blank}
<1>0. N \in Nat /\ k \in Nat
  BY TextSeq
<1>1. T \subseteq Nat /\ N \in T
  BY <1>0
<1>2. PICK j \in T : \A x \in T : j =< x
  <2> HIDE DEF T
  <2>1. QED
    BY <1>1, LeastNumber
<1>3. \A m \in k .. j - 1 : (s[m] \in Blank) # blank
  <2> TAKE m \in k .. j - 1
  <2>1. m \in k .. N /\ ~(j =< m)
    BY <1>0, <1>2
  <2>2. QED
    BY <1>2, <2>1
<1>4. \E x \in k .. Len(s) + 1 :
        /\ x = Len(s) + 1 \/ (s[x] \in Blank) = blank
        /\ \A m \in k .. x - 1 : (s[m] \in Blank) # blank
  BY <1>2, <1>3
<1>5. QED
  BY <1>4 DEF SkipTo

(* What alloc_process takes from a command line.                           *)
LEMMA Words ==
  ASSUME NEW s, IsText(s)
  PROVE  /\ NameStart(s) \in 1 .. Len(s) + 1
         /\ NameEnd(s) \in NameStart(s) .. Len(s) + 1
         /\ SkipTo(FALSE, s, NameEnd(s)) \in NameEnd(s) .. Len(s) + 1
<1>0. Len(s) \in Nat
  BY TextSeq
<1>1. NameStart(s) \in 1 .. Len(s) + 1
  <2>1. FALSE \in BOOLEAN /\ 1 \in 1 .. Len(s) + 1
    BY <1>0
  <2>2. QED
    BY <2>1, Skipping DEF NameStart
<1>2. NameEnd(s) \in NameStart(s) .. Len(s) + 1
  <2>1. TRUE \in BOOLEAN
    OBVIOUS
  <2>2. QED
    BY <1>1, <2>1, Skipping DEF NameEnd
<1>3. SkipTo(FALSE, s, NameEnd(s)) \in NameEnd(s) .. Len(s) + 1
  <2>1. FALSE \in BOOLEAN /\ NameEnd(s) \in 1 .. Len(s) + 1
    BY <1>0, <1>1, <1>2
  <2>2. QED
    BY <2>1, Skipping
<1>4. QED
  BY <1>1, <1>2, <1>3

LEMMA WordStrings ==
  ASSUME NEW s, IsText(s), IsCString(s)
  PROVE  IsCString(prog_name(s)) /\ IsCString(arg_buffer(s))
<1>0. Len(s) \in Nat
  BY TextSeq
<1> DEFINE m == NameStart(s)
           n == NameEnd(s)
           r == SkipTo(FALSE, s, NameEnd(s))
<1>1. m \in 1 .. Len(s) + 1 /\ n \in m .. Len(s) + 1 /\ r \in n .. Len(s) + 1
  BY Words, Zenon
<1>2. /\ m \in 1 .. Len(s) + 1 /\ n - 1 \in m - 1 .. Len(s)
      /\ r \in 1 .. Len(s) + 1 /\ Len(s) \in r - 1 .. Len(s)
  <2> HIDE DEF m, n, r
  <2>1. QED
    BY <1>0, <1>1
<1>3. IsCString(prog_name(s))
  <2>1. NameStart(s) \in 1 .. Len(s) + 1 /\ NameEnd(s) - 1 \in NameStart(s) - 1 .. Len(s)
    BY <1>2
  <2>2. QED
    BY <2>1, PartOf DEF prog_name
<1>4. IsCString(arg_buffer(s))
  <2>1. /\ SkipTo(FALSE, s, NameEnd(s)) \in 1 .. Len(s) + 1
        /\ Len(s) \in SkipTo(FALSE, s, NameEnd(s)) - 1 .. Len(s)
    BY <1>2
  <2>2. QED
    BY <2>1, PartOf DEF arg_buffer
<1>5. QED
  BY <1>3, <1>4

LEMMA ChoppedText ==
  ASSUME NEW typed \in Lines
  PROVE  IsText(Chopped(typed)) /\ IsCString(Chopped(typed))
<1> DEFINE kept == IF typed # <<>> /\ typed[Len(typed)] = NL
                   THEN SubSeq(typed, 1, Len(typed) - 1) ELSE typed
<1>1. IsText(typed)
  BY InputAssumption
<1>2. IsText(kept)
  <2>1. CASE typed # <<>> /\ typed[Len(typed)] = NL
    <3>1. Len(typed) \in Nat /\ Len(typed) # 0
      BY <1>1, <2>1, TextSeq, EmptySeq
    <3>2. 1 \in 1 .. Len(typed) + 1 /\ Len(typed) - 1 \in 1 - 1 .. Len(typed)
      BY <3>1
    <3>3. QED
      BY <1>1, <2>1, <3>2, PartOf
  <2>2. QED
    BY <1>1, <2>1
<1>3. Chopped(typed) = UpToNul(kept)
  BY DEF Chopped
<1> HIDE DEF kept
<1>4. QED
  BY <1>2, <1>3, StringOf

LEMMA ShellSteps == ASSUME ProgInv, ShellStep PROVE ProgInv'
<1>0. Inv /\ AsideInv /\ StringsInv
  BY DEF ProgInv
<1>1. CASE ShellReads
  <2>1. PICK typed \in Lines : line' = Chopped(typed)
    BY <1>1 DEF ShellReads
  <2>2. IsText(line') /\ IsCString(line')
    BY <2>1, ChoppedText
  <2>3. /\ pc = "user" /\ prog = "shell" /\ step' \notin {"got", "name"}
        /\ UNCHANGED vars /\ UNCHANGED <<worldVars, dirfd>>
        /\ prog' = prog /\ args' = args /\ file' = file
    BY <1>1 DEF ShellReads, Does, Exit, worldVars
  <2>4. StringsInv' /\ BufferInv'
    BY <1>0, <2>2, <2>3 DEF StringsInv, BufferInv
  <2>5. QED
    BY <2>3, <2>4, LocalStep
<1>2. CASE ShellExecutes
  <2>1. /\ pc = "user" /\ prog = "shell" /\ Execute(prog_name(line))
        /\ args' = arg_buffer(line) /\ step' = "wait"
        /\ prog' = prog /\ dirfd' = dirfd /\ file' = file /\ line' = line
    BY <1>2 DEF ShellExecutes, Does, worldVars
  <2>2. IsCString(prog_name(line)) /\ IsCString(args')
    BY <1>0, <2>1, WordStrings DEF StringsInv
  <2>3. Inv' /\ image' = image /\ pc' = "proc_entry"
    BY <1>0, <2>1, <2>2, ExecuteStep DEF Execute, StartRead
  <2>4. AsideInv' /\ StringsInv'
    BY <1>0, <2>1, <2>2, <2>3, AsideKept DEF StringsInv
  <2>5. PlaceInv' /\ GotInv' /\ BufferInv'
    BY <2>1, <2>3 DEF PlaceInv, GotInv, BufferInv
  <2>6. QED
    BY <2>3, <2>4, <2>5 DEF ProgInv
<1>3. CASE ShellRefused
  <2>1. /\ pc = "user" /\ prog = "shell" /\ step' = "report"
        /\ prog' = prog /\ dirfd' = dirfd /\ file' = file /\ line' = line
        /\ args' = args
    BY <1>3 DEF ShellRefused, Does, worldVars
  <2>2. Inv' /\ image' = image /\ pc' = "user"
    <3>1. CASE UNCHANGED vars
      BY <1>0, <2>1, <3>1, NoCall
    <3>2. CASE /\ Search(prog_name(line))
               /\ UNCHANGED <<image, fdVars, pc, loopVars, ret>>
      <4>1. /\ pc' = pc /\ kind' = kind /\ inode' = inode
            /\ file_pos' = file_pos /\ delivered' = delivered
            /\ image' = image /\ call' = call /\ offset' = offset /\ i' = i
            /\ copied' = copied /\ ret' = ret
        BY <3>2 DEF fdVars, loopVars
      <4>2. IsCString(prog_name(line))
        BY <1>0, WordStrings DEF StringsInv
      <4>3. found' \in Entries \cup {Null} /\ FindsByName'
        BY <1>0, <3>2, <4>1, <4>2, Searching
      <4>4. TypeOK'
        BY <1>0, <4>1, <4>3 DEF Inv, TypeOK, Entries
      <4>5. LoopInv' /\ CallInv'
        BY <2>1, <4>1 DEF LoopInv, CallInv, Caller
      <4>6. DescInv' /\ ReadsInSequence' /\ ReadsAsAsked'
        BY <1>0, <4>1, SameRead DEF Inv, DescInv, ReadsInSequence
      <4>7. QED
        BY <2>1, <4>1, <4>3, <4>4, <4>5, <4>6 DEF Inv
    <3>3. QED
      BY <1>3, <3>1, <3>2 DEF ShellRefused
  <2>3. AsideInv' /\ StringsInv'
    BY <1>0, <2>1, <2>2, AsideKept, StringsKept
  <2>4. PlaceInv' /\ GotInv' /\ BufferInv'
    BY <2>1, <2>2 DEF PlaceInv, GotInv, BufferInv
  <2>5. QED
    BY <2>2, <2>3, <2>4 DEF ProgInv
<1>4. CASE ChildEnds \/ ShellReports
  <2>1. /\ pc = "user" /\ prog = "shell" /\ step' \notin {"got", "name"}
        /\ UNCHANGED vars /\ UNCHANGED <<worldVars, dirfd>>
        /\ prog' = prog /\ args' = args /\ file' = file /\ line' = line
    BY <1>4 DEF ChildEnds, ShellReports, Does, worldVars, localVars
  <2>2. StringsInv' /\ BufferInv'
    BY <1>0, <2>1, StringsKept DEF BufferInv
  <2>3. QED
    BY <2>1, <2>2, LocalStep
<1>5. QED
  BY <1>1, <1>2, <1>3, <1>4 DEF ShellStep

(* A step of the kernel while a program waits for it.                      *)
LEMMA KernelStep ==
  ASSUME ProgInv, ReadStep, UNCHANGED progVars
  PROVE  ProgInv'
<1>0. Inv /\ AsideInv /\ StringsInv
  BY DEF ProgInv
<1>1. Inv' /\ image' = image
  BY <1>0, CopyBlockStep, BlockMissingStep, ReadReturnsStep, LoadedStep
     DEF ReadStep, CopyBlock, BlockMissing, ReadReturns, Loaded
<1>2. /\ prog' = prog /\ step' = step /\ args' = args /\ file' = file
      /\ line' = line /\ dirfd' = dirfd /\ last' = last
      /\ line_start' = line_start
  BY DEF progVars, worldVars, localVars
<1>3. AsideInv' /\ StringsInv' /\ BufferInv'
  BY <1>0, <1>1, <1>2, AsideKept, StringsKept DEF ProgInv, BufferInv
<1>4. PlaceInv'
  BY <1>2 DEF ProgInv, PlaceInv, ReadStep, CopyBlock, BlockMissing,
              ReadReturns, Loaded, Caller
<1>5. GotInv'
  <2>1. SUFFICES ASSUME step \in {"got", "name"}
                 PROVE  /\ pc' = "file_read" => call'.length = Asked
                        /\ pc' = "user" =>
                             /\ ret' =< Asked
                             /\ ret' > 0 => kind' \in {"file", "directory"}
    BY <1>2 DEF GotInv, Asked
  <2>2. prog # "any" /\ pc = "file_read" /\ pc \in Caller
    BY <1>0, <2>1 DEF ProgInv, PlaceInv, ReadStep, CopyBlock, BlockMissing,
              ReadReturns, Loaded, Caller
  <2>3. /\ call.length = Asked /\ kind = "file"
        /\ i =< call.length /\ i \in Nat /\ call.length \in Nat
    BY <1>0, <2>1, <2>2, Reading DEF ProgInv, GotInv, Inv, CallInv
  <2>4. CASE CopyBlock
    BY <2>2, <2>3, <2>4 DEF CopyBlock
  <2>5. CASE BlockMissing
    BY <2>2, <2>3, <2>5 DEF BlockMissing
  <2>6. CASE ReadReturns
    BY <2>2, <2>3, <2>6 DEF ReadReturns
  <2>7. CASE Loaded
    BY <2>2, <2>7 DEF Loaded
  <2>8. QED
    BY <2>4, <2>5, <2>6, <2>7 DEF ReadStep
<1>6. QED
  BY <1>1, <1>3, <1>4, <1>5 DEF ProgInv

LEMMA ProgBegin == ProgInit => ProgInv
<1> SUFFICES ASSUME ProgInit PROVE ProgInv
  OBVIOUS
<1>1. PICK s \in Setups :
        /\ Init /\ args = s.args /\ step = "start"
        /\ last = 0 /\ dirfd = NoFd /\ file = <<>> /\ line = <<>>
  BY DEF ProgInit
<1>2. Inv /\ pc = "user"
  BY <1>1, Start DEF Init
<1>3. 0 \in Uint
  BY WidthAssumption DEF Uint
<1>4. AsideInv
  BY <1>1, <1>3 DEF AsideInv, NoFd
<1>5. StringsInv
  BY <1>1, InputAssumption, EmptyString DEF StringsInv
<1>6. PlaceInv /\ GotInv /\ BufferInv
  BY <1>1, <1>2, Positions DEF PlaceInv, GotInv, BufferInv
<1>7. QED
  BY <1>2, <1>4, <1>5, <1>6 DEF ProgInv

LEMMA ProgInductive == ProgInv /\ [ProgNext]_allVars => ProgInv'
<1> SUFFICES ASSUME ProgInv, [ProgNext]_allVars PROVE ProgInv'
  OBVIOUS
<1>1. CASE prog = "any" /\ Next /\ UNCHANGED progVars
  <2>1. Inv'
    BY <1>1, Inductive DEF ProgInv
  <2>2. image' = image
    BY <1>1 DEF Next, ReadStep, CopyBlock, BlockMissing, ReadReturns, Loaded,
       Close, Open, OpenFails, Execute, Read, ReadRefused, directory_read
  <2>3. /\ prog' = prog /\ step' = step /\ args' = args /\ file' = file
        /\ line' = line /\ dirfd' = dirfd
    BY <1>1 DEF progVars, worldVars, localVars
  <2>4. AsideInv' /\ StringsInv'
    BY <2>2, <2>3, AsideKept, StringsKept DEF ProgInv
  <2>5. PlaceInv' /\ GotInv' /\ BufferInv'
    BY <1>1, <2>3 DEF ProgInv, PlaceInv, GotInv, BufferInv
  <2>6. QED
    BY <2>1, <2>4, <2>5 DEF ProgInv
<1>2. CASE prog # "any" /\ ReadStep /\ UNCHANGED progVars
  BY <1>2, KernelStep
<1>3. CASE LsOpen \/ LsRead \/ LsWrite
  BY <1>3, LsSteps
<1>4. CASE CatOpen \/ CatRead \/ CatWrite
  BY <1>4, CatSteps
<1>5. CASE GrepStep
  BY <1>5, GrepCalls, GrepEntersStep, GrepClosesStep, GrepLocal DEF GrepStep
<1>6. CASE ShellStep
  BY <1>6, ShellSteps
<1>7. CASE SysErrRuns
  <2>1. /\ pc = "user" /\ prog = "syserr" /\ step' \notin {"got", "name", "line"}
        /\ UNCHANGED vars /\ UNCHANGED <<worldVars, localVars>>
    BY <1>7 DEF SysErrRuns, Does, Exit
  <2>2. QED
    BY <2>1, DotString, OpeningStep
<1>8. CASE UNCHANGED allVars
  <2>1. Inv' /\ image' = image /\ pc' = pc /\ ret' = ret /\ kind' = kind
        /\ call' = call
    BY <1>8, NoCall DEF ProgInv, allVars
  <2>2. /\ prog' = prog /\ step' = step /\ args' = args /\ file' = file
        /\ line' = line /\ dirfd' = dirfd /\ last' = last
        /\ line_start' = line_start
    BY <1>8 DEF allVars, progVars, worldVars, localVars
  <2>3. AsideInv' /\ StringsInv'
    BY <2>1, <2>2, AsideKept, StringsKept DEF ProgInv
  <2>4. PlaceInv' /\ GotInv' /\ BufferInv'
    BY <2>1, <2>2 DEF ProgInv, PlaceInv, GotInv, BufferInv, Asked
  <2>5. QED
    BY <2>1, <2>3, <2>4 DEF ProgInv
<1>9. QED
  BY <1>1, <1>2, <1>3, <1>4, <1>5, <1>6, <1>7, <1>8 DEF ProgNext


(* The invariant of the file system together with the programs.            *)
THEOREM ProgInvariance == ProgSpec => []ProgInv
<1>1. QED
  BY ProgBegin, ProgInductive, PTL DEF ProgSpec

(* What holds of the file system in its own specification also holds when  *)
(* the programs make its calls, with the buffers and lengths they pass.    *)
THEOREM ProgReads ==
  ProgSpec => [](TypeOK /\ FindsByName /\ ReadsAsAsked /\ ReadsInSequence
                   /\ StaysInUserPage)
<1>1. ProgInv => Inv
  BY DEF ProgInv
<1>2. Inv => TypeOK /\ FindsByName /\ ReadsAsAsked /\ ReadsInSequence
  BY DEF Inv
<1>3. QED
  BY <1>1, <1>2, InvStays, ProgInvariance, PTL

----------------------------------------------------------------------------
(* The shell.                                                              *)

(* The report of the last line, as ShellTells has it.                      *)
Told ==
  /\ (out = Message(-1)) <=> (line # <<>> /\ ended = Unended)
  /\ (out = Message(256)) <=> (ended.how = "exception")
  /\ (out = <<>>) <=> \/ line = <<>>
                      \/ ended.how = "halt" /\ ended.with % 256 = 0

(* How far it is with a line.                                              *)
ShellInv ==
  prog = "shell" =>
    /\ step = "start" => Told
    /\ step \in {"execute", "wait"} => line # <<>> /\ ended = Unended
    /\ step = "wait" => fname = prog_name(line) /\ args = arg_buffer(line)
    /\ step = "report" =>
         /\ line # <<>>
         /\ \/ ended = Unended /\ rval = -1
            \/ ended \in Ends /\ rval = ExitCode(ended)

LEMMA Messages ==
  ASSUME NEW n \in Int
  PROVE  /\ n = -1 => Message(n) = <<"no such command">>
         /\ n = 256 => Message(n) = <<"program terminated by exception">>
         /\ n = 0 => Message(n) = <<>>
         /\ n \notin {-1, 0, 256} =>
              Message(n) = <<"program terminated abnormally">>
<1> DEFINE unknown == <<"no such command">>
           exception == <<"program terminated by exception">>
           well == <<>>
           ill == <<"program terminated abnormally">>
<1>1. Message(n) = CASE n = -1 -> unknown [] n = 256 -> exception
                     [] n = 0 -> well [] OTHER -> ill
  BY Zenon DEF Message
<1> HIDE DEF unknown, exception, well, ill
<1>2. /\ n = -1 => Message(n) = unknown
      /\ n = 256 => Message(n) = exception
      /\ n = 0 => Message(n) = well
      /\ n \notin {-1, 0, 256} => Message(n) = ill
  BY <1>1
<1>3. QED
  BY <1>2, Zenon DEF unknown, exception, well, ill

(* No message reads like another.                                          *)
LEMMA Different ==
  /\ Message(0) = <<>> /\ Message(-1) # <<>> /\ Message(256) # <<>>
  /\ Message(-1) # Message(256)
  /\ \A n \in Int : n \notin {-1, 0, 256} =>
       Message(n) \notin {<<>>, Message(-1), Message(256)}
<1>1. ASSUME NEW x, NEW y, x # y PROVE <<x>> # <<y>> /\ <<x>> # <<>>
  <2>1. <<x>>[1] = x /\ <<y>>[1] = y /\ Len(<<x>>) = 1 /\ Len(<<>>) = 0
    OBVIOUS
  <2>2. QED
    BY <1>1, <2>1
<1> DEFINE unknown == "no such command"
           exception == "program terminated by exception"
           ill == "program terminated abnormally"
<1>2. unknown # exception /\ unknown # ill /\ exception # ill
  OBVIOUS
<1>3. -1 \in Int /\ 256 \in Int /\ 0 \in Int
  OBVIOUS
<1>4. /\ Message(-1) = <<unknown>> /\ Message(256) = <<exception>>
      /\ Message(0) = <<>>
  BY <1>3, Messages
<1>5. \A n \in Int : n \notin {-1, 0, 256} => Message(n) = <<ill>>
  BY Messages, Zenon
<1> HIDE DEF unknown, exception, ill
<1>6. /\ <<unknown>> # <<>> /\ <<exception>> # <<>> /\ <<ill>> # <<>>
      /\ <<unknown>> # <<exception>> /\ <<ill>> # <<unknown>>
      /\ <<ill>> # <<exception>>
  BY <1>1, <1>2, Zenon
<1>7. ASSUME NEW n \in Int, n \notin {-1, 0, 256}
      PROVE  Message(n) \notin {<<>>, Message(-1), Message(256)}
  <2>1. Message(n) = <<ill>>
    BY <1>5, <1>7, Zenon
  <2>2. QED
    BY <1>4, <1>6, <2>1, Zenon
<1>8. QED
  BY <1>4, <1>6, <1>7, Zenon

LEMMA ShellReport ==
  ASSUME ProgInv, ShellInv, ShellReports
  PROVE  Told'
<1>1. /\ out' = Message(rval) /\ line' = line /\ ended' = ended
      /\ line # <<>>
      /\ \/ ended = Unended /\ rval = -1
         \/ ended \in Ends /\ rval = ExitCode(ended)
  BY DEF ShellReports, Does, ShellInv, localVars
<1>2. CASE ended = Unended /\ rval = -1
  <2>1. ended.how = "none"
    BY <1>2 DEF Unended
  <2>2. QED
    BY <1>1, <1>2, <2>1, Different DEF Told
<1>3. CASE ended \in Ends /\ rval = ExitCode(ended)
  <2>1. ended.how \in {"halt", "exception", "ctrl_c"} /\ ended.with \in Int
    BY <1>3, InputAssumption
  <2>2. ended # Unended
    BY <2>1 DEF Unended
  <2>3. CASE ended.how = "halt"
    <3>1. rval = ended.with % 256
      BY <1>3, <2>3 DEF ExitCode
    <3>2. rval \in 0 .. 255
      BY <2>1, <3>1
    <3>3. rval = 0 => out' = <<>>
      BY <1>1, Different
    <3>4. rval # 0 => out' \notin {<<>>, Message(-1), Message(256)}
      BY <1>1, <3>2, Different
    <3>5. QED
      BY <1>1, <2>2, <2>3, <3>1, <3>3, <3>4, Different DEF Told
  <2>4. CASE ended.how = "exception"
    <3>1. rval = 256
      BY <1>3, <2>4 DEF ExitCode, EXCEPTION_STATUS
    <3>2. QED
      BY <1>1, <2>2, <2>4, <3>1, Different DEF Told
  <2>5. CASE ended.how = "ctrl_c"
    <3>1. rval = 257
      BY <1>3, <2>5 DEF ExitCode, TERMINATED_STATUS
    <3>2. out' \notin {<<>>, Message(-1), Message(256)}
      BY <1>1, <3>1, Different
    <3>3. QED
      BY <1>1, <2>2, <2>5, <3>2 DEF Told
  <2>6. QED
    BY <2>1, <2>3, <2>4, <2>5
<1>4. QED
  BY <1>1, <1>2, <1>3

LEMMA ShellBegin == ProgInit => ShellInv
<1>1. Unended.how = "none"
  BY DEF Unended
<1>2. QED
  BY <1>1, Different DEF ProgInit, ShellInv, Told

LEMMA ShellInductive == ProgInv /\ ShellInv /\ [ProgNext]_allVars => ShellInv'
<1> SUFFICES ASSUME ProgInv, ShellInv, [ProgNext]_allVars PROVE ShellInv'
  OBVIOUS
<1>1. CASE ShellReads
  <2>1. /\ step' \in {"start", "execute", "exit"} /\ prog = "shell"
        /\ out' = <<>> /\ ended' = Unended
        /\ step' = "start" => line' = <<>>
        /\ step' = "execute" => line' # <<>>
    BY <1>1 DEF ShellReads, Does, Exit
  <2>2. Unended.how = "none"
    BY DEF Unended
  <2>3. QED
    BY <2>1, <2>2, Different DEF ShellInv, Told
<1>2. CASE ShellExecutes
  BY <1>2 DEF ShellExecutes, Does, Execute, Search, ShellInv
<1>3. CASE ShellRefused
  BY <1>3 DEF ShellRefused, Does, ShellInv
<1>4. CASE ChildEnds
  BY <1>4 DEF ChildEnds, Does, ShellInv
<1>5. CASE ShellReports
  <2>1. Told' /\ step' = "start"
    BY <1>5, ShellReport DEF ShellReports
  <2>2. QED
    BY <2>1 DEF ShellInv
<1>6. CASE \/ prog = "any" /\ Next /\ UNCHANGED progVars
           \/ LsOpen \/ LsRead \/ LsWrite \/ CatOpen \/ CatRead \/ CatWrite
           \/ GrepStep \/ SysErrRuns
  <2>1. prog' = prog /\ prog # "shell"
    BY <1>6 DEF progVars, worldVars, Does, LsOpen, LsRead, LsWrite, CatOpen,
       CatRead, CatWrite, SysErrRuns, GrepStep, GrepOpenDir, GrepReadDir,
       GrepDirEnds, GrepSkips, GrepEnters, GrepOpen, GrepRead, GrepGot,
       GrepCarries, GrepLine, GrepCloses
  <2>2. QED
    BY <2>1 DEF ShellInv
<1>7. CASE \/ ReadStep /\ UNCHANGED progVars
           \/ UNCHANGED allVars
  <2>1. /\ prog' = prog /\ step' = step /\ args' = args /\ line' = line
        /\ out' = out /\ rval' = rval /\ ended' = ended
    BY <1>7 DEF allVars, progVars, worldVars, localVars
  <2>2. fname' = fname
    BY <1>7 DEF ReadStep, CopyBlock, BlockMissing, ReadReturns, Loaded,
                allVars, vars
  <2>3. QED
    BY <2>1, <2>2 DEF ShellInv, Told
<1>8. QED
  BY <1>1, <1>2, <1>3, <1>4, <1>5, <1>6, <1>7 DEF ProgNext, ShellStep

LEMMA NotFalse ==
  ASSUME NEW x, NEW S
  PROVE  /\ (x \in S) # FALSE => x \in S
         /\ (x \in S) = FALSE => x \notin S
<1>1. CASE x \in S
  BY <1>1
<1>2. CASE x \notin S
  <2>1. (x \in S) = FALSE
    BY <1>2
  <2>2. QED
    BY <2>1, Zenon
<1>3. QED
  BY <1>1, <1>2

(* The blanks, the first word, the blanks and the rest of a line.          *)
LEMMA FourParts ==
  ASSUME NEW s, IsText(s),
         NEW m \in 1 .. Len(s) + 1, NEW n \in m .. Len(s) + 1,
         NEW r \in n .. Len(s) + 1
  PROVE  s = SubSeq(s, 1, m - 1) \o SubSeq(s, m, n - 1)
               \o SubSeq(s, n, r - 1) \o SubSeq(s, r, Len(s))
<1> DEFINE C == {s[k] : k \in 1 .. Len(s)}
           L == Len(s)
<1>1. L \in Nat /\ s \in Seq(C)
  BY TextSeq
<1> HIDE DEF C, L
<1>2. /\ m - 1 + 1 = m /\ n - 1 + 1 = n /\ r - 1 + 1 = r /\ L = Len(s)
      /\ 1 \in 1 .. L + 1 /\ 1 - 1 = 0
      /\ m - 1 \in 0 .. L /\ n - 1 \in m - 1 .. L
      /\ n - 1 \in 0 .. L /\ r - 1 \in n - 1 .. L
      /\ r - 1 \in 0 .. L /\ L \in r - 1 .. L
  BY <1>1 DEF L
<1>3. ASSUME NEW k \in 0 .. L, NEW x \in k .. L
      PROVE  SubSeq(s, 1, k) \o SubSeq(s, k + 1, x) = SubSeq(s, 1, x)
  <2>1. /\ 1 \in 1 .. Len(s) + 1 /\ k \in 1 - 1 .. Len(s)
        /\ x \in k .. Len(s)
    BY <1>1, <1>2
  <2>2. QED
    BY <1>1, <2>1, ConcatAdjacentSubSeq
<1>4. SubSeq(s, 1, m - 1) \o SubSeq(s, m, n - 1) = SubSeq(s, 1, n - 1)
  BY <1>2, <1>3
<1>5. SubSeq(s, 1, n - 1) \o SubSeq(s, n, r - 1) = SubSeq(s, 1, r - 1)
  BY <1>2, <1>3
<1>6. SubSeq(s, 1, r - 1) \o SubSeq(s, r, L) = SubSeq(s, 1, L)
  BY <1>2, <1>3
<1>7. SubSeq(s, 1, L) = s
  BY <1>1, SubSeqFull DEF L
<1>8. QED
  BY <1>4, <1>5, <1>6, <1>7 DEF L

(* The first word of a line and the rest of it.                            *)
LEMMA WordsOfLine ==
  ASSUME NEW s, IsText(s)
  PROVE  \E n, m \in 0 .. Len(s) :
           LET w == prog_name(s)
               rest == arg_buffer(s)
           IN  /\ s = SubSeq(s, 1, n) \o w \o SubSeq(s, n + Len(w) + 1, m) \o rest
               /\ \A k \in (1 .. n) \cup (n + Len(w) + 1 .. m) : s[k] \in Blank
               /\ \A k \in 1 .. Len(w) : w[k] \notin Blank
               /\ rest # <<>> => rest[1] \notin Blank /\ m > n + Len(w)
<1> DEFINE a == NameStart(s)
           b == NameEnd(s)
           r == SkipTo(FALSE, s, NameEnd(s))
           w == prog_name(s)
           rest == arg_buffer(s)
<1>1. /\ Len(s) \in Nat
      /\ a \in 1 .. Len(s) + 1 /\ b \in a .. Len(s) + 1 /\ r \in b .. Len(s) + 1
  BY TextSeq, Words, Zenon
<1>2. /\ FALSE \in BOOLEAN /\ TRUE \in BOOLEAN
      /\ 1 \in 1 .. Len(s) + 1 /\ NameStart(s) \in 1 .. Len(s) + 1
      /\ NameEnd(s) \in 1 .. Len(s) + 1
  BY <1>1
<1>3. \A k \in 1 .. a - 1 : s[k] \in Blank
  <2>1. \A k \in 1 .. a - 1 : (s[k] \in Blank) # FALSE
    BY <1>2, Skipping, Zenon DEF NameStart
  <2>2. QED
    BY <2>1, NotFalse, Zenon
<1>4. (\A k \in a .. b - 1 : s[k] \notin Blank)
      /\ (b = Len(s) + 1 \/ s[b] \in Blank)
  <2>1. /\ \A k \in a .. b - 1 : (s[k] \in Blank) # TRUE
        /\ b = Len(s) + 1 \/ (s[b] \in Blank) = TRUE
    BY <1>2, Skipping, Zenon DEF NameEnd
  <2>2. QED
    BY <2>1, Zenon
<1>5. (\A k \in b .. r - 1 : s[k] \in Blank)
      /\ (r = Len(s) + 1 \/ s[r] \notin Blank)
  <2>1. /\ \A k \in b .. r - 1 : (s[k] \in Blank) # FALSE
        /\ r = Len(s) + 1 \/ (s[r] \in Blank) = FALSE
    BY <1>2, Skipping, Zenon
  <2>2. QED
    BY <2>1, NotFalse, Zenon
<1>6. w = SubSeq(s, a, b - 1) /\ rest = SubSeq(s, r, Len(s))
  BY DEF prog_name, arg_buffer
<1> HIDE DEF a, b, r, w, rest
<1>7. Len(w) = b - a /\ \A k \in 1 .. b - a : w[k] = s[a + k - 1]
  <2>1. b - 1 \in a - 1 .. Len(s) /\ (b - 1) - a + 1 = b - a
    BY <1>1
  <2>2. QED
    BY <1>1, <1>6, <2>1, PartOf
<1>8. Len(rest) = Len(s) - r + 1
      /\ \A k \in 1 .. Len(s) - r + 1 : rest[k] = s[r + k - 1]
  <2>1. r \in 1 .. Len(s) + 1 /\ Len(s) \in r - 1 .. Len(s)
    BY <1>1
  <2>2. QED
    BY <1>6, <2>1, PartOf
<1> DEFINE n == a - 1
           m == r - 1
<1>9. n \in 0 .. Len(s) /\ m \in 0 .. Len(s) /\ n + Len(w) + 1 = b
  BY <1>1, <1>7
<1>10. s = SubSeq(s, 1, n) \o w \o SubSeq(s, n + Len(w) + 1, m) \o rest
  <2>1. s = SubSeq(s, 1, a - 1) \o SubSeq(s, a, b - 1)
              \o SubSeq(s, b, r - 1) \o SubSeq(s, r, Len(s))
    BY <1>1, FourParts, Zenon
  <2>2. QED
    BY <1>6, <1>9, <2>1
<1>11. \A k \in (1 .. n) \cup (n + Len(w) + 1 .. m) : s[k] \in Blank
  BY <1>3, <1>5, <1>9
<1>12. \A k \in 1 .. Len(w) : w[k] \notin Blank
  <2> TAKE k \in 1 .. Len(w)
  <2>1. k \in 1 .. b - a /\ a + k - 1 \in a .. b - 1
    BY <1>1, <1>7
  <2>2. QED
    BY <1>4, <1>7, <2>1
<1>13. rest # <<>> => rest[1] \notin Blank /\ m > n + Len(w)
  <2>1. SUFFICES ASSUME rest # <<>>
                 PROVE  rest[1] \notin Blank /\ m > n + Len(w)
    OBVIOUS
  <2>2. r # Len(s) + 1
    <3>1. SUFFICES ASSUME r = Len(s) + 1 PROVE FALSE
      OBVIOUS
    <3>2. Len(s) = r - 1
      BY <1>1, <3>1
    <3>3. rest = SubSeq(s, r, r - 1)
      BY <1>6, <3>2
    <3>4. SubSeq(s, r, r - 1) = <<>>
      BY <1>1, TextSeq
    <3>5. QED
      BY <2>1, <3>3, <3>4
  <2>3. r =< Len(s) /\ s[r] \notin Blank
    BY <1>1, <1>5, <2>2
  <2>4. 1 \in 1 .. Len(s) - r + 1 /\ r + 1 - 1 = r
    BY <1>1, <2>3
  <2>5. rest[1] = s[r]
    BY <1>8, <2>4
  <2>6. b # r
    BY <1>1, <1>4, <2>3
  <2>7. QED
    BY <1>1, <1>9, <2>3, <2>5, <2>6
<1>14. QED
  <2> HIDE DEF n, m
  <2>1. QED
    BY <1>9, <1>10, <1>11, <1>12, <1>13, Zenon DEF w, rest

(* The shell runs the first word of a line with the rest of it as          *)
(* arguments, and no program can look as if it had not been found or had   *)
(* made an exception.                                                      *)
THEOREM ShellTellsAll == ProgSpec => []ShellTells
<1>1. ProgInv /\ ShellInv => ShellTells
  <2> SUFFICES ASSUME ProgInv, ShellInv, prog = "shell" PROVE ShellTells
    BY DEF ShellTells
  <2>1. ASSUME step = "wait"
        PROVE  \E n, m \in 0 .. Len(line) :
         /\ line = SubSeq(line, 1, n) \o fname \o SubSeq(line, n + Len(fname) + 1, m) \o args
         /\ \A k \in (1 .. n) \cup (n + Len(fname) + 1 .. m) : line[k] \in Blank
         /\ \A k \in 1 .. Len(fname) : fname[k] \notin Blank
         /\ args # <<>> => args[1] \notin Blank /\ m > n + Len(fname)
    <3>1. fname = prog_name(line) /\ args = arg_buffer(line) /\ IsText(line)
      BY <2>1 DEF ShellInv, ProgInv, StringsInv
    <3>2. QED
      BY <3>1, WordsOfLine, Zenon
  <2>2. step = "start" => Told
    BY DEF ShellInv
  <2>3. QED
    BY <2>1, <2>2, Zenon DEF ShellTells, Told
<1>2. ProgSpec => []ShellInv
  BY ProgInvariance, ShellBegin, ShellInductive, PTL DEF ProgSpec
<1>3. QED
  BY <1>1, <1>2, ProgInvariance, PTL

----------------------------------------------------------------------------
(* What a program starts with stays.                                       *)
SetupInv ==
  \E s \in Setups : prog = s.prog /\ image = s.image /\ contents = s.contents

LEMMA WorldStays ==
  ASSUME [ProgNext]_allVars
  PROVE  image' = image /\ prog' = prog /\ contents' = contents
<1>1. CASE prog = "any" /\ Next /\ UNCHANGED progVars
  BY <1>1 DEF Next, ReadStep, CopyBlock, BlockMissing, ReadReturns, Loaded,
     Close, Open, OpenFails, Execute, Read, ReadRefused, directory_read,
     progVars, worldVars
<1>2. CASE ReadStep /\ UNCHANGED progVars
  BY <1>2 DEF ReadStep, CopyBlock, BlockMissing, ReadReturns, Loaded,
     progVars, worldVars
<1>3. ASSUME NEW s, Open(s) \/ OpenRefused(s) PROVE image' = image
  BY <1>3 DEF Open, OpenRefused, OpenFails, NameTooLong, vars
<1>4. ASSUME NEW n, Reads(n) PROVE image' = image
  BY <1>4 DEF Reads, Read, ReadRefused, directory_read, RtcRead
<1>5. ASSUME UNCHANGED vars PROVE image' = image
  BY <1>5 DEF vars
<1>6. CASE LsOpen \/ LsRead \/ LsWrite
  BY <1>3, <1>4, <1>5, <1>6 DEF LsOpen, LsRead, LsWrite, worldVars
<1>7. CASE CatOpen \/ CatRead \/ CatWrite
  BY <1>3, <1>4, <1>5, <1>7 DEF CatOpen, CatRead, CatWrite, worldVars
<1>8. CASE GrepStep
  BY <1>3, <1>4, <1>5, <1>8 DEF GrepStep, GrepOpenDir, GrepReadDir,
     GrepDirEnds, GrepSkips, GrepEnters, GrepOpen, GrepRead, GrepGot,
     GrepCarries, GrepLine, GrepCloses, worldVars
<1>9. CASE ShellStep
  BY <1>5, <1>9 DEF ShellStep, ShellReads, ShellExecutes, ShellRefused,
     ChildEnds, ShellReports, Execute, worldVars
<1>10. CASE SysErrRuns
  BY <1>5, <1>10 DEF SysErrRuns, worldVars
<1>11. CASE UNCHANGED allVars
  BY <1>5, <1>11 DEF allVars, progVars, worldVars
<1>12. QED
  BY <1>1, <1>2, <1>6, <1>7, <1>8, <1>9, <1>10, <1>11 DEF ProgNext

LEMMA SetupKept ==
  /\ ProgInit => SetupInv
  /\ SetupInv /\ [ProgNext]_allVars => SetupInv'
<1>1. ProgInit => SetupInv
  BY DEF ProgInit, SetupInv
<1>2. SetupInv /\ [ProgNext]_allVars => SetupInv'
  BY WorldStays DEF SetupInv
<1>3. QED
  BY <1>1, <1>2

(* The environment of a program.                                           *)
THEOREM SetupInvariance == ProgSpec => []SetupInv
<1>1. QED
  BY SetupKept, PTL DEF ProgSpec

----------------------------------------------------------------------------
(* syserr.                                                                 *)

(* The descriptors of a process that has lo .. hi open as directories.     *)
Fds(lo, hi) ==
  [fd \in Fd |-> CASE fd = 0 -> "stdin" [] fd = 1 -> "stdout"
                   [] OTHER -> IF fd \in lo .. hi THEN "directory" ELSE "none"]

LEMMA FdsOf ==
  ASSUME NEW lo \in Int, NEW hi \in Int
  PROVE  /\ DOMAIN Fds(lo, hi) = Fd
         /\ Fds(lo, hi)[0] = "stdin" /\ Fds(lo, hi)[1] = "stdout"
         /\ \A fd \in Fd : fd >= 2 =>
              Fds(lo, hi)[fd] = IF fd \in lo .. hi THEN "directory" ELSE "none"
BY DEF Fds, Fd, FD_PER_PROC

LEMMA NewFdsAre == ASSUME NEW lo \in Int PROVE NewFds = Fds(lo, lo - 1)
<1>1. \A fd \in Fd : fd \notin lo .. lo - 1
  BY DEF Fd, FD_PER_PROC
<1>2. QED
  BY <1>1 DEF NewFds, Fds, Fd, FD_PER_PROC

(* What syserr finds in the directory.                                     *)
SysImage ==
  /\ \A n \in {Helloo, Shel, <<>>} : read_dentry_by_name(n) = Null
  /\ read_dentry_by_name(<<Dot>>) # Null
  /\ Opens(image.dentries[read_dentry_by_name(<<Dot>>)])
  /\ image.dentries[read_dentry_by_name(<<Dot>>)].type = "directory"

LEMMA SysFinds ==
  ASSUME ProgInv, SetupInv, prog = "syserr"
  PROVE  SysImage
<1> DEFINE named(n) == {d \in Entries : SameName(n, image.dentries[d].filename)}
<1>1. PICK s \in Setups : prog = s.prog /\ image = s.image
  BY DEF SetupInv
<1>2. Entries = 0 .. s.image.num_dentries - 1
  BY <1>1 DEF Entries
<1>0. \A n \in {<<Dot>>, Helloo, Shel, <<>>} : \A d \in Entries :
        SameName(n, image.dentries[d].filename)
          <=> Named(image.dentries[d].filename, n)
  <2>1. IsCString(<<Dot>>) /\ IsCString(<<>>)
    BY ProgramAssumption DEF IsCString
  <2>2. \A n \in {<<Dot>>, Helloo, Shel, <<>>} : IsCString(n)
    BY <2>1, SysErrAssumption
  <2>3. QED
    BY <2>2, SameAsNamed
<1>3. \A n \in {Helloo, Shel, <<>>} : \A d \in Entries :
        ~SameName(n, image.dentries[d].filename)
  <2>1. \A n \in {Helloo, Shel, <<>>} : \A d \in Entries :
          ~Named(image.dentries[d].filename, n)
    BY <1>1, <1>2, SysErrAssumption
  <2>2. QED
    BY <1>0, <2>1
<1>4. \A n \in {Helloo, Shel, <<>>} : read_dentry_by_name(n) = Null
  BY <1>3 DEF read_dentry_by_name
<1>5. /\ named(<<Dot>>) # {}
      /\ \A d \in named(<<Dot>>) : image.dentries[d].type = "directory"
                                   /\ image.dentries[d].inode = 0
  <2>1. named(<<Dot>>)
          = {d \in Entries : Named(image.dentries[d].filename, <<Dot>>)}
    BY <1>0
  <2> HIDE DEF named
  <2>2. QED
    BY <1>1, <1>2, <2>1, SysErrAssumption
<1>6. image.num_dentries \in Nat
  BY ImageTypes DEF ProgInv, Inv, TypeOK
<1>7. PICK e : e = read_dentry_by_name(<<Dot>>)
  OBVIOUS
<1>8. /\ e = Null => \A d \in Entries : ~Named(image.dentries[d].filename, <<Dot>>)
      /\ e # Null => e \in Entries /\ Named(image.dentries[e].filename, <<Dot>>)
  BY <1>6, <1>7, DotString, Finding
<1>9. \A d : SameName(<<Dot>>, image.dentries[d].filename)
               <=> Named(image.dentries[d].filename, <<Dot>>)
  BY DotString, SameAsNamed
<1>10. e # Null /\ e \in named(<<Dot>>)
  BY <1>5, <1>8, <1>9
<1>11. image.dentries[e].type = "directory" /\ image.dentries[e].inode = 0
  BY <1>5, <1>10
<1>12. Opens(image.dentries[e])
  BY <1>11 DEF Opens
<1>13. QED
  BY <1>4, <1>7, <1>10, <1>11, <1>12 DEF SysImage

(* An open takes the first descriptor that is free, or fails.              *)
LEMMA SysOpens ==
  ASSUME SysImage, NEW k \in 1 .. 7
  PROVE  syscall_open(Fds(2, k), <<Dot>>) =
           IF k < 7 THEN [fds |-> Fds(2, k + 1), ret |-> k + 1]
           ELSE [fds |-> Fds(2, 7), ret |-> -1]
<1> DEFINE fds == Fds(2, k)
           free == {fd \in Fd : fds[fd] = "none"}
           d == read_dentry_by_name(<<Dot>>)
           least == CHOOSE x \in free : \A y \in free : x =< y
<1>1. /\ DOMAIN fds = Fd /\ fds[0] = "stdin" /\ fds[1] = "stdout"
      /\ \A fd \in Fd : fd >= 2 =>
           fds[fd] = IF fd \in 2 .. k THEN "directory" ELSE "none"
  BY FdsOf
<1>2. /\ d # Null /\ Opens(image.dentries[d])
      /\ image.dentries[d].type = "directory"
  BY DEF SysImage
<1>3. Len(<<Dot>>) =< FS_MAX_FNAME_LEN
  <2>1. Len(<<Dot>>) = 1
    OBVIOUS
  <2>2. QED
    BY <2>1, Positions
<1>4. syscall_open(fds, <<Dot>>) =
        IF free = {} THEN [fds |-> fds, ret |-> -1]
        ELSE [fds |-> [fds EXCEPT ![least] = "directory"], ret |-> least]
  <2>1. ~(Len(<<Dot>>) > FS_MAX_FNAME_LEN)
    BY <1>3, Positions
  <2>2. QED
    BY <1>2, <2>1, Zenon DEF syscall_open
<1>5. \A fd : fd \in free <=> fd \in k + 1 .. 7
  <2>1. \A fd : fd \in Fd <=> fd \in 0 .. 7
    BY DEF Fd, FD_PER_PROC
  <2> HIDE DEF fds
  <2>2. \A fd \in 0 .. 7 : fds[fd] = "none" <=> fd \in k + 1 .. 7
    <3> TAKE fd \in 0 .. 7
    <3>1. CASE fd = 0 \/ fd = 1
      BY <1>1, <3>1
    <3>2. CASE fd >= 2
      BY <1>1, <2>1, <3>2
    <3>3. QED
      BY <3>1, <3>2
  <2>3. QED
    BY <2>1, <2>2
<1> HIDE DEF fds, free
<1>6. CASE k < 7
  <2>1. k + 1 \in free /\ \A y \in free : k + 1 =< y
    BY <1>5, <1>6
  <2>2. \A x \in free : (\A y \in free : x =< y) => x = k + 1
    <3> TAKE x \in free
    <3> HAVE \A y \in free : x =< y
    <3>1. x =< k + 1 /\ k + 1 =< x /\ x \in Int
      BY <1>5, <2>1
    <3>2. QED
      BY <3>1
  <2>3. least = k + 1
    BY <2>1, <2>2
  <2>4. [fds EXCEPT ![k + 1] = "directory"] = Fds(2, k + 1)
    <3>1. /\ DOMAIN Fds(2, k + 1) = Fd
          /\ Fds(2, k + 1)[0] = "stdin" /\ Fds(2, k + 1)[1] = "stdout"
          /\ \A fd \in Fd : fd >= 2 =>
               Fds(2, k + 1)[fd] =
                 IF fd \in 2 .. k + 1 THEN "directory" ELSE "none"
      BY FdsOf
    <3> DEFINE new == [fds EXCEPT ![k + 1] = "directory"]
    <3>2. \A fd \in Fd : fd \in 0 .. 7
      BY DEF Fd, FD_PER_PROC
    <3>3. ASSUME NEW fd \in Fd PROVE new[fd] = Fds(2, k + 1)[fd]
      <4>1. new[fd] = IF fd = k + 1 THEN "directory" ELSE fds[fd]
        BY <1>1
      <4> HIDE DEF new
      <4>2. CASE fd = 0 \/ fd = 1
        BY <1>1, <3>1, <4>1, <4>2
      <4>3. CASE fd >= 2
        <5>1. fd \in 2 .. k + 1 <=> fd \in 2 .. k \/ fd = k + 1
          BY <3>2, <4>3
        <5>2. QED
          BY <1>1, <3>1, <4>1, <4>3, <5>1
      <4>4. QED
        BY <3>2, <4>2, <4>3
    <3>4. DOMAIN new = Fd
      BY <1>1
    <3>5. new = [fd \in Fd |-> new[fd]]
      BY <1>1
    <3>6. Fds(2, k + 1) = [fd \in Fd |-> Fds(2, k + 1)[fd]]
      BY DEF Fds
    <3> HIDE DEF new
    <3>7. new = Fds(2, k + 1)
      BY <3>3, <3>5, <3>6
    <3>8. QED
      BY <3>7 DEF new
  <2>5. free # {}
    BY <2>1
  <2>6. syscall_open(fds, <<Dot>>) =
          [fds |-> [fds EXCEPT ![least] = "directory"], ret |-> least]
    BY <1>4, <2>5, Zenon
  <2> HIDE DEF least
  <2>7. QED
    BY <1>6, <2>3, <2>4, <2>6 DEF fds
<1>7. CASE k = 7
  <2>1. free = {}
    BY <1>5, <1>7
  <2>2. syscall_open(fds, <<Dot>>) = [fds |-> fds, ret |-> -1]
    BY <1>4, <2>1, Zenon
  <2>3. QED
    BY <1>7, <2>2 DEF fds
<1>8. QED
  BY <1>6, <1>7

(* The seven opens, by the descriptors and the result of each.             *)
Lots ==
  [k \in 0 .. 7 |-> IF k = 0 THEN [fds |-> NewFds, ret |-> 0]
                    ELSE IF k < 7 THEN [fds |-> Fds(2, k + 1), ret |-> k + 1]
                    ELSE [fds |-> Fds(2, 7), ret |-> -1]]

OpenNext(f, k) ==
  IF k = 0 THEN [fds |-> NewFds, ret |-> 0]
  ELSE syscall_open(f[k - 1].fds, <<Dot>>)

LEMMA LotsOf ==
  /\ Lots[0] = [fds |-> NewFds, ret |-> 0]
  /\ \A k \in 1 .. 6 : Lots[k] = [fds |-> Fds(2, k + 1), ret |-> k + 1]
  /\ Lots[7] = [fds |-> Fds(2, 7), ret |-> -1]
  /\ \A k \in 0 .. 6 : Lots[k].fds = Fds(2, k + 1)
<1>1. /\ Lots[0] = [fds |-> NewFds, ret |-> 0]
      /\ \A k \in 1 .. 6 : Lots[k] = [fds |-> Fds(2, k + 1), ret |-> k + 1]
      /\ Lots[7] = [fds |-> Fds(2, 7), ret |-> -1]
  BY DEF Lots
<1>2. NewFds = Fds(2, 0 + 1)
  <2>1. 2 \in Int /\ 2 - 1 = 0 + 1
    OBVIOUS
  <2>2. QED
    BY <2>1, NewFdsAre
<1>3. ASSUME NEW k \in 0 .. 6 PROVE Lots[k].fds = Fds(2, k + 1)
  <2>1. CASE k = 0
    <3>1. Lots[0].fds = NewFds
      BY <1>1
    <3>2. QED
      BY <1>2, <2>1, <3>1
  <2>2. CASE k # 0
    <3>1. k \in 1 .. 6
      BY <2>2
    <3>2. QED
      BY <1>1, <3>1
  <2>3. QED
    BY <2>1, <2>2
<1>4. QED
  BY <1>1, <1>3

LEMMA OpensLots ==
  ASSUME SysImage
  PROVE  \A k \in 0 .. 7 : OpenedLots(NewFds)[k] = Lots[k]
<1>1. \A k \in 0 .. 7 : Lots[k] = OpenNext(Lots, k)
  <2> TAKE k \in 0 .. 7
  <2>1. CASE k = 0
    BY <2>1, LotsOf DEF OpenNext
  <2>2. CASE k # 0
    <3>1. k \in 1 .. 7 /\ k - 1 \in 0 .. 6 /\ (k - 1) + 1 = k
      BY <2>2
    <3>2. Lots[k - 1].fds = Fds(2, k)
      BY <3>1, LotsOf
    <3>3. OpenNext(Lots, k) =
            IF k < 7 THEN [fds |-> Fds(2, k + 1), ret |-> k + 1]
            ELSE [fds |-> Fds(2, 7), ret |-> -1]
      BY <2>2, <3>1, <3>2, SysOpens DEF OpenNext
    <3>4. k \in 1 .. 6 \/ k = 7
      BY <3>1
    <3>5. CASE k \in 1 .. 6
      <4>1. k < 7
        BY <3>5
      <4>2. Lots[k] = [fds |-> Fds(2, k + 1), ret |-> k + 1]
        BY <3>5, LotsOf
      <4>3. QED
        BY <3>3, <4>1, <4>2, Zenon
    <3>6. CASE k = 7
      BY <3>3, <3>6, LotsOf
    <3>7. QED
      BY <3>4, <3>5, <3>6
  <2>3. QED
    BY <2>1, <2>2
<1>2. Lots = [k \in 0 .. 7 |-> OpenNext(Lots, k)]
  <2>1. Lots = [k \in 0 .. 7 |-> Lots[k]]
    BY DEF Lots
  <2>2. QED
    BY <1>1, <2>1, Zenon
<1> DEFINE f == OpenedLots(NewFds)
<1>3. f = [k \in 0 .. 7 |-> OpenNext(f, k)]
  <2>1. Lots = [k \in 0 .. 7 |-> IF k = 0 THEN [fds |-> NewFds, ret |-> 0]
                                 ELSE syscall_open(Lots[k - 1].fds, <<Dot>>)]
    BY <1>2, Zenon DEF OpenNext
  <2>2. f = [k \in 0 .. 7 |-> IF k = 0 THEN [fds |-> NewFds, ret |-> 0]
                              ELSE syscall_open(f[k - 1].fds, <<Dot>>)]
    BY <2>1, Zenon DEF OpenedLots
  <2> HIDE DEF f
  <2>3. QED
    BY <2>2, Zenon DEF OpenNext
<1> HIDE DEF f
<1>4. \A k \in 0 .. 7 : f[k] = OpenNext(f, k)
  BY <1>3
<1>5. GoAlike(f, Lots, 7)
  <2>1. f[0] = Lots[0]
    BY <1>1, <1>4 DEF OpenNext
  <2>2. ASSUME NEW k \in 1 .. 7, f[k - 1] = Lots[k - 1] PROVE f[k] = Lots[k]
    <3>1. k \in 0 .. 7 /\ k # 0
      OBVIOUS
    <3>2. f[k] = OpenNext(f, k) /\ Lots[k] = OpenNext(Lots, k)
      BY <1>1, <1>4, <3>1
    <3>3. OpenNext(f, k) = OpenNext(Lots, k)
      BY <2>2, <3>1 DEF OpenNext
    <3>4. QED
      BY <3>2, <3>3
  <2>3. QED
    BY <2>1, <2>2 DEF GoAlike
<1>6. \A k \in 0 .. 7 : f[k] = Lots[k]
  <2>1. 7 \in Nat
    OBVIOUS
  <2>2. QED
    BY <1>5, <2>1, SameValues, Zenon
<1>7. QED
  BY <1>6 DEF f

(* The six closes, from descriptor 2 on.                                   *)
Closings == [k \in 1 .. 7 |-> Fds(k + 1, 7)]

CloseNext(f, k) ==
  IF k = 1 THEN OpenedLots(NewFds)[7].fds ELSE syscall_close(f[k - 1], k).fds

LEMMA SysCloses ==
  ASSUME NEW k \in 2 .. 7
  PROVE  syscall_close(Fds(k, 7), k).fds = Fds(k + 1, 7)
<1>1. \A lo \in Int : /\ DOMAIN Fds(lo, 7) = Fd
      /\ Fds(lo, 7)[0] = "stdin" /\ Fds(lo, 7)[1] = "stdout"
      /\ \A fd \in Fd : fd >= 2 =>
           Fds(lo, 7)[fd] = IF fd \in lo .. 7 THEN "directory" ELSE "none"
  BY FdsOf
<1>2. k \in Int /\ k + 1 \in Int /\ \A fd : fd \in Fd <=> fd \in 0 .. 7
  BY DEF Fd, FD_PER_PROC
<1> DEFINE old == Fds(k, 7)
           new == [old EXCEPT ![k] = "none"]
           after == Fds(k + 1, 7)
<1>3. /\ DOMAIN old = Fd /\ old[0] = "stdin" /\ old[1] = "stdout"
      /\ \A fd \in Fd : fd >= 2 =>
           old[fd] = IF fd \in k .. 7 THEN "directory" ELSE "none"
  BY <1>1, <1>2
<1>4. /\ DOMAIN after = Fd /\ after[0] = "stdin" /\ after[1] = "stdout"
      /\ \A fd \in Fd : fd >= 2 =>
           after[fd] = IF fd \in k + 1 .. 7 THEN "directory" ELSE "none"
  BY <1>1, <1>2
<1>5. after = [fd \in Fd |-> after[fd]]
  BY DEF Fds
<1> HIDE DEF old, after
<1>6. ASSUME NEW fd \in Fd PROVE new[fd] = after[fd]
  <2>1. new[fd] = IF fd = k THEN "none" ELSE old[fd]
    BY <1>3
  <2> HIDE DEF new
  <2>2. CASE fd = 0 \/ fd = 1
    BY <1>3, <1>4, <2>1, <2>2
  <2>3. CASE fd >= 2
    <3>1. fd \in k .. 7 <=> fd \in k + 1 .. 7 \/ fd = k
      BY <1>2, <2>3
    <3>2. k \notin k + 1 .. 7
      OBVIOUS
    <3>3. QED
      BY <1>3, <1>4, <2>1, <2>3, <3>1, <3>2
  <2>4. QED
    BY <1>2, <2>2, <2>3
<1>7. new = after
  <2>1. new = [fd \in Fd |-> new[fd]]
    BY <1>3
  <2> HIDE DEF new
  <2>2. QED
    BY <1>5, <1>6, <2>1
<1>8. Closable(old, k)
  <2>1. k \in Fd /\ k >= 2 /\ k \in k .. 7
    BY <1>2
  <2>2. QED
    BY <1>3, <2>1 DEF Closable
<1>9. syscall_close(old, k) = [fds |-> new, ret |-> 0]
  BY <1>8 DEF syscall_close
<1> HIDE DEF new
<1>10. QED
  BY <1>7, <1>9 DEF old, after

LEMMA ClosesLots ==
  ASSUME SysImage
  PROVE  AfterOpenLots(NewFds) = NewFds
<1>1. \A k \in 1 .. 7 : Closings[k] = CloseNext(Closings, k)
  <2> TAKE k \in 1 .. 7
  <2>1. CASE k = 1
    <3>1. OpenedLots(NewFds)[7].fds = Fds(2, 7)
      <4>1. 7 \in 0 .. 7
        OBVIOUS
      <4>2. OpenedLots(NewFds)[7] = [fds |-> Fds(2, 7), ret |-> -1]
        BY <4>1, OpensLots, LotsOf, Zenon
      <4>3. QED
        BY <4>2
    <3>2. Closings[1] = Fds(1 + 1, 7) /\ 1 + 1 = 2
      BY DEF Closings
    <3>3. QED
      BY <2>1, <3>1, <3>2 DEF CloseNext
  <2>2. CASE k # 1
    <3>1. k \in 2 .. 7 /\ k - 1 \in 1 .. 7 /\ (k - 1) + 1 = k
      BY <2>2
    <3>2. Closings[k - 1] = Fds(k, 7) /\ Closings[k] = Fds(k + 1, 7)
      BY <3>1 DEF Closings
    <3>3. QED
      BY <2>2, <3>1, <3>2, SysCloses DEF CloseNext
  <2>3. QED
    BY <2>1, <2>2
<1> DEFINE F == CHOOSE f : f = [k \in 1 .. 7 |-> CloseNext(f, k)]
<1>2. AfterOpenLots(NewFds) = F[7]
  BY Zenon DEF AfterOpenLots, CloseNext
<1>3. F = [k \in 1 .. 7 |-> CloseNext(F, k)]
  <2>1. Closings = [k \in 1 .. 7 |-> Closings[k]]
    BY DEF Closings
  <2>2. Closings = [k \in 1 .. 7 |-> CloseNext(Closings, k)]
    BY <1>1, <2>1, Zenon
  <2>3. QED
    BY <2>2, Zenon
<1> HIDE DEF F
<1>4. \A k \in 1 .. 7 : F[k] = CloseNext(F, k)
  BY <1>3
<1>5. GoAlikeFromOne(F, Closings, 7)
  <2>1. F[1] = Closings[1]
    <3>1. 1 \in 1 .. 7
      OBVIOUS
    <3>2. QED
      BY <1>1, <1>4, <3>1 DEF CloseNext
  <2>2. ASSUME NEW k \in 2 .. 7, F[k - 1] = Closings[k - 1]
        PROVE  F[k] = Closings[k]
    <3>1. k \in 1 .. 7 /\ k # 1
      OBVIOUS
    <3>2. CloseNext(F, k) = CloseNext(Closings, k)
      BY <2>2, <3>1 DEF CloseNext
    <3>3. QED
      BY <1>1, <1>4, <3>1, <3>2
  <2>3. QED
    BY <2>1, <2>2 DEF GoAlikeFromOne
<1>6. F[7] = Closings[7]
  <2>1. 7 \in Nat /\ 7 \in 1 .. 7
    OBVIOUS
  <2>2. \A k \in 1 .. 7 : F[k] = Closings[k]
    BY <1>5, <2>1, SameFromOne
  <2>3. QED
    BY <2>1, <2>2
<1>7. F[7] = Fds(8, 7)
  BY <1>6 DEF Closings
<1>8. NewFds = Fds(8, 7)
  <2>1. 8 \in Int /\ 8 - 1 = 7
    OBVIOUS
  <2>2. QED
    BY <2>1, NewFdsAre
<1>9. QED
  BY <1>2, <1>7, <1>8

(* The calls with descriptors that are not open, or not for that.          *)
LEMMA SysRefuses ==
  /\ \A fd : fd \notin Fd => AllFail(NewFds, fd)
  /\ err_unopened(NewFds) /\ err_stdin_out(NewFds) /\ err_vidmap
  /\ err_syscall_num
<1>1. /\ NewFds[0] = "stdin" /\ NewFds[1] = "stdout"
      /\ \A fd \in Fd : fd >= 2 => NewFds[fd] = "none"
  BY DEF NewFds, Fd, FD_PER_PROC
<1>2. \A fd : fd \in Fd <=> fd \in 0 .. 7
  BY DEF Fd, FD_PER_PROC
<1>3. ASSUME NEW fd, fd \notin Fd PROVE AllFail(NewFds, fd)
  BY <1>3 DEF AllFail, syscall_read, syscall_write, syscall_close, Refuses,
              Closable
<1>4. ASSUME NEW fd \in Fd PROVE syscall_close(NewFds, fd).ret = -1
  <2>1. ~Closable(NewFds, fd)
    BY <1>1 DEF Closable
  <2>2. QED
    BY <2>1 DEF syscall_close
<1>5. ASSUME NEW fd \in Fd \ {0, 1}
      PROVE  syscall_read(NewFds, fd, UserStart, 1) = -1
             /\ syscall_write(NewFds, fd, UserStart, 1) = -1
  <2>1. fd >= 2
    BY <1>2
  <2>2. NewFds[fd] = "none"
    BY <1>1, <2>1
  <2>3. QED
    BY <2>2 DEF syscall_read, syscall_write, Refuses
<1>6. err_unopened(NewFds)
  BY <1>4, <1>5, Zenon DEF err_unopened
<1>7. err_stdin_out(NewFds)
  BY <1>1 DEF err_stdin_out, syscall_read, syscall_write
<1>8. err_vidmap
  <2>1. UserStart \in Nat /\ ~(UserStart - 1 >= UserStart)
    BY WidthAssumption
  <2>2. ~check_user_bounds(UserStart - 1, 4)
    BY <2>1 DEF check_user_bounds
  <2>3. QED
    BY <2>2 DEF err_vidmap, syscall_vidmap
<1>9. err_syscall_num
  <2>1. \A num \in {0, 2 ^ 30 - 1, 2 ^ 30 + 1} : num = 0 \/ num > 10
    <3>1. 2 ^ 30 - 1 > 10 /\ 2 ^ 30 + 1 > 10
      OBVIOUS
    <3>2. QED
      BY <3>1, Zenon
  <2>2. ASSUME NEW num, num = 0 \/ num > 10 PROVE call_sys(num) = <<-1>>
    <3> DEFINE regs == [eax |-> num, ebx |-> "b", ecx |-> "c", edx |-> "d"]
    <3>1. regs["eax"] = num
      OBVIOUS
    <3> HIDE DEF regs
    <3>2. TrapFrames!syscall_handler(regs) = <<-1>>
      BY <2>2, <3>1 DEF TrapFrames!syscall_handler, TrapFrames!NUM_SYSCALLS
    <3>3. QED
      BY <3>2 DEF call_sys, regs
  <2>3. QED
    BY <2>1, <2>2, Zenon DEF err_syscall_num
<1>10. QED
  BY <1>3, <1>6, <1>7, <1>8, <1>9

LEMMA SysOpensOneShort == ASSUME SysImage PROVE err_open_lots(NewFds)
<1>1. ASSUME NEW k \in 1 .. 7
      PROVE  OpenedLots(NewFds)[k].ret = -1 <=> k = 7
  <2>1. k \in 0 .. 7 /\ (k \in 1 .. 6 \/ k = 7)
    OBVIOUS
  <2>2. OpenedLots(NewFds)[k] = Lots[k]
    BY <2>1, OpensLots
  <2>3. CASE k = 7
    BY <2>2, <2>3, LotsOf
  <2>4. CASE k \in 1 .. 6
    <3>1. Lots[k].ret = k + 1
      BY <2>4, LotsOf
    <3>2. QED
      BY <2>2, <2>4, <3>1
  <2>5. QED
    BY <2>1, <2>3, <2>4
<1>2. {k \in 1 .. 7 : OpenedLots(NewFds)[k].ret = -1} = {7}
  BY <1>1
<1>3. Cardinality({7}) = 1
  BY FS_Singleton
<1>4. QED
  BY <1>2, <1>3 DEF err_open_lots

LEMMA SysFindsNothing == ASSUME SysImage, NEW fds PROVE err_open(fds)
<1>1. \A n \in {Helloo, Shel, <<>>} : read_dentry_by_name(n) = Null
  BY DEF SysImage
<1>2. \A n : read_dentry_by_name(n) = Null => syscall_open(fds, n).ret = -1
  BY DEF syscall_open
<1>3. QED
  BY <1>1, <1>2, Zenon DEF err_open

(* What eight values make.                                                 *)
LEMMA Eight ==
  ASSUME NEW p1, NEW p2, NEW p3, NEW p4, NEW p5, NEW p6, NEW p7, NEW p8,
         NEW t, t = <<p1, p2, p3, p4, p5, p6, p7, p8>>
  PROVE  /\ t[1] = p1 /\ t[2] = p2 /\ t[3] = p3 /\ t[4] = p4
         /\ t[5] = p5 /\ t[6] = p6 /\ t[7] = p7 /\ t[8] = p8
OBVIOUS

LEMMA AllPassed ==
  ASSUME SysImage
  PROVE  {k \in DOMAIN Passed : ~Passed[k]} = {}
<1> DEFINE p1 == err_neg_fd(NewFds)
           p2 == err_big_fd(NewFds)
           p3 == err_open_lots(NewFds)
           p4 == err_open(NewFds)
           p5 == err_unopened(NewFds)
           p6 == err_vidmap
           p7 == err_stdin_out(NewFds)
           p8 == err_syscall_num
<1>1. Passed = <<p1, p2, p3, p4, p5, p6, p7, p8>>
  BY ClosesLots, Zenon DEF Passed
<1>2. -1 \notin Fd /\ FD_PER_PROC \notin Fd
  BY DEF Fd, FD_PER_PROC
<1>3. p1 /\ p2
  BY <1>2, SysRefuses, Zenon DEF err_neg_fd, err_big_fd
<1>4. p3 /\ p4
  BY SysOpensOneShort, SysFindsNothing, Zenon
<1>5. p5 /\ p6 /\ p7 /\ p8
  BY SysRefuses, Zenon
<1> HIDE DEF p1, p2, p3, p4, p5, p6, p7, p8
<1>6. DOMAIN Passed = 1 .. 8
  BY <1>1
<1>7. \A k \in DOMAIN Passed :
        k = 1 \/ k = 2 \/ k = 3 \/ k = 4 \/ k = 5 \/ k = 6 \/ k = 7 \/ k = 8
  BY <1>6
<1>8. Passed[1] /\ Passed[2]
  <2>1. Passed[1] = p1
    BY <1>1, Eight, Zenon
  <2>2. Passed[2] = p2
    BY <1>1, Eight, Zenon
  <2>3. QED
    BY <1>3, <2>1, <2>2, Zenon
<1>9. Passed[3] /\ Passed[4]
  <2>1. Passed[3] = p3
    BY <1>1, Eight, Zenon
  <2>2. Passed[4] = p4
    BY <1>1, Eight, Zenon
  <2>3. QED
    BY <1>4, <2>1, <2>2, Zenon
<1>10. Passed[5] /\ Passed[6] /\ Passed[7] /\ Passed[8]
  <2>1. Passed[5] = p5
    BY <1>1, Eight, Zenon
  <2>2. Passed[6] = p6
    BY <1>1, Eight, Zenon
  <2>3. Passed[7] = p7
    BY <1>1, Eight, Zenon
  <2>4. Passed[8] = p8
    BY <1>1, Eight, Zenon
  <2>5. QED
    BY <1>5, <2>1, <2>2, <2>3, <2>4, Zenon
<1>11. \A k \in DOMAIN Passed : Passed[k]
  BY <1>7, <1>8, <1>9, <1>10, Zenon
<1>12. QED
  BY <1>11, Zenon

(* The kernel passes syserr: what must fail fails, in the order in which   *)
(* the program opens and closes, on every image with such a directory.     *)
THEOREM SysErrPassesAlways == ProgSpec => []SysErrPasses
<1>1. ProgInit => SysErrPasses
  BY DEF ProgInit, SysErrPasses
<1>2. ASSUME ProgInv, SetupInv, SysErrPasses, [ProgNext]_allVars
      PROVE  SysErrPasses'
  <2>1. CASE SysErrRuns
    <3>1. /\ prog = "syserr"
          /\ status' = 2 * Cardinality({k \in DOMAIN Passed : ~Passed[k]})
      BY <2>1 DEF SysErrRuns, Does, Exit
    <3>2. {k \in DOMAIN Passed : ~Passed[k]} = {}
      BY <1>2, <3>1, SysFinds, AllPassed
    <3>3. Cardinality({}) = 0
      BY FS_EmptySet
    <3>4. status' = 0
      BY <3>1, <3>2, <3>3
    <3>5. QED
      BY <3>4 DEF SysErrPasses
  <2>2. CASE \/ prog = "any" /\ Next /\ UNCHANGED progVars
             \/ LsOpen \/ LsRead \/ LsWrite \/ CatOpen \/ CatRead \/ CatWrite
             \/ GrepStep \/ ShellStep
    <3>1. prog # "syserr"
      BY <2>2 DEF Does, LsOpen, LsRead, LsWrite, CatOpen, CatRead, CatWrite,
         GrepStep, GrepOpenDir, GrepReadDir, GrepDirEnds, GrepSkips,
         GrepEnters, GrepOpen, GrepRead, GrepGot, GrepCarries, GrepLine,
         GrepCloses, ShellStep, ShellReads, ShellExecutes, ShellRefused,
         ChildEnds, ShellReports
    <3>2. prog' = prog
      BY <1>2, WorldStays
    <3>3. QED
      BY <3>1, <3>2 DEF SysErrPasses
  <2>3. CASE ReadStep /\ UNCHANGED progVars
    BY <1>2, <2>3 DEF progVars, worldVars, SysErrPasses
  <2>4. CASE UNCHANGED allVars
    BY <1>2, <2>4 DEF allVars, progVars, worldVars, SysErrPasses
  <2>5. QED
    BY <1>2, <2>1, <2>2, <2>3, <2>4 DEF ProgNext
<1>3. QED
  BY <1>1, <1>2, ProgInvariance, SetupInvariance, PTL DEF ProgSpec

----------------------------------------------------------------------------
(* Sequences one after the other: what is added at the end comes last.     *)
FlatNext(s, f, k) == IF k = 1 THEN s[k] ELSE f[k - 1] \o s[k]

Flattens(V, s, n) ==
  \E f \in [1 .. n -> Seq(V)] : \A k \in 1 .. n : f[k] = FlatNext(s, f, k)

LEMMA Flat ==
  ASSUME NEW V, NEW N \in Nat, N >= 1, NEW s \in [1 .. N -> Seq(V)]
  PROVE  \E f \in [1 .. N -> Seq(V)] :
           /\ \A k \in 1 .. N : f[k] = FlatNext(s, f, k)
           /\ FlattenSeq(s) = f[N]
<1> DEFINE S == {k \in Nat : k + 1 =< N => Flattens(V, s, k + 1)}
<1>1. 0 \in S
  <2>1. 1 \in 1 .. N /\ s[1] \in Seq(V)
    OBVIOUS
  <2> DEFINE g == [j \in 1 .. 0 + 1 |-> s[1]]
  <2>2. g \in [1 .. 0 + 1 -> Seq(V)]
    BY <2>1
  <2>3. \A j \in 1 .. 0 + 1 : j = 1 /\ g[j] = s[1]
    OBVIOUS
  <2> HIDE DEF g
  <2>4. \A j \in 1 .. 0 + 1 : g[j] = FlatNext(s, g, j)
    BY <2>3 DEF FlatNext
  <2>5. QED
    BY <2>2, <2>4 DEF Flattens
<1>2. ASSUME NEW k \in Nat, k \in S PROVE k + 1 \in S
  <2>1. SUFFICES ASSUME (k + 1) + 1 =< N
                 PROVE  Flattens(V, s, (k + 1) + 1)
    OBVIOUS
  <2>2. k + 1 =< N /\ k + 2 \in 1 .. N /\ (k + 1) + 1 = k + 2 /\ k + 1 \in 1 .. k + 1
    BY <2>1
  <2>3. PICK g \in [1 .. k + 1 -> Seq(V)] :
          \A j \in 1 .. k + 1 : g[j] = FlatNext(s, g, j)
    BY <1>2, <2>2 DEF Flattens
  <2> DEFINE new == g[k + 1] \o s[k + 2]
             h == [j \in 1 .. k + 2 |-> IF j = k + 2 THEN new ELSE g[j]]
  <2>4. new \in Seq(V)
    <3>1. g[k + 1] \in Seq(V) /\ s[k + 2] \in Seq(V)
      BY <2>2
    <3>2. QED
      BY <3>1, ConcatProperties
  <2> HIDE DEF new
  <2>5. \A j \in 1 .. k + 2 : j # k + 2 => j \in 1 .. k + 1
    OBVIOUS
  <2>6. h \in [1 .. k + 2 -> Seq(V)]
    BY <2>4, <2>5
  <2>7. h[k + 2] = new /\ \A j \in 1 .. k + 1 : h[j] = g[j]
    OBVIOUS
  <2> HIDE DEF h
  <2>8. ASSUME NEW j \in 1 .. k + 2 PROVE h[j] = FlatNext(s, h, j)
    <3>1. CASE j = k + 2
      <4>1. j # 1 /\ j - 1 = k + 1
        BY <3>1
      <4>2. h[j - 1] = g[k + 1]
        BY <2>2, <2>7, <4>1
      <4>3. QED
        BY <2>7, <3>1, <4>1, <4>2 DEF FlatNext, new
    <3>2. CASE j # k + 2
      <4>1. j \in 1 .. k + 1
        BY <3>2
      <4>2. h[j] = FlatNext(s, g, j)
        BY <2>3, <2>7, <4>1
      <4>3. CASE j = 1
        BY <4>2, <4>3 DEF FlatNext
      <4>4. CASE j # 1
        <5>1. j - 1 \in 1 .. k + 1
          BY <4>1, <4>4
        <5>2. h[j - 1] = g[j - 1]
          BY <2>7, <5>1
        <5>3. QED
          BY <4>2, <4>4, <5>2 DEF FlatNext
      <4>5. QED
        BY <4>3, <4>4
    <3>3. QED
      BY <3>1, <3>2
  <2>9. QED
    BY <2>2, <2>6, <2>8 DEF Flattens
<1>3. Nat \subseteq S
  <2> HIDE DEF S
  <2>1. QED
    BY <1>1, <1>2, SetInduction
<1>4. PICK g \in [1 .. N -> Seq(V)] : \A k \in 1 .. N : g[k] = FlatNext(s, g, k)
  <2>1. N - 1 \in Nat /\ (N - 1) + 1 = N
    OBVIOUS
  <2>2. N - 1 \in S
    <3> HIDE DEF S
    <3>1. QED
      BY <1>3, <2>1
  <2>3. Flattens(V, s, N)
    BY <2>1, <2>2
  <2>4. QED
    BY <2>3 DEF Flattens
<1>5. Len(s) = N /\ Len(s) # 0
  OBVIOUS
<1>6. g = [k \in 1 .. Len(s) |-> FlatNext(s, g, k)]
  <2>1. g = [k \in 1 .. N |-> g[k]]
    OBVIOUS
  <2>2. g = [k \in 1 .. N |-> FlatNext(s, g, k)]
    BY <1>4, <2>1, Zenon
  <2>3. QED
    BY <1>5, <2>2, Zenon
<1> DEFINE F == CHOOSE f : f = [k \in 1 .. Len(s) |-> FlatNext(s, f, k)]
<1>7. F = [k \in 1 .. Len(s) |-> FlatNext(s, F, k)]
  BY <1>6, Zenon
<1>8. FlattenSeq(s) = F[Len(s)]
  BY <1>5, Zenon DEF FlattenSeq, FlatNext
<1> HIDE DEF F
<1>9. \A k \in 1 .. N : F[k] = FlatNext(s, F, k)
  BY <1>5, <1>7
<1>10. 1 \in 1 .. N /\ F[1] = g[1]
  BY <1>4, <1>9 DEF FlatNext
<1>11. ASSUME NEW k \in 2 .. N, F[k - 1] = g[k - 1] PROVE F[k] = g[k]
  <2>1. k \in 1 .. N /\ k # 1
    OBVIOUS
  <2>2. F[k] = F[k - 1] \o s[k] /\ g[k] = g[k - 1] \o s[k]
    BY <1>4, <1>9, <2>1 DEF FlatNext
  <2>3. QED
    BY <1>11, <2>2
<1>12. F[N] = g[N]
  <2>0. GoAlikeFromOne(F, g, N)
    BY <1>10, <1>11 DEF GoAlikeFromOne
  <2>1. \A k \in 1 .. N : F[k] = g[k]
    BY <2>0, SameFromOne
  <2>2. N \in 1 .. N
    OBVIOUS
  <2>3. QED
    BY <2>1, <2>2
<1>13. QED
  BY <1>4, <1>5, <1>8, <1>12

LEMMA FlatLonger ==
  ASSUME NEW V, NEW N \in Nat, NEW s \in [1 .. N + 1 -> Seq(V)],
         NEW t \in [1 .. N -> Seq(V)], \A k \in 1 .. N : t[k] = s[k]
  PROVE  /\ FlattenSeq(s) = FlattenSeq(t) \o s[N + 1]
         /\ FlattenSeq(t) \in Seq(V)
<1>1. N + 1 \in Nat /\ N + 1 >= 1 /\ N + 1 \in 1 .. N + 1 /\ s[N + 1] \in Seq(V)
  OBVIOUS
<1>2. PICK f \in [1 .. N + 1 -> Seq(V)] :
        /\ \A k \in 1 .. N + 1 : f[k] = FlatNext(s, f, k)
        /\ FlattenSeq(s) = f[N + 1]
  BY <1>1, Flat
<1>3. CASE N = 0
  <2>1. t = <<>> /\ Len(t) = 0
    BY <1>3
  <2>2. FlattenSeq(t) = <<>>
    BY <2>1 DEF FlattenSeq
  <2>3. FlattenSeq(s) = s[N + 1]
    BY <1>1, <1>2, <1>3 DEF FlatNext
  <2>4. <<>> \o s[N + 1] = s[N + 1] /\ <<>> \in Seq(V)
    BY <1>1, ConcatEmptySeq, EmptySeq
  <2>5. QED
    BY <2>2, <2>3, <2>4
<1>4. CASE N >= 1
  <2>1. PICK g \in [1 .. N -> Seq(V)] :
          /\ \A k \in 1 .. N : g[k] = FlatNext(t, g, k)
          /\ FlattenSeq(t) = g[N]
    BY <1>4, Flat
  <2>2. 1 \in 1 .. N /\ 1 \in 1 .. N + 1 /\ f[1] = g[1]
    BY <1>2, <1>4, <2>1 DEF FlatNext
  <2>3. ASSUME NEW k \in 2 .. N, f[k - 1] = g[k - 1] PROVE f[k] = g[k]
    <3>1. k \in 1 .. N /\ k \in 1 .. N + 1 /\ k # 1
      OBVIOUS
    <3>2. f[k] = f[k - 1] \o s[k] /\ g[k] = g[k - 1] \o t[k] /\ t[k] = s[k]
      BY <1>2, <2>1, <3>1 DEF FlatNext
    <3>3. QED
      BY <2>3, <3>2
  <2>4. f[N] = g[N]
    <3>0. GoAlikeFromOne(f, g, N)
      BY <2>2, <2>3 DEF GoAlikeFromOne
    <3>1. ASSUME NEW x, NEW y, GoAlikeFromOne(x, y, N)
          PROVE  \A k \in 1 .. N : x[k] = y[k]
      BY <3>1, SameFromOne
    <3>2. N \in 1 .. N
      BY <1>4
    <3>3. QED
      BY <3>0, <3>1, <3>2
  <2>5. N + 1 # 1 /\ (N + 1) - 1 = N /\ N \in 1 .. N
    BY <1>4
  <2>6. f[N + 1] = f[N] \o s[N + 1]
    BY <1>1, <1>2, <2>5 DEF FlatNext
  <2>7. g[N] \in Seq(V)
    BY <2>5
  <2>8. QED
    BY <1>2, <2>1, <2>4, <2>6, <2>7
<1>5. QED
  BY <1>3, <1>4

----------------------------------------------------------------------------
(* cat and ls.                                                             *)
NameOf(d) == [k \in 1 .. FS_MAX_FNAME_LEN |-> image.dentries[d - 1].filename[k - 1]]

NamesTo(end, n) == FlattenSeq([d \in 1 .. n |-> NameOf(d) \o end])

(* What a file begins with.                                                *)
TextTo(f, n) == [k \in 1 .. n |-> contents[FileByte(f, k - 1)]]

LEMMA NamesGrow ==
  ASSUME NEW n \in Nat, NEW end \in {<<>>, <<NL>>}
  PROVE  /\ NamesTo(end, 0) = <<>>
         /\ NamesTo(<<>>, n + 1) = NamesTo(<<>>, n) \o NameOf(n + 1)
         /\ NamesTo(<<NL>>, n + 1) = NamesTo(<<NL>>, n) \o Append(NameOf(n + 1), NL)
<1> DEFINE V == {NL} \cup {image.dentries[d].filename[k] : d \in Int, k \in Int}
<1>0. FS_MAX_FNAME_LEN \in Nat
  BY Positions
<1>1. \A d \in Nat : NameOf(d) \in Seq(V)
  <2> TAKE d \in Nat
  <2>1. \A k \in 1 .. FS_MAX_FNAME_LEN : k - 1 \in Int /\ d - 1 \in Int
    OBVIOUS
  <2>2. \A k \in 1 .. FS_MAX_FNAME_LEN :
          image.dentries[d - 1].filename[k - 1] \in V
    BY <2>1
  <2> HIDE DEF V
  <2>3. NameOf(d) \in [1 .. FS_MAX_FNAME_LEN -> V]
    BY <2>2 DEF NameOf
  <2>4. QED
    BY <1>0, <2>3
<1>2. <<>> \in Seq(V) /\ <<NL>> \in Seq(V) /\ NL \in V
  <2>1. NL \in V
    OBVIOUS
  <2> HIDE DEF V
  <2>2. QED
    BY <2>1
<1> HIDE DEF V
<1>3. ASSUME NEW e \in {<<>>, <<NL>>}
      PROVE  NamesTo(e, n + 1) = NamesTo(e, n) \o (NameOf(n + 1) \o e)
  <2> DEFINE s == [d \in 1 .. n + 1 |-> NameOf(d) \o e]
             t == [d \in 1 .. n |-> NameOf(d) \o e]
  <2>1. \A d \in Nat : NameOf(d) \o e \in Seq(V)
    BY <1>1, <1>2, <1>3, ConcatProperties
  <2>2. s \in [1 .. n + 1 -> Seq(V)] /\ t \in [1 .. n -> Seq(V)]
    BY <2>1
  <2>3. \A k \in 1 .. n : t[k] = s[k]
    OBVIOUS
  <2>4. s[n + 1] = NameOf(n + 1) \o e
    OBVIOUS
  <2>5. NamesTo(e, n + 1) = FlattenSeq(s) /\ NamesTo(e, n) = FlattenSeq(t)
    BY Zenon DEF NamesTo
  <2> HIDE DEF s, t
  <2>6. FlattenSeq(s) = FlattenSeq(t) \o s[n + 1]
    BY <2>2, <2>3, FlatLonger
  <2>7. QED
    BY <2>4, <2>5, <2>6, Zenon
<1>4. NamesTo(end, 0) = <<>>
  <2> DEFINE s == [d \in 1 .. 0 |-> NameOf(d) \o end]
  <2>1. s = <<>> /\ Len(s) = 0
    OBVIOUS
  <2>2. NamesTo(end, 0) = FlattenSeq(s)
    BY Zenon DEF NamesTo
  <2> HIDE DEF s
  <2>3. QED
    BY <2>1, <2>2 DEF FlattenSeq
<1>5. n + 1 \in Nat /\ NameOf(n + 1) \in Seq(V)
  BY <1>1
<1>6. NameOf(n + 1) \o <<>> = NameOf(n + 1)
  BY <1>5, ConcatEmptySeq
<1>7. NameOf(n + 1) \o <<NL>> = Append(NameOf(n + 1), NL)
  BY <1>2, <1>5, AppendIsConcat
<1>8. QED
  BY <1>3, <1>4, <1>6, <1>7, Zenon

LEMMA TextGrows ==
  ASSUME NEW f, NEW n \in Nat, NEW m \in Nat
  PROVE  /\ TextTo(f, 0) = <<>> /\ Len(TextTo(f, n)) = n
         /\ \A k \in 1 .. n : TextTo(f, n)[k] = contents[FileByte(f, k - 1)]
         /\ TextTo(f, n) \o [k \in 1 .. m |-> contents[BytesOf(f, n, m)[k]]]
              = TextTo(f, n + m)
<1> DEFINE C == {contents[FileByte(f, x)] : x \in Nat}
           s == TextTo(f, n)
           t == [k \in 1 .. m |-> contents[BytesOf(f, n, m)[k]]]
           u == TextTo(f, n + m)
<1>1. \A x \in Nat : contents[FileByte(f, x)] \in C
  OBVIOUS
<1> HIDE DEF C
<1>2. \A l \in Nat : /\ TextTo(f, l) \in Seq(C) /\ Len(TextTo(f, l)) = l
                     /\ \A k \in 1 .. l :
                          TextTo(f, l)[k] = contents[FileByte(f, k - 1)]
  <2> TAKE l \in Nat
  <2>1. \A k \in 1 .. l : contents[FileByte(f, k - 1)] \in C
    <3> TAKE k \in 1 .. l
    <3>1. k - 1 \in Nat
      OBVIOUS
    <3>2. QED
      BY <1>1, <3>1
  <2>2. TextTo(f, l) \in [1 .. l -> C]
        /\ \A k \in 1 .. l : TextTo(f, l)[k] = contents[FileByte(f, k - 1)]
    BY <2>1 DEF TextTo
  <2>3. Len(TextTo(f, l)) = l
    BY <2>2
  <2>4. QED
    BY <2>2, <2>3
<1>3. \A k \in 1 .. m : t[k] = contents[FileByte(f, n + k - 1)]
  <2>1. \A k \in 1 .. m : BytesOf(f, n, m)[k] = FileByte(f, n + k - 1)
    BY BytesSeq
  <2>2. QED
    BY <2>1
<1>4. t \in Seq(C) /\ Len(t) = m
  <2>1. \A k \in 1 .. m : t[k] \in C
    <3> TAKE k \in 1 .. m
    <3>1. n + k - 1 \in Nat
      OBVIOUS
    <3>2. QED
      BY <1>1, <1>3, <3>1
  <2>2. t = [k \in 1 .. m |-> t[k]]
    OBVIOUS
  <2>3. DOMAIN t = 1 .. m
    OBVIOUS
  <2> HIDE DEF t
  <2>4. t \in [1 .. m -> C]
    BY <2>1, <2>2, <2>3
  <2>5. QED
    BY <2>4
<1>5. /\ s \in Seq(C) /\ Len(s) = n /\ u \in Seq(C) /\ Len(u) = n + m
      /\ \A k \in 1 .. n : s[k] = contents[FileByte(f, k - 1)]
      /\ \A k \in 1 .. n + m : u[k] = contents[FileByte(f, k - 1)]
  <2>1. n + m \in Nat
    OBVIOUS
  <2>2. QED
    BY <1>2, <2>1
<1> HIDE DEF s, t, u
<1>6. /\ s \o t \in Seq(C) /\ Len(s \o t) = n + m
      /\ \A k \in 1 .. n + m : (s \o t)[k] = IF k =< n THEN s[k] ELSE t[k - n]
  BY <1>4, <1>5, ConcatProperties
<1>7. \A k \in 1 .. n + m : (s \o t)[k] = u[k]
  <2> TAKE k \in 1 .. n + m
  <2>1. CASE k =< n
    <3>1. k \in 1 .. n
      BY <2>1
    <3>2. QED
      BY <1>5, <1>6, <2>1, <3>1
  <2>2. CASE ~(k =< n)
    <3>1. k - n \in 1 .. m /\ n + (k - n) - 1 = k - 1
      BY <2>2
    <3>2. t[k - n] = contents[FileByte(f, n + (k - n) - 1)]
      BY <1>3, <3>1
    <3>3. t[k - n] = u[k]
      BY <1>5, <3>1, <3>2
    <3>4. QED
      BY <1>6, <2>2, <3>3
  <2>3. QED
    BY <2>1, <2>2
<1>8. s \o t = u
  BY <1>5, <1>6, <1>7, SeqEqual
<1>9. TextTo(f, 0) = <<>>
  <2>1. Len(TextTo(f, 0)) = 0 /\ TextTo(f, 0) \in Seq(C)
    BY <1>2
  <2>2. QED
    BY <2>1, EmptySeq
<1>10. QED
  BY <1>5, <1>8, <1>9 DEF s, t, u

(* What ls and cat print: the entry and the file, and what ends a name.    *)
Target == IF prog = "ls" THEN <<Dot>> ELSE args
End == IF prog = "ls" THEN <<NL>> ELSE <<>>
Item == image.dentries[Opened(Target)]
ItemFile == image.inodes[Item.inode]

(* What has been printed when the program reads on, and when a read has    *)
(* been asked for and may have returned.                                   *)
RtcPrinted ==
  prog = "cat" /\ out = <<>> /\ (step = "got" => pc = "user" /\ ret = 0)

DirPrinted ==
  /\ file_pos =< image.num_dentries
  /\ step = "read" => out = NamesTo(End, file_pos)
  /\ step = "got" =>
       /\ pc = "user"
       /\ \/ ret = 0 /\ file_pos = image.num_dentries
             /\ out = NamesTo(End, file_pos)
          \/ ret = FS_MAX_FNAME_LEN /\ file_pos >= 1
             /\ out = NamesTo(End, file_pos - 1)

FilePrinted ==
  /\ step = "read" =>
       /\ out = TextTo(ItemFile, file_pos)
       /\ \A p \in 0 .. file_pos - 1 : HasBlock(ItemFile, p)
  /\ step = "got" =>
       /\ call # Null /\ call.inode = inode
       /\ call.length = BUFSIZE /\ call.pos \in Nat
       /\ out = TextTo(ItemFile, call.pos)
       /\ \A p \in 0 .. call.pos - 1 : HasBlock(ItemFile, p)
       /\ pc = "user" => file_pos = call.pos + (IF ret > 0 THEN ret ELSE 0)

NothingPrinted == out = <<>> /\ (step = "got" => pc = "user" /\ ret = -1)

DescPrinted ==
  /\ prog = "cat" => args # <<>>
  /\ Opened(Target) # Null /\ kind = Item.type /\ inode = Item.inode
  /\ kind = "rtc" => RtcPrinted
  /\ kind = "directory" => DirPrinted
  /\ kind = "file" =>
       /\ prog = "cat"
       /\ IF inode < image.num_inode THEN FilePrinted ELSE NothingPrinted

PrintInv ==
  prog \in {"ls", "cat"} =>
    /\ step \in {"start", "read", "got", "exit"}
    /\ step = "start" => out = <<>>
    /\ step \in {"read", "got"} => DescPrinted
    /\ step = "exit" => ProgramsDeliver

(* What a program that exits should return and have printed.               *)
LsResult(st, o) ==
  \/ st = 0 /\ o = NamesTo(<<NL>>, image.num_dentries)
  \/ st = 2 /\ Opened(<<Dot>>) = Null

FileResult(f, st, o) ==
  IF Complete(f) THEN st = 0 /\ o = TextTo(f, f.file_length)
  ELSE /\ st = 3
       /\ \A k \in 1 .. Len(o) :
            HasBlock(f, k - 1) /\ o[k] = contents[FileByte(f, k - 1)]

ItemResult(entry, st, o) ==
  /\ entry.type = "rtc" => st = 0 /\ o = <<>>
  /\ entry.type = "directory" =>
       st = 0 /\ o = NamesTo(<<>>, image.num_dentries)
  /\ entry.type = "file" =>
       IF entry.inode >= image.num_inode THEN st = 3 /\ o = <<>>
       ELSE FileResult(image.inodes[entry.inode], st, o)

CatResult(st, o) ==
  IF args = <<>> THEN st = 3
  ELSE IF Opened(args) = Null THEN st = 2
  ELSE ItemResult(image.dentries[Opened(args)], st, o)

(* What the steps of a program leave.                                      *)
SameWorld ==
  image' = image /\ contents' = contents /\ prog' = prog /\ args' = args

LEMMA SameOpened ==
  ASSUME SameWorld
  PROVE  /\ \A s : Opened(s)' = Opened(s)
         /\ \A d : NameOf(d)' = NameOf(d)
         /\ \A e, n : NamesTo(e, n)' = NamesTo(e, n)
         /\ \A f, n : TextTo(f, n)' = TextTo(f, n)
         /\ \A f, p : HasBlock(f, p)' = HasBlock(f, p)
<1>1. image' = image /\ contents' = contents
  BY DEF SameWorld
<1>2. \A s : read_dentry_by_name(s)' = read_dentry_by_name(s)
  BY <1>1 DEF read_dentry_by_name, Entries
<1>3. \A s : Opened(s)' = Opened(s)
  BY <1>1, <1>2 DEF Opened
<1>4. \A d : NameOf(d)' = NameOf(d)
  BY <1>1 DEF NameOf
<1>5. \A e, n : NamesTo(e, n)' = NamesTo(e, n)
  BY <1>1 DEF NamesTo, NameOf
<1>6. \A f, n : TextTo(f, n)' = TextTo(f, n)
  BY <1>1 DEF TextTo, FileByte
<1>7. \A f, p : HasBlock(f, p)' = HasBlock(f, p)
  BY <1>1 DEF HasBlock
<1>8. QED
  BY <1>3, <1>4, <1>5, <1>6, <1>7

(* What opens has a type that can be opened.                               *)
LEMMA OpenedType ==
  ASSUME NEW s, Opened(s) # Null
  PROVE  /\ image.dentries[Opened(s)].type \in {"file", "directory", "rtc"}
         /\ Opened(s) = read_dentry_by_name(s)
<1>1. /\ Opened(s) = read_dentry_by_name(s)
      /\ Opens(image.dentries[read_dentry_by_name(s)])
  BY DEF Opened
<1>2. QED
  BY <1>1 DEF Opens

LEMMA CatDelivers ==
  ASSUME prog = "cat", CatResult(status, out)
  PROVE  ProgramsDeliver
<1> DEFINE entry == image.dentries[Opened(args)]
           f == image.inodes[entry.inode]
<1>1. CASE args = <<>> \/ Opened(args) = Null
  BY <1>1 DEF ProgramsDeliver, CatResult
<1>2. CASE args # <<>> /\ Opened(args) # Null
  <2>1. entry.type \in {"file", "directory", "rtc"}
    BY <1>2, OpenedType
  <2>2. ItemResult(entry, status, out)
    BY <1>2 DEF CatResult
  <2>3. /\ NamesTo(<<>>, image.num_dentries) = Names(<<>>)
        /\ TextTo(f, f.file_length) = Text(f)
    BY Zenon DEF NamesTo, NameOf, Names, TextTo, Text
  <2> DEFINE R == status = 0 /\ out = <<>>
             D == status = 0 /\ out = Names(<<>>)
             F == IF entry.inode >= image.num_inode
                  THEN status = 3 /\ out = <<>>
                  ELSE IF Complete(f) THEN status = 0 /\ out = Text(f)
                  ELSE /\ status = 3
                       /\ \A k \in 1 .. Len(out) :
                            HasBlock(f, k - 1)
                            /\ out[k] = contents[FileByte(f, k - 1)]
  <2>4. /\ entry.type = "rtc" => R
        /\ entry.type = "directory" => D
        /\ entry.type = "file" => F
    BY <2>2, <2>3 DEF ItemResult, FileResult
  <2>5. ProgramsDeliver <=>
          (step = "exit" => CASE entry.type = "rtc" -> R
                              [] entry.type = "directory" -> D
                              [] entry.type = "file" -> F)
    BY <1>2 DEF ProgramsDeliver
  <2> HIDE DEF entry, R, D, F
  <2>6. QED
    BY <2>1, <2>4, <2>5
<1>3. QED
  BY <1>1, <1>2

LEMMA LsDelivers ==
  ASSUME prog = "ls", LsResult(status, out)
  PROVE  ProgramsDeliver
<1>1. NamesTo(<<NL>>, image.num_dentries) = Names(<<NL>>)
  BY Zenon DEF NamesTo, NameOf, Names
<1>2. prog # "cat"
  OBVIOUS
<1>3. QED
  BY <1>1, <1>2 DEF ProgramsDeliver, LsResult

LEMMA SameResult ==
  ASSUME SameWorld
  PROVE  /\ LsResult(status', out') => LsResult(status, out)'
         /\ CatResult(status', out') => CatResult(status, out)'
<1>1. image' = image /\ contents' = contents /\ args' = args
  BY DEF SameWorld
<1>2. /\ \A s : Opened(s)' = Opened(s)
      /\ \A e, n : NamesTo(e, n)' = NamesTo(e, n)
      /\ \A f, n : TextTo(f, n)' = TextTo(f, n)
      /\ \A f, p : HasBlock(f, p)' = HasBlock(f, p)
  BY SameOpened
<1>3. LsResult(status', out') => LsResult(status, out)'
  BY <1>1, <1>2 DEF LsResult
<1>4. \A f : Complete(f)' = Complete(f)
  BY <1>2 DEF Complete
<1>5. \A f, p : FileByte(f, p)' = FileByte(f, p)
  BY DEF FileByte
<1>6. ASSUME NEW f, FileResult(f, status', out')
      PROVE  FileResult(f, status, out)'
  <2>1. /\ (f.file_length)' = f.file_length
        /\ TextTo(f, f.file_length)' = TextTo(f, f.file_length)
    BY <1>2
  <2>2. CASE Complete(f)
    BY <1>4, <1>6, <2>1, <2>2 DEF FileResult
  <2>3. CASE ~Complete(f)
    BY <1>1, <1>2, <1>4, <1>5, <1>6, <2>3 DEF FileResult
  <2>4. QED
    BY <2>2, <2>3
<1>7. ASSUME NEW entry, ItemResult(entry, status', out')
      PROVE  ItemResult(entry, status, out)'
  BY <1>1, <1>2, <1>6, <1>7 DEF ItemResult
<1>8. CatResult(status', out') => CatResult(status, out)'
  BY <1>1, <1>2, <1>7 DEF CatResult
<1>9. QED
  BY <1>3, <1>8

(* A program opens what it prints.                                         *)
LEMMA Opening ==
  ASSUME NEW s, IsCString(s)
  PROVE  /\ Open(s) =>
              /\ Opened(s) # Null /\ kind' = image.dentries[Opened(s)].type
              /\ inode' = image.dentries[Opened(s)].inode
              /\ file_pos' = 0 /\ image' = image
         /\ OpenRefused(s) => Opened(s) = Null /\ image' = image
<1>0. Len(s) \in Nat /\ FS_MAX_FNAME_LEN \in Nat
  BY WidthAssumption DEF IsCString
<1>1. Search(s) => found' = read_dentry_by_name(s)
  BY DEF Search
<1>2. ASSUME Open(s)
      PROVE  /\ Opened(s) # Null /\ kind' = image.dentries[Opened(s)].type
             /\ inode' = image.dentries[Opened(s)].inode
             /\ file_pos' = 0 /\ image' = image
  <2>1. /\ Len(s) =< FS_MAX_FNAME_LEN /\ found' = read_dentry_by_name(s)
        /\ found' # Null /\ Opens(image.dentries[found'])
        /\ kind' = image.dentries[found'].type
        /\ inode' = image.dentries[found'].inode
        /\ file_pos' = 0 /\ image' = image
    BY <1>1, <1>2 DEF Open
  <2>2. ~(Len(s) > FS_MAX_FNAME_LEN)
    BY <1>0, <2>1
  <2>3. Opened(s) = found'
    BY <2>1, <2>2 DEF Opened
  <2>4. QED
    BY <2>1, <2>3
<1>3. CASE OpenFails(s)
  <2>1. /\ found' = read_dentry_by_name(s) /\ image' = image
        /\ found' # Null => ~Opens(image.dentries[found'])
    BY <1>1, <1>3 DEF OpenFails
  <2>2. QED
    BY <1>2, <2>1 DEF Opened
<1>4. CASE NameTooLong(s)
  BY <1>2, <1>4 DEF NameTooLong, vars, Opened
<1>5. QED
  BY <1>2, <1>3, <1>4 DEF OpenRefused

LEMMA SameItem ==
  ASSUME SameWorld
  PROVE  /\ Target' = Target /\ End' = End /\ Item' = Item
         /\ ItemFile' = ItemFile
         /\ Opened(Target)' = Opened(Target)
<1>1. image' = image /\ prog' = prog /\ args' = args
  BY DEF SameWorld
<1>2. Target' = Target /\ End' = End
  BY <1>1 DEF Target, End
<1>3. \A s : Opened(s)' = Opened(s)
  BY SameOpened
<1>4. Opened(Target)' = Opened(Target)
  BY <1>2, <1>3
<1>5. Item' = Item
  BY <1>1, <1>4 DEF Item
<1>6. QED
  BY <1>1, <1>2, <1>4, <1>5 DEF ItemFile

LEMMA OpenPrints ==
  ASSUME ProgInv, SetupInv, SameWorld, prog \in {"ls", "cat"},
         prog = "cat" => args # <<>>,
         out = <<>>, out' = out, step' = "read", Open(Target)
  PROVE  PrintInv'
<1>1. IsCString(Target)
  BY DotString DEF ProgInv, StringsInv, Target
<1>2. /\ Opened(Target) # Null /\ kind' = Item.type /\ inode' = Item.inode
      /\ file_pos' = 0 /\ image' = image /\ prog' = prog /\ args' = args
  BY <1>1, Opening DEF Item, SameWorld
<1>3. image \in Images
  BY DEF ProgInv, Inv, TypeOK
<1>4. /\ Item' = Item /\ ItemFile' = ItemFile /\ End' = End
      /\ Opened(Target)' = Opened(Target)
  BY SameItem
<1>5. prog = "ls" => kind' = "directory"
  <2>1. SUFFICES ASSUME prog = "ls" PROVE kind' = "directory"
    OBVIOUS
  <2>2. PICK s \in Setups : s.prog = "ls" /\ image = s.image
    BY <2>1 DEF SetupInv
  <2>3. /\ Target = <<Dot>>
        /\ Opened(Target) = read_dentry_by_name(Target)
    BY <1>2, <2>1, OpenedType DEF Target
  <2>4. image.num_dentries \in Nat
    BY <1>3, ImageTypes
  <2>5. /\ Opened(Target) \in Entries
        /\ Named(image.dentries[Opened(Target)].filename, Target)
    BY <1>1, <1>2, <2>3, <2>4, Finding
  <2>6. Named(image.dentries[Opened(Target)].filename, <<Dot>>)
    BY <2>3, <2>5
  <2>7. Opened(Target) \in 0 .. s.image.num_dentries - 1
    BY <2>2, <2>5 DEF Entries
  <2>8. image.dentries[Opened(Target)].type = "directory"
    BY <2>2, <2>6, <2>7, ListAssumption, Zenon
  <2>9. QED
    BY <1>2, <2>8 DEF Item
<1>6. /\ \A e, n : NamesTo(e, n)' = NamesTo(e, n)
      /\ \A f, n : TextTo(f, n)' = TextTo(f, n)
      /\ \A f, p : HasBlock(f, p)' = HasBlock(f, p)
  BY SameOpened
<1>7. ASSUME kind' = "directory" PROVE DirPrinted'
  <2>1. image.num_dentries \in Nat
    BY <1>3, ImageTypes
  <2>2. NamesTo(End, 0) = <<>>
    <3>1. End \in {<<>>, <<NL>>} /\ 0 \in Nat
      BY DEF End
    <3>2. QED
      BY <3>1, NamesGrow
  <2>3. NamesTo(End, file_pos)' = NamesTo(End, 0)
    BY <1>2, <1>4, <1>6
  <2>4. QED
    BY <1>2, <2>1, <2>2, <2>3 DEF DirPrinted
<1>8. ASSUME kind' = "file" PROVE FilePrinted'
  <2>1. TextTo(ItemFile, 0) = <<>>
    <3>1. 0 \in Nat
      OBVIOUS
    <3>2. QED
      BY <3>1, TextGrows
  <2>2. TextTo(ItemFile, file_pos)' = TextTo(ItemFile, 0)
    BY <1>2, <1>4, <1>6
  <2>3. QED
    BY <1>2, <2>1, <2>2 DEF FilePrinted
<1>9. RtcPrinted' <=> prog = "cat"
  BY <1>2 DEF RtcPrinted
<1>10. DescPrinted'
  <2>1. /\ prog' = "cat" => args' # <<>>
        /\ Opened(Target)' # Null /\ kind' = Item' .type /\ inode' = Item' .inode
    BY <1>2, <1>4
  <2>2. kind' = "rtc" => RtcPrinted'
    BY <1>5, <1>9
  <2>3. (IF inode < image.num_inode THEN FilePrinted ELSE NothingPrinted)'
           <=> IF inode' < image'.num_inode THEN FilePrinted' ELSE NothingPrinted'
    OBVIOUS
  <2>4. NothingPrinted'
    BY DEF NothingPrinted
  <2>5. QED
    BY <1>2, <1>5, <1>7, <1>8, <2>1, <2>2, <2>4 DEF DescPrinted
<1>11. QED
  BY <1>10 DEF PrintInv

(* The buffers of the programs are in the user page.                       *)
LEMMA BufferFits ==
  ASSUME NEW n \in {FS_MAX_FNAME_LEN, BUFSIZE}
  PROVE  /\ n \in Nat /\ check_user_bounds(UserStart, n)
         /\ Least(n, FS_MAX_FNAME_LEN) = FS_MAX_FNAME_LEN
<1>1. /\ BUFSIZE \in Nat /\ UserStart + BUFSIZE =< UserEnd
      /\ FS_MAX_FNAME_LEN \in 1 .. BUFSIZE
      /\ UserStart \in Nat /\ UserEnd \in Nat /\ UserEnd < Word /\ Word \in Nat
  BY ProgramAssumption, WidthAssumption
<1>2. UserEnd - UserStart \in Uint
  BY <1>1 DEF Uint
<1>3. Sub(UserEnd, UserStart) = UserEnd - UserStart
  BY <1>1, <1>2, Unsigned
<1>4. n \in Nat /\ n =< BUFSIZE /\ FS_MAX_FNAME_LEN =< n
  BY <1>1
<1>5. QED
  BY <1>1, <1>3, <1>4 DEF check_user_bounds, Least

(* A read of a program that prints.                                        *)
LEMMA ReadPrints ==
  ASSUME ProgInv, SameWorld, prog \in {"ls", "cat"}, DescPrinted,
         step = "read", step' = "got", pc = "user", out' = out,
         NEW n, n = IF prog = "ls" THEN FS_MAX_FNAME_LEN ELSE BUFSIZE, Reads(n)
  PROVE  PrintInv'
<1>1. /\ n \in Nat /\ check_user_bounds(UserStart, n)
      /\ Least(n, FS_MAX_FNAME_LEN) = FS_MAX_FNAME_LEN
  <2>1. n \in {FS_MAX_FNAME_LEN, BUFSIZE}
    OBVIOUS
  <2>2. QED
    BY <2>1, BufferFits
<1>2. image' = image /\ prog' = prog /\ args' = args
  BY DEF SameWorld
<1>3. /\ Item' = Item /\ ItemFile' = ItemFile /\ End' = End
      /\ Opened(Target)' = Opened(Target)
  BY SameItem
<1>4. /\ \A e, k : NamesTo(e, k)' = NamesTo(e, k)
      /\ \A f, k : TextTo(f, k)' = TextTo(f, k)
      /\ \A f, p : HasBlock(f, p)' = HasBlock(f, p)
  BY SameOpened
<1>5. kind' = kind /\ inode' = inode
  BY DEF Reads, Read, ReadRefused, directory_read, RtcRead, fdVars
<1>6. /\ image \in Images /\ file_pos \in Uint /\ inode \in Uint
      /\ file_pos \in Nat
  BY Widths DEF ProgInv, Inv, TypeOK
<1>7. SUFFICES ASSUME TRUE
               PROVE  /\ kind = "rtc" => RtcPrinted'
                      /\ kind = "directory" => DirPrinted'
                      /\ kind = "file" =>
                           IF inode < image.num_inode
                           THEN FilePrinted' ELSE NothingPrinted'
  BY <1>2, <1>3, <1>5 DEF DescPrinted, PrintInv
<1>8. ASSUME kind = "rtc" PROVE RtcPrinted'
  <2>1. RtcRead
    BY <1>8 DEF Reads, Read, ReadRefused, directory_read
  <2>2. QED
    BY <1>2, <1>8, <2>1 DEF RtcRead, DescPrinted, RtcPrinted
<1>9. ASSUME kind = "directory" PROVE DirPrinted'
  <2>1. directory_read(UserStart, n)
    BY <1>1, <1>9 DEF Reads, Read, ReadRefused, RtcRead
  <2>2. image.num_dentries \in Nat /\ image.num_dentries \in Uint
    BY <1>6, ImageTypes
  <2>3. file_pos =< image.num_dentries /\ out = NamesTo(End, file_pos)
    BY <1>9 DEF DescPrinted, DirPrinted
  <2>4. CASE file_pos < image.num_dentries
    <3>1. file_pos + 1 \in Uint
      BY <1>6, <2>2, <2>4, WidthAssumption DEF Uint
    <3>2. Add(file_pos, 1) = file_pos + 1
      BY <1>6, <3>1, Unsigned
    <3>3. /\ file_pos' = file_pos + 1 /\ ret' = FS_MAX_FNAME_LEN /\ pc' = "user"
      BY <1>1, <2>1, <2>4, <3>2 DEF directory_read
    <3>4. NamesTo(End, file_pos - 1)' = NamesTo(End, file_pos)
      <4>1. NamesTo(End, file_pos - 1)' = NamesTo(End, file_pos' - 1)
        BY <1>3, <1>4
      <4>2. file_pos' - 1 = file_pos
        BY <1>6, <3>3
      <4>3. QED
        BY <4>1, <4>2
    <3>5. file_pos' =< image.num_dentries /\ file_pos' >= 1
      BY <1>6, <2>2, <2>4, <3>3
    <3>6. QED
      BY <1>2, <2>3, <3>3, <3>4, <3>5 DEF DirPrinted
  <2>5. CASE ~(file_pos < image.num_dentries)
    <3>1. file_pos' = file_pos /\ ret' = 0 /\ pc' = "user"
      BY <2>1, <2>5 DEF directory_read
    <3>2. file_pos = image.num_dentries
      BY <1>6, <2>2, <2>3, <2>5
    <3>3. NamesTo(End, file_pos)' = NamesTo(End, file_pos)
      BY <1>3, <1>4, <3>1
    <3>4. QED
      BY <1>2, <2>2, <2>3, <3>1, <3>2, <3>3 DEF DirPrinted
  <2>6. QED
    BY <2>4, <2>5
<1>10. ASSUME kind = "file", inode < image.num_inode PROVE FilePrinted'
  <2>1. Read(UserStart, n)
    <3>1. image.num_inode \in Nat /\ inode \in Nat
      BY <1>6, ImageTypes, Widths
    <3>2. ~(inode >= image.num_inode)
      BY <1>10, <3>1
    <3>3. QED
      BY <1>1, <1>10, <3>2 DEF Reads, ReadRefused, directory_read, RtcRead
  <2>2. /\ call' = [inode |-> inode, pos |-> file_pos, buf |-> UserStart,
                    length |-> n]
        /\ pc' = "file_read" /\ file_pos' = file_pos
    BY <2>1 DEF Read, StartRead, fdVars
  <2>3. call' # Null
    <3>1. UserStart \in Uint /\ n \in Uint
      <4>1. UserStart \in Uint
        BY WidthAssumption DEF Uint
      <4>2. QED
        BY <1>1, <4>1, Bounded
    <3>2. call' \in [inode : Uint, pos : Uint, buf : Uint, length : Uint]
      BY <1>6, <2>2, <3>1
    <3>3. QED
      BY <3>2, NameAssumption
  <2>4. /\ prog = "cat" /\ out = TextTo(ItemFile, file_pos)
        /\ \A p \in 0 .. file_pos - 1 : HasBlock(ItemFile, p)
    BY <1>10 DEF DescPrinted, FilePrinted
  <2>5. n = BUFSIZE
    BY <2>4
  <2>6. call'.inode = inode' /\ call'.length = BUFSIZE /\ call'.pos = file_pos
    BY <1>5, <2>2, <2>5
  <2>7. TextTo(ItemFile, call.pos)' = TextTo(ItemFile, file_pos)
    BY <1>3, <1>4, <2>6
  <2>8. \A p \in 0 .. call'.pos - 1 : HasBlock(ItemFile, p)'
    BY <1>3, <1>4, <2>4, <2>6
  <2>9. QED
    BY <1>6, <2>2, <2>3, <2>4, <2>6, <2>7, <2>8 DEF FilePrinted
<1>11. ASSUME kind = "file", ~(inode < image.num_inode) PROVE NothingPrinted'
  <2>1. ReadRefused(UserStart, n)
    BY <1>1, <1>11 DEF Reads, Read, directory_read, RtcRead
  <2>2. pc' = "user" /\ ret' = -1
    BY <2>1 DEF ReadRefused
  <2>3. out = <<>>
    BY <1>11 DEF DescPrinted, NothingPrinted
  <2>4. QED
    BY <2>2, <2>3 DEF NothingPrinted
<1>12. QED
  BY <1>8, <1>9, <1>10, <1>11

(* The kernel goes on with a read of a program that prints.                *)
LEMMA KernelPrints ==
  ASSUME ProgInv, SameWorld, PrintInv, prog \in {"ls", "cat"}, ReadStep,
         UNCHANGED progVars
  PROVE  PrintInv'
<1>1. /\ step \in {"start", "read", "got", "exit"} /\ step' = step
      /\ out' = out /\ prog' = prog /\ args' = args
  BY DEF PrintInv, progVars, worldVars, localVars
<1>2. pc \in Caller
  BY DEF ReadStep, CopyBlock, BlockMissing, ReadReturns, Loaded, Caller
<1>3. pc = "file_read" /\ step = "got"
  BY <1>1, <1>2 DEF ProgInv, PlaceInv, Caller
<1>4. ~Loaded /\ kind' = kind /\ inode' = inode /\ image' = image /\ call' = call
  BY <1>3 DEF ReadStep, CopyBlock, BlockMissing, ReadReturns, Loaded, fdVars,
     loopVars
<1>5. /\ kind = "file" /\ inode < image.num_inode /\ call.pos = file_pos
      /\ file_pos \in Nat
  BY <1>3, Widths DEF ProgInv, Inv, CallInv, TypeOK
<1>6. DescPrinted /\ FilePrinted
  BY <1>1, <1>3, <1>5 DEF PrintInv, DescPrinted
<1>7. /\ Item' = Item /\ ItemFile' = ItemFile /\ Opened(Target)' = Opened(Target)
  BY SameItem
<1>8. /\ \A f, k : TextTo(f, k)' = TextTo(f, k)
      /\ \A f, p : HasBlock(f, p)' = HasBlock(f, p)
  BY SameOpened
<1>9. pc' = "user" => file_pos' = call.pos + (IF ret' > 0 THEN ret' ELSE 0)
  <2>1. CASE CopyBlock
    BY <1>3, <2>1 DEF CopyBlock
  <2>2. CASE BlockMissing
    BY <1>5, <2>2 DEF BlockMissing, fdVars
  <2>3. CASE ReadReturns
    <3>1. /\ i \in Nat /\ offset = call.pos + i /\ offset =< File.file_length
          /\ File.file_length =< Word - 1 /\ offset \in Nat
          /\ File.file_length \in Nat
      BY <1>2, Reading DEF ProgInv
    <3>2. file_pos + i \in Uint
      BY <1>5, <3>1, WidthAssumption DEF Uint
    <3>3. Add(file_pos, i) = file_pos + i
      BY <1>5, <3>1, <3>2, Unsigned
    <3>4. ret' = i /\ file_pos' = IF i > 0 THEN file_pos + i ELSE file_pos
      BY <2>3, <3>3 DEF ReadReturns, AfterRead
    <3>5. QED
      BY <1>5, <3>1, <3>4
  <2>4. QED
    BY <1>4, <2>1, <2>2, <2>3 DEF ReadStep
<1>10. TextTo(ItemFile, call.pos)' = TextTo(ItemFile, call.pos)
  BY <1>4, <1>7, <1>8
<1>11. FilePrinted'
  BY <1>1, <1>3, <1>4, <1>6, <1>7, <1>8, <1>9, <1>10 DEF FilePrinted
<1>12. DescPrinted'
  BY <1>1, <1>4, <1>5, <1>6, <1>7, <1>11 DEF DescPrinted
<1>13. QED
  BY <1>1, <1>3, <1>12 DEF PrintInv

(* What a finished read of a file tells its program.                       *)
LEMMA WantedCount ==
  ASSUME ProgInv, call.pos \in Nat, call.length \in Nat
  PROVE  /\ Cardinality(Wanted(call)) \in Nat
         /\ Cardinality(Wanted(call)) = 0 <=> Wanted(call) = {}
<1>1. IsFiniteSet(call.pos .. call.pos + call.length - 1)
  <2>1. call.pos \in Int /\ call.pos + call.length - 1 \in Int
    OBVIOUS
  <2>2. QED
    BY <2>1, FS_Interval
<1>2. Wanted(call) \subseteq call.pos .. call.pos + call.length - 1
  BY DEF Wanted
<1>3. IsFiniteSet(Wanted(call))
  BY <1>1, <1>2, FS_Subset
<1>4. QED
  BY <1>3, FS_CardinalityType, FS_EmptySet

LEMMA FileRead ==
  ASSUME ProgInv, prog = "cat", step = "got", pc = "user", kind = "file",
         inode < image.num_inode, DescPrinted
  PROVE  LET f == image.inodes[inode]
         IN  /\ f = ItemFile /\ f.file_length \in Nat /\ file_pos \in Nat
             /\ out = TextTo(f, call.pos) /\ call.pos \in Nat
             /\ \A p \in 0 .. call.pos - 1 : HasBlock(f, p)
             /\ ret = 0 => file_pos = call.pos /\ file_pos = f.file_length
             /\ ret = -1 => ~Complete(f)
             /\ ret > 0 =>
                  /\ ret \in Nat /\ file_pos = call.pos + ret
                  /\ copied = BytesOf(f, call.pos, ret)
                  /\ \A p \in 0 .. file_pos - 1 : HasBlock(f, p)
<1> DEFINE f == image.inodes[inode]
           W == Wanted(call)
<1>1. /\ FilePrinted /\ inode = Item.inode
  BY DEF DescPrinted
<1>2. f = ItemFile
  BY <1>1 DEF ItemFile
<1>3. /\ call # Null /\ call.inode = inode /\ call.length = BUFSIZE
      /\ call.pos \in Nat /\ out = TextTo(f, call.pos)
      /\ \A p \in 0 .. call.pos - 1 : HasBlock(f, p)
      /\ file_pos = call.pos + (IF ret > 0 THEN ret ELSE 0)
  BY <1>1, <1>2 DEF FilePrinted
<1>4. /\ image \in Images /\ inode \in Uint /\ file_pos \in Uint
      /\ ret \in -1 .. Word - 1 /\ Word \in Nat
  BY Widths DEF ProgInv, Inv, TypeOK
<1>5. f.file_length \in Nat /\ file_pos \in Nat /\ ret \in Int
  BY <1>4, ImageTypes, Widths
<1>6. file_pos =< f.file_length
  BY DEF ProgInv, Inv, DescInv
<1>7. ret =< BUFSIZE
  BY DEF ProgInv, GotInv, Asked
<1>8. BUFSIZE \in Nat /\ BUFSIZE >= 1
  BY ProgramAssumption
<1>9. W = {p \in call.pos .. call.pos + BUFSIZE - 1 : p < f.file_length}
  BY <1>3 DEF Wanted
<1>10. IF \A p \in W : HasBlock(f, p)
       THEN ret = Cardinality(W) /\ copied = BytesOf(f, call.pos, ret)
       ELSE ret = -1
  BY <1>3 DEF ProgInv, Inv, ReadsAsAsked
<1>11. Cardinality(W) \in Nat /\ (Cardinality(W) = 0 <=> W = {})
  BY <1>3, <1>8, WantedCount
<1> HIDE DEF f, W
<1>12. ret = 0 => file_pos = call.pos /\ file_pos = f.file_length
  <2>1. SUFFICES ASSUME ret = 0
                 PROVE  file_pos = call.pos /\ file_pos = f.file_length
    OBVIOUS
  <2>2. W = {}
    BY <1>10, <1>11, <2>1
  <2>3. call.pos \in call.pos .. call.pos + BUFSIZE - 1
    BY <1>3, <1>8
  <2>4. ~(call.pos < f.file_length)
    BY <1>9, <2>2, <2>3
  <2>5. QED
    BY <1>3, <1>5, <1>6, <2>1, <2>4
<1>13. ret = -1 => ~Complete(f)
  <2>1. SUFFICES ASSUME ret = -1, Complete(f) PROVE FALSE
    OBVIOUS
  <2>2. \A p \in W : p \in 0 .. f.file_length - 1
    BY <1>3, <1>5, <1>8, <1>9
  <2>3. \A p \in W : HasBlock(f, p)
    BY <2>1, <2>2 DEF Complete
  <2>4. QED
    BY <1>10, <1>11, <2>1, <2>3
<1>14. ret > 0 =>
         /\ ret \in Nat /\ file_pos = call.pos + ret
         /\ copied = BytesOf(f, call.pos, ret)
         /\ \A p \in 0 .. file_pos - 1 : HasBlock(f, p)
  <2>1. SUFFICES ASSUME ret > 0
                 PROVE  /\ ret \in Nat /\ file_pos = call.pos + ret
                        /\ copied = BytesOf(f, call.pos, ret)
                        /\ \A p \in 0 .. file_pos - 1 : HasBlock(f, p)
    OBVIOUS
  <2>2. ret \in Nat /\ file_pos = call.pos + ret
    BY <1>3, <1>5, <2>1
  <2>3. ret # -1
    BY <2>1
  <2>4. (\A p \in W : HasBlock(f, p)) /\ copied = BytesOf(f, call.pos, ret)
    BY <1>10, <2>3
  <2>5. ASSUME NEW p \in 0 .. file_pos - 1 PROVE HasBlock(f, p)
    <3>1. CASE p < call.pos
      <4>1. p \in 0 .. call.pos - 1
        BY <1>3, <3>1
      <4>2. QED
        BY <1>3, <4>1 DEF f
    <3>2. CASE ~(p < call.pos)
      <4>1. p \in call.pos .. call.pos + BUFSIZE - 1 /\ p < f.file_length
        BY <1>3, <1>5, <1>6, <1>7, <1>8, <2>2, <3>2
      <4>2. p \in W
        BY <1>9, <4>1
      <4>3. QED
        BY <2>4, <4>2
    <3>3. QED
      BY <3>1, <3>2
  <2>6. QED
    BY <2>2, <2>4, <2>5
<1>15. QED
  BY <1>2, <1>3, <1>5, <1>12, <1>13, <1>14 DEF f

(* A program writes the name that it has read.                             *)
LEMMA NameWritten ==
  ASSUME kind = "directory", ret = FS_MAX_FNAME_LEN, file_pos \in Nat,
         file_pos >= 1
  PROVE  /\ ret > 0 /\ Got = NameOf(file_pos)
         /\ NamesTo(<<>>, file_pos - 1) \o Got = NamesTo(<<>>, file_pos)
         /\ NamesTo(<<NL>>, file_pos - 1) \o Append(Got, NL)
              = NamesTo(<<NL>>, file_pos)
<1>1. ret > 0 /\ ~(ret =< 0)
  BY ProgramAssumption
<1>2. kind # "file"
  OBVIOUS
<1>3. Got = NameOf(file_pos)
  <2> DEFINE G == [k \in 1 .. ret |-> image.dentries[file_pos - 1].filename[k - 1]]
  <2>1. Got = G
    BY <1>1, <1>2 DEF Got
  <2>2. QED
    BY <2>1 DEF NameOf
<1>4. file_pos - 1 \in Nat /\ (file_pos - 1) + 1 = file_pos
  OBVIOUS
<1>5. /\ NamesTo(<<>>, (file_pos - 1) + 1)
           = NamesTo(<<>>, file_pos - 1) \o NameOf((file_pos - 1) + 1)
      /\ NamesTo(<<NL>>, (file_pos - 1) + 1)
           = NamesTo(<<NL>>, file_pos - 1) \o Append(NameOf((file_pos - 1) + 1), NL)
  <2>1. <<>> \in {<<>>, <<NL>>}
    OBVIOUS
  <2>2. QED
    BY <1>4, <2>1, NamesGrow
<1>6. QED
  BY <1>1, <1>3, <1>4, <1>5

LEMMA WritePrints ==
  ASSUME ProgInv, SameWorld, UNCHANGED vars, prog \in {"ls", "cat"},
         step = "got", pc = "user", DescPrinted,
         \/ ret = 0 /\ Exit(0) /\ UNCHANGED out
         \/ ret = -1 /\ Exit(3) /\ UNCHANGED out
         \/ /\ ret > 0 /\ step' = "read"
            /\ out' = out \o (IF prog = "ls" THEN Append(Got, NL) ELSE Got)
  PROVE  \/ step' = "exit" /\ prog = "ls" /\ LsResult(status', out')
         \/ step' = "exit" /\ prog = "cat" /\ CatResult(status', out')
         \/ step' = "read" /\ DescPrinted'
<1>1. /\ image' = image /\ pc' = pc /\ ret' = ret /\ kind' = kind
      /\ call' = call /\ inode' = inode /\ file_pos' = file_pos
      /\ prog' = prog /\ args' = args
  BY DEF vars, fdVars, loopVars, SameWorld
<1>2. /\ image \in Images /\ file_pos \in Nat /\ inode \in Nat
      /\ image.num_inode \in Nat /\ image.num_dentries \in Nat
  <2>1. image \in Images /\ file_pos \in Uint /\ inode \in Uint
    BY DEF ProgInv, Inv, TypeOK
  <2>2. QED
    BY <2>1, Widths, ImageTypes
<1>3. /\ prog = "cat" => args # <<>>
      /\ Opened(Target) # Null /\ kind = Item.type /\ inode = Item.inode
      /\ kind \in {"file", "directory", "rtc"}
  BY OpenedType DEF DescPrinted, Item
<1>4. /\ Item' = Item /\ ItemFile' = ItemFile /\ End' = End
      /\ Opened(Target)' = Opened(Target)
  BY SameItem
<1>5. /\ \A e, k : NamesTo(e, k)' = NamesTo(e, k)
      /\ \A f, k : TextTo(f, k)' = TextTo(f, k)
      /\ \A f, p : HasBlock(f, p)' = HasBlock(f, p)
  BY SameOpened
<1>6. ASSUME prog = "cat", NEW st, NEW o, ItemResult(Item, st, o)
      PROVE  CatResult(st, o)
  BY <1>3, <1>6 DEF CatResult, Target, Item
<1>7. CASE kind = "rtc"
  <2>1. prog = "cat" /\ out = <<>> /\ ret = 0
    BY <1>7 DEF DescPrinted, RtcPrinted
  <2>2. step' = "exit" /\ status' = 0 /\ out' = <<>>
    BY <2>1 DEF Exit
  <2>3. ItemResult(Item, status', out')
    BY <1>3, <1>7, <2>2 DEF ItemResult
  <2>4. QED
    BY <1>6, <2>1, <2>2, <2>3
<1>8. CASE kind = "directory"
  <2>1. \/ ret = 0 /\ file_pos = image.num_dentries
           /\ out = NamesTo(End, file_pos)
        \/ ret = FS_MAX_FNAME_LEN /\ file_pos >= 1
           /\ out = NamesTo(End, file_pos - 1)
    BY <1>8 DEF DescPrinted, DirPrinted
  <2>2. CASE ret = 0 /\ file_pos = image.num_dentries
             /\ out = NamesTo(End, file_pos)
    <3>1. /\ step' = "exit" /\ status' = 0
          /\ out' = NamesTo(End, image.num_dentries)
      BY <2>2 DEF Exit
    <3>2. CASE prog = "ls"
      BY <3>1, <3>2 DEF LsResult, End
    <3>3. CASE prog = "cat"
      <4>1. ItemResult(Item, status', out')
        BY <1>3, <1>8, <3>1, <3>3 DEF ItemResult, End
      <4>2. QED
        BY <1>6, <3>1, <3>3, <4>1
    <3>4. QED
      BY <3>2, <3>3
  <2>3. CASE ret = FS_MAX_FNAME_LEN /\ file_pos >= 1
             /\ out = NamesTo(End, file_pos - 1)
    <3>1. /\ ret > 0
          /\ NamesTo(<<>>, file_pos - 1) \o Got = NamesTo(<<>>, file_pos)
          /\ NamesTo(<<NL>>, file_pos - 1) \o Append(Got, NL)
               = NamesTo(<<NL>>, file_pos)
      BY <1>2, <1>8, <2>3, NameWritten
    <3>2. step' = "read" /\ out' = out \o (IF prog = "ls" THEN Append(Got, NL) ELSE Got)
      BY <3>1
    <3>3. out' = NamesTo(End, file_pos)
      <4>1. CASE prog = "ls"
        BY <2>3, <3>1, <3>2, <4>1 DEF End
      <4>2. CASE prog # "ls"
        BY <2>3, <3>1, <3>2, <4>2 DEF End
      <4>3. QED
        BY <4>1, <4>2
    <3>4. NamesTo(End, file_pos)' = NamesTo(End, file_pos)
      BY <1>1, <1>4, <1>5
    <3>5. file_pos =< image.num_dentries
      BY <1>8 DEF DescPrinted, DirPrinted
    <3>6. DirPrinted'
      BY <1>1, <3>2, <3>3, <3>4, <3>5 DEF DirPrinted
    <3>7. DescPrinted'
      BY <1>1, <1>3, <1>4, <1>8, <3>6 DEF DescPrinted
    <3>8. QED
      BY <3>2, <3>7
  <2>4. QED
    BY <2>1, <2>2, <2>3
<1>9. CASE kind = "file" /\ ~(inode < image.num_inode)
  <2>1. prog = "cat" /\ out = <<>> /\ ret = -1
    BY <1>9 DEF DescPrinted, NothingPrinted
  <2>2. step' = "exit" /\ status' = 3 /\ out' = <<>>
    BY <2>1 DEF Exit
  <2>3. Item.inode >= image.num_inode
    BY <1>2, <1>3, <1>9
  <2>4. ItemResult(Item, status', out')
    BY <1>3, <1>9, <2>2, <2>3 DEF ItemResult
  <2>5. QED
    BY <1>6, <2>1, <2>2, <2>4
<1>10. CASE kind = "file" /\ inode < image.num_inode
  <2> DEFINE f == image.inodes[inode]
  <2>1. prog = "cat" /\ FilePrinted
    BY <1>10 DEF DescPrinted
  <2>2. /\ f = ItemFile /\ f.file_length \in Nat
        /\ out = TextTo(f, call.pos) /\ call.pos \in Nat
        /\ \A p \in 0 .. call.pos - 1 : HasBlock(f, p)
        /\ ret = 0 => file_pos = call.pos /\ file_pos = f.file_length
        /\ ret = -1 => ~Complete(f)
        /\ ret > 0 =>
             /\ ret \in Nat /\ file_pos = call.pos + ret
             /\ copied = BytesOf(f, call.pos, ret)
             /\ \A p \in 0 .. file_pos - 1 : HasBlock(f, p)
    BY <1>10, <2>1, FileRead
  <2>3. ASSUME NEW st, NEW o, FileResult(f, st, o) PROVE CatResult(st, o)
    <3>1. ~(Item.inode >= image.num_inode) /\ image.inodes[Item.inode] = f
      BY <1>2, <1>3, <1>10
    <3>2. FileResult(image.inodes[Item.inode], st, o)
      BY <2>3, <3>1
    <3>3. Item.type = "file"
      BY <1>3, <1>10
    <3>4. ItemResult(Item, st, o)
      BY <3>1, <3>2, <3>3 DEF ItemResult
    <3>5. QED
      BY <1>6, <2>1, <3>4
  <2> HIDE DEF f
  <2>4. CASE ret = 0 /\ Exit(0) /\ UNCHANGED out
    <3>1. step' = "exit" /\ status' = 0 /\ out' = TextTo(f, f.file_length)
      BY <2>2, <2>4 DEF Exit
    <3>2. Complete(f)
      BY <2>2, <2>4 DEF Complete
    <3>3. FileResult(f, status', out')
      BY <3>1, <3>2 DEF FileResult
    <3>4. QED
      BY <2>1, <2>3, <3>1, <3>3
  <2>5. CASE ret = -1 /\ Exit(3) /\ UNCHANGED out
    <3>1. step' = "exit" /\ status' = 3 /\ out' = TextTo(f, call.pos)
          /\ ~Complete(f)
      BY <2>2, <2>5 DEF Exit
    <3>2. \A k \in 1 .. Len(out') :
            HasBlock(f, k - 1) /\ out'[k] = contents[FileByte(f, k - 1)]
      <4>1. /\ Len(TextTo(f, call.pos)) = call.pos
            /\ \A k \in 1 .. call.pos :
                 TextTo(f, call.pos)[k] = contents[FileByte(f, k - 1)]
        BY <2>2, TextGrows
      <4>2. \A k \in 1 .. call.pos : k - 1 \in 0 .. call.pos - 1
        BY <2>2
      <4>3. QED
        BY <2>2, <3>1, <4>1, <4>2
    <3>3. FileResult(f, status', out')
      BY <3>1, <3>2 DEF FileResult
    <3>4. QED
      BY <2>1, <2>3, <3>1, <3>3
  <2>6. CASE ret > 0 /\ step' = "read" /\ out' = out \o Got
    <3>1. Got = [k \in 1 .. ret |-> contents[BytesOf(f, call.pos, ret)[k]]]
      <4>1. ~(ret =< 0) /\ copied = BytesOf(f, call.pos, ret)
        BY <2>2, <2>6
      <4>2. Got = [k \in 1 .. ret |-> contents[copied[k]]]
        BY <1>10, <2>6, <4>1 DEF Got
      <4>3. QED
        BY <4>1, <4>2
    <3>2. TextTo(f, call.pos)
              \o [k \in 1 .. ret |-> contents[BytesOf(f, call.pos, ret)[k]]]
            = TextTo(f, call.pos + ret)
      <4>1. call.pos \in Nat /\ ret \in Nat
        BY <2>2, <2>6
      <4>2. QED
        BY <4>1, TextGrows
    <3>3. out' = TextTo(ItemFile, file_pos)
      BY <2>2, <2>6, <3>1, <3>2
    <3>4. TextTo(ItemFile, file_pos)' = TextTo(ItemFile, file_pos)
      BY <1>1, <1>4, <1>5
    <3>5. \A p \in 0 .. file_pos - 1 : HasBlock(ItemFile, p)
      BY <2>2, <2>6
    <3>6. FilePrinted'
      BY <1>1, <1>4, <1>5, <2>6, <3>3, <3>4, <3>5 DEF FilePrinted
    <3>7. DescPrinted'
      BY <1>1, <1>3, <1>4, <1>10, <2>1, <3>6 DEF DescPrinted
    <3>8. QED
      BY <2>6, <3>7
  <2>7. QED
    BY <2>1, <2>4, <2>5, <2>6
<1>11. QED
  BY <1>3, <1>7, <1>8, <1>9, <1>10

Printed ==
  \/ prog = "ls" /\ LsResult(status, out)
  \/ prog = "cat" /\ CatResult(status, out)

LEMMA Delivers == Printed => ProgramsDeliver
BY LsDelivers, CatDelivers DEF Printed

(* The end of a program that has printed all it should, or could.          *)
LEMMA Exits ==
  ASSUME SameWorld, step' = "exit",
         \/ prog = "ls" /\ LsResult(status', out')
         \/ prog = "cat" /\ CatResult(status', out')
  PROVE  PrintInv'
<1>1. prog' = prog
  BY DEF SameWorld
<1>2. Printed'
  BY <1>1, SameResult DEF Printed
<1>3. ProgramsDeliver'
  BY <1>2, Delivers, PTL
<1>4. QED
  BY <1>3 DEF PrintInv

LEMMA PrintBegin == ProgInit => PrintInv
<1> SUFFICES ASSUME ProgInit PROVE PrintInv
  OBVIOUS
<1>1. step = "start" /\ out = <<>>
  BY DEF ProgInit
<1>2. QED
  BY <1>1 DEF PrintInv

LEMMA PrintInductive ==
  ProgInv /\ SetupInv /\ PrintInv /\ [ProgNext]_allVars => PrintInv'
<1> SUFFICES ASSUME ProgInv, SetupInv, PrintInv, [ProgNext]_allVars
             PROVE  PrintInv'
  OBVIOUS
<1>1. image' = image /\ prog' = prog /\ contents' = contents
  BY WorldStays
<1>2. CASE prog \notin {"ls", "cat"}
  BY <1>1, <1>2 DEF PrintInv
<1>3. CASE prog \in {"ls", "cat"}
  <2>1. /\ step \in {"start", "read", "got", "exit"}
        /\ step = "start" => out = <<>>
        /\ step \in {"read", "got"} => DescPrinted
    BY <1>3 DEF PrintInv
  <2>2. CASE ReadStep /\ UNCHANGED progVars
    <3>1. SameWorld
      BY <1>1, <2>2 DEF SameWorld, progVars, localVars
    <3>2. QED
      BY <1>3, <2>2, <3>1, KernelPrints
  <2>3. CASE LsOpen
    <3>1. /\ step = "start" /\ prog = "ls" /\ pc = "user"
          /\ \/ Open(<<Dot>>) /\ step' = "read"
             \/ OpenRefused(<<Dot>>) /\ Exit(2)
          /\ out' = out /\ args' = args
      BY <2>3 DEF LsOpen, Does, localVars
    <3>2. SameWorld /\ Target = <<Dot>>
      BY <1>1, <3>1 DEF SameWorld, Target
    <3>3. CASE Open(<<Dot>>) /\ step' = "read"
      <4>1. Open(Target) /\ out = <<>> /\ prog # "cat"
        BY <2>1, <3>1, <3>2, <3>3
      <4>2. QED
        BY <1>3, <3>1, <3>2, <3>3, <4>1, OpenPrints
    <3>4. CASE OpenRefused(<<Dot>>) /\ Exit(2)
      <4>1. Opened(<<Dot>>) = Null
        BY <3>4, DotString, Opening
      <4>2. step' = "exit" /\ LsResult(status', out')
        BY <3>4, <4>1 DEF Exit, LsResult
      <4>3. QED
        BY <3>1, <3>2, <4>2, Exits
    <3>5. QED
      BY <3>1, <3>3, <3>4
  <2>4. CASE CatOpen
    <3>1. /\ step = "start" /\ prog = "cat" /\ pc = "user"
          /\ \/ args # <<>> /\ Open(args) /\ step' = "read"
             \/ args # <<>> /\ OpenRefused(args) /\ Exit(2)
             \/ args = <<>> /\ Exit(3)
          /\ out' = out /\ args' = args
      BY <2>4 DEF CatOpen, Does, HasArgs, localVars
    <3>2. SameWorld /\ Target = args
      BY <1>1, <3>1 DEF SameWorld, Target
    <3>3. CASE args # <<>> /\ Open(args) /\ step' = "read"
      <4>1. Open(Target) /\ out = <<>>
        BY <2>1, <3>1, <3>2, <3>3
      <4>2. QED
        BY <1>3, <3>1, <3>2, <3>3, <4>1, OpenPrints
    <3>4. CASE args # <<>> /\ OpenRefused(args) /\ Exit(2)
      <4>1. Opened(args) = Null
        BY <3>4, Opening DEF ProgInv, StringsInv
      <4>2. step' = "exit" /\ CatResult(status', out')
        BY <3>4, <4>1 DEF Exit, CatResult
      <4>3. QED
        BY <3>1, <3>2, <4>2, Exits
    <3>5. CASE args = <<>> /\ Exit(3)
      <4>1. step' = "exit" /\ CatResult(status', out')
        BY <3>5 DEF Exit, CatResult
      <4>2. QED
        BY <3>1, <3>2, <4>1, Exits
    <3>6. QED
      BY <3>1, <3>3, <3>4, <3>5
  <2>5. CASE LsRead \/ CatRead
    <3> DEFINE n == IF prog = "ls" THEN FS_MAX_FNAME_LEN ELSE BUFSIZE
    <3>1. /\ step = "read" /\ pc = "user" /\ Reads(n) /\ step' = "got"
          /\ out' = out /\ args' = args
      BY <2>5 DEF LsRead, CatRead, Does, localVars
    <3>2. SameWorld
      BY <1>1, <3>1 DEF SameWorld
    <3>3. DescPrinted
      BY <2>1, <3>1
    <3> HIDE DEF n
    <3>4. n = IF prog = "ls" THEN FS_MAX_FNAME_LEN ELSE BUFSIZE
      BY DEF n
    <3>5. QED
      BY <1>3, <3>1, <3>2, <3>3, <3>4, ReadPrints
  <2>6. CASE LsWrite \/ CatWrite
    <3>1. /\ step = "got" /\ pc = "user" /\ UNCHANGED vars
          /\ args' = args
          /\ \/ ret = 0 /\ Exit(0) /\ UNCHANGED out
             \/ ret = -1 /\ Exit(3) /\ UNCHANGED out
             \/ /\ ret > 0 /\ step' = "read"
                /\ out' = out \o (IF prog = "ls" THEN Append(Got, NL) ELSE Got)
      BY <2>6 DEF LsWrite, CatWrite, CatWritten, Does, localVars
    <3>2. SameWorld
      BY <1>1, <3>1 DEF SameWorld
    <3>3. DescPrinted
      BY <2>1, <3>1
    <3>4. \/ step' = "exit" /\ prog = "ls" /\ LsResult(status', out')
          \/ step' = "exit" /\ prog = "cat" /\ CatResult(status', out')
          \/ step' = "read" /\ DescPrinted'
      BY <1>3, <3>1, <3>2, <3>3, WritePrints
    <3>5. step' = "read" /\ DescPrinted' => PrintInv'
      BY DEF PrintInv
    <3>6. QED
      BY <3>2, <3>4, <3>5, Exits
  <2>7. CASE UNCHANGED allVars
    <3>1. /\ image' = image /\ contents' = contents /\ prog' = prog
          /\ args' = args /\ step' = step /\ out' = out /\ status' = status
          /\ pc' = pc /\ ret' = ret /\ kind' = kind /\ inode' = inode
          /\ file_pos' = file_pos /\ call' = call
      BY <2>7 DEF allVars, progVars, worldVars, localVars, vars, fdVars, loopVars
    <3>2. SameWorld
      BY <3>1 DEF SameWorld
    <3>3. PrintInv' <=> PrintInv
      <4>1. /\ Target' = Target /\ End' = End /\ Item' = Item
            /\ ItemFile' = ItemFile /\ Opened(Target)' = Opened(Target)
        BY <3>2, SameItem
      <4>2. /\ \A s : Opened(s)' = Opened(s)
            /\ \A e, k : NamesTo(e, k)' = NamesTo(e, k)
            /\ \A f, k : TextTo(f, k)' = TextTo(f, k)
            /\ \A f, p : HasBlock(f, p)' = HasBlock(f, p)
        BY <3>2, SameOpened
      <4>3. RtcPrinted' <=> RtcPrinted
        BY <3>1 DEF RtcPrinted
      <4>4. DirPrinted' <=> DirPrinted
        BY <3>1, <4>1, <4>2 DEF DirPrinted
      <4>5. FilePrinted' <=> FilePrinted
        BY <3>1, <4>1, <4>2 DEF FilePrinted
      <4>6. NothingPrinted' <=> NothingPrinted
        BY <3>1 DEF NothingPrinted
      <4>7. DescPrinted' <=> DescPrinted
        BY <3>1, <4>1, <4>3, <4>4, <4>5, <4>6 DEF DescPrinted
      <4>8. ProgramsDeliver' <=> ProgramsDeliver
        BY <3>1 DEF ProgramsDeliver, Names, Opened, read_dentry_by_name,
           Entries, Complete, HasBlock, Text, FileByte
      <4>9. QED
        BY <3>1, <4>7, <4>8 DEF PrintInv
    <3>4. QED
      BY <3>3
  <2>8. QED
    <3>1. prog # "any" /\ prog # "grep" /\ prog # "shell" /\ prog # "syserr"
      BY <1>3
    <3>2. ~GrepStep /\ ~ShellStep /\ ~SysErrRuns
      BY <3>1 DEF GrepStep, GrepOpenDir, GrepReadDir, GrepDirEnds, GrepSkips,
         GrepEnters, GrepOpen, GrepRead, GrepGot, GrepCarries, GrepLine,
         GrepCloses, ShellStep, ShellReads, ShellExecutes, ShellRefused,
         ChildEnds, ShellReports, SysErrRuns, Does
    <3>3. QED
      BY <2>2, <2>3, <2>4, <2>5, <2>6, <2>7, <3>1, <3>2 DEF ProgNext
<1>4. QED
  BY <1>2, <1>3

(* ProgramsDeliver: cat prints every byte of a file, in order, whatever    *)
(* its length and that of the blocks and of the buffer, or as much of it   *)
(* as comes before a block that is missing; ls every name of the directory *)
(* on a line.                                                              *)
THEOREM ProgramsDeliverAlways == ProgSpec => []ProgramsDeliver
<1>1. ProgInit => PrintInv
  BY PrintBegin
<1>2. ProgInv /\ SetupInv /\ PrintInv /\ [ProgNext]_allVars => PrintInv'
  BY PrintInductive
<1>3. PrintInv => ProgramsDeliver
  <2>1. CASE prog \in {"ls", "cat"} /\ step = "exit"
    BY <2>1 DEF PrintInv
  <2>2. CASE ~(prog \in {"ls", "cat"} /\ step = "exit")
    BY <2>2 DEF ProgramsDeliver
  <2>3. QED
    BY <2>1, <2>2
<1>4. QED
  BY <1>1, <1>2, <1>3, ProgInvariance, SetupInvariance, PTL DEF ProgSpec

----------------------------------------------------------------------------
(* grep.                                                                   *)
AllGreppable ==
  \A n \in 0 .. image.num_inode - 1 : Greppable(Text(image.inodes[n]))

(* The d-th name of the directory and the text of its file.                *)
NameAt(d) == UpToNul(NameOf(d))
EntryAt(d) == image.dentries[Opened(NameAt(d))]
TextAt(d) == Text(image.inodes[EntryAt(d).inode])

(* What a file can have in a report.                                       *)
LinesOf(name, t) == {[name |-> name, line |-> LineAt(t, k)] : k \in Nat}
Reported == UNION {LinesOf(NameAt(d), TextAt(d)) : d \in Nat}

(* What has been printed after n entries.                                  *)
ReportsTo(n) == FlattenSeq([d \in 1 .. n |-> Matching(d)])
ReportsFit(n) == \A d \in 1 .. n : Matching(d) \in Seq(Reported)
EntriesDone(n) == n =< image.num_dentries /\ out = ReportsTo(n) /\ ReportsFit(n)

(* The entry whose file is read, and what has been printed when the first  *)
(* q characters of the file are done.                                      *)
Current == dirfd.file_pos
Searched(t, q) == out = ReportsTo(Current - 1) \o Report(file, t, q)

(* The buffer has the text from character at + 1 on.                       *)
Holds(t, from, at) == \A k \in from .. last - 1 : data[k] = t[at + k + 1]

(* A line starts after q characters, or there is none before the next      *)
(* newline.                                                                *)
Fresh(t, q) == q = 0 \/ q = Len(t) \/ t[q] = NL \/ t[q + 1] = NL

(* A read at position p is next, or under way: no newline is left from     *)
(* earlier in what it does not overwrite, unless it is of no account.      *)
ReadAt(t, p) ==
  /\ p \in Nat /\ p =< Len(t) /\ last =< p /\ last < BUFSIZE
  /\ Holds(t, 0, p - last) /\ Fresh(t, p - last) /\ Searched(t, p - last)
  /\ \/ \A k \in last .. BUFSIZE : data[k] # NL
     \/ p = Len(t)
     \/ p = 0 /\ last = 0 /\ Len(t) < BUFSIZE

(* The lines up to line_start are done; the buffer is full or has all.     *)
LinesAt(t, p) ==
  /\ p \in Nat /\ p =< Len(t) /\ last =< p
  /\ Holds(t, line_start, p - last)
  /\ Fresh(t, p - last + line_start) /\ Searched(t, p - last + line_start)
  /\ last = BUFSIZE \/ p = Len(t)
  /\ cnt = 0 => p = Len(t)
  /\ \/ p = Len(t)
     \/ \A k \in 0 .. BUFSIZE : k \notin line_start .. last - 1 => data[k] # NL

FileSearched ==
  LET t == Text(image.inodes[inode])
  IN  /\ step = "read" => ReadAt(t, file_pos)
      /\ step = "got" =>
           /\ call # Null /\ call.inode = inode /\ call.length = BUFSIZE - last
           /\ ReadAt(t, call.pos)
           /\ pc = "user" => file_pos = call.pos + (IF ret > 0 THEN ret ELSE 0)
      /\ step = "line" => LinesAt(t, file_pos)

(* The clock has no lines; a file without an inode cannot be read.         *)
RtcSearched ==
  /\ last = 0 /\ out = ReportsTo(Current - 1)
  /\ step = "got" => pc = "user" /\ ret = 0
  /\ step = "line" => line_start = 0 /\ cnt = 0
NothingSearched == step # "line" /\ (step = "got" => pc = "user" /\ ret = -1)

DescSearched ==
  /\ Opened(file) # Null /\ kind = EntryAt(Current).type
  /\ inode = EntryAt(Current).inode /\ kind \in {"file", "rtc"}
  /\ kind = "rtc" => RtcSearched
  /\ kind = "file" =>
       IF inode < image.num_inode THEN FileSearched ELSE NothingSearched

(* do_one_file.                                                            *)
InFile ==
  /\ dirfd.kind = "directory" /\ Current \in 1 .. image.num_dentries
  /\ image.dentries[Current - 1].filename[0] # Dot
  /\ file = NameAt(Current)
  /\ ReportsFit(Current - 1)
  /\ data = [k \in 0 .. BUFSIZE |-> data[k]]

NameRead ==
  /\ pc = "user" /\ kind = "directory"
  /\ \/ ret = 0 /\ file_pos = image.num_dentries /\ EntriesDone(file_pos)
     \/ /\ ret = FS_MAX_FNAME_LEN /\ file_pos \in 1 .. image.num_dentries
        /\ EntriesDone(file_pos - 1)

GrepSteps == {"start", "next", "name", "open", "read", "got", "line", "close", "exit"}

(* Where grep is.                                                          *)
GrepState ==
  /\ step \in GrepSteps
  /\ step = "start" => out = <<>>
  /\ step \notin {"start", "exit"} => args # <<>>
  /\ step = "next" => kind = "directory" /\ EntriesDone(file_pos)
  /\ step = "name" => NameRead
  /\ step \in {"open", "read", "got", "line", "close"} => InFile
  /\ step = "open" =>
       /\ last = 0 /\ out = ReportsTo(Current - 1)
       /\ \A k \in 0 .. BUFSIZE : data[k] = garbage
  /\ step \in {"read", "got", "line"} => DescSearched
  /\ step = "close" => out = ReportsTo(Current) /\ ReportsFit(Current)
  /\ step = "exit" /\ status = 0 => out = ReportsTo(image.num_dentries)

GrepInv == prog = "grep" /\ AllGreppable => GrepState

(* The line that starts after q characters.                                *)
LEMMA LineIs ==
  ASSUME NEW t, IsText(t), NEW q \in Nat, NEW e \in Nat, q =< e, e =< Len(t),
         \A j \in q + 1 .. e : t[j] # NL, e = Len(t) \/ t[e + 1] = NL
  PROVE  LineAt(t, q + 1) = SubSeq(t, q + 1, e)
<1> DEFINE Stops(x) == /\ x = Len(t) + 1 \/ t[x] = NL
                       /\ \A j \in q + 1 .. x - 1 : t[j] # NL
           c == CHOOSE x \in q + 1 .. Len(t) + 1 : Stops(x)
<1>0. Len(t) \in Nat
  BY DEF IsText
<1>1. e + 1 \in q + 1 .. Len(t) + 1 /\ Stops(e + 1)
  <2>1. (e + 1) - 1 = e
    OBVIOUS
  <2>2. QED
    BY <1>0, <2>1
<1>2. c \in q + 1 .. Len(t) + 1 /\ Stops(c)
  <2> HIDE DEF Stops
  <2>1. QED
    BY <1>1
<1>3. c = e + 1
  <2>1. CASE c < e + 1
    <3>1. c \in q + 1 .. e /\ c # Len(t) + 1
      BY <1>0, <1>2, <2>1
    <3>2. QED
      BY <1>2, <3>1
  <2>2. CASE c > e + 1
    <3>1. e + 1 \in q + 1 .. c - 1 /\ e # Len(t)
      BY <1>0, <1>2, <2>2
    <3>2. QED
      BY <1>2, <3>1
  <2>3. QED
    BY <1>0, <1>2, <2>1, <2>2
<1>4. LineAt(t, q + 1) = SubSeq(t, q + 1, c - 1)
  BY DEF LineAt
<1>5. c - 1 = e
  BY <1>3
<1>6. QED
  BY <1>4, <1>5, Zenon

LEMMA NoString ==
  ASSUME IsCString(args), args # <<>>
  PROVE  Len(args) \in Nat /\ Len(args) >= 1 /\ ~HasString(<<>>, args)
<1>1. Len(args) \in Nat
  BY DEF IsCString
<1>2. Len(args) # 0
  BY <1>1
<1>3. QED
  BY <1>1, <1>2 DEF HasString

(* What is reported of the line at a place, if one starts there.           *)
Found(name, t, k) ==
  IF Matches(t, k) THEN <<[name |-> name, line |-> LineAt(t, k)]>> ELSE <<>>

LEMMA ReportGrows ==
  ASSUME NEW name, NEW t, NEW n \in Nat
  PROVE  /\ Report(name, t, 0) = <<>>
         /\ Report(name, t, n) \in Seq(LinesOf(name, t))
         /\ Found(name, t, n + 1) \in Seq(LinesOf(name, t))
         /\ Report(name, t, n + 1) = Report(name, t, n) \o Found(name, t, n + 1)
<1> DEFINE V == LinesOf(name, t)
           s == [k \in 1 .. n + 1 |-> Found(name, t, k)]
           r == [k \in 1 .. n |-> Found(name, t, k)]
<1>1. \A k \in Nat : Found(name, t, k) \in Seq(V)
  <2> TAKE k \in Nat
  <2>1. [name |-> name, line |-> LineAt(t, k)] \in V
    BY DEF LinesOf
  <2> HIDE DEF V
  <2> DEFINE x == [name |-> name, line |-> LineAt(t, k)]
  <2>2. Found(name, t, k) = IF Matches(t, k) THEN <<x>> ELSE <<>>
    BY DEF Found
  <2> HIDE DEF x
  <2>3. x \in V
    BY <2>1 DEF x
  <2>4. QED
    BY <2>2, <2>3
<1>2. /\ Report(name, t, n + 1) = FlattenSeq(s) /\ Report(name, t, n) = FlattenSeq(r)
  BY Zenon DEF Report, Found
<1>3. Report(name, t, 0) = <<>>
  <2> DEFINE z == [k \in 1 .. 0 |-> Found(name, t, k)]
  <2>1. z = <<>> /\ Len(z) = 0
    OBVIOUS
  <2>2. Report(name, t, 0) = FlattenSeq(z)
    BY Zenon DEF Report, Found
  <2> HIDE DEF z
  <2>3. QED
    BY <2>1, <2>2 DEF FlattenSeq
<1>4. /\ s \in [1 .. n + 1 -> Seq(V)] /\ r \in [1 .. n -> Seq(V)]
      /\ s[n + 1] = Found(name, t, n + 1) /\ \A k \in 1 .. n : r[k] = s[k]
      /\ Found(name, t, n + 1) \in Seq(V)
  <2> HIDE DEF V
  <2>1. n + 1 \in 1 .. n + 1 /\ n + 1 \in Nat
    OBVIOUS
  <2>2. QED
    BY <1>1, <2>1
<1> HIDE DEF s, r, V
<1>5. FlattenSeq(s) = FlattenSeq(r) \o s[n + 1] /\ FlattenSeq(r) \in Seq(V)
  BY <1>4, FlatLonger
<1>6. QED
  BY <1>2, <1>3, <1>4, <1>5, Zenon DEF V

LEMMA ReportSame ==
  ASSUME NEW name, NEW t, NEW n \in Nat, NEW m \in Nat, n =< m,
         \A k \in n + 1 .. m : ~Matches(t, k)
  PROVE  Report(name, t, m) = Report(name, t, n)
<1> DEFINE S == {d \in Nat : n + d =< m => Report(name, t, n + d) = Report(name, t, n)}
<1>1. 0 \in S
  <2>1. n + 0 = n
    OBVIOUS
  <2>2. QED
    BY <2>1
<1>2. ASSUME NEW d \in Nat, d \in S PROVE d + 1 \in S
  <2>1. SUFFICES ASSUME n + (d + 1) =< m
                 PROVE  Report(name, t, n + (d + 1)) = Report(name, t, n)
    OBVIOUS
  <2>2. /\ n + (d + 1) = (n + d) + 1 /\ n + d =< m /\ n + d \in Nat
        /\ (n + d) + 1 \in n + 1 .. m
    BY <2>1
  <2>3. Report(name, t, n + d) = Report(name, t, n)
    BY <1>2, <2>2
  <2>4. Found(name, t, (n + d) + 1) = <<>>
    BY <2>2 DEF Found
  <2>5. /\ Report(name, t, (n + d) + 1)
             = Report(name, t, n + d) \o Found(name, t, (n + d) + 1)
        /\ Report(name, t, n + d) \in Seq(LinesOf(name, t))
    BY <2>2, ReportGrows
  <2>6. Report(name, t, n + d) \o <<>> = Report(name, t, n + d)
    BY <2>5, ConcatEmptySeq
  <2>7. Report(name, t, (n + d) + 1) = Report(name, t, n)
    BY <2>3, <2>4, <2>5, <2>6, Zenon
  <2>8. QED
    BY <2>2, <2>7
<1>3. Nat \subseteq S
  <2> HIDE DEF S
  <2>1. QED
    BY <1>1, <1>2, SetInduction
<1>4. m - n \in Nat /\ n + (m - n) = m
  OBVIOUS
<1>5. QED
  BY <1>3, <1>4

(* No line starts at the end of a text.                                    *)
LEMMA ReportEnds ==
  ASSUME NEW name, NEW t, IsText(t), IsCString(args), args # <<>>
  PROVE  Report(name, t, Len(t) + 1) = Report(name, t, Len(t))
<1>1. Len(t) \in Nat
  BY DEF IsText
<1>2. LineAt(t, Len(t) + 1) = SubSeq(t, Len(t) + 1, Len(t))
  <2>1. \A j \in Len(t) + 1 .. Len(t) : t[j] # NL
    BY <1>1
  <2>2. QED
    BY <1>1, <2>1, LineIs
<1>3. LineAt(t, Len(t) + 1) = <<>>
  BY <1>1, <1>2, SubSeqEmpty
<1>4. ~Matches(t, Len(t) + 1)
  BY <1>3, NoString DEF Matches
<1>5. \A k \in Len(t) + 1 .. Len(t) + 1 : ~Matches(t, k)
  BY <1>1, <1>4
<1>6. QED
  BY <1>1, <1>5, ReportSame

(* From q on there is a line that ends at e; n characters are done.         *)
IsLine(t, q, e, n) ==
  /\ IsText(t) /\ Fresh(t, q) /\ q \in Nat /\ e \in Nat /\ q =< e /\ e =< Len(t)
  /\ \A j \in q + 1 .. e : t[j] # NL
  /\ e = Len(t) \/ t[e + 1] = NL
  /\ n \in {e, e + 1} /\ n =< Len(t)

LineReport(name, t, q, e, n) ==
  Report(name, t, n) = Report(name, t, q) \o
    (IF HasString(SubSeq(t, q + 1, e), args)
     THEN <<[name |-> name, line |-> SubSeq(t, q + 1, e)]>> ELSE <<>>)

(* A line is reported at its start, once.                                  *)
LEMMA ReportLine ==
  ASSUME NEW name, NEW t, NEW q, NEW e, NEW n, IsLine(t, q, e, n),
         IsCString(args), args # <<>>
  PROVE  LineReport(name, t, q, e, n)
<1> SUFFICES ASSUME
         IsText(t), q \in Nat, e \in Nat, q =< e, e =< Len(t), Fresh(t, q),
         \A j \in q + 1 .. e : t[j] # NL, e = Len(t) \/ t[e + 1] = NL,
         n \in {e, e + 1}, n =< Len(t)
       PROVE  Report(name, t, n) = Report(name, t, q) \o
                (IF HasString(SubSeq(t, q + 1, e), args)
                 THEN <<[name |-> name, line |-> SubSeq(t, q + 1, e)]>> ELSE <<>>)
  BY DEF IsLine, LineReport
<1>0. Len(t) \in Nat
  BY DEF IsText
<1>1. LineAt(t, q + 1) = SubSeq(t, q + 1, e)
  BY LineIs
<1>2. Report(name, t, q) \in Seq(LinesOf(name, t))
  BY ReportGrows
<1>3. Report(name, t, q) \o <<>> = Report(name, t, q)
  BY <1>2, ConcatEmptySeq
<1>4. CASE q = e
  <2>1. SubSeq(t, q + 1, e) = <<>>
    BY <1>4, SubSeqEmpty
  <2>2. ~HasString(SubSeq(t, q + 1, e), args)
    BY <2>1, NoString
  <2>3. ~Matches(t, q + 1)
    BY <1>1, <2>2 DEF Matches
  <2>4. n \in Nat /\ q =< n /\ \A k \in q + 1 .. n : k = q + 1
    BY <1>4
  <2>5. Report(name, t, n) = Report(name, t, q)
    BY <2>3, <2>4, ReportSame
  <2>6. QED
    BY <1>3, <2>2, <2>5, Zenon
<1>5. CASE q < e
  <2>1. q = 0 \/ t[q] = NL
    <3>1. q + 1 \in q + 1 .. e /\ q # Len(t)
      BY <1>0, <1>5
    <3>2. QED
      BY <3>1 DEF Fresh
  <2>2. q + 1 = 1 \/ t[(q + 1) - 1] = NL
    <3>1. (q + 1) - 1 = q
      OBVIOUS
    <3>2. QED
      BY <2>1, <3>1
  <2>3. Matches(t, q + 1) <=> HasString(SubSeq(t, q + 1, e), args)
    BY <1>1, <2>2 DEF Matches
  <2>4. Found(name, t, q + 1) =
           IF HasString(SubSeq(t, q + 1, e), args)
           THEN <<[name |-> name, line |-> SubSeq(t, q + 1, e)]>> ELSE <<>>
    BY <1>1, <2>3, Zenon DEF Found
  <2>5. Report(name, t, q + 1) = Report(name, t, q) \o Found(name, t, q + 1)
    BY ReportGrows
  <2>6. ASSUME NEW k \in (q + 1) + 1 .. n PROVE ~Matches(t, k)
    <3>1. k # 1 /\ k - 1 \in q + 1 .. e
      OBVIOUS
    <3>2. QED
      BY <3>1 DEF Matches
  <2>7. q + 1 \in Nat /\ n \in Nat /\ q + 1 =< n
    BY <1>5
  <2>8. Report(name, t, n) = Report(name, t, q + 1)
    BY <2>6, <2>7, ReportSame
  <2>9. QED
    BY <2>4, <2>5, <2>8, Zenon
<1>6. q = e \/ q < e
  OBVIOUS
<1>7. QED
  BY <1>4, <1>5, <1>6, Zenon

(* The string before a NUL is what stands there.                           *)
LEMMA StringBefore ==
  ASSUME NEW w, IsText(w), NEW s, IsText(s), Len(s) < Len(w),
         w[Len(s) + 1] = NUL,
         \A k \in 1 .. Len(s) : w[k] = s[k] /\ s[k] # NUL
  PROVE  UpToNul(w) = s
<1> DEFINE c == CHOOSE k \in 1 .. Len(w) :
                  w[k] = NUL /\ \A j \in 1 .. k - 1 : w[j] # NUL
           n == Len(s) + 1
           V == {s[k] : k \in 1 .. Len(s)} \cup {w[k] : k \in 1 .. Len(w)}
<1>1. /\ Len(s) \in Nat /\ Len(w) \in Nat /\ n \in 1 .. Len(w) /\ n - 1 = Len(s)
      /\ w = [k \in 1 .. Len(w) |-> w[k]] /\ s = [k \in 1 .. Len(s) |-> s[k]]
  BY DEF IsText
<1>2. w[n] = NUL /\ \A j \in 1 .. n - 1 : w[j] # NUL
  BY <1>1
<1>3. /\ c \in 1 .. Len(w) /\ w[c] = NUL /\ \A j \in 1 .. c - 1 : w[j] # NUL
  BY <1>1, <1>2
<1>4. UpToNul(w) = SubSeq(w, 1, c - 1)
  BY <1>1, <1>2 DEF UpToNul
<1>5. c = n
  <2> HIDE DEF c, n
  <2>1. ~(c < n) /\ ~(n < c)
    BY <1>1, <1>2, <1>3
  <2>2. QED
    BY <1>1, <1>3, <2>1
<1>6. UpToNul(w) = SubSeq(w, 1, Len(s))
  BY <1>1, <1>4, <1>5, Zenon
<1>7. \A k \in 1 .. Len(s) : w[k] \in V /\ s[k] \in V
  BY <1>1
<1> HIDE DEF c, n, V
<1>8. s \in Seq(V)
  <2>1. s \in [1 .. Len(s) -> V]
    BY <1>1, <1>7
  <2>2. QED
    BY <1>1, <2>1
<1>9. /\ SubSeq(w, 1, Len(s)) \in Seq(V) /\ Len(SubSeq(w, 1, Len(s))) = Len(s)
      /\ \A k \in 1 .. Len(s) : SubSeq(w, 1, Len(s))[k] = w[k]
  <2> DEFINE p == SubSeq(w, 1, Len(s))
  <2>1. p = [k \in 1 .. Len(s) |-> w[k]]
    BY <1>1
  <2> HIDE DEF p
  <2>2. p \in [1 .. Len(s) -> V] /\ \A k \in 1 .. Len(s) : p[k] = w[k]
    BY <1>7, <2>1
  <2>3. p \in Seq(V) /\ Len(p) = Len(s)
    BY <1>1, <2>2
  <2>4. QED
    BY <2>2, <2>3 DEF p
<1>10. SubSeq(w, 1, Len(s)) = s
  <2>1. \A k \in 1 .. Len(SubSeq(w, 1, Len(s))) : SubSeq(w, 1, Len(s))[k] = s[k]
    BY <1>9
  <2>2. QED
    BY <1>8, <1>9, <2>1, SeqEqual
<1>11. QED
  BY <1>6, <1>10

(* A line in the buffer, with a NUL behind it.                             *)
InBuffer(d, at, s) ==
  /\ DOMAIN d = 0 .. BUFSIZE /\ IsText(s) /\ at + Len(s) =< BUFSIZE
  /\ d[at + Len(s)] = NUL
  /\ \A k \in 1 .. Len(s) : d[at + k - 1] = s[k] /\ s[k] # NUL

LEMMA BufferedString ==
  ASSUME NEW d, NEW at \in Nat, NEW s, InBuffer(d, at, s)
  PROVE  CString(d, at) = s
<1> DEFINE w == [k \in 1 .. BUFSIZE + 1 - at |-> d[at + k - 1]]
<1>1. /\ IsText(s) /\ Len(s) \in Nat /\ at + Len(s) =< BUFSIZE /\ BUFSIZE \in Nat
      /\ d[at + Len(s)] = NUL
      /\ \A k \in 1 .. Len(s) : d[at + k - 1] = s[k] /\ s[k] # NUL
  BY Positions DEF InBuffer, IsText
<1>2. BUFSIZE + 1 - at \in Nat
  BY <1>1
<1>3. Len(w) = BUFSIZE + 1 - at
  BY <1>2
<1>4. \A k \in 1 .. Len(w) : w[k] = d[at + k - 1]
  BY <1>3
<1>5. IsText(w)
  BY <1>2, <1>3 DEF IsText
<1>6. CString(d, at) = UpToNul(w)
  BY DEF CString
<1> HIDE DEF w
<1>7. /\ Len(s) < Len(w) /\ Len(s) + 1 \in 1 .. Len(w)
      /\ at + (Len(s) + 1) - 1 = at + Len(s)
  BY <1>1, <1>3
<1>8. w[Len(s) + 1] = NUL
  BY <1>1, <1>4, <1>7
<1>9. \A k \in 1 .. Len(s) : w[k] = s[k] /\ s[k] # NUL
  BY <1>1, <1>4, <1>7
<1>10. UpToNul(w) = s
  BY <1>1, <1>5, <1>7, <1>8, <1>9, StringBefore
<1>11. QED
  BY <1>6, <1>10

(* The search of a line finds the string wherever the line has it, and     *)
(* nothing that goes on behind the line.                                   *)
LEMMA BufferedSearch ==
  ASSUME NEW d, NEW at \in Nat, NEW s, InBuffer(d, at, s),
         IsCString(args), args # <<>>
  PROVE  (\E check \in at .. (at + Len(s)) - 1 : StartsWith(d, check, args))
           <=> HasString(s, args)
<1>1. /\ Len(s) \in Nat /\ at + Len(s) =< BUFSIZE /\ BUFSIZE \in Nat
      /\ DOMAIN d = 0 .. BUFSIZE /\ d[at + Len(s)] = NUL
      /\ \A k \in 1 .. Len(s) : d[at + k - 1] = s[k] /\ s[k] # NUL
  BY Positions DEF InBuffer, IsText
<1>2. Len(args) \in Nat /\ Len(args) >= 1 /\ \A k \in 1 .. Len(args) : args[k] # NUL
  BY NoString DEF IsCString
<1>3. ASSUME NEW check \in at .. (at + Len(s)) - 1, StartsWith(d, check, args)
      PROVE  HasString(s, args)
  <2>1. \A k \in 1 .. Len(args) : d[check + k - 1] = args[k]
    BY <1>3 DEF StartsWith
  <2>2. check + Len(args) =< at + Len(s)
    <3>1. SUFFICES ASSUME check + Len(args) > at + Len(s) PROVE FALSE
      BY <1>1, <1>2
    <3>2. PICK k \in 1 .. Len(args) : check + k - 1 = at + Len(s)
      <4>1. at + Len(s) - check + 1 \in 1 .. Len(args)
        BY <1>1, <1>2, <3>1
      <4>2. check + (at + Len(s) - check + 1) - 1 = at + Len(s)
        BY <1>1
      <4>3. QED
        BY <4>1, <4>2
    <3>3. QED
      BY <1>1, <1>2, <2>1, <3>2
  <2>3. check - at \in 0 .. Len(s) - Len(args)
    BY <1>1, <1>2, <2>2
  <2>4. \A k \in 1 .. Len(args) : s[(check - at) + k] = args[k]
    <3> TAKE k \in 1 .. Len(args)
    <3>1. (check - at) + k \in 1 .. Len(s)
      BY <1>1, <1>2, <2>2
    <3>2. at + ((check - at) + k) - 1 = check + k - 1
      BY <1>2
    <3>3. QED
      BY <1>1, <2>1, <3>1, <3>2
  <2>5. QED
    BY <2>3, <2>4 DEF HasString
<1>4. ASSUME HasString(s, args)
      PROVE  \E check \in at .. (at + Len(s)) - 1 : StartsWith(d, check, args)
  <2>1. PICK p \in 0 .. Len(s) - Len(args) : \A k \in 1 .. Len(args) : s[p + k] = args[k]
    BY <1>4 DEF HasString
  <2>2. at + p \in at .. (at + Len(s)) - 1
    BY <1>1, <1>2
  <2>3. \A k \in 1 .. Len(args) :
          (at + p) + k - 1 \in DOMAIN d /\ d[(at + p) + k - 1] = args[k]
    <3> TAKE k \in 1 .. Len(args)
    <3>1. p + k \in 1 .. Len(s) /\ (at + p) + k - 1 \in 0 .. BUFSIZE
      BY <1>1, <1>2
    <3>2. at + (p + k) - 1 = (at + p) + k - 1
      BY <1>2
    <3>3. QED
      BY <1>1, <2>1, <3>1, <3>2
  <2>4. QED
    BY <2>2, <2>3 DEF StartsWith
<1>5. QED
  BY <1>3, <1>4

(* A piece of a text.                                                      *)
LEMMA Piece ==
  ASSUME NEW t, IsText(t), NEW q \in Nat, NEW e \in Nat, q =< e, e =< Len(t)
  PROVE  /\ IsText(SubSeq(t, q + 1, e)) /\ Len(SubSeq(t, q + 1, e)) = e - q
         /\ \A k \in 1 .. e - q : SubSeq(t, q + 1, e)[k] = t[q + k]
<1>0. Len(t) \in Nat /\ t \in Seq({t[k] : k \in 1 .. Len(t)})
  BY TextSeq
<1> DEFINE s == [k \in 1 .. e - q |-> t[q + k]]
<1>1. SubSeq(t, q + 1, e) = s
  <2>1. SubSeq(t, q + 1, e) = [k \in 1 .. (e - (q + 1)) + 1 |-> t[((q + 1) + k) - 1]]
    BY <1>0
  <2>2. (e - (q + 1)) + 1 = e - q /\ \A k \in Int : ((q + 1) + k) - 1 = q + k
    OBVIOUS
  <2>3. QED
    BY <2>1, <2>2
<1>2. e - q \in Nat
  OBVIOUS
<1>3. Len(s) = e - q
  BY <1>2
<1>4. \A k \in 1 .. e - q : s[k] = t[q + k]
  OBVIOUS
<1>5. IsText(s)
  BY <1>2, <1>3 DEF IsText
<1>6. QED
  BY <1>1, <1>3, <1>4, <1>5

(* What the steps of grep leave.                                           *)
LEMMA SameReports ==
  ASSUME SameWorld, garbage' = garbage
  PROVE  /\ \A s : Opened(s)' = Opened(s)
         /\ \A d : NameAt(d)' = NameAt(d)
         /\ \A d : EntryAt(d)' = EntryAt(d)
         /\ \A f : Text(f)' = Text(f)
         /\ \A name, t, n : Report(name, t, n)' = Report(name, t, n)
         /\ \A n : ReportsTo(n)' = ReportsTo(n)
         /\ \A n : ReportsFit(n)' <=> ReportsFit(n)
         /\ AllGreppable' <=> AllGreppable
<1>1. image' = image /\ contents' = contents /\ args' = args
  BY DEF SameWorld
<1>2. \A s : Opened(s)' = Opened(s)
  BY SameOpened
<1>3. \A d : NameOf(d)' = NameOf(d)
  BY SameOpened
<1>4. \A d : NameAt(d)' = NameAt(d)
  <2> TAKE d
  <2>1. NameOf(d)' = NameOf(d)
    BY <1>3
  <2>2. QED
    BY <2>1 DEF NameAt
<1>5. \A d : EntryAt(d)' = EntryAt(d)
  BY <1>1, <1>2, <1>4 DEF EntryAt
<1>6. \A f : Text(f)' = Text(f)
  BY <1>1 DEF Text, FileByte
<1>7. \A d : TextAt(d)' = TextAt(d)
  BY <1>1, <1>5, <1>6 DEF TextAt
<1>9. \A name, t, n : Report(name, t, n)' = Report(name, t, n)
  BY <1>1 DEF Report, Matches, HasString, LineAt
<1>10. \A d : Matching(d)' = Matching(d)
  <2> TAKE d
  <2>1. image' = image
    BY <1>1
  <2> DEFINE name == UpToNul([k \in 1 .. FS_MAX_FNAME_LEN |->
                               image.dentries[d - 1].filename[k - 1]])
             t == Text(image.inodes[image.dentries[Opened(name)].inode])
  <2>2. name' = name
    BY <1>1
  <2>3. Opened(name)' = Opened(name)
    BY <1>2, <2>2
  <2>4. t' = t
    BY <1>1, <1>6, <2>3
  <2>5. Report(name, t, Len(t) + 1)' = Report(name, t, Len(t) + 1)
    BY <1>9, <2>2, <2>4
  <2>6. QED
    BY <1>1, <2>2, <2>3, <2>4, <2>5 DEF Matching
<1>11. \A n : ReportsTo(n)' = ReportsTo(n)
  BY <1>10 DEF ReportsTo
<1>12. Reported' = Reported
  <2>1. \A name, t : LinesOf(name, t)' = LinesOf(name, t)
    BY DEF LinesOf, LineAt
  <2>2. \A d : LinesOf(NameAt(d), TextAt(d))' = LinesOf(NameAt(d), TextAt(d))
    BY <1>4, <1>7, <2>1
  <2>3. QED
    BY <2>2 DEF Reported
<1>13. \A n : ReportsFit(n)' <=> ReportsFit(n)
  BY <1>10, <1>12 DEF ReportsFit
<1>14. AllGreppable' <=> AllGreppable
  <2>1. \A t : Greppable(t)' <=> Greppable(t)
    BY DEF Greppable
  <2>2. QED
    BY <1>1, <1>6, <2>1 DEF AllGreppable
<1>15. QED
  BY <1>2, <1>4, <1>5, <1>6, <1>9, <1>11, <1>13, <1>14

LEMMA ReportsGrow ==
  ASSUME NEW n \in Nat, ReportsFit(n + 1)
  PROVE  /\ ReportsFit(n) /\ ReportsTo(n) \in Seq(Reported)
         /\ ReportsTo(n + 1) = ReportsTo(n) \o Matching(n + 1)
<1> DEFINE s == [d \in 1 .. n + 1 |-> Matching(d)]
           r == [d \in 1 .. n |-> Matching(d)]
<1>1. ReportsTo(n + 1) = FlattenSeq(s) /\ ReportsTo(n) = FlattenSeq(r)
  BY Zenon DEF ReportsTo
<1>2. \A d \in 1 .. n + 1 : Matching(d) \in Seq(Reported)
  BY DEF ReportsFit
<1>3. ReportsFit(n)
  BY <1>2 DEF ReportsFit
<1>4. /\ s \in [1 .. n + 1 -> Seq(Reported)] /\ r \in [1 .. n -> Seq(Reported)]
      /\ s[n + 1] = Matching(n + 1) /\ \A k \in 1 .. n : r[k] = s[k]
  BY <1>2
<1> HIDE DEF s, r
<1>5. FlattenSeq(s) = FlattenSeq(r) \o s[n + 1] /\ FlattenSeq(r) \in Seq(Reported)
  BY <1>4, FlatLonger
<1>6. QED
  BY <1>1, <1>3, <1>4, <1>5, Zenon

LEMMA NoReports == ReportsTo(0) = <<>> /\ ReportsFit(0)
<1> DEFINE z == [d \in 1 .. 0 |-> Matching(d)]
<1>1. z = <<>> /\ Len(z) = 0
  OBVIOUS
<1>2. ReportsTo(0) = FlattenSeq(z)
  BY Zenon DEF ReportsTo
<1>3. ReportsFit(0)
  BY DEF ReportsFit
<1> HIDE DEF z
<1>4. QED
  BY <1>1, <1>2, <1>3 DEF FlattenSeq

LEMMA ReportsSeq ==
  ASSUME NEW n \in Nat, ReportsFit(n)
  PROVE  ReportsTo(n) \in Seq(Reported) /\ ReportsTo(n) \o <<>> = ReportsTo(n)
<1>1. CASE n = 0
  <2>1. ReportsTo(n) = <<>> /\ <<>> \in Seq(Reported)
    BY <1>1, NoReports, EmptySeq
  <2>2. QED
    BY <2>1, ConcatEmptySeq
<1>2. CASE n # 0
  <2>1. n - 1 \in Nat /\ (n - 1) + 1 = n /\ n \in 1 .. n
    BY <1>2
  <2>2. ReportsFit((n - 1) + 1)
    BY <2>1
  <2>3. /\ ReportsTo(n - 1) \in Seq(Reported)
        /\ ReportsTo(n) = ReportsTo(n - 1) \o Matching(n)
    BY <2>1, <2>2, ReportsGrow
  <2>4. Matching(n) \in Seq(Reported)
    BY <2>1 DEF ReportsFit
  <2>5. ReportsTo(n) \in Seq(Reported)
    BY <2>3, <2>4, ConcatProperties
  <2>6. QED
    BY <2>5, ConcatEmptySeq
<1>3. QED
  BY <1>1, <1>2

(* What is done for one entry more.                                        *)
LEMMA ReportsNext ==
  ASSUME NEW d \in Nat, d >= 1, ReportsFit(d - 1), Matching(d) \in Seq(Reported)
  PROVE  ReportsFit(d) /\ ReportsTo(d) = ReportsTo(d - 1) \o Matching(d)
<1>1. d - 1 \in Nat /\ (d - 1) + 1 = d
  OBVIOUS
<1>2. ReportsFit(d)
  BY <1>1 DEF ReportsFit
<1>3. ReportsFit((d - 1) + 1)
  BY <1>1, <1>2
<1>4. ReportsTo((d - 1) + 1) = ReportsTo(d - 1) \o Matching((d - 1) + 1)
  BY <1>1, <1>3, ReportsGrow
<1>5. QED
  BY <1>1, <1>2, <1>4

LEMMA ReportFits ==
  ASSUME NEW d \in Nat, NEW n \in Nat
  PROVE  /\ Report(NameAt(d), TextAt(d), n) \in Seq(Reported)
         /\ \A x \in LinesOf(NameAt(d), TextAt(d)) : x \in Reported
<1> DEFINE V == LinesOf(NameAt(d), TextAt(d))
<1>1. V \subseteq Reported
  BY DEF Reported
<1>2. Report(NameAt(d), TextAt(d), n) \in Seq(V)
  BY ReportGrows
<1> HIDE DEF V
<1>3. Report(NameAt(d), TextAt(d), n) \in Seq(Reported)
  BY <1>1, <1>2, SeqMonotonic
<1>4. QED
  BY <1>1, <1>3 DEF V

(* The d-th entry of a name that is searched.                              *)
LEMMA MatchingIs ==
  ASSUME NEW d, NEW t, t = TextAt(d), image.dentries[d - 1].filename[0] # Dot
  PROVE  Matching(d) = IF EntryAt(d).type # "file" THEN <<>>
                       ELSE Report(NameAt(d), t, Len(t) + 1)
BY Zenon DEF Matching, TextAt, EntryAt, NameAt, NameOf

LEMMA TextIs ==
  ASSUME NEW f, f.file_length \in Nat
  PROVE  /\ IsText(Text(f)) /\ Len(Text(f)) = f.file_length
         /\ \A k \in 1 .. f.file_length : Text(f)[k] = contents[FileByte(f, k - 1)]
<1> DEFINE n == f.file_length
           s == [k \in 1 .. n |-> contents[FileByte(f, k - 1)]]
<1>1. Text(f) = s
  BY DEF Text
<1> HIDE DEF n
<1>2. n \in Nat
  BY DEF n
<1>3. Len(s) = n
  BY <1>2
<1>4. IsText(s)
  BY <1>2, <1>3 DEF IsText
<1>5. \A k \in 1 .. n : s[k] = contents[FileByte(f, k - 1)]
  OBVIOUS
<1>6. QED
  BY <1>1, <1>3, <1>4, <1>5 DEF n

(* As many characters as are asked for and there are.                      *)
LEMMA WantedMany ==
  ASSUME ProgInv, call.pos \in Nat, call.length \in Nat,
         NEW l \in Nat, l = image.inodes[call.inode].file_length, call.pos =< l
  PROVE  Cardinality(Wanted(call)) = Least(call.length, l - call.pos)
<1> DEFINE p == call.pos
           n == Least(call.length, l - p)
<1>1. n \in Nat /\ n =< call.length /\ n =< l - p /\ (n = call.length \/ n = l - p)
  BY DEF Least
<1>2. Wanted(call) = p .. p + n - 1
  <2>1. Wanted(call) = {x \in p .. p + call.length - 1 : x < l}
    BY DEF Wanted
  <2> HIDE DEF n, p
  <2>2. QED
    BY <1>1, <2>1 DEF p
<1> HIDE DEF n
<1>3. p \in Int /\ p + n - 1 \in Int /\ (p + n - 1) - p + 1 = n
      /\ (p > p + n - 1 <=> n = 0)
  BY <1>1
<1>4. Cardinality(p .. p + n - 1) = IF p > p + n - 1 THEN 0 ELSE (p + n - 1) - p + 1
  BY <1>3, FS_Interval
<1>5. QED
  BY <1>1, <1>2, <1>3, <1>4 DEF n

(* What a read of do_one_file has put behind what the buffer holds.        *)
LEMMA GrepGets ==
  ASSUME ProgInv, prog = "grep", step = "got", pc = "user", kind = "file",
         inode < image.num_inode, FileSearched, NEW t,
         t = Text(image.inodes[inode])
  PROVE  /\ IsText(t) /\ ReadAt(t, call.pos)
         /\ ret # -1 =>
              /\ ret \in Nat /\ Len(Got) = ret /\ ret =< BUFSIZE - last
              /\ file_pos = call.pos + ret /\ file_pos =< Len(t)
              /\ ret = BUFSIZE - last \/ file_pos = Len(t)
              /\ ret = 0 => file_pos = Len(t)
              /\ \A k \in 1 .. ret : Got[k] = t[call.pos + k]
<1> DEFINE f == image.inodes[inode]
           W == Wanted(call)
           l == f.file_length
<1>1. /\ image \in Images /\ inode \in Uint /\ file_pos \in Uint
      /\ ret \in -1 .. Word - 1 /\ Word \in Nat
  BY Widths DEF ProgInv, Inv, TypeOK
<1>2. l \in Nat /\ file_pos \in Nat /\ ret \in Int
  BY <1>1, ImageTypes, Widths
<1>3. /\ IsText(t) /\ Len(t) = l
      /\ \A k \in 1 .. l : t[k] = contents[FileByte(f, k - 1)]
  BY <1>2, TextIs
<1>4. /\ call # Null /\ call.inode = inode /\ call.length = BUFSIZE - last
      /\ ReadAt(t, call.pos)
      /\ file_pos = call.pos + (IF ret > 0 THEN ret ELSE 0)
  BY DEF FileSearched
<1>5. call.pos \in Nat /\ call.pos =< Len(t) /\ last < BUFSIZE
  BY <1>4 DEF ReadAt
<1>6. last \in Nat /\ BUFSIZE \in Nat /\ BUFSIZE - last \in Nat /\ BUFSIZE - last >= 1
  BY <1>5, Positions DEF ProgInv, BufferInv
<1>7. IF \A p \in W : HasBlock(f, p)
      THEN ret = Cardinality(W) /\ copied = BytesOf(f, call.pos, ret)
      ELSE ret = -1
  BY <1>4 DEF ProgInv, Inv, ReadsAsAsked
<1>8. Cardinality(W) = Least(BUFSIZE - last, l - call.pos)
  BY <1>2, <1>3, <1>4, <1>5, <1>6, WantedMany
<1> HIDE DEF f, W, l
<1>9. SUFFICES ASSUME ret # -1
               PROVE  /\ ret \in Nat /\ Len(Got) = ret /\ ret =< BUFSIZE - last
                      /\ file_pos = call.pos + ret /\ file_pos =< Len(t)
                      /\ ret = BUFSIZE - last \/ file_pos = Len(t)
                      /\ ret = 0 => file_pos = Len(t)
                      /\ \A k \in 1 .. ret : Got[k] = t[call.pos + k]
  BY <1>3, <1>4
<1>10. ret = Least(BUFSIZE - last, l - call.pos) /\ copied = BytesOf(f, call.pos, ret)
  BY <1>7, <1>8, <1>9
<1>11. /\ ret \in Nat /\ ret =< BUFSIZE - last /\ ret =< l - call.pos
       /\ ret = BUFSIZE - last \/ ret = l - call.pos
  BY <1>2, <1>3, <1>5, <1>6, <1>10 DEF Least
<1>12. file_pos = call.pos + ret
  BY <1>4, <1>5, <1>11
<1>13. file_pos =< Len(t) /\ (ret = BUFSIZE - last \/ file_pos = Len(t))
       /\ (ret = 0 => file_pos = Len(t))
  BY <1>2, <1>3, <1>5, <1>6, <1>11, <1>12
<1>14. Len(Got) = ret
  <2>1. Asked = BUFSIZE - last
    BY DEF Asked
  <2>2. Len(Got) = IF ret > 0 THEN ret ELSE 0
    BY <1>6, <2>1, GotText
  <2>3. QED
    BY <1>11, <2>2
<1>15. ASSUME NEW k \in 1 .. ret PROVE Got[k] = t[call.pos + k]
  <2>1. ret > 0 /\ ~(ret =< 0)
    BY <1>11
  <2>2. Got = [x \in 1 .. ret |-> contents[copied[x]]]
    BY <2>1 DEF Got
  <2>3. copied[k] = FileByte(f, call.pos + k - 1)
    BY <1>5, <1>10, <1>11, BytesSeq
  <2>4. call.pos + k \in 1 .. l /\ (call.pos + k) - 1 = call.pos + k - 1
    BY <1>2, <1>5, <1>11
  <2>5. t[call.pos + k] = contents[FileByte(f, (call.pos + k) - 1)]
    BY <1>3, <2>4
  <2>6. QED
    BY <2>2, <2>3, <2>4, <2>5
<1>16. QED
  BY <1>11, <1>12, <1>13, <1>14, <1>15

(* A step of grep.                                                         *)
GrepGoes ==
  /\ ProgInv /\ SetupInv /\ prog = "grep" /\ AllGreppable /\ GrepState
  /\ SameWorld /\ garbage' = garbage

LEMMA GrepTypes ==
  ASSUME ProgInv
  PROVE  /\ image \in Images /\ image.num_dentries \in Nat
         /\ image.num_dentries \in Uint /\ image.num_inode \in Nat
         /\ file_pos \in Nat /\ file_pos \in Uint /\ inode \in Nat /\ inode \in Uint
         /\ IsCString(args) /\ IsCString(file)
<1>1. image \in Images /\ file_pos \in Uint /\ inode \in Uint
  BY DEF ProgInv, Inv, TypeOK
<1>2. QED
  BY <1>1, Widths, ImageTypes DEF ProgInv, StringsInv

LEMMA GivesUp ==
  ASSUME GrepGoes, step' = "exit", status' # 0
  PROVE  GrepState'
BY DEF GrepState, GrepSteps

LEMMA GrepOpensDir ==
  ASSUME GrepGoes, GrepOpenDir
  PROVE  GrepState'
<1>1. /\ ProgInv /\ SetupInv /\ prog = "grep" /\ SameWorld /\ garbage' = garbage
      /\ image' = image /\ prog' = prog /\ args' = args
      /\ step = "start" /\ out = <<>> /\ out' = out
  BY DEF GrepGoes, GrepOpenDir, Does, GrepState, SameWorld
<1>2. CASE HasArgs /\ Open(<<Dot>>) /\ step' = "next"
  <2>1. /\ Opened(<<Dot>>) # Null /\ file_pos' = 0
        /\ kind' = image.dentries[Opened(<<Dot>>)].type
    BY <1>2, DotString, Opening
  <2>2. PICK s \in Setups : s.prog = "grep" /\ image = s.image
    BY <1>1 DEF SetupInv
  <2>3. Opened(<<Dot>>) = read_dentry_by_name(<<Dot>>)
    BY <2>1, OpenedType
  <2>4. image.num_dentries \in Nat
    BY <1>1, GrepTypes
  <2>5. /\ Opened(<<Dot>>) \in Entries
        /\ Named(image.dentries[Opened(<<Dot>>)].filename, <<Dot>>)
    BY <2>1, <2>3, <2>4, DotString, Finding
  <2>6. Opened(<<Dot>>) \in 0 .. s.image.num_dentries - 1
    BY <2>2, <2>5 DEF Entries
  <2>7. image.dentries[Opened(<<Dot>>)].type = "directory"
    BY <2>2, <2>5, <2>6, ListAssumption, Zenon
  <2>8. ReportsTo(0)' = <<>> /\ ReportsFit(0)'
    BY <1>1, SameReports, NoReports
  <2>9. EntriesDone(file_pos)'
    BY <1>1, <2>1, <2>4, <2>8 DEF EntriesDone
  <2>10. args' # <<>>
    BY <1>1, <1>2 DEF HasArgs
  <2>11. QED
    BY <1>2, <2>1, <2>7, <2>9, <2>10 DEF GrepState, GrepSteps
<1>3. CASE Exit(2) \/ Exit(3)
  BY <1>3, GivesUp DEF Exit
<1>4. QED
  BY <1>2, <1>3 DEF GrepOpenDir

LEMMA GrepReadsDir ==
  ASSUME GrepGoes, GrepReadDir
  PROVE  GrepState'
<1>1. /\ ProgInv /\ SameWorld /\ garbage' = garbage
      /\ image' = image /\ args' = args /\ args # <<>>
      /\ kind = "directory" /\ EntriesDone(file_pos)
      /\ Reads(FS_MAX_FNAME_LEN) /\ out' = out /\ step' = "name"
  BY DEF GrepGoes, GrepReadDir, Does, GrepState, SameWorld
<1>2. /\ FS_MAX_FNAME_LEN \in Nat /\ check_user_bounds(UserStart, FS_MAX_FNAME_LEN)
      /\ Least(FS_MAX_FNAME_LEN, FS_MAX_FNAME_LEN) = FS_MAX_FNAME_LEN
  <2>1. FS_MAX_FNAME_LEN \in {FS_MAX_FNAME_LEN, BUFSIZE}
    OBVIOUS
  <2>2. QED
    BY <2>1, BufferFits
<1>3. directory_read(UserStart, FS_MAX_FNAME_LEN)
  BY <1>1, <1>2 DEF Reads, Read, ReadRefused, RtcRead
<1>4. pc' = "user" /\ kind' = "directory"
  BY <1>1, <1>3 DEF directory_read
<1>5. /\ file_pos \in Nat /\ file_pos \in Uint
      /\ image.num_dentries \in Nat /\ image.num_dentries \in Uint
  BY <1>1, GrepTypes
<1>6. ASSUME NEW n, n = file_pos PROVE EntriesDone(n)'
  BY <1>1, <1>6, SameReports DEF EntriesDone
<1>7. CASE file_pos < image.num_dentries
  <2>1. file_pos + 1 \in Uint
    BY <1>5, <1>7, WidthAssumption DEF Uint
  <2>2. Add(file_pos, 1) = file_pos + 1
    BY <1>5, <2>1, Unsigned
  <2>3. file_pos' = file_pos + 1 /\ ret' = FS_MAX_FNAME_LEN
    BY <1>2, <1>3, <1>7, <2>2 DEF directory_read
  <2>4. file_pos' \in 1 .. image.num_dentries /\ file_pos' - 1 = file_pos
    BY <1>5, <1>7, <2>3
  <2>5. EntriesDone(file_pos - 1)'
    <3>1. PICK n : n = file_pos
      OBVIOUS
    <3>2. EntriesDone(n)' /\ n = (file_pos - 1)'
      BY <1>6, <2>4, <3>1
    <3>3. QED
      BY <3>2 DEF EntriesDone
  <2>6. NameRead'
    BY <1>1, <1>4, <2>3, <2>4, <2>5 DEF NameRead
  <2>7. QED
    BY <1>1, <2>6 DEF GrepState, GrepSteps
<1>8. CASE ~(file_pos < image.num_dentries)
  <2>1. file_pos' = file_pos /\ ret' = 0
    BY <1>3, <1>8 DEF directory_read
  <2>2. file_pos = image.num_dentries
    BY <1>1, <1>5, <1>8 DEF EntriesDone
  <2>3. EntriesDone(file_pos)'
    <3>1. PICK n : n = file_pos
      OBVIOUS
    <3>2. EntriesDone(n)' /\ n = file_pos'
      BY <1>6, <2>1, <3>1
    <3>3. QED
      BY <3>2 DEF EntriesDone
  <2>4. NameRead'
    BY <1>1, <1>4, <2>1, <2>2, <2>3 DEF NameRead
  <2>5. QED
    BY <1>1, <2>4 DEF GrepState, GrepSteps
<1>9. QED
  BY <1>7, <1>8

(* The name that has been read, and its first character.                   *)
LEMMA NameGot ==
  ASSUME ProgInv, NameRead, ret > 0
  PROVE  /\ file_pos \in 1 .. image.num_dentries /\ EntriesDone(file_pos - 1)
         /\ Got = NameOf(file_pos)
         /\ Got[1] = image.dentries[file_pos - 1].filename[0]
<1>1. /\ ret = FS_MAX_FNAME_LEN /\ file_pos \in 1 .. image.num_dentries
      /\ EntriesDone(file_pos - 1) /\ kind = "directory"
  BY DEF NameRead
<1>2. file_pos \in Nat /\ file_pos >= 1
  BY <1>1, GrepTypes
<1>3. Got = NameOf(file_pos)
  BY <1>1, <1>2, NameWritten
<1>4. 1 \in 1 .. FS_MAX_FNAME_LEN /\ 1 - 1 = 0
  BY Positions
<1>5. NameOf(file_pos)[1] = image.dentries[file_pos - 1].filename[0]
  BY <1>4 DEF NameOf
<1>6. QED
  BY <1>1, <1>3, <1>5

LEMMA GrepReadsName ==
  ASSUME GrepGoes, GrepDirEnds \/ GrepSkips
  PROVE  GrepState'
<1>1. /\ ProgInv /\ SameWorld /\ garbage' = garbage
      /\ image' = image /\ args' = args /\ args # <<>>
      /\ NameRead /\ out' = out /\ file_pos' = file_pos /\ kind' = kind
  BY DEF GrepGoes, GrepDirEnds, GrepSkips, Does, GrepState, SameWorld, vars, fdVars
<1>2. CASE GrepDirEnds
  <2>1. CASE ret = 0
    <3>1. step' = "exit"
      BY <1>2 DEF GrepDirEnds, Exit
    <3>2. out = ReportsTo(image.num_dentries)
      BY <1>1, <2>1, Positions DEF NameRead, EntriesDone
    <3>3. ReportsTo(image.num_dentries)' = ReportsTo(image.num_dentries)
      BY <1>1, SameReports
    <3>4. QED
      BY <1>1, <3>1, <3>2, <3>3 DEF GrepState, GrepSteps
  <2>2. CASE ret # 0
    BY <1>2, <2>2, GivesUp DEF GrepDirEnds, Exit
  <2>3. QED
    BY <2>1, <2>2
<1>3. CASE GrepSkips
  <2>1. ret > 0 /\ Got[1] = Dot /\ step' = "next"
    BY <1>3 DEF GrepSkips
  <2>2. /\ file_pos \in 1 .. image.num_dentries /\ EntriesDone(file_pos - 1)
        /\ image.dentries[file_pos - 1].filename[0] = Dot
    BY <1>1, <2>1, NameGot
  <2>3. Matching(file_pos) = <<>>
    BY <2>2 DEF Matching
  <2>4. /\ file_pos \in Nat /\ file_pos >= 1 /\ <<>> \in Seq(Reported)
        /\ file_pos =< image.num_dentries /\ file_pos - 1 \in Nat
    BY <2>2, EmptySeq
  <2>5. ReportsFit(file_pos - 1) /\ out = ReportsTo(file_pos - 1)
    BY <2>2 DEF EntriesDone
  <2>6. /\ ReportsFit(file_pos)
        /\ ReportsTo(file_pos) = ReportsTo(file_pos - 1) \o Matching(file_pos)
    BY <2>3, <2>4, <2>5, ReportsNext
  <2>7. ReportsTo(file_pos - 1) \o <<>> = ReportsTo(file_pos - 1)
    BY <2>4, <2>5, ReportsSeq
  <2>8. out = ReportsTo(file_pos)
    BY <2>3, <2>5, <2>6, <2>7, Zenon
  <2>9. ReportsTo(file_pos)' = ReportsTo(file_pos) /\ ReportsFit(file_pos)'
    BY <1>1, <2>6, SameReports
  <2>10. EntriesDone(file_pos)'
    BY <1>1, <2>4, <2>8, <2>9 DEF EntriesDone
  <2>11. kind = "directory"
    BY <1>1 DEF NameRead
  <2>12. QED
    BY <1>1, <2>1, <2>10, <2>11 DEF GrepState, GrepSteps
<1>4. QED
  BY <1>2, <1>3

LEMMA GrepEntersFile ==
  ASSUME GrepGoes, GrepEnters
  PROVE  GrepState'
<1>1. /\ ProgInv /\ SameWorld /\ garbage' = garbage
      /\ image' = image /\ args' = args /\ args # <<>>
      /\ NameRead /\ out' = out /\ step' = "open" /\ last' = 0
      /\ ret > 0 /\ Got[1] # Dot /\ file' = UpToNul(Got)
      /\ data' = [k \in 0 .. BUFSIZE |-> garbage]
      /\ dirfd' = [kind |-> kind, inode |-> inode, file_pos |-> file_pos,
                   delivered |-> delivered]
  BY DEF GrepGoes, GrepEnters, Does, GrepState, SameWorld, ReadName
<1>2. /\ file_pos \in 1 .. image.num_dentries /\ EntriesDone(file_pos - 1)
      /\ Got = NameOf(file_pos)
      /\ image.dentries[file_pos - 1].filename[0] # Dot /\ kind = "directory"
  BY <1>1, NameGot DEF NameRead
<1>3. dirfd'.kind = "directory" /\ Current' = file_pos
  BY <1>1, <1>2 DEF Current
<1>4. file' = NameAt(file_pos)
  BY <1>1, <1>2 DEF NameAt
<1>5. /\ \A d : NameAt(d)' = NameAt(d) /\ ReportsTo(d)' = ReportsTo(d)
      /\ \A d : ReportsFit(d)' <=> ReportsFit(d)
  BY <1>1, SameReports
<1>6. \A k \in 0 .. BUFSIZE : data'[k] = garbage'
  BY <1>1
<1>7. data' = [k \in 0 .. BUFSIZE |-> data'[k]]
  BY <1>1
<1>8. NameAt(Current)' = NameAt(file_pos)
  BY <1>3, <1>5
<1>9. ReportsFit(Current - 1)' /\ ReportsTo(Current - 1)' = ReportsTo(file_pos - 1)
  BY <1>2, <1>3, <1>5 DEF EntriesDone
<1>10. InFile'
  BY <1>1, <1>2, <1>3, <1>4, <1>7, <1>8, <1>9 DEF InFile
<1>11. out' = ReportsTo(Current - 1)'
  BY <1>1, <1>2, <1>9 DEF EntriesDone
<1>12. QED
  BY <1>1, <1>6, <1>10, <1>11 DEF GrepState, GrepSteps

LEMMA SameReadAt ==
  ASSUME SameWorld, garbage' = garbage,
         UNCHANGED <<out, data, last, file, dirfd>>
  PROVE  /\ Current' = Current
         /\ \A t, p : ReadAt(t, p)' <=> ReadAt(t, p)
         /\ \A t, q : Searched(t, q)' <=> Searched(t, q)
         /\ InFile => InFile'
<1>1. Current' = Current
  BY DEF Current
<1>2. /\ \A d : NameAt(d)' = NameAt(d)
      /\ \A name, t, n : Report(name, t, n)' = Report(name, t, n)
      /\ \A n : ReportsTo(n)' = ReportsTo(n)
      /\ \A n : ReportsFit(n)' <=> ReportsFit(n)
  BY SameReports
<1>3. ReportsTo(Current - 1)' = ReportsTo(Current - 1)
      /\ (ReportsFit(Current - 1)' <=> ReportsFit(Current - 1))
      /\ NameAt(Current)' = NameAt(Current)
  BY <1>1, <1>2
<1>4. \A t, q : Searched(t, q)' <=> Searched(t, q)
  <2> TAKE t, q
  <2>1. Report(file, t, q)' = Report(file, t, q)
    BY <1>2
  <2>2. QED
    BY <1>3, <2>1 DEF Searched
<1>5. \A t, from, at : Holds(t, from, at)' <=> Holds(t, from, at)
  BY DEF Holds
<1>6. \A t, q : Fresh(t, q)' <=> Fresh(t, q)
  BY DEF Fresh
<1>7. \A t, p : ReadAt(t, p)' <=> ReadAt(t, p)
  <2> TAKE t, p
  <2>1. /\ Searched(t, p - last)' <=> Searched(t, p - last)
        /\ Holds(t, 0, p - last)' <=> Holds(t, 0, p - last)
        /\ Fresh(t, p - last)' <=> Fresh(t, p - last)
    BY <1>4, <1>5, <1>6
  <2>2. QED
    BY <2>1 DEF ReadAt
<1>8. InFile => InFile'
  BY <1>1, <1>3 DEF InFile, SameWorld
<1>9. QED
  BY <1>1, <1>4, <1>7, <1>8

(* do_one_file goes on with the descriptor it has.                         *)
LEMMA SameDesc ==
  ASSUME SameWorld, garbage' = garbage, DescSearched,
         UNCHANGED <<file, dirfd, kind, inode>>,
         kind = "rtc" => RtcSearched',
         kind = "file" /\ inode < image.num_inode => FileSearched',
         kind = "file" /\ ~(inode < image.num_inode) => NothingSearched'
  PROVE  DescSearched'
<1>1. /\ Current' = Current /\ image' = image
  BY DEF Current, SameWorld
<1>2. (\A d : EntryAt(d)' = EntryAt(d)) /\ \A s : Opened(s)' = Opened(s)
  BY SameReports
<1>3. Opened(file)' = Opened(file) /\ EntryAt(Current)' = EntryAt(Current)
  BY <1>1, <1>2
<1>4. QED
  BY <1>1, <1>3 DEF DescSearched

(* No name that is searched is a directory's.                              *)
LEMMA NoDirectory ==
  ASSUME ProgInv, SetupInv, prog = "grep", InFile, Opened(file) # Null
  PROVE  EntryAt(Current).type \in {"file", "rtc"}
<1> DEFINE e == Opened(file)
           filename == image.dentries[e].filename
<1>1. /\ IsCString(file) /\ image.num_dentries \in Nat
      /\ file = NameAt(Current)
      /\ image.dentries[Current - 1].filename[0] # Dot
  BY GrepTypes DEF InFile
<1>2. /\ e = read_dentry_by_name(file)
      /\ image.dentries[e].type \in {"file", "directory", "rtc"}
  BY OpenedType
<1>3. e \in Entries /\ Named(filename, file)
  BY <1>1, <1>2, Finding
<1>4. EntryAt(Current) = image.dentries[e]
  BY <1>1 DEF EntryAt
<1> HIDE DEF e
<1>5. Len(file) \in Nat /\ 0 \in 0 .. FS_MAX_FNAME_LEN - 1
  BY <1>1, Positions DEF IsCString
<1>6. IF 0 < Len(file) THEN filename[0] = file[0 + 1]
      ELSE 0 = Len(file) => filename[0] = NUL
  BY <1>3, <1>5 DEF Named
<1>7. filename[0] # Dot
  <2>1. CASE Len(file) = 0
    <3>1. filename[0] = NUL
      BY <1>6, <2>1
    <3>2. QED
      BY <3>1, ProgramAssumption
  <2>2. CASE Len(file) # 0
    <3>1. filename[0] = file[1] /\ 1 \in 1 .. Len(file)
      BY <1>5, <1>6, <2>2
    <3>2. IsText(NameOf(Current))
      <4>1. Len(NameOf(Current)) = FS_MAX_FNAME_LEN
        BY Positions DEF NameOf
      <4>2. QED
        BY <4>1, Positions DEF IsText, NameOf
    <3>3. file[1] = NameOf(Current)[1]
      <4>1. \A k \in 1 .. Len(file) : file[k] = NameOf(Current)[k]
        BY <1>1, <3>2, StringOf DEF NameAt
      <4>2. QED
        BY <3>1, <4>1
    <3>4. NameOf(Current)[1] = image.dentries[Current - 1].filename[0]
      <4>1. 1 \in 1 .. FS_MAX_FNAME_LEN /\ 1 - 1 = 0
        BY Positions
      <4>2. QED
        BY <4>1 DEF NameOf
    <3>5. QED
      BY <1>1, <3>1, <3>3, <3>4
  <2>3. QED
    BY <2>1, <2>2
<1>8. PICK s \in Setups : s.prog = "grep" /\ image = s.image
  BY DEF SetupInv
<1>9. e \in 0 .. s.image.num_dentries - 1
  BY <1>3, <1>8 DEF Entries
<1>10. image.dentries[e].type # "directory"
  BY <1>7, <1>8, <1>9, ListAssumption, Zenon
<1>11. QED
  BY <1>2, <1>4, <1>10

(* The text of a file that is searched.                                    *)
LEMMA GrepText ==
  ASSUME GrepGoes, InFile, DescSearched, kind = "file", inode < image.num_inode,
         NEW t, t = Text(image.inodes[inode])
  PROVE  /\ t = TextAt(Current) /\ IsText(t) /\ Greppable(t)
         /\ Len(t) = image.inodes[inode].file_length
         /\ file = NameAt(Current) /\ Current \in Nat /\ Current >= 1
         /\ EntryAt(Current).type = "file"
         /\ image.dentries[Current - 1].filename[0] # Dot
<1>1. /\ image \in Images /\ inode \in Uint /\ inode \in Nat
      /\ image.num_inode \in Nat /\ image.num_dentries \in Nat
  BY GrepTypes DEF GrepGoes
<1>2. image.inodes[inode].file_length \in Nat /\ inode \in 0 .. image.num_inode - 1
  BY <1>1, ImageTypes, Widths
<1>3. IsText(t) /\ Len(t) = image.inodes[inode].file_length
  BY <1>2, TextIs
<1>4. Greppable(t)
  BY <1>2 DEF GrepGoes, AllGreppable
<1>5. inode = EntryAt(Current).inode /\ kind = EntryAt(Current).type
  BY DEF DescSearched
<1>6. t = TextAt(Current)
  BY <1>5 DEF TextAt
<1>7. Current \in Nat /\ Current >= 1
  BY <1>1 DEF InFile
<1>8. QED
  BY <1>3, <1>4, <1>5, <1>6, <1>7 DEF InFile

LEMMA GrepOpensFile ==
  ASSUME GrepGoes, GrepOpen
  PROVE  GrepState'
<1>1. /\ ProgInv /\ SetupInv /\ prog = "grep" /\ SameWorld /\ garbage' = garbage
      /\ image' = image /\ args' = args /\ args # <<>>
      /\ InFile /\ last = 0 /\ out = ReportsTo(Current - 1)
      /\ \A k \in 0 .. BUFSIZE : data[k] = garbage
      /\ UNCHANGED <<out, data, last, file, dirfd>>
  BY DEF GrepGoes, GrepOpen, Does, GrepState, SameWorld, localVars
<1>2. CASE Open(file) /\ step' = "read"
  <2>1. IsCString(file)
    BY <1>1, GrepTypes
  <2>2. /\ Opened(file) # Null /\ kind' = image.dentries[Opened(file)].type
        /\ inode' = image.dentries[Opened(file)].inode /\ file_pos' = 0
    BY <1>2, <2>1, Opening
  <2>3. /\ EntryAt(Current) = image.dentries[Opened(file)]
        /\ EntryAt(Current).type \in {"file", "rtc"}
    BY <1>1, <2>2, NoDirectory DEF EntryAt, InFile
  <2>4. /\ Current' = Current /\ InFile'
        /\ Opened(file)' = Opened(file) /\ EntryAt(Current)' = EntryAt(Current)
        /\ ReportsTo(Current - 1)' = ReportsTo(Current - 1)
        /\ AllGreppable'
    <3>1. Current' = Current /\ InFile'
      BY <1>1, SameReadAt
    <3>2. AllGreppable'
      BY <1>1, SameReports DEF GrepGoes
    <3>3. QED
      BY <1>1, <3>1, <3>2, SameReports
  <2>5. RtcSearched'
    BY <1>1, <1>2, <2>4 DEF RtcSearched
  <2>6. NothingSearched'
    BY <1>2 DEF NothingSearched
  <2>7. ASSUME kind' = "file", inode' < image.num_inode PROVE FileSearched'
    <3>1. PICK t : t = Text(image.inodes[inode])'
      OBVIOUS
    <3>2. /\ inode' \in 0 .. image.num_inode - 1
          /\ image.inodes[inode'].file_length \in Nat
      <4>1. EntryAt(Current).inode \in Uint
        <5>1. Opened(file) \in Entries
          BY <1>1, <2>1, <2>2, OpenedType, GrepTypes, Finding
        <5>2. QED
          BY <1>1, <2>3, <5>1, GrepTypes, ImageTypes
      <4>2. QED
        BY <1>1, <2>2, <2>3, <2>7, <4>1, GrepTypes, ImageTypes, Widths
    <3>3. PICK f : f = image.inodes[inode']
      OBVIOUS
    <3>4. t = Text(image.inodes[inode'])
      <4>1. Text(f)' = Text(f)
        BY <1>1, SameReports
      <4>2. t = Text(f)
        BY <1>1, <3>1, <3>3, <4>1
      <4>3. QED
        BY <3>3, <4>2
    <3>5. IsText(t) /\ Greppable(t)
      BY <3>2, <3>4, TextIs DEF GrepGoes, AllGreppable
    <3>6. Len(t) \in Nat /\ BUFSIZE \in Nat /\ 0 < BUFSIZE
      BY <3>5, Positions DEF IsText
    <3>7. ReportsTo(Current - 1) \o <<>> = ReportsTo(Current - 1)
      <4>1. Current - 1 \in Nat /\ ReportsFit(Current - 1)
        BY <1>1, GrepTypes DEF InFile
      <4>2. QED
        BY <4>1, ReportsSeq
    <3>8. Searched(t, 0)
      <4>1. Report(file, t, 0) = <<>>
        <5>1. 0 \in Nat
          OBVIOUS
        <5>2. QED
          BY <5>1, ReportGrows
      <4>2. QED
        BY <1>1, <3>7, <4>1 DEF Searched
    <3>9. Holds(t, 0, 0) /\ Fresh(t, 0)
      BY <1>1 DEF Holds, Fresh
    <3>10. \/ \A k \in last .. BUFSIZE : data[k] # NL
           \/ 0 = 0 /\ last = 0 /\ Len(t) < BUFSIZE
      BY <1>1, <3>5 DEF Greppable
    <3>11. ReadAt(t, 0)
      <4>1. 0 - last = 0
        BY <1>1
      <4>2. QED
        BY <1>1, <3>6, <3>8, <3>9, <3>10, <4>1 DEF ReadAt
    <3>12. ReadAt(t, 0)'
      BY <1>1, <3>11, SameReadAt
    <3>13. ReadAt(t, file_pos)'
      BY <2>2, <3>12
    <3>14. QED
      BY <1>2, <3>1, <3>13 DEF FileSearched
  <2>8. DescSearched'
    BY <1>1, <2>2, <2>3, <2>4, <2>5, <2>6, <2>7 DEF DescSearched
  <2>9. QED
    BY <1>1, <1>2, <2>4, <2>8 DEF GrepState, GrepSteps
<1>3. CASE Exit(3)
  BY <1>3, GivesUp DEF Exit
<1>4. QED
  BY <1>2, <1>3 DEF GrepOpen

LEMMA GrepReads ==
  ASSUME GrepGoes, GrepRead
  PROVE  GrepState'
<1>1. /\ ProgInv /\ prog = "grep" /\ SameWorld /\ garbage' = garbage
      /\ image' = image /\ args' = args /\ args # <<>>
      /\ InFile /\ DescSearched /\ step = "read" /\ step' = "got"
      /\ Reads(BUFSIZE - last) /\ pc = "user"
      /\ UNCHANGED <<out, data, last, file, dirfd>>
  BY DEF GrepGoes, GrepRead, Does, GrepState, SameWorld, localVars
<1>2. /\ BUFSIZE - last \in Nat /\ check_user_bounds(UserStart, BUFSIZE - last)
  <2>1. last \in 0 .. BUFSIZE /\ BUFSIZE \in Nat
    BY <1>1, Positions DEF ProgInv, BufferInv
  <2>2. check_user_bounds(UserStart, BUFSIZE)
    <3>1. BUFSIZE \in {FS_MAX_FNAME_LEN, BUFSIZE}
      OBVIOUS
    <3>2. QED
      BY <3>1, BufferFits
  <2>3. Sub(UserEnd, UserStart) \in Nat
    <3>1. UserEnd \in Int /\ UserStart \in Int
      BY Widths
    <3>2. Sub(UserEnd, UserStart) \in Uint
      BY <3>1, Unsigned
    <3>3. QED
      BY <3>2, Widths
  <2>4. QED
    BY <2>1, <2>2, <2>3 DEF check_user_bounds
<1>3. kind' = kind /\ inode' = inode
  BY <1>1 DEF Reads, Read, ReadRefused, directory_read, RtcRead, fdVars
<1>4. Current' = Current /\ InFile' /\ \A t, p : ReadAt(t, p)' <=> ReadAt(t, p)
  BY <1>1, SameReadAt
<1>5. ASSUME kind = "rtc" PROVE RtcSearched'
  <2>1. RtcRead
    BY <1>1, <1>5 DEF Reads, Read, ReadRefused, directory_read
  <2>2. pc' = "user" /\ ret' = 0
    BY <1>1, <2>1 DEF RtcRead
  <2>3. ReportsTo(Current - 1)' = ReportsTo(Current - 1)
    BY <1>1, <1>4, SameReports
  <2>4. QED
    BY <1>1, <1>4, <1>5, <2>2, <2>3 DEF RtcSearched, DescSearched
<1>6. ASSUME kind = "file", inode < image.num_inode PROVE FileSearched'
  <2>1. /\ image.num_inode \in Nat /\ inode \in Nat
        /\ file_pos \in Uint /\ inode \in Uint
    BY <1>1, GrepTypes
  <2>2. ~(inode >= image.num_inode)
    BY <1>6, <2>1
  <2>3. Read(UserStart, BUFSIZE - last)
    BY <1>1, <1>2, <1>6, <2>2 DEF Reads, ReadRefused, directory_read, RtcRead
  <2>4. /\ call' = [inode |-> inode, pos |-> file_pos, buf |-> UserStart,
                    length |-> BUFSIZE - last]
        /\ pc' = "file_read"
    BY <2>3 DEF Read, StartRead
  <2>5. call' # Null
    <3>1. UserStart \in Uint
      BY WidthAssumption DEF Uint
    <3>2. BUFSIZE - last \in Uint
      BY <1>2, <3>1, Bounded
    <3>3. call' \in [inode : Uint, pos : Uint, buf : Uint, length : Uint]
      BY <2>1, <2>4, <3>1, <3>2
    <3>4. QED
      BY <3>3, NameAssumption
  <2>6. PICK t : t = Text(image.inodes[inode])
    OBVIOUS
  <2>7. ReadAt(t, file_pos)
    BY <1>1, <1>6, <2>6 DEF DescSearched, FileSearched
  <2>8. call'.inode = inode' /\ call'.length = BUFSIZE - last' /\ call'.pos = file_pos
    BY <1>1, <1>3, <2>4
  <2>9. ReadAt(t, call.pos)'
    <3>1. PICK p : p = file_pos
      OBVIOUS
    <3>2. ReadAt(t, p)'
      BY <1>4, <2>7, <3>1
    <3>3. QED
      BY <2>8, <3>1, <3>2
  <2>10. Text(image.inodes[inode])' = t
    BY <1>1, <1>3, <2>6, SameReports
  <2>11. QED
    BY <1>1, <2>4, <2>5, <2>8, <2>9, <2>10 DEF FileSearched
<1>7. ASSUME kind = "file", ~(inode < image.num_inode) PROVE NothingSearched'
  <2>1. ReadRefused(UserStart, BUFSIZE - last)
    BY <1>1, <1>2, <1>7 DEF Reads, Read, directory_read, RtcRead
  <2>2. pc' = "user" /\ ret' = -1
    BY <1>1, <2>1 DEF ReadRefused
  <2>3. QED
    BY <1>1, <2>2 DEF NothingSearched
<1>8. DescSearched'
  BY <1>1, <1>3, <1>5, <1>6, <1>7, SameDesc
<1>9. QED
  BY <1>1, <1>4, <1>8 DEF GrepState, GrepSteps

(* The kernel goes on with a read of do_one_file.                          *)
LEMMA KernelReads ==
  ASSUME GrepGoes, ReadStep, UNCHANGED progVars
  PROVE  GrepState'
<1>1. /\ ProgInv /\ prog = "grep" /\ SameWorld /\ garbage' = garbage
      /\ image' = image /\ args' = args /\ GrepState /\ step' = step
      /\ UNCHANGED <<out, data, last, file, dirfd>>
  BY DEF GrepGoes, SameWorld, progVars, worldVars, localVars
<1>2. pc \in Caller
  BY DEF ReadStep, CopyBlock, BlockMissing, ReadReturns, Loaded, Caller
<1>3. pc = "file_read" /\ step = "got"
  <2>1. step # "wait"
    BY <1>1 DEF GrepState, GrepSteps
  <2>2. pc = "file_read" /\ step \in {"got", "name"}
    BY <1>1, <1>2, <2>1 DEF ProgInv, PlaceInv, Caller
  <2>3. step # "name"
    BY <1>1, <2>2 DEF GrepState, NameRead
  <2>4. QED
    BY <2>2, <2>3
<1>4. ~Loaded /\ kind' = kind /\ inode' = inode /\ call' = call
  BY <1>3 DEF ReadStep, CopyBlock, BlockMissing, ReadReturns, Loaded, fdVars,
     loopVars
<1>5. /\ kind = "file" /\ inode < image.num_inode /\ call.pos = file_pos
      /\ file_pos \in Nat
  BY <1>1, <1>3, GrepTypes DEF ProgInv, Inv, CallInv
<1>6. InFile /\ DescSearched /\ FileSearched /\ args # <<>>
  BY <1>1, <1>3, <1>5 DEF GrepState, DescSearched
<1>7. pc' = "user" => file_pos' = call.pos + (IF ret' > 0 THEN ret' ELSE 0)
  <2>1. CASE CopyBlock
    BY <1>3, <2>1 DEF CopyBlock
  <2>2. CASE BlockMissing
    BY <1>5, <2>2 DEF BlockMissing, fdVars
  <2>3. CASE ReadReturns
    <3>1. /\ i \in Nat /\ offset = call.pos + i /\ offset =< File.file_length
          /\ File.file_length =< Word - 1 /\ offset \in Nat
          /\ File.file_length \in Nat
      BY <1>1, <1>2, Reading DEF ProgInv
    <3>2. file_pos + i \in Uint
      BY <1>5, <3>1, WidthAssumption DEF Uint
    <3>3. Add(file_pos, i) = file_pos + i
      BY <1>5, <3>1, <3>2, Unsigned
    <3>4. ret' = i /\ file_pos' = IF i > 0 THEN file_pos + i ELSE file_pos
      BY <2>3, <3>3 DEF ReadReturns, AfterRead
    <3>5. QED
      BY <1>5, <3>1, <3>4
  <2>4. QED
    BY <1>4, <2>1, <2>2, <2>3 DEF ReadStep
<1>8. Current' = Current /\ InFile' /\ \A t, p : ReadAt(t, p)' <=> ReadAt(t, p)
  BY <1>1, <1>6, SameReadAt
<1>9. FileSearched'
  <2>1. PICK t : t = Text(image.inodes[inode])
    OBVIOUS
  <2>2. Text(image.inodes[inode])' = t
    BY <1>1, <1>4, <2>1, SameReports
  <2>3. /\ call # Null /\ call.inode = inode /\ call.length = BUFSIZE - last
        /\ ReadAt(t, call.pos)
    BY <1>3, <1>6, <2>1 DEF FileSearched
  <2>4. ReadAt(t, call.pos)'
    <3>1. PICK p : p = call.pos
      OBVIOUS
    <3>2. ReadAt(t, p)'
      BY <1>8, <2>3, <3>1
    <3>3. QED
      BY <1>4, <3>1, <3>2
  <2>5. QED
    BY <1>1, <1>3, <1>4, <1>7, <2>2, <2>3, <2>4 DEF FileSearched
<1>10. DescSearched'
  BY <1>1, <1>4, <1>5, <1>6, <1>9, SameDesc
<1>11. QED
  BY <1>1, <1>3, <1>6, <1>8, <1>10 DEF GrepState, GrepSteps

LEMMA SameSearched ==
  ASSUME SameWorld, garbage' = garbage, UNCHANGED <<file, dirfd>>
  PROVE  /\ Current' = Current
         /\ ReportsTo(Current)' = ReportsTo(Current)
         /\ ReportsTo(Current - 1)' = ReportsTo(Current - 1)
         /\ ReportsFit(Current)' <=> ReportsFit(Current)
         /\ \A t, q : Report(file, t, q)' = Report(file, t, q)
         /\ InFile /\ data' = [k \in 0 .. BUFSIZE |-> data'[k]] => InFile'
<1>1. Current' = Current
  BY DEF Current
<1>2. /\ \A d : NameAt(d)' = NameAt(d)
      /\ \A name, t, n : Report(name, t, n)' = Report(name, t, n)
      /\ \A n : ReportsTo(n)' = ReportsTo(n)
      /\ \A n : ReportsFit(n)' <=> ReportsFit(n)
  BY SameReports
<1>3. /\ ReportsTo(Current - 1)' = ReportsTo(Current - 1)
      /\ ReportsTo(Current)' = ReportsTo(Current)
      /\ ReportsFit(Current)' <=> ReportsFit(Current)
      /\ ReportsFit(Current - 1)' <=> ReportsFit(Current - 1)
      /\ NameAt(Current)' = NameAt(Current)
  BY <1>1, <1>2
<1>4. \A t, q : Report(file, t, q)' = Report(file, t, q)
  BY <1>2
<1>5. InFile /\ data' = [k \in 0 .. BUFSIZE |-> data'[k]] => InFile'
  BY <1>1, <1>3 DEF InFile, SameWorld
<1>6. QED
  BY <1>1, <1>3, <1>4, <1>5

(* The characters of a file that is searched.                              *)
LEMMA InText ==
  ASSUME NEW t, Greppable(t), IsText(t)
  PROVE  /\ Len(t) \in Nat /\ \A k \in 1 .. Len(t) : t[k] # NUL
         /\ \A q \in Nat : q + BUFSIZE < Len(t) =>
              \E j \in q + 1 .. q + 1 + BUFSIZE : t[j] = NL
<1>1. Len(t) \in Nat /\ BUFSIZE \in Nat
  BY Positions DEF IsText
<1>2. \A q \in Nat : q + BUFSIZE < Len(t) => q + 1 \in 1 .. Len(t) - BUFSIZE
  BY <1>1
<1>3. QED
  BY <1>1, <1>2 DEF Greppable

LEMMA Shifted ==
  ASSUME NEW a \in Nat, NEW r \in Nat, NEW c \in Nat, NEW b, b = c - a,
         NEW k \in a .. a + r - 1
  PROVE  (k - a) + 1 \in 1 .. r /\ c + ((k - a) + 1) = (b + k) + 1
OBVIOUS

LEMMA GrepFills ==
  ASSUME GrepGoes, GrepGot, ret # -1, kind = "file", inode < image.num_inode,
         InFile, DescSearched
  PROVE  FileSearched'
<1>1. /\ ProgInv /\ SameWorld /\ garbage' = garbage /\ prog = "grep"
      /\ image' = image /\ kind' = kind /\ inode' = inode /\ file_pos' = file_pos
      /\ step = "got" /\ pc = "user" /\ step' = "line"
      /\ cnt' = ret /\ last' = last + Len(Got) /\ line_start' = 0
      /\ data' = [k \in 0 .. BUFSIZE |->
                    IF k \in last .. last' - 1 THEN Got[k - last + 1] ELSE data[k]]
      /\ UNCHANGED <<out, file, dirfd>>
  BY DEF GrepGoes, GrepGot, Does, SameWorld, vars, fdVars
<1>2. PICK t : t = Text(image.inodes[inode])
  OBVIOUS
<1>3. FileSearched
  BY DEF DescSearched
<1>4. /\ IsText(t) /\ ReadAt(t, call.pos)
      /\ ret \in Nat /\ Len(Got) = ret /\ ret =< BUFSIZE - last
      /\ file_pos = call.pos + ret /\ file_pos =< Len(t)
      /\ ret = BUFSIZE - last \/ file_pos = Len(t)
      /\ ret = 0 => file_pos = Len(t)
      /\ \A k \in 1 .. ret : Got[k] = t[call.pos + k]
  BY <1>1, <1>2, <1>3, GrepGets
<1>5. /\ last \in Nat /\ BUFSIZE \in Nat /\ Len(t) \in Nat
      /\ call.pos \in Nat /\ call.pos =< Len(t) /\ last =< call.pos
      /\ last < BUFSIZE
  BY <1>1, <1>4, Positions DEF ProgInv, BufferInv, ReadAt, IsText
<1>6. PICK p : p = file_pos
  OBVIOUS
<1>7. PICK base : base = call.pos - last
  OBVIOUS
<1>8. last' = last + ret /\ p - last' = base /\ base \in Nat /\ base + 0 = base
      /\ p \in Nat
  <2>1. last' = last + ret
    BY <1>1, <1>4
  <2>2. p = call.pos + ret /\ ret \in Nat
    BY <1>4, <1>6
  <2>3. QED
    BY <1>5, <1>7, <2>1, <2>2
<1>9. Holds(t, 0, base) /\ Fresh(t, base) /\ Searched(t, base)
  BY <1>4, <1>7 DEF ReadAt
<1>10. \A k \in 0 .. last' - 1 : data'[k] = t[base + k + 1]
  <2> TAKE k \in 0 .. last' - 1
  <2>1. k \in 0 .. BUFSIZE
    BY <1>4, <1>5, <1>8
  <2>2. CASE k < last
    <3>1. data'[k] = data[k] /\ k \in 0 .. last - 1
      BY <1>1, <1>5, <2>1, <2>2
    <3>2. QED
      BY <1>9, <3>1 DEF Holds
  <2>3. CASE ~(k < last)
    <3>1. k \in last .. last' - 1 /\ k - last + 1 \in 1 .. ret
          /\ call.pos + (k - last + 1) = base + k + 1
      <4>1. last \in Nat /\ ret \in Nat /\ last' = last + ret
        BY <1>4, <1>5, <1>8
      <4>2. k \in last .. last + ret - 1
        BY <2>3, <4>1
      <4>3. call.pos \in Nat /\ base = call.pos - last
        BY <1>5, <1>7
      <4>4. /\ (k - last) + 1 \in 1 .. ret
            /\ call.pos + ((k - last) + 1) = (base + k) + 1
        BY <4>1, <4>2, <4>3, Shifted
      <4>5. QED
        BY <4>1, <4>2, <4>4
    <3>2. data'[k] = Got[k - last + 1]
      BY <1>1, <2>1, <3>1
    <3>3. QED
      BY <1>4, <3>1, <3>2
  <2>4. QED
    BY <2>2, <2>3
<1>11. Holds(t, line_start, p - last)'
  BY <1>1, <1>8, <1>10 DEF Holds
<1>12. Fresh(t, p - last + line_start)'
  BY <1>1, <1>8, <1>9 DEF Fresh
<1>13. Searched(t, p - last + line_start)'
  <2>1. /\ Report(file, t, base)' = Report(file, t, base)
        /\ ReportsTo(Current - 1)' = ReportsTo(Current - 1)
    BY <1>1, SameSearched
  <2>2. Searched(t, base)'
    BY <1>1, <1>9, <2>1 DEF Searched
  <2>3. (p - last + line_start)' = base
    BY <1>1, <1>8
  <2>4. QED
    BY <2>2, <2>3
<1>14. last' = BUFSIZE \/ p = Len(t)
  BY <1>4, <1>5, <1>6, <1>8
<1>15. \/ p = Len(t)
       \/ \A k \in 0 .. BUFSIZE : k \notin line_start' .. last' - 1 => data'[k] # NL
  <2>1. \/ \A k \in last .. BUFSIZE : data[k] # NL
        \/ call.pos = Len(t)
        \/ call.pos = 0 /\ last = 0 /\ Len(t) < BUFSIZE
    BY <1>4 DEF ReadAt
  <2>2. CASE \A k \in last .. BUFSIZE : data[k] # NL
    <3>1. ASSUME NEW k \in 0 .. BUFSIZE, k \notin line_start' .. last' - 1
          PROVE  data'[k] # NL
      <4>1. k \notin last .. last' - 1 /\ k \in last .. BUFSIZE
        BY <1>1, <1>4, <1>5, <1>8, <3>1
      <4>2. data'[k] = data[k]
        BY <1>1, <4>1
      <4>3. QED
        BY <2>2, <4>1, <4>2
    <3>2. QED
      BY <3>1
  <2>3. CASE call.pos = Len(t)
    BY <1>4, <1>5, <1>6, <2>3
  <2>4. CASE call.pos = 0 /\ last = 0 /\ Len(t) < BUFSIZE
    BY <1>4, <1>5, <1>6, <2>4
  <2>5. QED
    BY <2>1, <2>2, <2>3, <2>4
<1>16. p =< Len(t) /\ last' =< p /\ (cnt' = 0 => p = Len(t))
  BY <1>1, <1>4, <1>5, <1>6, <1>8
<1>17. LinesAt(t, p)'
  BY <1>8, <1>11, <1>12, <1>13, <1>14, <1>15, <1>16 DEF LinesAt
<1>18. Text(image.inodes[inode])' = t
  BY <1>1, <1>2, SameReports
<1>19. QED
  BY <1>1, <1>6, <1>17, <1>18 DEF FileSearched

LEMMA GrepGotStep ==
  ASSUME GrepGoes, GrepGot
  PROVE  GrepState'
<1>1. /\ ProgInv /\ SameWorld /\ garbage' = garbage /\ prog = "grep"
      /\ kind' = kind /\ inode' = inode /\ ret' = ret /\ pc' = pc
      /\ image' = image /\ args' = args /\ args # <<>>
      /\ step = "got" /\ pc = "user" /\ InFile /\ DescSearched
      /\ IF ret = -1 THEN Exit(3) ELSE step' = "line"
      /\ cnt' = ret /\ last' = last + Len(Got) /\ line_start' = 0
      /\ data' = [k \in 0 .. BUFSIZE |->
                    IF k \in last .. last' - 1 THEN Got[k - last + 1] ELSE data[k]]
      /\ UNCHANGED <<out, file, dirfd>>
  BY DEF GrepGoes, GrepGot, Does, GrepState, SameWorld, vars, fdVars
<1>2. CASE ret = -1
  BY <1>1, <1>2, GivesUp DEF Exit
<1>3. CASE ret # -1
  <2>1. step' = "line"
    BY <1>1, <1>3
  <2>2. data' = [k \in 0 .. BUFSIZE |-> data'[k]]
    BY <1>1
  <2>3. /\ Current' = Current /\ InFile'
        /\ ReportsTo(Current - 1)' = ReportsTo(Current - 1)
    BY <1>1, <2>2, SameSearched
  <2>4. ASSUME kind = "rtc" PROVE RtcSearched'
    <3>1. RtcSearched
      BY <1>1, <2>4 DEF DescSearched
    <3>2. ret = 0 /\ last = 0 /\ out = ReportsTo(Current - 1)
      BY <1>1, <3>1 DEF RtcSearched
    <3>3. Got = <<>>
      BY <3>2 DEF Got
    <3>4. last' = 0
      BY <1>1, <3>2, <3>3
    <3>5. QED
      BY <1>1, <2>1, <2>3, <3>2, <3>4 DEF RtcSearched
  <2>5. ASSUME kind = "file", inode < image.num_inode PROVE FileSearched'
    BY <1>1, <1>3, <2>5, GrepFills
  <2>6. ~(kind = "file" /\ ~(inode < image.num_inode))
    BY <1>1, <1>3 DEF DescSearched, NothingSearched
  <2>7. DescSearched'
    BY <1>1, <2>4, <2>5, <2>6, SameDesc
  <2>8. QED
    BY <1>1, <2>1, <2>3, <2>7 DEF GrepState, GrepSteps
<1>4. QED
  BY <1>2, <1>3

(* A line in the buffer and in the text.                                   *)
LEMMA LineInText ==
  ASSUME GrepGoes, step = "line", InFile, DescSearched,
         kind = "file", inode < image.num_inode,
         NEW t, t = Text(image.inodes[inode]), NEW base, base = file_pos - last
  PROVE  /\ LinesAt(t, file_pos) /\ base \in Nat /\ file_pos = base + last
         /\ file_pos \in Nat /\ last \in Nat /\ line_start \in Nat
         /\ line_start =< last /\ last =< BUFSIZE /\ BUFSIZE \in Nat
         /\ LineEnd \in line_start .. last
         /\ LineEnd = last \/ data[LineEnd] = NL
         /\ \A k \in line_start .. LineEnd - 1 : data[k] # NL
         /\ InBuffer([data EXCEPT ![LineEnd] = NUL], line_start,
                     SubSeq(t, base + line_start + 1, base + LineEnd))
         /\ \A j \in base + line_start + 1 .. base + LineEnd : t[j] # NL
         /\ Len(SubSeq(t, base + line_start + 1, base + LineEnd))
              = LineEnd - line_start
         /\ \A k \in 1 .. LineEnd - line_start :
              SubSeq(t, base + line_start + 1, base + LineEnd)[k]
                = t[base + line_start + k]
<1>1. /\ ProgInv /\ prog = "grep" /\ LinesAt(t, file_pos)
  BY DEF GrepGoes, DescSearched, FileSearched
<1>2. /\ file_pos \in Nat /\ file_pos =< Len(t) /\ last =< file_pos
      /\ Holds(t, line_start, base)
  BY <1>1 DEF LinesAt
<1>3. /\ last \in Nat /\ line_start \in Nat /\ line_start =< last
      /\ last =< BUFSIZE /\ BUFSIZE \in Nat
  BY <1>1, Positions DEF ProgInv, BufferInv
<1>4. base \in Nat /\ file_pos = base + last
  BY <1>2, <1>3
<1>5. /\ LineEnd \in line_start .. last
      /\ LineEnd = last \/ data[LineEnd] = NL
      /\ \A k \in line_start .. LineEnd - 1 : data[k] # NL
  BY <1>3, LineEnds
<1>6. IsText(t) /\ Greppable(t)
  BY GrepText
<1>7. Len(t) \in Nat /\ \A k \in 1 .. Len(t) : t[k] # NUL
  BY <1>6, InText
<1>8. PICK E : E = LineEnd
  OBVIOUS
<1>9. \A k \in line_start .. E - 1 : data[k] = t[base + k + 1]
  <2> TAKE k \in line_start .. E - 1
  <2>1. k \in line_start .. last - 1
    BY <1>3, <1>5, <1>8
  <2>2. QED
    BY <1>2, <2>1 DEF Holds
<1> DEFINE q == base + line_start
           e == base + E
           s == SubSeq(t, q + 1, e)
           d == [data EXCEPT ![E] = NUL]
<1>10. q \in Nat /\ e \in Nat /\ q =< e /\ e =< Len(t) /\ e - q = E - line_start
       /\ E \in Nat /\ line_start =< E /\ E =< last
  BY <1>2, <1>3, <1>4, <1>5, <1>8
<1>11. IsText(s) /\ Len(s) = E - line_start
       /\ \A k \in 1 .. E - line_start : s[k] = t[q + k]
  <2> HIDE DEF q, e
  <2>1. IsText(s) /\ Len(s) = e - q /\ \A k \in 1 .. e - q : s[k] = t[q + k]
    BY <1>6, <1>10, Piece
  <2>2. QED
    BY <1>10, <2>1
<1> HIDE DEF s
<1>12. DOMAIN d = 0 .. BUFSIZE /\ d[E] = NUL
       /\ \A k \in 0 .. BUFSIZE : k # E => d[k] = data[k]
  <2>1. data = [k \in 0 .. BUFSIZE |-> data[k]] /\ E \in 0 .. BUFSIZE
    BY <1>3, <1>10 DEF InFile
  <2>2. QED
    BY <2>1
<1> HIDE DEF d
<1>13. \A k \in 1 .. Len(s) : d[line_start + k - 1] = s[k] /\ s[k] # NUL
  <2> TAKE k \in 1 .. Len(s)
  <2>1. /\ line_start + k - 1 \in line_start .. E - 1
        /\ line_start + k - 1 \in 0 .. BUFSIZE /\ line_start + k - 1 # E
        /\ base + (line_start + k - 1) + 1 = q + k
        /\ q + k \in 1 .. Len(t) /\ k \in 1 .. E - line_start
    BY <1>2, <1>3, <1>4, <1>10, <1>11
  <2>2. d[line_start + k - 1] = t[q + k] /\ s[k] = t[q + k]
    BY <1>9, <1>11, <1>12, <2>1
  <2>3. QED
    BY <1>7, <2>1, <2>2
<1>14. InBuffer(d, line_start, s)
  <2>1. line_start + Len(s) = E /\ E =< BUFSIZE
    BY <1>3, <1>10, <1>11
  <2>2. QED
    BY <1>11, <1>12, <1>13, <2>1 DEF InBuffer
<1>15. \A j \in q + 1 .. e : t[j] # NL
  <2> TAKE j \in q + 1 .. e
  <2>1. j - base - 1 \in line_start .. E - 1 /\ base + (j - base - 1) + 1 = j
    BY <1>3, <1>4, <1>10
  <2>2. data[j - base - 1] = t[j]
    BY <1>9, <2>1
  <2>3. QED
    BY <1>5, <1>8, <2>1, <2>2
<1>16. QED
  BY <1>1, <1>2, <1>3, <1>4, <1>5, <1>8, <1>11, <1>14, <1>15 DEF s, d

LEMMA Within ==
  ASSUME NEW b \in Nat, NEW m \in Nat, m < b, NEW k \in 0 .. m - 1
  PROVE  k \in 0 .. b /\ k < m /\ k + 1 \in 1 .. m
OBVIOUS

(* An unfinished line is taken to the start of the buffer.                 *)
LEMMA GrepCarriesLine ==
  ASSUME GrepGoes, GrepCarries
  PROVE  GrepState'
<1>1. /\ ProgInv /\ SameWorld /\ garbage' = garbage /\ prog = "grep"
      /\ kind' = kind /\ inode' = inode /\ file_pos' = file_pos
      /\ image' = image /\ args' = args /\ args # <<>>
      /\ step = "line" /\ InFile /\ DescSearched /\ step' = "read"
      /\ last' = last - line_start
      /\ data[LineEnd] # NL /\ cnt # 0 /\ line_start # 0
      /\ UNCHANGED <<out, file, dirfd>>
  BY DEF GrepGoes, GrepCarries, Does, GrepState, SameWorld, Unfinished, vars, fdVars
<1>2. kind = "file" /\ inode < image.num_inode
  BY <1>1 DEF DescSearched, RtcSearched, NothingSearched
<1>3. PICK t : t = Text(image.inodes[inode])
  OBVIOUS
<1>4. PICK base : base = file_pos - last
  OBVIOUS
<1>5. PICK s : s = SubSeq(t, base + line_start + 1, base + LineEnd)
  OBVIOUS
<1>6. PICK stopped : stopped = [data EXCEPT ![LineEnd] = NUL]
  OBVIOUS
<1>7. /\ LinesAt(t, file_pos) /\ base \in Nat /\ file_pos = base + last
      /\ file_pos \in Nat /\ last \in Nat /\ line_start \in Nat
      /\ line_start =< last /\ last =< BUFSIZE /\ BUFSIZE \in Nat
      /\ LineEnd \in line_start .. last
      /\ LineEnd = last \/ data[LineEnd] = NL
      /\ \A k \in line_start .. LineEnd - 1 : data[k] # NL
      /\ InBuffer(stopped, line_start, s)
      /\ Len(s) = LineEnd - line_start
      /\ \A k \in 1 .. LineEnd - line_start : s[k] = t[base + line_start + k]
  BY <1>1, <1>2, <1>3, <1>4, <1>5, <1>6, LineInText
<1>8. LineEnd = last
  BY <1>1, <1>7
<1>9. CString(stopped, line_start) = s
  BY <1>7, BufferedString
<1>10. data' = [k \in 0 .. BUFSIZE |->
                  IF k < Len(s) THEN s[k + 1]
                  ELSE IF k = Len(s) THEN NUL ELSE stopped[k]]
  BY <1>6, <1>9 DEF GrepCarries
<1>11. /\ Len(s) = last' /\ last' \in Nat /\ last' < BUFSIZE
       /\ last' =< file_pos /\ file_pos - last' = base + line_start
  BY <1>1, <1>7, <1>8
<1>12. /\ file_pos =< Len(t) /\ Fresh(t, base + line_start)
       /\ Searched(t, base + line_start)
       /\ \/ file_pos = Len(t)
          \/ \A k \in 0 .. BUFSIZE : k \notin line_start .. last - 1 => data[k] # NL
  <2>1. file_pos - last + line_start = base + line_start
    BY <1>4
  <2>2. QED
    BY <1>7, <2>1 DEF LinesAt
<1>13. PICK p : p = file_pos
  OBVIOUS
<1>14. PICK q : q = base + line_start
  OBVIOUS
<1>15. p - last' = q
  BY <1>11, <1>13, <1>14
<1>16. Holds(t, 0, p - last)'
  <2>1. ASSUME NEW k \in 0 .. last' - 1 PROVE data'[k] = t[q + k + 1]
    <3>1. k \in 0 .. BUFSIZE /\ k < Len(s) /\ k + 1 \in 1 .. LineEnd - line_start
      <4>1. BUFSIZE \in Nat /\ last' \in Nat /\ last' < BUFSIZE
        BY <1>7, <1>11
      <4>2. k \in 0 .. BUFSIZE /\ k < last' /\ k + 1 \in 1 .. last'
        BY <4>1, Within
      <4>3. LineEnd - line_start = last' /\ Len(s) = last'
        BY <1>7, <1>11
      <4>4. QED
        BY <4>2, <4>3
    <3>2. data'[k] = s[k + 1]
      BY <1>10, <3>1
    <3>3. base + line_start + (k + 1) = q + k + 1
      BY <1>7, <1>14
    <3>4. QED
      BY <1>7, <3>1, <3>2, <3>3
  <2>2. QED
    BY <1>15, <2>1 DEF Holds
<1>17. Fresh(t, p - last)'
  BY <1>12, <1>14, <1>15 DEF Fresh
<1>18. Searched(t, p - last)'
  <2>1. /\ Report(file, t, q)' = Report(file, t, q)
        /\ ReportsTo(Current - 1)' = ReportsTo(Current - 1)
    BY <1>1, SameSearched
  <2>2. Searched(t, q)'
    BY <1>1, <1>12, <1>14, <2>1 DEF Searched
  <2>3. QED
    BY <1>15, <2>2
<1>19. (\A k \in last' .. BUFSIZE : data'[k] # NL) \/ p = Len(t)
  <2>1. SUFFICES ASSUME p # Len(t), NEW k \in last' .. BUFSIZE
                 PROVE  data'[k] # NL
    OBVIOUS
  <2>2. \A j \in 0 .. BUFSIZE : j \notin line_start .. last - 1 => data[j] # NL
    BY <1>12, <1>13, <2>1
  <2>3. k \in 0 .. BUFSIZE /\ ~(k < Len(s))
    BY <1>11
  <2>4. CASE k = Len(s)
    <3>1. data'[k] = NUL
      BY <1>10, <2>3, <2>4
    <3>2. QED
      BY <3>1, ProgramAssumption
  <2>5. CASE k # Len(s)
    <3>1. data'[k] = stopped[k]
      BY <1>10, <2>3, <2>5
    <3>2. data = [j \in 0 .. BUFSIZE |-> data[j]]
      BY <1>1 DEF InFile
    <3>3. CASE k = last
      <4>1. stopped[k] = NUL
        BY <1>6, <1>8, <2>3, <3>2, <3>3
      <4>2. QED
        BY <3>1, <4>1, ProgramAssumption
    <3>4. CASE k # last
      <4>1. stopped[k] = data[k]
        BY <1>6, <1>8, <2>3, <3>2, <3>4
      <4>2. data[k] # NL
        <5>1. CASE k \in line_start .. last - 1
          BY <1>7, <1>8, <5>1
        <5>2. CASE k \notin line_start .. last - 1
          BY <2>2, <2>3, <5>2
        <5>3. QED
          BY <5>1, <5>2
      <4>3. QED
        BY <3>1, <4>1, <4>2
    <3>5. QED
      BY <3>3, <3>4
  <2>6. QED
    BY <2>4, <2>5
<1>20. ReadAt(t, p)'
  BY <1>7, <1>11, <1>12, <1>13, <1>16, <1>17, <1>18, <1>19 DEF ReadAt
<1>21. Text(image.inodes[inode])' = t
  BY <1>1, <1>3, SameReports
<1>22. FileSearched'
  BY <1>1, <1>13, <1>20, <1>21 DEF FileSearched
<1>23. DescSearched'
  BY <1>1, <1>2, <1>22, SameDesc
<1>24. InFile'
  <2>1. data' = [k \in 0 .. BUFSIZE |-> data'[k]]
    BY <1>10
  <2>2. QED
    BY <1>1, <2>1, SameSearched
<1>25. QED
  BY <1>1, <1>23, <1>24 DEF GrepState, GrepSteps

(* A line is reported if it has the string.                                *)
LEMMA Reports ==
  ASSUME NEW R \in Seq(Reported), NEW A \in Seq(Reported), NEW x \in Reported
  PROVE  Append(R \o A, x) = R \o (A \o <<x>>)
<1>1. R \o A \in Seq(Reported) /\ <<x>> \in Seq(Reported)
  BY ConcatProperties
<1>2. Append(R \o A, x) = (R \o A) \o <<x>>
  BY <1>1, AppendIsConcat
<1>3. (R \o A) \o <<x>> = R \o (A \o <<x>>)
  BY <1>1, ConcatAssociative
<1>4. QED
  BY <1>2, <1>3

(* What is done after a line: it, and its newline if that has been read.   *)
After(n, base) == n = base + (IF LineEnd = last THEN last ELSE LineEnd + 1)

(* After a line all that starts in it is reported, and another line starts *)
(* where the search goes on, or the newline of this one is still to come.  *)
LEMMA LineSearched ==
  ASSUME GrepGoes, GrepLine, InFile, DescSearched, args # <<>>,
         kind = "file", inode < image.num_inode,
         NEW t, t = Text(image.inodes[inode]), NEW base, base = file_pos - last,
         NEW n, After(n, base)
  PROVE  /\ n \in Nat /\ n =< Len(t) /\ Fresh(t, n)
         /\ out' = ReportsTo(Current - 1) \o Report(file, t, n)
<1>1. /\ ProgInv /\ step = "line" /\ ~Unfinished
      /\ data' = [data EXCEPT ![LineEnd] = NUL]
      /\ out' = IF \E check \in line_start .. LineEnd - 1 :
                     StartsWith(data', check, args)
                THEN Append(out, [name |-> file, line |-> CString(data', line_start)])
                ELSE out
  BY DEF GrepGoes, GrepLine, Does
<1>2. PICK E : E = LineEnd
  OBVIOUS
<1>3. PICK q : q = base + line_start
  OBVIOUS
<1>4. PICK e : e = base + E
  OBVIOUS
<1>5. PICK s : s = SubSeq(t, q + 1, e)
  OBVIOUS
<1>6. /\ LinesAt(t, file_pos) /\ base \in Nat /\ file_pos = base + last
      /\ file_pos \in Nat /\ last \in Nat /\ line_start \in Nat
      /\ line_start =< last /\ last =< BUFSIZE /\ BUFSIZE \in Nat
      /\ E \in line_start .. last
      /\ E = last \/ data[E] = NL
      /\ InBuffer(data', line_start, s)
      /\ \A j \in q + 1 .. e : t[j] # NL
      /\ Len(s) = E - line_start
  BY <1>1, <1>2, <1>3, <1>4, <1>5, LineInText
<1>7. /\ IsText(t) /\ Greppable(t) /\ t = TextAt(Current)
      /\ file = NameAt(Current) /\ Current \in Nat /\ Current >= 1
  BY GrepText
<1>8. /\ file_pos =< Len(t) /\ Len(t) \in Nat /\ Holds(t, line_start, base)
      /\ Fresh(t, q) /\ Searched(t, q)
      /\ last = BUFSIZE \/ file_pos = Len(t)
      /\ cnt = 0 => file_pos = Len(t)
      /\ \/ file_pos = Len(t)
         \/ \A k \in 0 .. BUFSIZE : k \notin line_start .. last - 1 => data[k] # NL
  <2>1. file_pos - last + line_start = q
    BY <1>3
  <2>2. QED
    BY <1>6, <1>7, <2>1 DEF LinesAt, IsText
<1>9. q \in Nat /\ e \in Nat /\ q =< e /\ e =< Len(t) /\ E \in Nat
  <2>1. E \in Nat /\ line_start =< E /\ E =< last /\ base \in Nat
        /\ line_start \in Nat /\ last \in Nat
    BY <1>6
  <2>2. base + last =< Len(t) /\ Len(t) \in Nat
    BY <1>6, <1>8
  <2>3. q \in Nat /\ e \in Nat /\ q =< e /\ e =< base + last
    BY <1>3, <1>4, <2>1
  <2>4. QED
    BY <2>1, <2>2, <2>3
<1>10. E < last => t[e + 1] = NL /\ e + 1 =< Len(t)
  <2>1. SUFFICES ASSUME E < last PROVE t[e + 1] = NL /\ e + 1 =< Len(t)
    OBVIOUS
  <2>2. data[E] = NL /\ E \in line_start .. last - 1
    BY <1>6, <2>1
  <2>3. data[E] = t[base + E + 1]
    BY <1>8, <2>2 DEF Holds
  <2>4. base + E + 1 = e + 1 /\ e + 1 =< Len(t)
    BY <1>4, <1>6, <1>8, <1>9, <2>1
  <2>5. QED
    BY <2>2, <2>3, <2>4
<1>11. E = last => e = Len(t) \/ t[e + 1] = NL
  <2>1. SUFFICES ASSUME E = last, e # Len(t) PROVE t[e + 1] = NL
    OBVIOUS
  <2>2. e = file_pos
    BY <1>4, <1>6, <2>1
  <2>3. data[last] # NL
    <3>1. last \in 0 .. BUFSIZE /\ last \notin line_start .. last - 1
      BY <1>6
    <3>2. QED
      BY <1>8, <2>1, <2>2, <3>1
  <2>4. line_start = 0 /\ last = BUFSIZE
    BY <1>1, <1>2, <1>8, <2>1, <2>2, <2>3 DEF Unfinished
  <2>5. q + BUFSIZE = e /\ e < Len(t)
    BY <1>3, <1>4, <1>6, <1>8, <1>9, <2>1, <2>4
  <2>6. PICK j \in q + 1 .. q + 1 + BUFSIZE : t[j] = NL
    BY <1>7, <1>9, <2>5, InText
  <2>7. j \in q + 1 .. e \/ j = e + 1
    BY <1>6, <1>9, <2>5
  <2>8. QED
    BY <1>6, <2>6, <2>7
<1>12. n = IF E = last THEN e ELSE e + 1
  BY <1>2, <1>4, <1>6 DEF After
<1>13. /\ n \in {e, e + 1} /\ n \in Nat /\ n =< Len(t)
       /\ e = Len(t) \/ t[e + 1] = NL
  BY <1>6, <1>9, <1>10, <1>11, <1>12
<1>14. Fresh(t, n)
  BY <1>6, <1>9, <1>10, <1>11, <1>12 DEF Fresh
<1>15. PICK x : x = [name |-> file, line |-> s]
  OBVIOUS
<1>16. Report(file, t, n) = Report(file, t, q) \o
         (IF HasString(s, args) THEN <<x>> ELSE <<>>)
  <2>1. IsCString(args)
    BY <1>1, GrepTypes
  <2>2. IsLine(t, q, e, n)
    BY <1>6, <1>7, <1>8, <1>9, <1>13 DEF IsLine
  <2>3. LineReport(file, t, q, e, n)
    BY <1>1, <2>1, <2>2, ReportLine
  <2>4. QED
    BY <1>5, <1>15, <2>3, Zenon DEF LineReport
<1>17. out' = IF HasString(s, args) THEN Append(out, x) ELSE out
  <2>1. line_start + Len(s) = E /\ IsCString(args)
    BY <1>1, <1>6, <1>9, GrepTypes
  <2>2. CString(data', line_start) = s
    BY <1>6, BufferedString
  <2>3. (\E check \in line_start .. (line_start + Len(s)) - 1 :
           StartsWith(data', check, args)) <=> HasString(s, args)
    BY <1>6, <2>1, BufferedSearch
  <2>4. QED
    BY <1>1, <1>2, <1>15, <2>1, <2>2, <2>3
<1>18. PICK R : R = ReportsTo(Current - 1)
  OBVIOUS
<1>19. PICK A : A = Report(file, t, q)
  OBVIOUS
<1>20. out = R \o A
  BY <1>8, <1>18, <1>19 DEF Searched
<1>21. R \in Seq(Reported) /\ A \in Seq(Reported) /\ x \in Reported
       /\ A \o <<>> = A
  <2>1. R \in Seq(Reported)
    <3>1. Current - 1 \in Nat /\ ReportsFit(Current - 1)
      BY <1>7 DEF InFile
    <3>2. QED
      BY <1>18, <3>1, ReportsSeq
  <2>2. /\ A \in Seq(Reported)
        /\ \A y \in LinesOf(NameAt(Current), TextAt(Current)) : y \in Reported
    BY <1>7, <1>9, <1>19, ReportFits
  <2>3. LineAt(t, q + 1) = s
    BY <1>5, <1>6, <1>7, <1>9, <1>13, LineIs
  <2>4. x \in LinesOf(NameAt(Current), TextAt(Current))
    BY <1>7, <1>9, <1>15, <2>3 DEF LinesOf
  <2>5. A \o <<>> = A
    BY <2>2, ConcatEmptySeq
  <2>6. QED
    BY <2>1, <2>2, <2>4, <2>5
<1>22. out' = R \o Report(file, t, n)
  <2>1. CASE HasString(s, args)
    <3>1. out' = Append(R \o A, x) /\ Report(file, t, n) = A \o <<x>>
      BY <1>16, <1>17, <1>19, <1>20, <2>1
    <3>2. Append(R \o A, x) = R \o (A \o <<x>>)
      BY <1>21, Reports
    <3>3. QED
      BY <3>1, <3>2, Zenon
  <2>2. CASE ~HasString(s, args)
    <3>1. out' = R \o A /\ Report(file, t, n) = A \o <<>>
      BY <1>16, <1>17, <1>19, <1>20, <2>2
    <3>2. QED
      BY <1>21, <3>1, Zenon
  <2>3. QED
    BY <2>1, <2>2
<1>23. QED
  BY <1>13, <1>14, <1>18, <1>22

(* After a file that is done, its report is the entry's.                   *)
LEMMA FileDone ==
  ASSUME ProgInv, SameWorld, garbage' = garbage, prog = "grep",
         args' = args, args # <<>>, UNCHANGED <<file, dirfd>>, InFile,
         data' = [k \in 0 .. BUFSIZE |-> data'[k]], step' = "close",
         Matching(Current) \in Seq(Reported),
         out' = ReportsTo(Current - 1) \o Matching(Current)
  PROVE  GrepState'
<1>1. Current \in Nat /\ Current >= 1 /\ ReportsFit(Current - 1)
  BY GrepTypes DEF InFile
<1>2. ReportsFit(Current) /\ out' = ReportsTo(Current)
  BY <1>1, ReportsNext
<1>3. /\ ReportsTo(Current)' = ReportsTo(Current)
      /\ ReportsFit(Current)' <=> ReportsFit(Current)
      /\ InFile'
  BY SameSearched
<1>4. QED
  BY <1>2, <1>3 DEF GrepState, GrepSteps

(* The line of the clock, which has nothing.                               *)
LEMMA ClockLine ==
  ASSUME GrepGoes, GrepLine, InFile, DescSearched, args # <<>>, kind = "rtc"
  PROVE  GrepState'
<1>1. /\ ProgInv /\ SameWorld /\ garbage' = garbage /\ prog = "grep"
      /\ args' = args /\ step = "line" /\ UNCHANGED <<file, dirfd>>
      /\ data' = [data EXCEPT ![LineEnd] = NUL]
      /\ (~ \E check \in line_start .. LineEnd - 1 : StartsWith(data', check, args))
            => out' = out
      /\ ~(LineEnd + 1 < last) =>
            /\ last' = 0 /\ line_start' = line_start
            /\ step' = IF cnt = 0 THEN "close" ELSE "read"
  BY DEF GrepGoes, GrepLine, Does, SameWorld
<1>2. last = 0 /\ line_start = 0 /\ cnt = 0 /\ out = ReportsTo(Current - 1)
  BY <1>1 DEF DescSearched, RtcSearched
<1>3. LineEnd \in 0 .. 0
  <2>1. line_start \in Nat /\ last \in Nat /\ line_start =< last
    BY <1>2
  <2>2. LineEnd \in line_start .. last
    BY <2>1, LineEnds
  <2>3. QED
    BY <1>2, <2>2
<1>4. LineEnd = 0
  BY <1>3
<1>5. out' = out /\ step' = "close"
  BY <1>1, <1>2, <1>4
<1>6. data' = [k \in 0 .. BUFSIZE |-> data'[k]]
  BY <1>1 DEF InFile
<1>7. EntryAt(Current).type = "rtc" /\ image.dentries[Current - 1].filename[0] # Dot
  BY DEF DescSearched, InFile
<1>8. Matching(Current) = <<>>
  <2>1. PICK t : t = TextAt(Current)
    OBVIOUS
  <2>2. QED
    BY <1>7, <2>1, MatchingIs
<1>9. Current - 1 \in Nat /\ ReportsFit(Current - 1)
  BY <1>1, GrepTypes DEF InFile
<1>10. ReportsTo(Current - 1) \o <<>> = ReportsTo(Current - 1)
  BY <1>9, ReportsSeq
<1>11. /\ Matching(Current) \in Seq(Reported)
       /\ out' = ReportsTo(Current - 1) \o Matching(Current)
  BY <1>2, <1>5, <1>8, <1>10, EmptySeq
<1>12. QED
  BY <1>1, <1>5, <1>6, <1>11, FileDone

(* A line of a file: what it leaves in the buffer.                         *)
LEMMA LineLeft ==
  ASSUME GrepGoes, GrepLine, InFile, DescSearched, args # <<>>,
         kind = "file", inode < image.num_inode,
         NEW t, t = Text(image.inodes[inode]), NEW base, base = file_pos - last
  PROVE  /\ data' = [k \in 0 .. BUFSIZE |-> data'[k]]
         /\ \A k \in LineEnd + 1 .. last - 1 : data'[k] = t[base + k + 1]
         /\ \/ file_pos = Len(t)
            \/ \A k \in 0 .. BUFSIZE : k \notin LineEnd + 1 .. last - 1 => data'[k] # NL
<1>1. data' = [data EXCEPT ![LineEnd] = NUL] /\ step = "line"
  BY DEF GrepLine, Does
<1>2. PICK E : E = LineEnd
  OBVIOUS
<1>3. /\ LinesAt(t, file_pos) /\ last \in Nat /\ line_start \in Nat
      /\ last =< BUFSIZE /\ BUFSIZE \in Nat /\ E \in line_start .. last
      /\ \A k \in line_start .. E - 1 : data[k] # NL
  BY <1>1, <1>2, LineInText
<1>4. /\ Holds(t, line_start, base)
      /\ \/ file_pos = Len(t)
         \/ \A k \in 0 .. BUFSIZE : k \notin line_start .. last - 1 => data[k] # NL
  BY <1>3 DEF LinesAt
<1>5. /\ data' = [k \in 0 .. BUFSIZE |-> data'[k]]
      /\ \A k \in 0 .. BUFSIZE : data'[k] = IF k = E THEN NUL ELSE data[k]
  BY <1>1, <1>2 DEF InFile
<1>6. ASSUME NEW k \in E + 1 .. last - 1 PROVE data'[k] = t[base + k + 1]
  <2>1. k \in 0 .. BUFSIZE /\ k # E /\ k \in line_start .. last - 1
    BY <1>3
  <2>2. data'[k] = data[k]
    BY <1>5, <2>1
  <2>3. QED
    BY <1>4, <2>1, <2>2 DEF Holds
<1>7. ASSUME file_pos # Len(t),
             NEW k \in 0 .. BUFSIZE, k \notin E + 1 .. last - 1
      PROVE  data'[k] # NL
  <2>1. CASE k = E
    BY <1>5, <2>1, ProgramAssumption
  <2>2. CASE k # E /\ k \in line_start .. last - 1
    <3>1. k \in line_start .. E - 1
      BY <1>3, <1>7, <2>2
    <3>2. QED
      BY <1>3, <1>5, <2>2, <3>1
  <2>3. CASE k # E /\ k \notin line_start .. last - 1
    BY <1>4, <1>5, <1>7, <2>3
  <2>4. QED
    BY <2>1, <2>2, <2>3
<1>8. QED
  BY <1>2, <1>5, <1>6, <1>7

(* There is another line in the buffer.                                    *)
LEMMA LineFollows ==
  ASSUME GrepGoes, GrepLine, InFile, DescSearched, args # <<>>,
         kind = "file", inode < image.num_inode, LineEnd + 1 < last
  PROVE  GrepState'
<1>1. /\ ProgInv /\ SameWorld /\ garbage' = garbage /\ prog = "grep"
      /\ kind' = kind /\ inode' = inode /\ file_pos' = file_pos
      /\ image' = image /\ args' = args /\ step = "line" /\ step' = "line"
      /\ line_start' = LineEnd + 1 /\ last' = last /\ cnt' = cnt
      /\ UNCHANGED <<file, dirfd>>
  BY DEF GrepGoes, GrepLine, Does, SameWorld, vars, fdVars
<1>2. PICK t : t = Text(image.inodes[inode])
  OBVIOUS
<1>3. PICK base : base = file_pos - last
  OBVIOUS
<1>4. PICK n : After(n, base)
  BY DEF After
<1>5. PICK p : p = file_pos
  OBVIOUS
<1>6. /\ n \in Nat /\ n =< Len(t) /\ Fresh(t, n)
      /\ out' = ReportsTo(Current - 1) \o Report(file, t, n)
  BY <1>2, <1>3, <1>4, LineSearched
<1>7. /\ data' = [k \in 0 .. BUFSIZE |-> data'[k]]
      /\ \A k \in LineEnd + 1 .. last - 1 : data'[k] = t[base + k + 1]
      /\ \/ p = Len(t)
         \/ \A k \in 0 .. BUFSIZE : k \notin LineEnd + 1 .. last - 1 => data'[k] # NL
  BY <1>2, <1>3, <1>5, LineLeft
<1>8. LinesAt(t, file_pos) /\ base \in Nat /\ last \in Nat /\ line_start \in Nat
      /\ LineEnd \in line_start .. last
  BY <1>1, <1>2, <1>3, LineInText
<1>9. /\ p \in Nat /\ p =< Len(t) /\ last =< p
      /\ last = BUFSIZE \/ p = Len(t)
      /\ cnt = 0 => p = Len(t)
  BY <1>5, <1>8 DEF LinesAt
<1>10. LineEnd # last /\ n = base + (LineEnd + 1)
  BY <1>4, <1>8 DEF After
<1>11. p - last' = base /\ p - last' + line_start' = n
  BY <1>1, <1>3, <1>5, <1>10
<1>12. Holds(t, line_start, p - last)'
  BY <1>1, <1>7, <1>11 DEF Holds
<1>13. Fresh(t, p - last + line_start)'
  BY <1>6, <1>11 DEF Fresh
<1>14. Searched(t, p - last + line_start)'
  <2>1. /\ Report(file, t, n)' = Report(file, t, n)
        /\ ReportsTo(Current - 1)' = ReportsTo(Current - 1)
    BY <1>1, SameSearched
  <2>2. Searched(t, n)'
    BY <1>6, <2>1 DEF Searched
  <2>3. QED
    BY <1>11, <2>2
<1>15. LinesAt(t, p)'
  BY <1>1, <1>7, <1>9, <1>12, <1>13, <1>14 DEF LinesAt
<1>16. Text(image.inodes[inode])' = t
  BY <1>1, <1>2, SameReports
<1>17. FileSearched'
  BY <1>1, <1>5, <1>15, <1>16 DEF FileSearched
<1>18. DescSearched'
  BY <1>1, <1>17, SameDesc
<1>19. InFile'
  BY <1>1, <1>7, SameSearched
<1>20. QED
  BY <1>1, <1>18, <1>19 DEF GrepState, GrepSteps

(* The buffer is done.                                                     *)
LEMMA BufferDone ==
  ASSUME GrepGoes, GrepLine, InFile, DescSearched, args # <<>>,
         kind = "file", inode < image.num_inode, ~(LineEnd + 1 < last)
  PROVE  GrepState'
<1>1. /\ ProgInv /\ SameWorld /\ garbage' = garbage /\ prog = "grep"
      /\ kind' = kind /\ inode' = inode /\ file_pos' = file_pos
      /\ image' = image /\ args' = args /\ step = "line"
      /\ step' = IF cnt = 0 THEN "close" ELSE "read"
      /\ last' = 0 /\ UNCHANGED <<file, dirfd>>
  BY DEF GrepGoes, GrepLine, Does, SameWorld, vars, fdVars
<1>2. PICK t : t = Text(image.inodes[inode])
  OBVIOUS
<1>3. PICK base : base = file_pos - last
  OBVIOUS
<1>4. PICK n : After(n, base)
  BY DEF After
<1>5. PICK p : p = file_pos
  OBVIOUS
<1>6. /\ n \in Nat /\ n =< Len(t) /\ Fresh(t, n)
      /\ out' = ReportsTo(Current - 1) \o Report(file, t, n)
  BY <1>2, <1>3, <1>4, LineSearched
<1>7. /\ data' = [k \in 0 .. BUFSIZE |-> data'[k]]
      /\ \/ p = Len(t)
         \/ \A k \in 0 .. BUFSIZE : k \notin LineEnd + 1 .. last - 1 => data'[k] # NL
  BY <1>2, <1>3, <1>5, LineLeft
<1>8. LinesAt(t, file_pos) /\ base \in Nat /\ last \in Nat /\ line_start \in Nat
      /\ LineEnd \in line_start .. last /\ file_pos = base + last
      /\ last =< BUFSIZE /\ BUFSIZE \in Nat
  BY <1>1, <1>2, <1>3, LineInText
<1>9. /\ p \in Nat /\ p =< Len(t)
      /\ cnt = 0 => p = Len(t)
  BY <1>5, <1>8 DEF LinesAt
<1>10. n = p
  BY <1>4, <1>5, <1>8 DEF After
<1>11. CASE cnt = 0
  <2>1. t = TextAt(Current) /\ EntryAt(Current).type = "file" /\ IsText(t)
        /\ image.dentries[Current - 1].filename[0] # Dot
        /\ file = NameAt(Current) /\ Current \in Nat
    BY <1>2, GrepText
  <2>2. Matching(Current) = Report(NameAt(Current), t, Len(t) + 1)
    BY <2>1, MatchingIs
  <2>3. Report(file, t, Len(t) + 1) = Report(file, t, Len(t))
    BY <1>1, <2>1, GrepTypes, ReportEnds
  <2>4. out' = ReportsTo(Current - 1) \o Matching(Current)
    BY <1>6, <1>9, <1>10, <1>11, <2>1, <2>2, <2>3
  <2>5. Len(t) + 1 \in Nat
    BY <2>1 DEF IsText
  <2>6. Matching(Current) \in Seq(Reported)
    BY <2>1, <2>2, <2>5, ReportFits
  <2>7. QED
    BY <1>1, <1>7, <1>11, <2>4, <2>6, FileDone
<1>12. CASE cnt # 0
  <2>1. p - last' = n
    BY <1>1, <1>9, <1>10
  <2>2. Fresh(t, p - last)'
    BY <1>6, <2>1 DEF Fresh
  <2>3. Searched(t, p - last)'
    <3>1. /\ Report(file, t, n)' = Report(file, t, n)
          /\ ReportsTo(Current - 1)' = ReportsTo(Current - 1)
      BY <1>1, SameSearched
    <3>2. Searched(t, n)'
      BY <1>6, <3>1 DEF Searched
    <3>3. QED
      BY <2>1, <3>2
  <2>4. Holds(t, 0, p - last)'
    BY <1>1 DEF Holds
  <2>5. p = Len(t) \/ \A k \in last' .. BUFSIZE : data'[k] # NL
    <3>1. LineEnd + 1 .. last - 1 = {}
      BY <1>8
    <3>2. QED
      BY <1>1, <1>7, <3>1
  <2>6. 0 < BUFSIZE
    BY Positions
  <2>7. ReadAt(t, p)'
    BY <1>1, <1>9, <2>2, <2>3, <2>4, <2>5, <2>6 DEF ReadAt
  <2>8. Text(image.inodes[inode])' = t
    BY <1>1, <1>2, SameReports
  <2>9. FileSearched'
    BY <1>1, <1>5, <1>12, <2>7, <2>8 DEF FileSearched
  <2>10. DescSearched'
    BY <1>1, <2>9, SameDesc
  <2>11. InFile'
    BY <1>1, <1>7, SameSearched
  <2>12. QED
    BY <1>1, <1>12, <2>10, <2>11 DEF GrepState, GrepSteps
<1>13. QED
  BY <1>11, <1>12

LEMMA GrepSearchesLine ==
  ASSUME GrepGoes, GrepLine
  PROVE  GrepState'
<1>1. step = "line"
  BY DEF GrepLine, Does
<1>2. InFile /\ DescSearched /\ args # <<>>
  BY <1>1 DEF GrepGoes, GrepState
<1>3. \/ kind = "rtc"
      \/ kind = "file" /\ inode < image.num_inode
  BY <1>1, <1>2 DEF DescSearched, NothingSearched
<1>4. QED
  BY <1>2, <1>3, ClockLine, LineFollows, BufferDone

LEMMA GrepClosesFile ==
  ASSUME GrepGoes, GrepCloses
  PROVE  GrepState'
<1>1. /\ ProgInv /\ SameWorld /\ garbage' = garbage /\ prog = "grep"
      /\ image' = image /\ args' = args /\ args # <<>>
      /\ InFile /\ out = ReportsTo(Current) /\ ReportsFit(Current)
      /\ out' = out /\ step' = "next"
      /\ kind' = dirfd.kind /\ file_pos' = dirfd.file_pos
  BY DEF GrepGoes, GrepCloses, Does, GrepState, SameWorld
<1>2. kind' = "directory" /\ Current =< image.num_dentries
      /\ file_pos' = Current
  BY <1>1, GrepTypes DEF InFile, Current
<1>3. PICK n : n = Current
  OBVIOUS
<1>4. EntriesDone(n)'
  BY <1>1, <1>2, <1>3, SameReports DEF EntriesDone
<1>5. EntriesDone(file_pos)'
  BY <1>2, <1>3, <1>4
<1>6. QED
  BY <1>1, <1>2, <1>5 DEF GrepState, GrepSteps

(* Nothing happens.                                                        *)
LEMMA SameLinesAt ==
  ASSUME SameWorld, garbage' = garbage,
         UNCHANGED <<out, data, last, line_start, cnt, file, dirfd>>
  PROVE  \A t, p : LinesAt(t, p)' <=> LinesAt(t, p)
<1>1. \A t, q : Searched(t, q)' <=> Searched(t, q)
  BY SameReadAt
<1>2. \A t, from, at : Holds(t, from, at)' <=> Holds(t, from, at)
  BY DEF Holds
<1>3. \A t, q : Fresh(t, q)' <=> Fresh(t, q)
  BY DEF Fresh
<1> TAKE t, p
<1>4. /\ Searched(t, p - last + line_start)' <=> Searched(t, p - last + line_start)
      /\ Holds(t, line_start, p - last)' <=> Holds(t, line_start, p - last)
      /\ Fresh(t, p - last + line_start)' <=> Fresh(t, p - last + line_start)
  BY <1>1, <1>2, <1>3
<1>5. QED
  BY <1>4 DEF LinesAt

LEMMA GrepStays ==
  ASSUME GrepGoes, UNCHANGED allVars
  PROVE  GrepState'
<1>1. /\ SameWorld /\ garbage' = garbage /\ GrepState
      /\ image' = image /\ args' = args /\ step' = step /\ status' = status
      /\ kind' = kind /\ inode' = inode /\ file_pos' = file_pos
      /\ pc' = pc /\ ret' = ret /\ call' = call
      /\ UNCHANGED <<out, data, last, line_start, cnt, file, dirfd>>
  BY DEF GrepGoes, SameWorld, allVars, progVars, worldVars, localVars, vars,
     fdVars, loopVars
<1>2. /\ \A n : ReportsTo(n)' = ReportsTo(n)
      /\ \A n : ReportsFit(n)' <=> ReportsFit(n)
      /\ \A f : Text(f)' = Text(f)
  BY <1>1, SameReports
<1>3. \A n : EntriesDone(n)' <=> EntriesDone(n)
  BY <1>1, <1>2 DEF EntriesDone
<1>4. NameRead' <=> NameRead
  BY <1>1, <1>3 DEF NameRead
<1>5. /\ Current' = Current
      /\ InFile => InFile'
      /\ \A t, p : ReadAt(t, p)' <=> ReadAt(t, p)
  BY <1>1, SameReadAt
<1>6. \A t, p : LinesAt(t, p)' <=> LinesAt(t, p)
  BY <1>1, SameLinesAt
<1>7. FileSearched => FileSearched'
  <2>1. PICK t : t = Text(image.inodes[inode])
    OBVIOUS
  <2>2. Text(image.inodes[inode])' = t
    BY <1>1, <1>2, <2>1
  <2>3. /\ ReadAt(t, file_pos)' <=> ReadAt(t, file_pos)
        /\ ReadAt(t, call.pos)' <=> ReadAt(t, call.pos)
        /\ LinesAt(t, file_pos)' <=> LinesAt(t, file_pos)
    <3>1. PICK p : p = file_pos
      OBVIOUS
    <3>2. PICK c : c = call.pos
      OBVIOUS
    <3>3. /\ ReadAt(t, p)' <=> ReadAt(t, p)
          /\ ReadAt(t, c)' <=> ReadAt(t, c)
          /\ LinesAt(t, p)' <=> LinesAt(t, p)
      BY <1>5, <1>6
    <3>4. QED
      BY <1>1, <3>1, <3>2, <3>3
  <2>4. QED
    BY <1>1, <2>1, <2>2, <2>3 DEF FileSearched
<1>8. RtcSearched => RtcSearched'
  BY <1>1, <1>2, <1>5 DEF RtcSearched
<1>9. NothingSearched => NothingSearched'
  BY <1>1 DEF NothingSearched
<1>10. DescSearched => DescSearched'
  <2>1. SUFFICES ASSUME DescSearched PROVE DescSearched'
    OBVIOUS
  <2>2. /\ kind = "rtc" => RtcSearched'
        /\ kind = "file" /\ inode < image.num_inode => FileSearched'
        /\ kind = "file" /\ ~(inode < image.num_inode) => NothingSearched'
    BY <1>7, <1>8, <1>9, <2>1 DEF DescSearched
  <2>3. QED
    BY <1>1, <2>1, <2>2, SameDesc
<1>11. /\ ReportsTo(Current)' = ReportsTo(Current)
       /\ ReportsTo(Current - 1)' = ReportsTo(Current - 1)
       /\ ReportsFit(Current)' <=> ReportsFit(Current)
       /\ ReportsTo(image.num_dentries)' = ReportsTo(image.num_dentries)
  BY <1>1, <1>2, <1>5
<1>12. EntriesDone(file_pos)' <=> EntriesDone(file_pos)
  BY <1>1, <1>3
<1>13. QED
  BY <1>1, <1>4, <1>5, <1>10, <1>11, <1>12 DEF GrepState

LEMMA GrepWorld ==
  ASSUME prog = "grep", [ProgNext]_allVars
  PROVE  /\ SameWorld /\ garbage' = garbage
         /\ \/ GrepStep
            \/ ReadStep /\ UNCHANGED progVars
            \/ UNCHANGED allVars
<1>1. image' = image /\ prog' = prog /\ contents' = contents
  BY WorldStays
<1>2. \/ GrepStep
      \/ ReadStep /\ UNCHANGED progVars
      \/ UNCHANGED allVars
  BY DEF ProgNext, LsOpen, LsRead, LsWrite, CatOpen, CatRead, CatWrite,
     ShellStep, ShellReads, ShellExecutes, ShellRefused, ChildEnds,
     ShellReports, SysErrRuns, Does
<1>3. GrepStep => args' = args /\ garbage' = garbage
  BY DEF GrepStep, GrepOpenDir, GrepReadDir, GrepDirEnds, GrepSkips, GrepEnters,
     GrepOpen, GrepRead, GrepGot, GrepCarries, GrepLine, GrepCloses,
     worldVars, localVars
<1>4. UNCHANGED progVars \/ UNCHANGED allVars => args' = args /\ garbage' = garbage
  BY DEF progVars, allVars, worldVars, localVars
<1>5. QED
  BY <1>1, <1>2, <1>3, <1>4 DEF SameWorld

LEMMA GrepBegin == ProgInit => GrepInv
<1> SUFFICES ASSUME ProgInit PROVE GrepInv
  OBVIOUS
<1>1. step = "start" /\ out = <<>>
  BY DEF ProgInit
<1>2. QED
  BY <1>1 DEF GrepInv, GrepState, GrepSteps

LEMMA GrepInductive ==
  ProgInv /\ SetupInv /\ GrepInv /\ [ProgNext]_allVars => GrepInv'
<1> SUFFICES ASSUME ProgInv, SetupInv, GrepInv, [ProgNext]_allVars,
                    prog' = "grep", AllGreppable'
             PROVE  GrepState'
  BY DEF GrepInv
<1>1. prog = "grep"
  BY WorldStays
<1>2. /\ SameWorld /\ garbage' = garbage
      /\ \/ GrepStep
         \/ ReadStep /\ UNCHANGED progVars
         \/ UNCHANGED allVars
  BY <1>1, GrepWorld
<1>3. AllGreppable
  BY <1>2, SameReports
<1>4. GrepGoes
  BY <1>1, <1>2, <1>3 DEF GrepGoes, GrepInv
<1>5. CASE GrepOpenDir
  BY <1>4, <1>5, GrepOpensDir
<1>6. CASE GrepReadDir
  BY <1>4, <1>6, GrepReadsDir
<1>7. CASE GrepDirEnds \/ GrepSkips
  BY <1>4, <1>7, GrepReadsName
<1>8. CASE GrepEnters
  BY <1>4, <1>8, GrepEntersFile
<1>9. CASE GrepOpen
  BY <1>4, <1>9, GrepOpensFile
<1>10. CASE GrepRead
  BY <1>4, <1>10, GrepReads
<1>11. CASE GrepGot
  BY <1>4, <1>11, GrepGotStep
<1>12. CASE GrepCarries
  BY <1>4, <1>12, GrepCarriesLine
<1>13. CASE GrepLine
  BY <1>4, <1>13, GrepSearchesLine
<1>14. CASE GrepCloses
  BY <1>4, <1>14, GrepClosesFile
<1>15. CASE ReadStep /\ UNCHANGED progVars
  BY <1>4, <1>15, KernelReads
<1>16. CASE UNCHANGED allVars
  BY <1>4, <1>16, GrepStays
<1>17. QED
  BY <1>2, <1>5, <1>6, <1>7, <1>8, <1>9, <1>10, <1>11, <1>12, <1>13, <1>14,
     <1>15, <1>16 DEF GrepStep

(* GrepFinds: grep prints every line that has the string, whole, once and  *)
(* in the order of the directory and of the file, for every length of the  *)
(* lines, of the files and of the blocks, and wherever a read of do_one_file *)
(* cuts a line, as long as no line is too long for its buffer.             *)
THEOREM GrepFindsAlways == ProgSpec => []GrepFinds
<1>1. ProgInit => GrepInv
  BY GrepBegin
<1>2. ProgInv /\ SetupInv /\ GrepInv /\ [ProgNext]_allVars => GrepInv'
  BY GrepInductive
<1>3. GrepInv => GrepFinds
  BY DEF GrepInv, GrepState, GrepFinds, AllGreppable, ReportsTo
<1>4. QED
  BY <1>1, <1>2, <1>3, ProgInvariance, SetupInvariance, PTL DEF ProgSpec
=============================================================================

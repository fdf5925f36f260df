-------------------------------- MODULE Library --------------------------------
(***************************************************************************)
(* lib.c: the memory, string and printing functions of the kernel, without *)
(* state, compared with what their callers rely on.                        *)
(*                                                                         *)
(* The memory functions are assembly with string instructions, which go    *)
(* down instead of up if the direction flag is set.  The kernel is entered *)
(* with the flag as it was in the program, and memmove may leave it set.   *)
(***************************************************************************)
EXTENDS Integers, Sequences

CONSTANTS
  MemorySize,          \* bytes of the memory
  Uint,                \* how many values an unsigned integer has
  MaxText              \* the longest of the strings that are compared

(* At most the 32 bits that eight hexadecimal digits show.                 *)
ASSUME LibraryAssumption ==
  /\ MemorySize \in Nat /\ MaxText \in Nat
  /\ Uint \in Nat \ {0} /\ Uint % 2 = 0 /\ (Uint - 1) \div 65536 =< 65535

----------------------------------------------------------------------------
(* A machine: the memory, the direction flag, the source and destination   *)
(* registers.                                                              *)
Addresses == 0 .. MemorySize - 1
DWORD == 4

Step(m, width) == IF m.df THEN -width ELSE width

(* rep stosb, stosw and stosl: n times the bytes v.                        *)
Stos(m, v, n) ==
  LET by == Step(m, Len(v))
      start(k) == m.edi + k * by
      written(a) == {k \in 0 .. n - 1 : a \in start(k) .. start(k) + Len(v) - 1}
  IN  [m EXCEPT
        !.mem = [a \in Addresses |->
                   IF written(a) = {} THEN m.mem[a]
                   ELSE v[a - start(CHOOSE k \in written(a) : TRUE) + 1]],
        !.edi = start(n)]

(* One movs, which reads what the ones before it have written.             *)
Copied(mem, from, to, width) ==
  [a \in Addresses |->
     IF a - to \in 0 .. width - 1 /\ from + a - to \in Addresses
     THEN mem[from + a - to] ELSE mem[a]]

(* rep movsb and movsl: n times `width` bytes.                             *)
Movs(m, width, n) ==
  LET by == Step(m, width)
      from(k) == m.esi + k * by
      to(k) == m.edi + k * by
      mem[k \in 0 .. n] ==
        IF k = 0 THEN m.mem
        ELSE Copied(mem[k - 1], from(k - 1), to(k - 1), width)
  IN  [m EXCEPT !.mem = mem[n], !.edi = to(n), !.esi = from(n)]

(* Mutant of cld.                                                          *)
NoCld(m) == m

cld(m) == [m EXCEPT !.df = FALSE]
std(m) == [m EXCEPT !.df = TRUE]

(* The loops of movb, which go up whatever the flag is.                    *)
Up(m) == [m EXCEPT !.df = FALSE]
StoreBytes(m, c, n) == [Stos(Up(m), <<c>>, n) EXCEPT !.df = m.df]
CopyBytes(m, n) == [Movs(Up(m), 1, n) EXCEPT !.df = m.df]

(* The bytes before the destination is aligned, or all n of them.          *)
Unaligned(edi, n) ==
  CHOOSE k \in 0 .. n :
    /\ k = n \/ (edi + k) % DWORD = 0
    /\ \A j \in 0 .. k - 1 : (edi + j) % DWORD # 0

memset(m, c, n) ==
  LET rest == n - Unaligned(m.edi, n)
      aligned == StoreBytes(m, c, n - rest)
      filled == Stos(cld(aligned), [k \in 1 .. DWORD |-> c], rest \div DWORD)
  IN  IF rest = 0 THEN aligned ELSE StoreBytes(filled, c, rest % DWORD)

(* The value, and so what is stored, is two or four bytes; n counts values.*)
memset_word(m, v, n) == Stos(cld(m), v, n)
memset_dword(m, v, n) == Stos(cld(m), v, n)

memcpy(m, n) ==
  LET rest == n - Unaligned(m.edi, n)
      aligned == CopyBytes(m, n - rest)
      copied == Movs(cld(aligned), DWORD, rest \div DWORD)
  IN  IF rest = 0 THEN aligned ELSE CopyBytes(copied, rest % DWORD)

memmove(m, n) ==
  IF m.esi >= m.edi THEN Movs(cld(m), 1, n)
  ELSE Movs([std(cld(m)) EXCEPT !.esi = @ + n - 1, !.edi = @ + n - 1], 1, n)

(* The scrolling of term_putc, for a screen of two-byte cells at 0.        *)
Scrolled(m, rows, cols, blank) ==
  LET moved == memmove([m EXCEPT !.edi = 0, !.esi = 2 * cols],
                       (rows - 1) * cols * 2)
  IN  memset_word([moved EXCEPT !.edi = (rows - 1) * cols * 2], blank, cols)

----------------------------------------------------------------------------
(* Strings.  A buffer is a sequence of characters, its first byte is 1.    *)
NULCHAR == 0

(* The place of the first character from place p on that is NUL.           *)
strlen(s) ==
  LET at[p \in 1 .. Len(s)] == IF s[p] = NULCHAR THEN p - 1 ELSE at[p + 1]
  IN  at[1]

strncmp(s1, s2, n) ==
  LET from[p \in 1 .. n + 1] ==
        IF p > n THEN 0
        ELSE IF s1[p] # s2[p] \/ s1[p] = NULCHAR THEN s1[p] - s2[p]
        ELSE from[p + 1]
  IN  from[1]

strcpy(dest, src) ==
  [p \in DOMAIN dest |-> IF p =< strlen(src) THEN src[p]
                         ELSE IF p = strlen(src) + 1 THEN NULCHAR
                         ELSE dest[p]]

(* It looks at src[n], too, before it looks at n.                          *)
strncpy(dest, src, n) ==
  LET stop == CHOOSE p \in 1 .. n + 1 :
                /\ p = n + 1 \/ src[p] = NULCHAR
                /\ \A q \in 1 .. p - 1 : src[q] # NULCHAR
  IN  [p \in DOMAIN dest |-> IF p < stop THEN src[p]
                             ELSE IF p =< n THEN NULCHAR
                             ELSE dest[p]]

----------------------------------------------------------------------------
(* Numbers and printf.  What is printed is a sequence of characters.       *)
lookup == <<"0", "1", "2", "3", "4", "5", "6", "7", "8", "9",
            "A", "B", "C", "D", "E", "F">>

(* In place, from both ends.                                               *)
strrev(s) ==
  LET swapped[beg \in 0 .. Len(s) \div 2] ==
        IF beg = 0 THEN s
        ELSE [swapped[beg - 1] EXCEPT
                ![beg] = swapped[beg - 1][Len(s) + 1 - beg],
                ![Len(s) + 1 - beg] = swapped[beg - 1][beg]]
  IN  swapped[Len(s) \div 2]

itoa(value, radix) ==
  LET lowest_first[newval \in 0 .. Uint - 1] ==
        IF newval = 0 THEN <<>>
        ELSE <<lookup[(newval % radix) + 1]>> \o lowest_first[newval \div radix]
  IN  IF value = 0 THEN <<"0">> ELSE strrev(lowest_first[value])

(* %#x: zeros up to index 8 of the buffer, where the digits are.           *)
Padded8(s) == [k \in 1 .. 8 - Len(s) |-> "0"] \o s

(* An argument is a machine word: a number below Uint, or a string.        *)
Converted(c, alternate, arg) ==
  CASE c = "%" -> <<"%">>
    [] c = "x" -> IF alternate THEN Padded8(itoa(arg, 16)) ELSE itoa(arg, 16)
    [] c = "u" -> itoa(arg, 10)
    [] c = "d" -> IF arg >= Uint \div 2 THEN <<"-">> \o itoa(Uint - arg, 10)
                  ELSE itoa(arg, 10)
    [] c = "c" -> <<arg>>
    [] c = "s" -> arg
    [] OTHER -> <<>>

Consumes(c) == c \in {"x", "u", "d", "c", "s"}

(* The character that a "%" at place p is about.  A format must not end    *)
(* inside a conversion.                                                    *)
Specifier(format, p) ==
  CHOOSE q \in p + 1 .. Len(format) :
    /\ format[q] # "#"
    /\ \A r \in p + 1 .. q - 1 : format[r] = "#"

(* A turn of printf's loop: s has the place in the format, that of the     *)
(* argument, and what has been printed.                                    *)
PrintNext(format, args, s) ==
  IF s.buf > Len(format) THEN s
  ELSE IF format[s.buf] # "%"
  THEN [s EXCEPT !.buf = @ + 1, !.out = Append(@, format[s.buf])]
  ELSE LET q == Specifier(format, s.buf)
           c == format[q]
       IN  [buf |-> q + 1,
            esp |-> IF Consumes(c) THEN s.esp + 1 ELSE s.esp,
            out |-> s.out \o Converted(c, q > s.buf + 1,
                                       IF Consumes(c) THEN args[s.esp] ELSE 0)]

printf(format, args) ==
  LET turns[n \in 0 .. Len(format)] ==
        IF n = 0 THEN [buf |-> 1, esp |-> 1, out |-> <<>>]
        ELSE PrintNext(format, args, turns[n - 1])
  IN  turns[Len(format)].out

----------------------------------------------------------------------------
(* What the callers rely on.                                               *)

(* A memory in which every byte is different.                              *)
Machine(df, esi, edi) ==
  [mem |-> [a \in Addresses |-> a], df |-> df, esi |-> esi, edi |-> edi]
Blank == <<-1, -2>>
Wide == <<-1, -2, -3, -4>>

Filled(at, n, v) ==
  [a \in Addresses |-> IF a \in at .. at + n * Len(v) - 1
                       THEN v[((a - at) % Len(v)) + 1] ELSE a]
Moved(from, to, n) ==
  [a \in Addresses |-> IF a \in to .. to + n - 1 THEN from + a - to ELSE a]

(* Exactly the n bytes, words or double words at the destination are       *)
(* written, wherever they are aligned and whatever the direction flag was; *)
(* memmove copies also what it overwrites; the screen goes up by one row.  *)
MemoryMatches ==
  \A df \in BOOLEAN :
    /\ \A n \in 0 .. MemorySize : \A to \in 0 .. MemorySize - n :
         /\ memset(Machine(df, 0, to), -1, n).mem = Filled(to, n, <<-1>>)
         /\ 2 * n =< MemorySize - to =>
              memset_word(Machine(df, 0, to), Blank, n).mem = Filled(to, n, Blank)
         /\ 4 * n =< MemorySize - to =>
              memset_dword(Machine(df, 0, to), Wide, n).mem = Filled(to, n, Wide)
         /\ \A from \in 0 .. MemorySize - n :
              /\ memmove(Machine(df, from, to), n).mem = Moved(from, to, n)
              /\ from + n =< to \/ to + n =< from =>
                   memcpy(Machine(df, from, to), n).mem = Moved(from, to, n)
    /\ \A rows, cols \in 1 .. 3 :
         2 * rows * cols =< MemorySize =>
           Scrolled(Machine(df, 0, 0), rows, cols, Blank).mem =
             [a \in Addresses |->
                IF a >= 2 * rows * cols THEN a
                ELSE IF a < 2 * (rows - 1) * cols THEN a + 2 * cols
                ELSE Blank[(a % 2) + 1]]

(* Buffers with a NUL.                                                     *)
Texts == {Append(s, NULCHAR) : s \in [1 .. MaxText -> 0 .. 2]}
Upto(s, n) == SubSeq(s, 1, IF strlen(s) < n THEN strlen(s) ELSE n)
Before(s, t) ==
  \E k \in 1 .. MaxText + 1 : s[k] < t[k] /\ SubSeq(s, 1, k - 1) = SubSeq(t, 1, k - 1)

(* strncmp is 0 for strings that agree up to their end or to n characters, *)
(* and otherwise has the sign of their order; a copy compares equal to the *)
(* string; strncpy writes n bytes, and no NUL if the string has n.         *)
StringsMatch ==
  \A s, t \in Texts : \A n \in 0 .. MaxText :
    /\ (strncmp(s, t, n) = 0) <=> (Upto(s, n) = Upto(t, n))
    /\ (strncmp(s, t, MaxText + 1) < 0) <=>
         (Upto(s, MaxText) # Upto(t, MaxText) /\ Before(s, t))
    /\ strncmp(strcpy(t, s), s, MaxText + 1) = 0
    /\ LET copy == strncpy(t, s, n)
       IN  /\ strncmp(copy, s, n) = 0
           /\ \A p \in strlen(s) + 1 .. n : copy[p] = NULCHAR
           /\ \A p \in n + 1 .. MaxText + 1 : copy[p] = t[p]
           /\ n > strlen(s) => strlen(copy) = strlen(s)

(* The k-th power, n without its k lowest digits, the k-th digit, and the  *)
(* numeral of n: as few digits as it takes, each where it belongs.         *)
Power(radix, k) ==
  LET power[j \in 0 .. k] == IF j = 0 THEN 1 ELSE radix * power[j - 1]
  IN  power[k]

Quotient(n, radix, k) == n \div Power(radix, k)

Digit(n, radix, k) == lookup[(Quotient(n, radix, k) % radix) + 1]

Numeral(n, radix) ==
  LET len == CHOOSE l \in 1 .. Uint :
               /\ Quotient(n, radix, l) = 0
               /\ l = 1 \/ Quotient(n, radix, l - 1) # 0
  IN  [k \in 1 .. len |-> Digit(n, radix, len - k)]

Number(n) == IF n < 0 THEN <<"-">> \o Numeral(-n, 10) ELSE Numeral(n, 10)

Signed(w) == IF w >= Uint \div 2 THEN w - Uint ELSE w
EightDigits(w) == [k \in 1 .. 8 |-> Digit(w, 16, 8 - k)]

(* A piece of a format, the argument it takes and what it should print.    *)
Literal == {[format |-> <<"a">>, args |-> <<>>, prints |-> <<"a">>],
            [format |-> <<"%", "%">>, args |-> <<>>, prints |-> <<"%">>],
            [format |-> <<"%", "s">>, args |-> << <<"b", "%", "d">> >>,
             prints |-> <<"b", "%", "d">>]}
Numbers(w) ==
  {[format |-> <<"%", "d">>, args |-> <<w>>, prints |-> Number(Signed(w))],
   [format |-> <<"%", "u">>, args |-> <<w>>, prints |-> Number(w)],
   [format |-> <<"%", "x">>, args |-> <<w>>, prints |-> Numeral(w, 16)],
   [format |-> <<"%", "#", "x">>, args |-> <<w>>, prints |-> EightDigits(w)]}

(* Every word is printed as the number it stands for, the least negative   *)
(* one included, and every conversion takes its own argument, whatever     *)
(* comes before it.                                                        *)
PrintfMatches ==
  LET prints(p, q) == printf(p.format \o q.format \o <<"a">>, p.args \o q.args)
                        = p.prints \o q.prints \o <<"a">>
  IN  \A w \in 0 .. Uint - 1 : \A q \in Numbers(w) :
        /\ \A p \in Literal : prints(p, q)
        /\ \A p \in Numbers(0) : prints(p, q)

(* The functions do what the rest of the kernel, and of the models, takes  *)
(* them for.                                                               *)
FunctionsMatch == MemoryMatches /\ StringsMatch /\ PrintfMatches
=============================================================================

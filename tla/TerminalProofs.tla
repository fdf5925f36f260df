---------------------------- MODULE TerminalProofs ----------------------------
(***************************************************************************)
(* For every size of the screens and of the keyboard buffers: the types,   *)
(* one line in a buffer, and the hardware's cursor; and, while no key      *)
(* clears the screen, that the cursor of a terminal stays on it and that   *)
(* the screen shows the line that is being edited.                         *)
(***************************************************************************)
EXTENDS Terminal, FiniteSetTheorems, TLAPS

(* Where the last row starts.                                              *)
LastRow == NUM_COLS * (NUM_ROWS - 1)

LEMMA Sizes ==
  /\ NUM_COLS \in Nat /\ NUM_COLS >= 1 /\ NUM_ROWS \in Nat /\ NUM_ROWS >= 2
BY SizesAssumption

LEMMA Rows ==
  /\ LastRow \in Nat
  /\ \A y \in Int : NUM_COLS * y \in Int
  /\ \A y \in Int : NUM_COLS * (y + 1) = NUM_COLS * y + NUM_COLS
  /\ \A y \in Int : NUM_COLS * (y - 1) = NUM_COLS * y - NUM_COLS
  /\ \A y \in Nat : NUM_COLS * y >= 0
  /\ \A y \in Nat : y >= NUM_ROWS - 1 => NUM_COLS * y >= LastRow
  /\ \A y \in Nat : y >= 1 => NUM_COLS * y >= NUM_COLS
<1>1. LastRow \in Nat
  BY Sizes DEF LastRow
<1>2. \A y \in Int : NUM_COLS * y \in Int
  BY Sizes
<1>3. \A y \in Int : NUM_COLS * (y + 1) = NUM_COLS * y + NUM_COLS
  BY Sizes
<1>4. \A y \in Int : NUM_COLS * (y - 1) = NUM_COLS * y - NUM_COLS
  BY Sizes
<1>5. \A y \in Nat : NUM_COLS * y >= 0
  BY Sizes
<1>6. \A y \in Nat : y >= NUM_ROWS - 1 => NUM_COLS * y >= LastRow
  BY Sizes DEF LastRow
<1>7. \A y \in Nat : y >= 1 => NUM_COLS * y >= NUM_COLS
  BY Sizes
<1>8. QED
  BY <1>1, <1>2, <1>3, <1>4, <1>5, <1>6, <1>7

----------------------------------------------------------------------------
(* The moves of the cursor.                                                *)
SameLine(T, N) ==
  N.keyboard_buffer = T.keyboard_buffer /\ N.term_in_flag = T.term_in_flag

LEMMA AtType ==
  ASSUME NEW T \in TerminalType, NEW x \in Int, NEW y \in Int,
         NEW v \in [Cell -> Byte]
  PROVE  /\ At(T, x, y, v) \in TerminalType
         /\ At(T, x, y, v).screen_x = x /\ At(T, x, y, v).screen_y = y
         /\ Pos(At(T, x, y, v)) = NUM_COLS * y + x
         /\ SameLine(T, At(T, x, y, v))
BY DEF At, TerminalType, Pos, Cursor, SameLine

LEMMA DrawnType ==
  ASSUME NEW v \in [Cell -> Byte], NEW i, NEW c \in Byte
  PROVE  Drawn(v, i, c) \in [Cell -> Byte] /\ RowUp(v) \in [Cell -> Byte]
BY DEF Drawn, RowUp, Byte, KeyByte

LEMMA ScrollMoves ==
  ASSUME NEW T \in TerminalType,
         T.screen_x \in 0 .. NUM_COLS - 1, T.screen_y \in 0 .. NUM_ROWS
  PROVE  /\ Scroll(T) \in TerminalType /\ OnScreen(Scroll(T))
         /\ Pos(Scroll(T)) = Pos(T) \/ Pos(Scroll(T)) >= LastRow
         /\ SameLine(T, Scroll(T))
<1>1. CASE T.screen_y < NUM_ROWS
  <2>1. T.screen_y \in 0 .. NUM_ROWS - 1
    BY <1>1, Sizes
  <2>2. QED
    BY <1>1, <2>1 DEF Scroll, OnScreen, SameLine
<1>2. CASE ~(T.screen_y < NUM_ROWS)
  <2>1. T.video \in [Cell -> Byte]
    BY DEF TerminalType
  <2>2. PICK v \in [Cell -> Byte] : v = RowUp(T.video)
    BY <2>1, DrawnType DEF Byte, KeyByte
  <2>3. PICK x \in 0 .. NUM_COLS - 1 : x = T.screen_x
    OBVIOUS
  <2>4. PICK N : N = At(T, x, NUM_ROWS - 1, v)
    OBVIOUS
  <2>5. N = Scroll(T)
    BY <1>2, <2>2, <2>3, <2>4 DEF Scroll
  <2>6. x \in Int /\ x >= 0 /\ NUM_ROWS - 1 \in Int
    BY Sizes
  <2>7. /\ N \in TerminalType /\ SameLine(T, N)
        /\ N.screen_x = x /\ N.screen_y = NUM_ROWS - 1
        /\ Pos(N) = NUM_COLS * (NUM_ROWS - 1) + x
    BY <2>4, <2>6, AtType
  <2>8. Pos(N) = LastRow + x
    BY <2>7 DEF LastRow
  <2>9. Pos(N) >= LastRow
    BY <2>6, <2>8, Rows
  <2>10. NUM_ROWS - 1 \in 0 .. NUM_ROWS - 1
    BY Sizes
  <2>11. QED
    BY <2>3, <2>5, <2>7, <2>9, <2>10 DEF OnScreen
<1>3. QED
  BY <1>1, <1>2

LEMMA PutOneMoves ==
  ASSUME NEW T \in TerminalType, OnScreen(T), NEW c \in Byte
  PROVE  /\ PutOne(T, c) \in TerminalType /\ OnScreen(PutOne(T, c))
         /\ \/ Pos(PutOne(T, c)) >= Pos(T) + 1
            \/ Pos(PutOne(T, c)) >= LastRow
         /\ SameLine(T, PutOne(T, c))
<1>1. PICK x \in 0 .. NUM_COLS - 1, y \in 0 .. NUM_ROWS - 1 :
        T.screen_x = x /\ T.screen_y = y
  BY DEF OnScreen
<1>2. Pos(T) = NUM_COLS * y + x /\ T.video \in [Cell -> Byte]
  BY <1>1 DEF Pos, Cursor, TerminalType
<1>3. PICK v \in [Cell -> Byte] : v = Drawn(T.video, Pos(T), c)
  BY <1>2, DrawnType
<1>4. PICK N : /\ PutOne(T, c) = Scroll(N)
               /\ \/ N = At(T, 0, y + 1, T.video)
                  \/ N = At(T, 0, y + 1, v)
                  \/ N = At(T, x + 1, y, v) /\ x + 1 # NUM_COLS
  BY <1>1, <1>3 DEF PutOne
<1>5. /\ x \in Int /\ x >= 0 /\ x + 1 =< NUM_COLS /\ x + 1 \in Int
      /\ y \in Int /\ y >= 0 /\ y + 1 =< NUM_ROWS /\ y + 1 \in Int
  BY <1>1, Sizes
<1>6. PICK r \in Int, s \in Int :
        r = NUM_COLS * y /\ s = NUM_COLS * (y + 1) /\ s = r + NUM_COLS
  BY <1>5, Rows, Sizes
<1>7. Pos(T) = r + x
  BY <1>2, <1>6
<1>. DEFINE Moved(a, b, q) ==
       /\ N \in TerminalType /\ SameLine(T, N)
       /\ N.screen_x = a /\ N.screen_y = b /\ Pos(N) = q
<1>8. Moved(0, y + 1, s) \/ (Moved(x + 1, y, r + x + 1) /\ x + 1 # NUM_COLS)
  <2>1. ASSUME NEW a \in Int, NEW b \in Int, NEW w \in [Cell -> Byte],
               N = At(T, a, b, w)
        PROVE  Moved(a, b, NUM_COLS * b + a)
    BY <2>1, AtType
  <2>2. CASE N = At(T, 0, y + 1, T.video) \/ N = At(T, 0, y + 1, v)
    <3>1. Moved(0, y + 1, NUM_COLS * (y + 1) + 0)
      BY <1>2, <1>5, <2>1, <2>2
    <3>2. NUM_COLS * (y + 1) + 0 = s
      BY <1>6
    <3>3. QED
      BY <3>1, <3>2
  <2>3. CASE N = At(T, x + 1, y, v) /\ x + 1 # NUM_COLS
    <3>1. Moved(x + 1, y, NUM_COLS * y + (x + 1))
      BY <1>5, <2>1, <2>3
    <3>2. NUM_COLS * y + (x + 1) = r + x + 1
      BY <1>5, <1>6
    <3>3. QED
      BY <2>3, <3>1, <3>2
  <2>4. QED
    BY <1>4, <2>2, <2>3
<1>9. /\ N \in TerminalType /\ SameLine(T, N)
      /\ N.screen_x \in 0 .. NUM_COLS - 1 /\ N.screen_y \in 0 .. NUM_ROWS
      /\ Pos(N) \in Int /\ Pos(N) >= Pos(T) + 1
  <2>1. CASE Moved(0, y + 1, s)
    <3>1. 0 \in 0 .. NUM_COLS - 1 /\ y + 1 \in 0 .. NUM_ROWS
      BY <1>5, Sizes
    <3>2. s >= r + x + 1
      BY <1>5, <1>6, Sizes
    <3>3. QED
      BY <1>6, <1>7, <2>1, <3>1, <3>2
  <2>2. CASE Moved(x + 1, y, r + x + 1) /\ x + 1 # NUM_COLS
    <3>1. x + 1 \in 0 .. NUM_COLS - 1 /\ y \in 0 .. NUM_ROWS
      BY <1>5, <2>2, Sizes
    <3>2. r + x + 1 \in Int /\ r + x + 1 >= r + x + 1
      BY <1>5, <1>6
    <3>3. QED
      BY <1>7, <2>2, <3>1, <3>2
  <2>3. QED
    BY <1>8, <2>1, <2>2
<1>10. /\ Scroll(N) \in TerminalType /\ OnScreen(Scroll(N))
       /\ Pos(Scroll(N)) = Pos(N) \/ Pos(Scroll(N)) >= LastRow
       /\ SameLine(N, Scroll(N))
  BY <1>9, ScrollMoves
<1>11. SameLine(T, Scroll(N))
  BY <1>9, <1>10 DEF SameLine
<1>12. QED
  BY <1>4, <1>9, <1>10, <1>11

(* A step back from anywhere but the first cell.                           *)
LEMMA EraseOneMoves ==
  ASSUME NEW T \in TerminalType, OnScreen(T), Pos(T) >= 1
  PROVE  /\ EraseOne(T) \in TerminalType /\ OnScreen(EraseOne(T))
         /\ Pos(EraseOne(T)) = Pos(T) - 1
         /\ SameLine(T, EraseOne(T))
<1>1. PICK x \in 0 .. NUM_COLS - 1, y \in 0 .. NUM_ROWS - 1 :
        T.screen_x = x /\ T.screen_y = y
  BY DEF OnScreen
<1>2. Pos(T) = NUM_COLS * y + x /\ T.video \in [Cell -> Byte]
  BY <1>1 DEF Pos, Cursor, TerminalType
<1>3. PICK v \in [Cell -> Byte] : v = Drawn(T.video, Pos(T) - 1, " ")
  BY <1>2, DrawnType DEF Byte, KeyByte
<1>4. /\ x \in Int /\ x >= 0 /\ x =< NUM_COLS - 1
      /\ y \in Int /\ y >= 0 /\ y =< NUM_ROWS - 1
  BY <1>1, Sizes
<1>5. PICK r \in Int, s \in Int :
        r = NUM_COLS * y /\ s = NUM_COLS * (y - 1) /\ s = r - NUM_COLS
  BY <1>4, Rows, Sizes
<1>6. Pos(T) = r + x
  BY <1>2, <1>5
<1>7. ASSUME NEW a \in Int, NEW b \in Int, EraseOne(T) = At(T, a, b, v)
      PROVE  /\ EraseOne(T) \in TerminalType /\ SameLine(T, EraseOne(T))
             /\ EraseOne(T).screen_x = a /\ EraseOne(T).screen_y = b
             /\ Pos(EraseOne(T)) = NUM_COLS * b + a
  BY <1>7, AtType
<1>8. CASE x = 0 /\ y > 0
  <2>1. EraseOne(T) = At(T, NUM_COLS - 1, y - 1, v)
    BY <1>1, <1>3, <1>8 DEF EraseOne
  <2>2. /\ NUM_COLS - 1 \in Int /\ y - 1 \in Int
        /\ NUM_COLS - 1 \in 0 .. NUM_COLS - 1 /\ y - 1 \in 0 .. NUM_ROWS - 1
    BY <1>4, <1>8, Sizes
  <2>3. NUM_COLS * (y - 1) + (NUM_COLS - 1) = Pos(T) - 1
    BY <1>5, <1>6, <1>8, Sizes
  <2>4. QED
    BY <1>7, <2>1, <2>2, <2>3 DEF OnScreen
<1>9. CASE ~(x = 0 /\ y > 0)
  <2>1. EraseOne(T) = At(T, x - 1, y, v)
    BY <1>1, <1>3, <1>9 DEF EraseOne
  <2>2. x >= 1
    <3>1. y = 0 => r = 0
      BY <1>5, Sizes
    <3>2. CASE y = 0
      BY <1>4, <1>6, <3>1, <3>2
    <3>3. CASE y # 0
      BY <1>4, <1>9, <3>3
    <3>4. QED
      BY <3>2, <3>3
  <2>3. x - 1 \in Int /\ x - 1 \in 0 .. NUM_COLS - 1 /\ y \in 0 .. NUM_ROWS - 1
    BY <1>4, <2>2, Sizes
  <2>4. NUM_COLS * y + (x - 1) = Pos(T) - 1
    BY <1>4, <1>5, <1>6
  <2>5. QED
    BY <1>4, <1>7, <2>1, <2>3, <2>4 DEF OnScreen
<1>10. QED
  BY <1>8, <1>9

----------------------------------------------------------------------------
(* The cells that a line takes when it is echoed: four for a tab, one for  *)
(* any other byte, a newline among them.                                   *)
ByteWidth(c) == IF c = "tab" THEN 4 ELSE 1
Tabs(b) == {i \in 1 .. Len(b) : b[i] = "tab"}
Width(b) == Len(b) + 3 * Cardinality(Tabs(b))

Line == Seq(KeyByte)

LEMMA TabsFinite ==
  ASSUME NEW b \in Line
  PROVE  /\ IsFiniteSet(Tabs(b)) /\ Cardinality(Tabs(b)) \in Nat
         /\ Cardinality(Tabs(b)) =< Len(b)
         /\ Width(b) \in Nat
<1>1. Len(b) \in Nat
  BY DEF Line
<1>2. IsFiniteSet(1 .. Len(b)) /\ Cardinality(1 .. Len(b)) = Len(b)
  <2>1. PICK n \in Nat : n = Len(b)
    BY <1>1
  <2>2. /\ IsFiniteSet(1 .. n)
        /\ Cardinality(1 .. n) = IF 1 > n THEN 0 ELSE n - 1 + 1
    BY FS_Interval
  <2>3. (IF 1 > n THEN 0 ELSE n - 1 + 1) = n
    OBVIOUS
  <2>4. QED
    BY <2>1, <2>2, <2>3
<1>3. Tabs(b) \subseteq 1 .. Len(b)
  BY DEF Tabs
<1>4. IsFiniteSet(Tabs(b)) /\ Cardinality(Tabs(b)) =< Len(b)
  BY <1>2, <1>3, FS_Subset
<1>5. Cardinality(Tabs(b)) \in Nat
  BY <1>4, FS_CardinalityType
<1>6. QED
  BY <1>1, <1>4, <1>5 DEF Width

LEMMA WidthAppend ==
  ASSUME NEW b \in Line, NEW c \in KeyByte
  PROVE  Width(Append(b, c)) = Width(b) + ByteWidth(c)
<1>1. PICK n \in Nat : n = Len(b)
  BY DEF Line
<1>2. /\ Len(Append(b, c)) = n + 1
      /\ \A i \in 1 .. n : Append(b, c)[i] = b[i]
      /\ Append(b, c)[n + 1] = c
  BY <1>1 DEF Line
<1>3. Tabs(Append(b, c)) = IF c = "tab" THEN Tabs(b) \cup {n + 1} ELSE Tabs(b)
  BY <1>1, <1>2 DEF Tabs
<1>4. n + 1 \notin Tabs(b)
  BY <1>1 DEF Tabs
<1>5. CASE c = "tab"
  <2>1. Cardinality(Tabs(Append(b, c))) = Cardinality(Tabs(b)) + 1
    BY <1>3, <1>4, <1>5, TabsFinite, FS_AddElement
  <2>2. QED
    BY <1>1, <1>2, <1>5, <2>1, TabsFinite DEF Width, ByteWidth
<1>6. CASE c # "tab"
  BY <1>1, <1>2, <1>3, <1>6, TabsFinite DEF Width, ByteWidth
<1>7. QED
  BY <1>5, <1>6

LEMMA WidthFront ==
  ASSUME NEW b \in Line, Len(b) # 0
  PROVE  /\ SubSeq(b, 1, Len(b) - 1) \in Line
         /\ Len(SubSeq(b, 1, Len(b) - 1)) = Len(b) - 1
         /\ Width(b) = Width(SubSeq(b, 1, Len(b) - 1)) + ByteWidth(b[Len(b)])
<1>1. PICK n \in Nat : n = Len(b) /\ n >= 1
  BY DEF Line
<1>2. PICK f : f = SubSeq(b, 1, n - 1)
  OBVIOUS
<1>3. /\ f \in Line /\ Len(f) = n - 1
      /\ \A i \in 1 .. n - 1 : f[i] = b[i]
      /\ b[n] \in KeyByte
  BY <1>1, <1>2 DEF Line
<1>4. b = Append(f, b[n])
  BY <1>1, <1>3 DEF Line
<1>5. Width(b) = Width(f) + ByteWidth(b[n])
  BY <1>3, <1>4, WidthAppend
<1>6. QED
  BY <1>1, <1>2, <1>3, <1>5

(* Whatever the buffer holds takes no more than all the rows but one.      *)
LEMMA LineFits ==
  ASSUME NEW b \in Line, Len(b) =< KEYBOARD_BUFFER_SIZE
  PROVE  Width(b) =< LastRow
<1>1. PICK n \in Nat : n = Len(b) /\ n =< KEYBOARD_BUFFER_SIZE
  BY DEF Line
<1>2. Width(b) =< KeyWidth * n
  <2>1. CASE "tab" \in Keys
    BY <1>1, <2>1, TabsFinite DEF Width, KeyWidth
  <2>2. CASE "tab" \notin Keys
    <3>1. Tabs(b) = {}
      <4>1. \A i \in 1 .. Len(b) : b[i] \in KeyByte
        BY DEF Line
      <4>2. "tab" \notin KeyByte
        BY <2>2 DEF KeyByte
      <4>3. QED
        BY <4>1, <4>2 DEF Tabs
    <3>2. QED
      BY <1>1, <2>2, <3>1, FS_EmptySet DEF Width, KeyWidth
  <2>3. QED
    BY <2>1, <2>2
<1>3. PICK k \in Nat, m \in Nat : k = KeyWidth /\ m = KEYBOARD_BUFFER_SIZE
  BY SizesAssumption DEF KeyWidth
<1>4. k * n \in Nat /\ k * n =< k * m
  BY <1>1, <1>3
<1>5. k * m =< LastRow
  BY <1>3, Sizes, SizesAssumption DEF LastRow
<1>6. QED
  <2>1. PICK u \in Nat, l \in Nat : u = k * m /\ l = LastRow
    BY <1>3, Rows
  <2>2. k * n \in Nat /\ k * n =< u /\ u =< l /\ Width(b) \in Nat
    BY <1>4, <1>5, <2>1, TabsFinite
  <2>3. Width(b) =< k * n
    BY <1>2, <1>3
  <2>4. QED
    BY <2>1, <2>2, <2>3

----------------------------------------------------------------------------
(* A terminal whose cursor has at least as many cells before it as its     *)
(* line has taken: a backspace finds the cells it erases.                  *)
Good(T) ==
  /\ T \in TerminalType /\ OnScreen(T)
  /\ Len(T.keyboard_buffer) =< KEYBOARD_BUFFER_SIZE
  /\ Width(T.keyboard_buffer) =< Pos(T)

LEMMA GoodPos ==
  ASSUME NEW T \in TerminalType
  PROVE  /\ Pos(T) \in Int /\ T.keyboard_buffer \in Line
         /\ Len(T.keyboard_buffer) \in Nat /\ T.term_in_flag \in BOOLEAN
<1>1. PICK x \in Int, y \in Int : T.screen_x = x /\ T.screen_y = y
  BY DEF TerminalType
<1>2. NUM_COLS * y \in Int
  BY Rows
<1>3. Pos(T) \in Int
  BY <1>1, <1>2 DEF Pos, Cursor
<1>4. QED
  BY <1>3 DEF TerminalType, Line

LEMMA WithLineType ==
  ASSUME NEW T \in TerminalType, NEW b \in Line, NEW f \in BOOLEAN
  PROVE  /\ WithLine(T, b, f) \in TerminalType
         /\ Pos(WithLine(T, b, f)) = Pos(T)
         /\ OnScreen(WithLine(T, b, f)) <=> OnScreen(T)
         /\ WithLine(T, b, f).keyboard_buffer = b
         /\ WithLine(T, b, f).term_in_flag = f
BY DEF WithLine, TerminalType, Pos, OnScreen, Line

(* term_putc moves the cursor on by what it prints, or scrolls.            *)
LEMMA PutcMoves ==
  ASSUME NEW T \in TerminalType, OnScreen(T), NEW c \in Byte
  PROVE  /\ term_putc(T, c) \in TerminalType /\ OnScreen(term_putc(T, c))
         /\ \/ Pos(term_putc(T, c)) >= Pos(T) + ByteWidth(c)
            \/ Pos(term_putc(T, c)) >= LastRow
         /\ SameLine(T, term_putc(T, c))
<1>1. CASE c # "tab"
  BY <1>1, PutOneMoves DEF term_putc, ByteWidth
<1>2. CASE c = "tab"
  <2>. DEFINE Moved(A, B) == /\ B \in TerminalType /\ OnScreen(B)
                             /\ Pos(B) >= Pos(A) + 1 \/ Pos(B) >= LastRow
                             /\ SameLine(A, B)
  <2>1. \A A \in TerminalType : OnScreen(A) => Moved(A, PutOne(A, " "))
    BY PutOneMoves DEF Byte, KeyByte
  <2>2. PICK T1 : T1 = PutOne(T, " ")
    OBVIOUS
  <2>3. PICK T2 : T2 = PutOne(T1, " ")
    OBVIOUS
  <2>4. PICK T3 : T3 = PutOne(T2, " ")
    OBVIOUS
  <2>5. PICK T4 : T4 = PutOne(T3, " ")
    OBVIOUS
  <2>6. Moved(T, T1)
    BY <2>1, <2>2
  <2>7. Moved(T1, T2)
    BY <2>1, <2>3, <2>6
  <2>8. Moved(T2, T3)
    BY <2>1, <2>4, <2>7
  <2>9. Moved(T3, T4)
    BY <2>1, <2>5, <2>8
  <2>10. /\ Pos(T) \in Int /\ Pos(T1) \in Int /\ Pos(T2) \in Int
         /\ Pos(T3) \in Int /\ Pos(T4) \in Int /\ LastRow \in Int
    BY <2>6, <2>7, <2>8, <2>9, GoodPos, Rows
  <2>11. Pos(T4) >= Pos(T) + 4 \/ Pos(T4) >= LastRow
    BY <2>6, <2>7, <2>8, <2>9, <2>10
  <2>12. SameLine(T, T4)
    BY <2>6, <2>7, <2>8, <2>9 DEF SameLine
  <2>13. T4 = term_putc(T, c)
    BY <1>2, <2>2, <2>3, <2>4, <2>5 DEF term_putc
  <2>14. QED
    BY <1>2, <2>9, <2>11, <2>12, <2>13 DEF ByteWidth
<1>3. QED
  BY <1>1, <1>2

LEMMA PrintGood ==
  ASSUME NEW T, Good(T), NEW c \in Byte
  PROVE  Good(term_putc(T, c))
<1>1. PICK N : N = term_putc(T, c)
  OBVIOUS
<1>2. PICK b \in Line : b = T.keyboard_buffer
  BY GoodPos DEF Good
<1>3. /\ N \in TerminalType /\ OnScreen(N) /\ N.keyboard_buffer = b
      /\ Pos(N) >= Pos(T) + ByteWidth(c) \/ Pos(N) >= LastRow
  BY <1>1, <1>2, PutcMoves DEF Good, SameLine
<1>4. Len(b) =< KEYBOARD_BUFFER_SIZE /\ Width(b) =< Pos(T)
  BY <1>2 DEF Good
<1>5. Width(b) =< LastRow /\ Width(b) \in Nat /\ LastRow \in Nat
  BY <1>4, LineFits, TabsFinite, Rows
<1>6. Pos(T) \in Int /\ Pos(N) \in Int /\ ByteWidth(c) \in {1, 4}
  BY <1>3, GoodPos DEF Good, ByteWidth
<1>7. Width(b) =< Pos(N)
  BY <1>3, <1>4, <1>5, <1>6
<1>8. QED
  BY <1>1, <1>3, <1>4, <1>7 DEF Good

LEMMA FreshGood ==
  ASSUME NEW T, Good(T)
  PROVE  Good(Fresh(T)) /\ Good(WithLine(T, <<>>, FALSE))
<1>1. <<>> \in Line /\ Len(<<>>) = 0 /\ Width(<<>>) = 0
  <2>1. <<>> \in Line /\ Len(<<>>) = 0
    BY DEF Line
  <2>2. Tabs(<<>>) = {}
    BY <2>1 DEF Tabs
  <2>3. QED
    BY <2>1, <2>2, FS_EmptySet DEF Width
<1>2. Pos(T) \in Int /\ Width(T.keyboard_buffer) \in Nat
  BY GoodPos, TabsFinite DEF Good
<1>3. Pos(T) >= 0
  BY <1>2 DEF Good
<1>4. Good(WithLine(T, <<>>, FALSE))
  <2>1. PICK e \in Line : e = <<>> /\ Len(e) = 0 /\ Width(e) = 0
    BY <1>1
  <2>2. PICK N : N = WithLine(T, e, FALSE)
    OBVIOUS
  <2>3. /\ N \in TerminalType /\ OnScreen(N) /\ Pos(N) = Pos(T)
        /\ N.keyboard_buffer = e
    BY <2>2, WithLineType DEF Good
  <2>4. Good(N)
    BY <1>3, <2>1, <2>3, SizesAssumption DEF Good
  <2>5. QED
    BY <2>1, <2>2, <2>4
<1>5. QED
  BY <1>4 DEF Fresh

LEMMA RecvGood ==
  ASSUME NEW T, Good(T), NEW c \in KeyByte
  PROVE  Good(term_recv_byte(T, c))
<1>1. PICK F : F = Fresh(T) /\ Good(F)
  BY FreshGood
<1>2. CASE ~Fits(F, c)
  BY <1>1, <1>2 DEF term_recv_byte, Takes
<1>3. CASE Fits(F, c)
  <2>1. PICK b \in Line : b = F.keyboard_buffer
    BY <1>1, GoodPos DEF Good
  <2>2. PICK d \in Line : d = Append(b, c)
    <3>1. Append(b, c) \in Line
      BY DEF Line
    <3>2. QED
      BY <3>1
  <2>3. Len(d) = Len(b) + 1 /\ Len(b) \in Nat
    BY <2>2 DEF Line
  <2>4. Len(d) =< KEYBOARD_BUFFER_SIZE
    BY <1>3, <2>1, <2>3, SizesAssumption DEF Fits
  <2>5. Width(d) = Width(b) + ByteWidth(c) /\ Width(b) =< Pos(F)
    BY <1>1, <2>1, <2>2, WidthAppend DEF Good
  <2>6. PICK E : E = WithLine(F, d, c = "nl")
    OBVIOUS
  <2>7. /\ E \in TerminalType /\ OnScreen(E) /\ Pos(E) = Pos(F)
        /\ E.keyboard_buffer = d
    BY <1>1, <2>6, WithLineType DEF Good
  <2>8. PICK N : N = term_putc(E, c)
    OBVIOUS
  <2>9. /\ N \in TerminalType /\ OnScreen(N) /\ N.keyboard_buffer = d
        /\ Pos(N) >= Pos(E) + ByteWidth(c) \/ Pos(N) >= LastRow
    BY <2>7, <2>8, PutcMoves DEF SameLine, Byte
  <2>10. Width(d) =< LastRow /\ Width(d) \in Nat /\ Width(b) \in Nat
    BY <2>4, LineFits, TabsFinite
  <2>11. /\ Pos(F) \in Int /\ Pos(N) \in Int /\ LastRow \in Nat
         /\ ByteWidth(c) \in {1, 4}
    BY <1>1, <2>9, GoodPos, Rows DEF Good, ByteWidth
  <2>12. Width(d) =< Pos(N)
    BY <2>5, <2>7, <2>9, <2>10, <2>11
  <2>13. Good(N)
    BY <2>4, <2>9, <2>12 DEF Good
  <2>14. QED
    BY <1>1, <1>3, <2>1, <2>2, <2>6, <2>8, <2>13 DEF term_recv_byte, Takes
<1>4. QED
  BY <1>2, <1>3

LEMMA BkspGood ==
  ASSUME NEW T, Good(T)
  PROVE  Good(term_bksp(T))
<1>1. PICK b \in Line : b = T.keyboard_buffer /\ Len(b) \in Nat
  BY GoodPos DEF Good
<1>2. CASE Len(b) = 0
  BY <1>1, <1>2 DEF term_bksp
<1>3. CASE Len(b) # 0
  <2>1. PICK d \in Line : d = SubSeq(b, 1, Len(b) - 1)
    BY <1>3, WidthFront
  <2>2. /\ Len(d) =< KEYBOARD_BUFFER_SIZE
        /\ Width(b) = Width(d) + ByteWidth(b[Len(b)])
        /\ Width(d) \in Nat
    <3>1. Len(d) = Len(b) - 1
      BY <1>3, <2>1, WidthFront
    <3>2. Len(b) =< KEYBOARD_BUFFER_SIZE
      BY <1>1 DEF Good
    <3>3. QED
      BY <1>1, <1>3, <2>1, <3>1, <3>2, WidthFront, TabsFinite, SizesAssumption
  <2>3. PICK w \in {1, 4} : w = ByteWidth(b[Len(b)])
    BY DEF ByteWidth
  <2>4. PICK E : E = WithLine(T, d, T.term_in_flag)
    OBVIOUS
  <2>5. /\ E \in TerminalType /\ OnScreen(E) /\ Pos(E) = Pos(T)
        /\ E.keyboard_buffer = d
    BY <2>4, WithLineType, GoodPos DEF Good
  <2>6. Pos(E) \in Int /\ Pos(E) >= Width(d) + w
    BY <1>1, <2>2, <2>3, <2>5, GoodPos DEF Good
  <2>7. ASSUME NEW N \in TerminalType, OnScreen(N), SameLine(E, N),
               Pos(N) = Pos(E) - w
        PROVE  Good(N)
    <3>1. N.keyboard_buffer = d /\ Width(d) =< Pos(N)
      BY <2>2, <2>3, <2>5, <2>6, <2>7 DEF SameLine
    <3>2. QED
      BY <2>2, <2>7, <3>1 DEF Good
  <2>8. CASE b[Len(b)] # "tab"
    <3>1. w = 1 /\ Pos(E) >= 1
      BY <2>2, <2>3, <2>6, <2>8 DEF ByteWidth
    <3>2. Good(EraseOne(E))
      BY <2>5, <2>7, <3>1, EraseOneMoves
    <3>3. term_bksp(T) = EraseOne(E)
      BY <1>1, <1>3, <2>1, <2>4, <2>8 DEF term_bksp
    <3>4. QED
      BY <3>2, <3>3
  <2>9. CASE b[Len(b)] = "tab"
    <3>1. w = 4 /\ Pos(E) >= 4
      BY <2>2, <2>3, <2>6, <2>9 DEF ByteWidth
    <3>. DEFINE Back(A, B) == /\ B \in TerminalType /\ OnScreen(B)
                              /\ Pos(B) = Pos(A) - 1 /\ SameLine(A, B)
    <3>2. \A A \in TerminalType :
            OnScreen(A) /\ Pos(A) >= 1 => Back(A, EraseOne(A))
      BY EraseOneMoves
    <3>3. PICK E1 : E1 = EraseOne(E)
      OBVIOUS
    <3>4. PICK E2 : E2 = EraseOne(E1)
      OBVIOUS
    <3>5. PICK E3 : E3 = EraseOne(E2)
      OBVIOUS
    <3>6. PICK E4 : E4 = EraseOne(E3)
      OBVIOUS
    <3>7. Back(E, E1) /\ Pos(E1) >= 3
      BY <2>5, <2>6, <3>1, <3>2, <3>3
    <3>8. Back(E1, E2) /\ Pos(E2) >= 2
      BY <2>6, <3>1, <3>2, <3>4, <3>7
    <3>9. Back(E2, E3) /\ Pos(E3) >= 1
      BY <2>6, <3>1, <3>2, <3>5, <3>7, <3>8
    <3>10. Back(E3, E4) /\ Pos(E4) = Pos(E) - 4
      BY <2>6, <3>1, <3>2, <3>6, <3>7, <3>8, <3>9
    <3>11. SameLine(E, E4)
      BY <3>7, <3>8, <3>9, <3>10 DEF SameLine
    <3>12. Good(E4)
      BY <2>7, <3>1, <3>10, <3>11
    <3>13. term_bksp(T) = E4
      BY <1>1, <1>3, <2>1, <2>4, <2>9, <3>3, <3>4, <3>5, <3>6 DEF term_bksp
    <3>14. QED
      BY <3>12, <3>13
  <2>10. QED
    BY <2>8, <2>9
<1>4. QED
  BY <1>2, <1>3

----------------------------------------------------------------------------
(* The inductive invariant: every terminal is good.                        *)
TerminalInv ==
  /\ \A t \in Terminals : Good(terminals[t])
  /\ terminals \in [Terminals -> TerminalType]
  /\ active_terminal_id \in Terminals

LEMMA InitGood == Init => TerminalInv
<1> SUFFICES ASSUME Init PROVE TerminalInv
  OBVIOUS
<1>1. PICK x \in 0 .. NUM_COLS - 1, y \in 0 .. NUM_ROWS - 1 :
        terminals = [t \in Terminals |->
          [screen_x |-> IF t = active_terminal_id THEN x ELSE 0,
           screen_y |-> IF t = active_terminal_id THEN y ELSE 0,
           keyboard_buffer |-> <<>>, term_in_flag |-> FALSE,
           video |-> Blanked]]
  BY DEF Init
<1>2. PICK v \in [Cell -> Byte] : v = Blanked
  BY DEF Blanked, Byte, KeyByte
<1>3. PICK e \in Line : e = <<>> /\ Len(e) = 0 /\ Width(e) = 0
  <2>1. <<>> \in Line /\ Len(<<>>) = 0
    BY DEF Line
  <2>2. Tabs(<<>>) = {}
    BY <2>1 DEF Tabs
  <2>3. QED
    BY <2>1, <2>2, FS_EmptySet DEF Width
<1>4. ASSUME NEW t \in Terminals
      PROVE  Good(terminals[t]) /\ terminals[t] \in TerminalType
  <2>1. PICK i \in 0 .. NUM_COLS - 1, j \in 0 .. NUM_ROWS - 1 :
          terminals[t] = [screen_x |-> i, screen_y |-> j,
                          keyboard_buffer |-> e, term_in_flag |-> FALSE,
                          video |-> v]
    <3>1. 0 \in 0 .. NUM_COLS - 1 /\ 0 \in 0 .. NUM_ROWS - 1
      BY Sizes
    <3>2. QED
      BY <1>1, <1>2, <1>3, <3>1
  <2>2. terminals[t] \in TerminalType /\ OnScreen(terminals[t])
    BY <2>1 DEF TerminalType, OnScreen, Line
  <2>3. Pos(terminals[t]) = NUM_COLS * j + i /\ NUM_COLS * j >= 0
    BY <2>1, Rows DEF Pos, Cursor
  <2>4. PICK r \in Int : r = NUM_COLS * j
    BY Rows
  <2>5. Pos(terminals[t]) >= 0
    BY <2>3, <2>4
  <2>6. terminals[t].keyboard_buffer = e
    BY <2>1
  <2>7. QED
    BY <1>3, <2>2, <2>5, <2>6, SizesAssumption DEF Good
<1>5. QED
  BY <1>1, <1>4 DEF TerminalInv, Init

LEMMA NextGood ==
  ASSUME ClearKey = FALSE, TerminalInv, [Next]_vars
  PROVE  TerminalInv'
<1>1. ASSUME NEW t \in Terminals, NEW T, Good(T),
             terminals' = [terminals EXCEPT ![t] = T],
             active_terminal_id' = active_terminal_id
      PROVE  TerminalInv'
  BY <1>1 DEF TerminalInv, Good
<1>2. active_terminal_id \in Terminals /\ Good(terminals[active_terminal_id])
  BY DEF TerminalInv
<1>3. CASE Key
  <2>1. PICK c \in Keys : Becomes(active, term_recv_byte(ActiveT, c))
    BY <1>3 DEF Key
  <2>2. Good(term_recv_byte(ActiveT, c))
    BY <1>2, RecvGood DEF KeyByte, ActiveT
  <2>3. QED
    BY <1>1, <1>2, <2>1, <2>2 DEF Becomes, active
<1>4. CASE TabKey
  <2>. DEFINE R(T) == term_recv_byte(T, " ")
  <2>1. \A T : Good(T) => Good(R(T))
    BY RecvGood DEF KeyByte
  <2>2. Good(R(R(R(R(ActiveT)))))
    <3>. HIDE DEF R
    <3>1. QED
      BY <1>2, <2>1 DEF ActiveT
  <2>3. QED
    BY <1>1, <1>2, <1>4, <2>2 DEF TabKey, Becomes, active
<1>5. CASE Backspace
  BY <1>1, <1>2, <1>5, BkspGood DEF Backspace, Becomes, active, ActiveT
<1>6. CASE CtrlL
  BY <1>6 DEF CtrlL
<1>7. CASE CtrlC
  BY <1>7 DEF CtrlC, TerminalInv
<1>8. ASSUME NEW t \in Terminals, switch_terminal(t) PROVE TerminalInv'
  BY <1>8 DEF switch_terminal, TerminalInv
<1>9. ASSUME NEW t \in Terminals, Prints(t) PROVE TerminalInv'
  <2>1. PICK c \in Output : Becomes(t, term_putc(terminals[t], c))
    BY <1>9 DEF Prints
  <2>2. Good(term_putc(terminals[t], c))
    BY PrintGood DEF TerminalInv, Byte
  <2>3. QED
    BY <1>1, <2>1, <2>2 DEF Becomes
<1>10. ASSUME NEW t \in Terminals, Paint(t) PROVE TerminalInv'
  <2>1. PICK T : T = terminals[t] /\ Good(T)
    BY DEF TerminalInv
  <2>2. PICK i \in Cell, c \in Byte :
          terminals' = [terminals EXCEPT ![t].video = Drawn(@, i, c)]
    BY <1>10 DEF Paint, Byte
  <2>3. T.video \in [Cell -> Byte]
    BY <2>1 DEF Good, TerminalType
  <2>4. PICK v \in [Cell -> Byte] : v = Drawn(T.video, i, c)
    BY <2>3, DrawnType
  <2>5. PICK N : N = [T EXCEPT !.video = v]
    OBVIOUS
  <2>6. terminals' = [terminals EXCEPT ![t] = N]
    BY <2>1, <2>2, <2>4, <2>5
  <2>7. /\ N \in TerminalType /\ SameLine(T, N)
        /\ N.screen_x = T.screen_x /\ N.screen_y = T.screen_y
    BY <2>1, <2>5 DEF Good, TerminalType, SameLine
  <2>8. Good(N)
    BY <2>1, <2>7 DEF Good, SameLine, OnScreen, Pos
  <2>9. QED
    BY <1>1, <1>10, <2>6, <2>8 DEF Paint
<1>11. ASSUME NEW t \in Terminals, Read(t) \/ ReadSees(t) PROVE TerminalInv'
  BY <1>11 DEF Read, ReadSees, TerminalInv
<1>12. ASSUME NEW t \in Terminals, ReadCopies(t) PROVE TerminalInv'
  <2>1. Good(WithLine(terminals[t], <<>>, FALSE))
    BY FreshGood DEF TerminalInv
  <2>2. QED
    BY <1>1, <1>12, <2>1 DEF ReadCopies
<1>13. CASE UNCHANGED vars
  BY <1>13 DEF vars, TerminalInv
<1>14. QED
  BY <1>3, <1>4, <1>5, <1>6, <1>7, <1>8, <1>9, <1>10, <1>11, <1>12, <1>13
     DEF Next

(* The cursor of every terminal stays on its screen, whatever is typed,    *)
(* erased and printed in whatever order, if Ctrl-L is not pressed          *)
(* (term_recv_byte, term_putc, term_bksp).                                 *)
THEOREM CursorStays ==
  ASSUME ClearKey = FALSE
  PROVE  Spec => []CursorOnScreen
<1>1. Init => TerminalInv
  BY InitGood
<1>2. TerminalInv /\ [Next]_vars => TerminalInv'
  BY NextGood
<1>3. TerminalInv => CursorOnScreen
  BY DEF TerminalInv, Good, CursorOnScreen
<1>4. QED
  BY <1>1, <1>2, <1>3, PTL DEF Spec

----------------------------------------------------------------------------
(* What holds of a line whether or not the screen is cleared under it.     *)
Sound(T) ==
  /\ T \in TerminalType
  /\ Len(T.keyboard_buffer) =< KEYBOARD_BUFFER_SIZE
  /\ \A i \in 1 .. Len(T.keyboard_buffer) :
       T.keyboard_buffer[i] = "nl" =>
         i = Len(T.keyboard_buffer) /\ T.term_in_flag

(* Printing and erasing leave the line alone, wherever the cursor is.      *)
LEMMA PutOneKeeps ==
  ASSUME NEW T \in TerminalType, NEW c \in Byte
  PROVE  PutOne(T, c) \in TerminalType /\ SameLine(T, PutOne(T, c))
<1>1. PICK x \in Int, y \in Int, v \in [Cell -> Byte] :
        T.screen_x = x /\ T.screen_y = y /\ T.video = v
  BY DEF TerminalType
<1>2. PICK w \in [Cell -> Byte] : w = Drawn(v, Pos(T), c)
  BY DrawnType
<1>3. ASSUME NEW N \in TerminalType, SameLine(T, N)
      PROVE  Scroll(N) \in TerminalType /\ SameLine(T, Scroll(N))
  <2>1. PICK u \in [Cell -> Byte] : u = RowUp(N.video)
    BY DrawnType DEF TerminalType, Byte, KeyByte
  <2>2. PICK A : A = At(N, N.screen_x, NUM_ROWS - 1, u)
    OBVIOUS
  <2>3. A \in TerminalType /\ SameLine(N, A)
    BY <2>1, <2>2, AtType, Sizes DEF TerminalType
  <2>4. Scroll(N) = N \/ Scroll(N) = A
    BY <2>1, <2>2 DEF Scroll
  <2>5. QED
    BY <1>3, <2>3, <2>4 DEF SameLine
<1>4. /\ At(T, 0, y + 1, v) \in TerminalType
      /\ At(T, 0, y + 1, w) \in TerminalType
      /\ At(T, x + 1, y, w) \in TerminalType
      /\ SameLine(T, At(T, 0, y + 1, v))
      /\ SameLine(T, At(T, 0, y + 1, w))
      /\ SameLine(T, At(T, x + 1, y, w))
  BY AtType
<1>5. PICK A1 : A1 = At(T, 0, y + 1, v)
  OBVIOUS
<1>6. PICK A2 : A2 = At(T, 0, y + 1, w)
  OBVIOUS
<1>7. PICK A3 : A3 = At(T, x + 1, y, w)
  OBVIOUS
<1>8. \/ PutOne(T, c) = Scroll(A1) \/ PutOne(T, c) = Scroll(A2)
      \/ PutOne(T, c) = Scroll(A3)
  BY <1>1, <1>2, <1>5, <1>6, <1>7 DEF PutOne
<1>9. QED
  BY <1>3, <1>4, <1>5, <1>6, <1>7, <1>8

LEMMA PutcKeeps ==
  ASSUME NEW T \in TerminalType, NEW c \in Byte
  PROVE  term_putc(T, c) \in TerminalType /\ SameLine(T, term_putc(T, c))
<1>1. CASE c # "tab"
  BY <1>1, PutOneKeeps DEF term_putc
<1>2. CASE c = "tab"
  <2>1. \A A \in TerminalType :
          PutOne(A, " ") \in TerminalType /\ SameLine(A, PutOne(A, " "))
    BY PutOneKeeps DEF Byte, KeyByte
  <2>2. PICK A1 \in TerminalType : A1 = PutOne(T, " ") /\ SameLine(T, A1)
    BY <2>1
  <2>3. PICK A2 \in TerminalType : A2 = PutOne(A1, " ") /\ SameLine(A1, A2)
    BY <2>1
  <2>4. PICK A3 \in TerminalType : A3 = PutOne(A2, " ") /\ SameLine(A2, A3)
    BY <2>1
  <2>5. PICK A4 \in TerminalType : A4 = PutOne(A3, " ") /\ SameLine(A3, A4)
    BY <2>1
  <2>6. term_putc(T, c) = A4
    BY <1>2, <2>2, <2>3, <2>4, <2>5 DEF term_putc
  <2>7. QED
    BY <2>2, <2>3, <2>4, <2>5, <2>6 DEF SameLine
<1>3. QED
  BY <1>1, <1>2

LEMMA EraseOneKeeps ==
  ASSUME NEW T \in TerminalType
  PROVE  EraseOne(T) \in TerminalType /\ SameLine(T, EraseOne(T))
<1>1. PICK x \in Int, y \in Int, v \in [Cell -> Byte] :
        T.screen_x = x /\ T.screen_y = y /\ T.video = v
  BY DEF TerminalType
<1>2. PICK w \in [Cell -> Byte] : w = Drawn(v, Pos(T) - 1, " ")
  BY DrawnType DEF Byte, KeyByte
<1>3. /\ At(T, NUM_COLS - 1, y - 1, w) \in TerminalType
      /\ At(T, x - 1, y, w) \in TerminalType
      /\ SameLine(T, At(T, NUM_COLS - 1, y - 1, w))
      /\ SameLine(T, At(T, x - 1, y, w))
  BY AtType, Sizes
<1>4. EraseOne(T) = At(T, NUM_COLS - 1, y - 1, w)
        \/ EraseOne(T) = At(T, x - 1, y, w)
  BY <1>1, <1>2 DEF EraseOne
<1>5. QED
  BY <1>3, <1>4

LEMMA SoundLine ==
  ASSUME NEW T, Sound(T), NEW N \in TerminalType, SameLine(T, N)
  PROVE  Sound(N)
BY DEF Sound, SameLine

LEMMA FreshSound ==
  ASSUME NEW T, Sound(T)
  PROVE  /\ Sound(Fresh(T)) /\ Sound(WithLine(T, <<>>, FALSE))
         /\ Fresh(T).term_in_flag = FALSE
         /\ Pos(WithLine(T, <<>>, FALSE)) = Pos(T)
<1>1. PICK e \in Line : e = <<>> /\ Len(e) = 0
  <2>1. <<>> \in Line /\ Len(<<>>) = 0
    BY DEF Line
  <2>2. QED
    BY <2>1
<1>2. PICK N : N = WithLine(T, e, FALSE)
  OBVIOUS
<1>3. /\ N \in TerminalType /\ N.keyboard_buffer = e
      /\ N.term_in_flag = FALSE /\ Pos(N) = Pos(T)
  BY <1>2, WithLineType DEF Sound
<1>4. Sound(N)
  BY <1>1, <1>3, SizesAssumption DEF Sound
<1>5. N = WithLine(T, <<>>, FALSE)
  BY <1>1, <1>2
<1>6. Fresh(T) = N \/ (Fresh(T) = T /\ ~T.term_in_flag)
  BY <1>5 DEF Fresh
<1>7. T.term_in_flag \in BOOLEAN
  BY DEF Sound, TerminalType
<1>8. QED
  BY <1>3, <1>4, <1>5, <1>6, <1>7

LEMMA RecvSound ==
  ASSUME NEW T, Sound(T), NEW c \in KeyByte
  PROVE  Sound(term_recv_byte(T, c))
<1>1. PICK F : F = Fresh(T) /\ Sound(F) /\ F.term_in_flag = FALSE
  BY FreshSound
<1>2. CASE ~Fits(F, c)
  BY <1>1, <1>2 DEF term_recv_byte, Takes
<1>3. CASE Fits(F, c)
  <2>1. PICK b \in Line : b = F.keyboard_buffer
    BY <1>1, GoodPos DEF Sound
  <2>2. PICK n \in Nat : n = Len(b)
    BY DEF Line
  <2>3. PICK d \in Line : d = Append(b, c)
    <3>1. Append(b, c) \in Line
      BY DEF Line
    <3>2. QED
      BY <3>1
  <2>4. /\ Len(d) = n + 1 /\ d[n + 1] = c
        /\ \A i \in 1 .. n : d[i] = b[i]
    BY <2>2, <2>3 DEF Line
  <2>5. Len(d) =< KEYBOARD_BUFFER_SIZE
    BY <1>3, <2>1, <2>2, <2>4, SizesAssumption DEF Fits
  <2>6. \A i \in 1 .. n : b[i] # "nl"
    BY <1>1, <2>1, <2>2 DEF Sound
  <2>7. PICK E : E = WithLine(F, d, c = "nl")
    OBVIOUS
  <2>8. /\ E \in TerminalType /\ E.keyboard_buffer = d
        /\ c = "nl" => E.term_in_flag
    <3>1. /\ E \in TerminalType /\ E.keyboard_buffer = d
          /\ E.term_in_flag = (c = "nl")
      BY <1>1, <2>7, WithLineType DEF Sound
    <3>2. c = "nl" => E.term_in_flag = TRUE
      BY <3>1
    <3>3. QED
      BY <3>1, <3>2
  <2>9. Sound(E)
    <3>1. ASSUME NEW i \in 1 .. n + 1, d[i] = "nl"
          PROVE  i = n + 1 /\ E.term_in_flag
      BY <2>4, <2>6, <2>8, <3>1
    <3>2. QED
      BY <2>4, <2>5, <2>8, <3>1 DEF Sound
  <2>10. Sound(term_putc(E, c))
    BY <2>8, <2>9, PutcKeeps, SoundLine DEF Byte
  <2>11. QED
    BY <1>1, <1>3, <2>1, <2>3, <2>7, <2>10 DEF term_recv_byte, Takes
<1>4. QED
  BY <1>2, <1>3

LEMMA BkspSound ==
  ASSUME NEW T, Sound(T)
  PROVE  Sound(term_bksp(T))
<1>1. PICK b \in Line : b = T.keyboard_buffer /\ Len(b) \in Nat
  BY GoodPos DEF Sound
<1>2. CASE Len(b) = 0
  BY <1>1, <1>2 DEF term_bksp
<1>3. CASE Len(b) # 0
  <2>1. PICK d \in Line : d = SubSeq(b, 1, Len(b) - 1)
    BY <1>3, WidthFront
  <2>2. /\ Len(d) = Len(b) - 1
        /\ \A i \in 1 .. Len(b) - 1 : d[i] = b[i]
    BY <1>1, <1>3, <2>1 DEF Line
  <2>3. PICK E : E = WithLine(T, d, T.term_in_flag)
    OBVIOUS
  <2>4. /\ E \in TerminalType /\ E.keyboard_buffer = d
    BY <2>3, WithLineType, GoodPos DEF Sound
  <2>5. \A i \in 1 .. Len(d) : d[i] # "nl"
    BY <1>1, <2>2 DEF Sound
  <2>6. Sound(E)
    BY <1>1, <1>3, <2>2, <2>4, <2>5, SizesAssumption DEF Sound
  <2>7. \A A : Sound(A) => Sound(EraseOne(A))
    BY EraseOneKeeps, SoundLine DEF Sound
  <2>8. Sound(EraseOne(EraseOne(EraseOne(EraseOne(E))))) /\ Sound(EraseOne(E))
    BY <2>6, <2>7
  <2>9. QED
    BY <1>1, <1>3, <2>1, <2>3, <2>8 DEF term_bksp
<1>4. QED
  BY <1>2, <1>3

----------------------------------------------------------------------------
(* The inductive invariant without an assumption on Ctrl-L.                *)
SoundInv ==
  /\ terminals \in [Terminals -> TerminalType]
  /\ \A t \in Terminals : Sound(terminals[t])
  /\ active_terminal_id \in Terminals
  /\ cursor = Pos(terminals[active_terminal_id])
  /\ pc \in [Terminals -> Place]
  /\ alone \in [Terminals -> BOOLEAN]

LEMMA InitSound == Init => SoundInv
<1> SUFFICES ASSUME Init PROVE SoundInv
  OBVIOUS
<1>1. TerminalInv
  BY InitGood
<1>2. ASSUME NEW t \in Terminals PROVE Sound(terminals[t])
  <2>1. Len(terminals[t].keyboard_buffer) = 0
    BY DEF Init
  <2>2. QED
    BY <1>1, <2>1 DEF TerminalInv, Good, Sound
<1>3. QED
  BY <1>1, <1>2 DEF Init, SoundInv, TerminalInv, Place

LEMMA NextSound ==
  ASSUME SoundInv, [Next]_vars
  PROVE  SoundInv'
<1>1. ASSUME NEW t \in Terminals, NEW T, Sound(T), Becomes(t, T),
             alone' \in [Terminals -> BOOLEAN]
      PROVE  SoundInv'
  <2>1. /\ terminals' = [terminals EXCEPT ![t] = T]
        /\ active_terminal_id' = active_terminal_id /\ pc' = pc
        /\ cursor' = IF t = active_terminal_id THEN Pos(T) ELSE cursor
    BY <1>1 DEF Becomes
  <2>2. terminals' \in [Terminals -> TerminalType]
    BY <1>1, <2>1 DEF SoundInv, Sound
  <2>3. \A s \in Terminals :
          terminals'[s] = IF s = t THEN T ELSE terminals[s]
    BY <1>1, <2>1 DEF SoundInv
  <2>4. PICK a \in Terminals : a = active_terminal_id /\ a' = a
    BY <2>1 DEF SoundInv
  <2>5. cursor' = Pos(terminals'[a])
    BY <2>1, <2>3, <2>4 DEF SoundInv
  <2>6. \A s \in Terminals : Sound(terminals'[s])
    BY <1>1, <2>3 DEF SoundInv
  <2>7. QED
    BY <1>1, <2>1, <2>2, <2>4, <2>5, <2>6 DEF SoundInv, Pos
<1>2. /\ active_terminal_id \in Terminals
      /\ Sound(terminals[active_terminal_id])
  BY DEF SoundInv
<1>3. LineBegins => alone' \in [Terminals -> BOOLEAN]
  <2>1. ASSUME NEW t \in Terminals, NEW b \in BOOLEAN
        PROVE  [alone EXCEPT ![t] = @ \/ b] \in [Terminals -> BOOLEAN]
    BY DEF SoundInv
  <2>2. (Fresh(ActiveT).keyboard_buffer = <<>>) \in BOOLEAN
    OBVIOUS
  <2>3. QED
    BY <1>2, <2>1, <2>2 DEF LineBegins, active
<1>4. CASE Key
  <2>1. PICK c \in Keys : Becomes(active, term_recv_byte(ActiveT, c))
    BY <1>4 DEF Key
  <2>2. Sound(term_recv_byte(ActiveT, c))
    BY <1>2, RecvSound DEF KeyByte, ActiveT
  <2>3. QED
    BY <1>1, <1>2, <1>3, <1>4, <2>1, <2>2 DEF Key, active
<1>5. CASE TabKey
  <2>. DEFINE R(T) == term_recv_byte(T, " ")
  <2>1. \A T : Sound(T) => Sound(R(T))
    BY RecvSound DEF KeyByte
  <2>2. Sound(R(R(R(R(ActiveT)))))
    <3>. HIDE DEF R
    <3>1. QED
      BY <1>2, <2>1 DEF ActiveT
  <2>3. QED
    BY <1>1, <1>2, <1>3, <1>5, <2>2 DEF TabKey, active
<1>6. CASE Backspace
  <2>1. Sound(term_bksp(ActiveT))
    BY <1>2, BkspSound DEF ActiveT
  <2>2. QED
    BY <1>1, <1>2, <1>6, <2>1 DEF Backspace, active, SoundInv
<1>7. CASE CtrlL
  <2>1. PICK v \in [Cell -> Byte] : v = Blanked
    BY DEF Blanked, Byte, KeyByte
  <2>2. PICK T : T = terminals[active_terminal_id] /\ Sound(T)
    BY <1>2
  <2>3. Sound(At(T, 0, 0, v))
    BY <2>2, AtType, SoundLine DEF Sound
  <2>4. Sound(term_clear_screen(ActiveT))
    BY <2>1, <2>2, <2>3 DEF term_clear_screen, ActiveT
  <2>5. alone' \in [Terminals -> BOOLEAN]
    BY <1>7 DEF CtrlL, SoundInv
  <2>6. QED
    BY <1>1, <1>2, <1>7, <2>4, <2>5 DEF CtrlL, active
<1>8. CASE CtrlC
  BY <1>8 DEF CtrlC, SoundInv, Place, Pos
<1>9. ASSUME NEW t \in Terminals, switch_terminal(t) PROVE SoundInv'
  BY <1>9 DEF switch_terminal, SoundInv, Pos
<1>10. ASSUME NEW t \in Terminals, Prints(t) PROVE SoundInv'
  <2>1. PICK c \in Output : Becomes(t, term_putc(terminals[t], c))
    BY <1>10 DEF Prints
  <2>2. Sound(terminals[t])
    BY DEF SoundInv
  <2>3. Sound(term_putc(terminals[t], c))
    BY <2>2, PutcKeeps, SoundLine DEF Sound, Byte
  <2>4. alone' \in [Terminals -> BOOLEAN]
    BY <1>10 DEF Prints, SoundInv
  <2>5. QED
    BY <1>1, <2>1, <2>3, <2>4
<1>11. ASSUME NEW t \in Terminals, Paint(t) PROVE SoundInv'
  <2>1. PICK T : T = terminals[t] /\ Sound(T)
    BY DEF SoundInv
  <2>2. PICK i \in Cell, c \in Byte :
          terminals' = [terminals EXCEPT ![t].video = Drawn(@, i, c)]
    BY <1>11 DEF Paint, Byte
  <2>3. T.video \in [Cell -> Byte]
    BY <2>1 DEF Sound, TerminalType
  <2>4. PICK v \in [Cell -> Byte] : v = Drawn(T.video, i, c)
    BY <2>3, DrawnType
  <2>5. PICK N : N = [T EXCEPT !.video = v]
    OBVIOUS
  <2>6. terminals' = [terminals EXCEPT ![t] = N]
    BY <2>1, <2>2, <2>4, <2>5
  <2>7. /\ N \in TerminalType /\ SameLine(T, N) /\ Pos(N) = Pos(T)
    BY <2>1, <2>5 DEF Sound, TerminalType, SameLine, Pos
  <2>8. Sound(N)
    BY <2>1, <2>7, SoundLine
  <2>9. Becomes(t, N)
    BY <1>11, <2>1, <2>6, <2>7 DEF Paint, Becomes, SoundInv
  <2>10. alone' \in [Terminals -> BOOLEAN]
    BY <1>11 DEF Paint, SoundInv
  <2>11. QED
    BY <1>1, <2>8, <2>9, <2>10
<1>12. ASSUME NEW t \in Terminals, Read(t) \/ ReadSees(t) PROVE SoundInv'
  BY <1>12 DEF Read, ReadSees, SoundInv, Place, Pos
<1>13. ASSUME NEW t \in Terminals, ReadCopies(t) PROVE SoundInv'
  <2>1. PICK T : T = terminals[t] /\ Sound(T)
    BY DEF SoundInv
  <2>2. PICK N : N = WithLine(T, <<>>, FALSE) /\ Sound(N) /\ Pos(N) = Pos(T)
    BY <2>1, FreshSound
  <2>3. terminals' = [terminals EXCEPT ![t] = N]
    BY <1>13, <2>1, <2>2 DEF ReadCopies
  <2>4. \A s \in Terminals :
          terminals'[s] = IF s = t THEN N ELSE terminals[s]
    BY <2>3 DEF SoundInv
  <2>5. terminals' \in [Terminals -> TerminalType]
    BY <2>2, <2>3 DEF SoundInv, Sound
  <2>6. \A s \in Terminals : Sound(terminals'[s])
    BY <2>2, <2>4 DEF SoundInv
  <2>7. \A s \in Terminals : Pos(terminals'[s]) = Pos(terminals[s])
    BY <2>1, <2>2, <2>4
  <2>8. /\ active_terminal_id' = active_terminal_id /\ cursor' = cursor
        /\ alone' = alone /\ pc' \in [Terminals -> Place]
    BY <1>13 DEF ReadCopies, SoundInv, Place
  <2>9. QED
    BY <2>5, <2>6, <2>7, <2>8 DEF SoundInv, Pos
<1>14. CASE UNCHANGED vars
  BY <1>14 DEF vars, SoundInv, Pos
<1>15. QED
  BY <1>4, <1>5, <1>6, <1>7, <1>8, <1>9, <1>10, <1>11, <1>12, <1>13, <1>14
     DEF Next

LEMMA SoundAlways == Spec => []SoundInv
<1>1. QED
  BY InitSound, NextSound, PTL DEF Spec

(* The types, and the bound of the line buffer: term_recv_byte never       *)
(* writes past keyboard_buffer.                                            *)
THEOREM TypeCorrect == Spec => []TypeOK
<1>1. SoundInv => TypeOK
  <2>1. ASSUME SoundInv PROVE cursor \in Int
    BY <2>1, GoodPos DEF SoundInv
  <2>2. QED
    BY <2>1 DEF SoundInv, Sound, TypeOK
<1>2. QED
  BY <1>1, SoundAlways, PTL

(* A buffer holds one line, whoever types, erases, clears or reads.        *)
THEOREM LinesApart == Spec => []OneLine
<1>1. SoundInv => OneLine
  BY DEF SoundInv, Sound, OneLine
<1>2. QED
  BY <1>1, SoundAlways, PTL

(* The hardware cursor is the active terminal's, whoever prints.           *)
THEOREM CursorFollows == Spec => []HardwareCursor
<1>1. SoundInv => HardwareCursor
  BY DEF SoundInv, HardwareCursor
<1>2. QED
  BY <1>1, SoundAlways, PTL

----------------------------------------------------------------------------
(* What the screen shows of a line.                                        *)
Shown(T) ==
  ~T.term_in_flag =>
    \A k \in 1 .. Len(T.keyboard_buffer) :
      T.video[Pos(T) - Len(T.keyboard_buffer) + k - 1] = T.keyboard_buffer[k]

LEMMA LastCells ==
  /\ NUM_ROWS * NUM_COLS = LastRow + NUM_COLS
  /\ NUM_COLS * NUM_ROWS = LastRow + NUM_COLS
  /\ Cell = 0 .. LastRow + NUM_COLS - 1
  /\ \A y \in 0 .. NUM_ROWS - 1 : NUM_COLS * y =< LastRow
<1>1. NUM_ROWS * NUM_COLS = NUM_COLS * NUM_ROWS
  BY Sizes
<1>2. NUM_COLS * (NUM_ROWS - 1) = NUM_COLS * NUM_ROWS - NUM_COLS
  <2>1. NUM_ROWS \in Int
    BY Sizes
  <2>2. QED
    BY <2>1, Rows
<1>3. NUM_COLS * NUM_ROWS \in Int /\ NUM_COLS \in Int
  BY Sizes
<1>4. NUM_COLS * NUM_ROWS = LastRow + NUM_COLS
  BY <1>2, <1>3 DEF LastRow
<1>5. \A y \in 0 .. NUM_ROWS - 1 : NUM_COLS * y =< LastRow
  BY Sizes DEF LastRow
<1>6. Cell = 0 .. LastRow + NUM_COLS - 1
  <2>1. PICK m : m = NUM_ROWS * NUM_COLS
    OBVIOUS
  <2>2. Cell = 0 .. m - 1
    BY <2>1 DEF Cell
  <2>3. m = LastRow + NUM_COLS
    BY <1>1, <1>4, <2>1, Zenon
  <2>4. PICK k \in Int : k = LastRow
    BY <1>2, <1>3 DEF LastRow
  <2>5. m - 1 = k + NUM_COLS - 1
    BY <1>3, <2>3, <2>4
  <2>6. QED
    BY <2>2, <2>4, <2>5
<1>7. QED
  BY <1>1, <1>4, <1>5, <1>6, Zenon

LEMMA NoTabs ==
  ASSUME "tab" \notin Keys, NEW b \in Line
  PROVE  Width(b) = Len(b) /\ Len(b) \in Nat /\ \A i \in 1 .. Len(b) : b[i] # "tab"
<1>1. \A i \in 1 .. Len(b) : b[i] \in KeyByte
  BY DEF Line
<1>2. "tab" \notin KeyByte
  BY DEF KeyByte
<1>3. Tabs(b) = {}
  BY <1>1, <1>2 DEF Tabs
<1>4. Len(b) \in Nat
  BY DEF Line
<1>5. QED
  BY <1>1, <1>2, <1>3, <1>4, FS_EmptySet DEF Width

(* A byte is put behind what stands before the cursor, which may move up   *)
(* with the screen.                                                        *)
LEMMA PutShows ==
  ASSUME NEW T \in TerminalType, OnScreen(T), NEW c \in Byte, c # "nl",
         NEW n \in Nat, n + 1 =< LastRow, n =< Pos(T)
  PROVE  /\ Pos(PutOne(T, c)) \in Int
         /\ PutOne(T, c).video[Pos(PutOne(T, c)) - 1] = c
         /\ \A j \in 1 .. n :
              PutOne(T, c).video[Pos(PutOne(T, c)) - 1 - j] = T.video[Pos(T) - j]
<1>1. PICK x \in 0 .. NUM_COLS - 1, y \in 0 .. NUM_ROWS - 1 :
        T.screen_x = x /\ T.screen_y = y
  BY DEF OnScreen
<1>2. /\ x \in Int /\ x >= 0 /\ x + 1 =< NUM_COLS /\ x + 1 \in Int
      /\ y \in Int /\ y >= 0 /\ y + 1 =< NUM_ROWS /\ y + 1 \in Int
      /\ NUM_COLS \in Int /\ NUM_COLS >= 1 /\ NUM_ROWS \in Int
      /\ NUM_ROWS >= 2
  BY <1>1, Sizes
<1>3. PICK r \in Int, s \in Int :
        /\ r = NUM_COLS * y /\ s = NUM_COLS * (y + 1) /\ s = r + NUM_COLS
        /\ 0 =< r /\ r =< LastRow
  BY <1>2, Rows, LastCells, Sizes
<1>4. PICK p \in Int, L \in Int : p = Pos(T) /\ p = r + x /\ L = LastRow
  BY <1>1, <1>2, <1>3, Rows DEF Pos, Cursor
<1>5. p \in Cell /\ 0 =< p /\ p =< L + NUM_COLS - 1 /\ Cell = 0 .. L + NUM_COLS - 1
  BY <1>2, <1>3, <1>4, LastCells
<1>6. PICK v \in [Cell -> Byte] : v = Drawn(T.video, p, c)
  BY <1>4, DrawnType DEF TerminalType
<1>7. /\ v[p] = c
      /\ \A j \in 1 .. n : v[p - j] = T.video[p - j]
  <2>0. n =< p
    BY <1>4
  <2>1. \A j \in 1 .. n : p - j \in Cell /\ p - j # p
    BY <1>2, <1>4, <1>5, <2>0
  <2>2. QED
    BY <1>5, <1>6, <2>1 DEF Drawn
<1>8. PICK N : /\ PutOne(T, c) = Scroll(N)
               /\ \/ N = At(T, 0, y + 1, v) /\ x + 1 = NUM_COLS
                  \/ N = At(T, x + 1, y, v) /\ x + 1 # NUM_COLS
  BY <1>1, <1>4, <1>6 DEF PutOne
<1>9. /\ N \in TerminalType /\ N.video = v /\ Pos(N) = p + 1
      /\ \/ N.screen_y = y /\ x + 1 # NUM_COLS
         \/ N.screen_y = y + 1 /\ x + 1 = NUM_COLS
  <2>1. ASSUME NEW a \in Int, NEW b \in Int, N = At(T, a, b, v)
        PROVE  /\ N \in TerminalType /\ N.video = v
               /\ N.screen_y = b /\ Pos(N) = NUM_COLS * b + a
    <3>1. N.video = v
      BY <2>1 DEF At
    <3>2. QED
      BY <2>1, <3>1, AtType
  <2>2. CASE N = At(T, 0, y + 1, v) /\ x + 1 = NUM_COLS
    <3>1. /\ N \in TerminalType /\ N.video = v
          /\ N.screen_y = y + 1 /\ Pos(N) = NUM_COLS * (y + 1) + 0
      BY <1>2, <2>1, <2>2
    <3>2. Pos(N) = p + 1
      BY <1>2, <1>3, <1>4, <2>2, <3>1
    <3>3. QED
      BY <2>2, <3>1, <3>2
  <2>3. CASE N = At(T, x + 1, y, v) /\ x + 1 # NUM_COLS
    <3>1. /\ N \in TerminalType /\ N.video = v
          /\ N.screen_y = y /\ Pos(N) = NUM_COLS * y + (x + 1)
      BY <1>2, <2>1, <2>3
    <3>2. Pos(N) = p + 1
      BY <1>2, <1>3, <1>4, <3>1
    <3>3. QED
      BY <2>3, <3>1, <3>2
  <2>4. QED
    BY <1>8, <2>2, <2>3
<1>10. PICK M : M = PutOne(T, c) /\ M = Scroll(N)
  BY <1>8
<1>11. ASSUME NEW q \in Int, Pos(M) = q,
              M.video[q - 1] = v[p], \A j \in 1 .. n : M.video[q - 1 - j] = v[p - j]
       PROVE  /\ Pos(M) \in Int /\ M.video[Pos(M) - 1] = c
              /\ \A j \in 1 .. n : M.video[Pos(M) - 1 - j] = T.video[Pos(T) - j]
  BY <1>4, <1>7, <1>11
<1>12. CASE N.screen_y < NUM_ROWS
  <2>1. M = N
    BY <1>10, <1>12 DEF Scroll
  <2>2. p + 1 \in Int /\ (p + 1) - 1 = p /\ \A j \in 1 .. n : (p + 1) - 1 - j = p - j
    OBVIOUS
  <2>3. QED
    BY <1>9, <1>10, <1>11, <2>1, <2>2
<1>13. CASE ~(N.screen_y < NUM_ROWS)
  <2>1. y + 1 = NUM_ROWS /\ x + 1 = NUM_COLS
    BY <1>2, <1>9, <1>13
  <2>2. r = L /\ p + 1 = L + NUM_COLS
    <3>1. y = NUM_ROWS - 1
      BY <1>2, <2>1
    <3>2. r = LastRow
      BY <1>3, <3>1 DEF LastRow
    <3>3. QED
      BY <1>2, <1>4, <2>1, <3>2
  <2>3. PICK u \in [Cell -> Byte] : u = RowUp(v)
    BY DrawnType DEF Byte, KeyByte
  <2>4. M = At(N, N.screen_x, NUM_ROWS - 1, u) /\ N.screen_x \in Int
    BY <1>9, <1>10, <1>13, <2>3 DEF Scroll, TerminalType
  <2>5. M.video = u /\ Pos(M) = NUM_COLS * (NUM_ROWS - 1) + N.screen_x
    <3>1. NUM_ROWS - 1 \in Int
      BY <1>2
    <3>2. M.video = u
      BY <2>4 DEF At
    <3>3. QED
      BY <1>9, <2>4, <3>1, <3>2, AtType
  <2>6. N.screen_x = 0
    BY <1>8, <2>1 DEF At
  <2>7. Pos(M) = L
    BY <1>4, <2>5, <2>6 DEF LastRow
  <2>8. \A j \in 0 .. n : u[L - 1 - j] = v[p - j]
    <3> TAKE j \in 0 .. n
    <3>1. L - 1 - j \in Cell /\ (L - 1 - j) + NUM_COLS \in Cell
      BY <1>2, <1>4, <1>5
    <3>2. (L - 1 - j) + NUM_COLS = p - j
      BY <1>2, <2>2
    <3>3. u[L - 1 - j] = v[(L - 1 - j) + NUM_COLS]
      BY <2>3, <3>1 DEF RowUp
    <3>4. QED
      BY <3>2, <3>3
  <2>9. u[L - 1] = v[p] /\ \A j \in 1 .. n : u[L - 1 - j] = v[p - j]
    <3>1. 0 \in 0 .. n /\ L - 1 - 0 = L - 1 /\ p - 0 = p
      OBVIOUS
    <3>2. u[L - 1 - 0] = v[p - 0]
      BY <2>8, <3>1
    <3>3. \A j \in 1 .. n : j \in 0 .. n
      OBVIOUS
    <3>4. QED
      BY <2>8, <3>1, <3>2, <3>3
  <2>10. QED
    BY <1>10, <1>11, <2>5, <2>7, <2>9
<1>14. QED
  BY <1>12, <1>13

LEMMA EmptyShown ==
  ASSUME NEW T, T.keyboard_buffer = <<>>
  PROVE  Shown(T)
<1>1. Len(T.keyboard_buffer) = 0
  OBVIOUS
<1>2. QED
  BY <1>1 DEF Shown

(* A key that is typed shows, behind what the line shows so far.           *)
LEMMA RecvShown ==
  ASSUME "tab" \notin Keys, NEW T, Good(T), NEW c \in KeyByte,
         Shown(T) \/ Fresh(T).keyboard_buffer = <<>>
  PROVE  Shown(term_recv_byte(T, c))
<1>1. PICK F : F = Fresh(T) /\ Good(F)
  BY FreshGood
<1>2. Shown(F)
  <2>1. CASE F = T /\ Shown(T)
    BY <2>1
  <2>2. CASE F.keyboard_buffer = <<>>
    BY <2>2, EmptyShown
  <2>3. F = T \/ F = WithLine(T, <<>>, FALSE)
    BY <1>1 DEF Fresh
  <2>4. WithLine(T, <<>>, FALSE).keyboard_buffer = <<>>
    BY DEF WithLine
  <2>5. QED
    BY <1>1, <2>1, <2>2, <2>3, <2>4
<1>3. F.term_in_flag = FALSE
  BY <1>1, GoodPos DEF Fresh, WithLine, Good
<1>4. CASE ~Fits(F, c)
  BY <1>1, <1>2, <1>4 DEF term_recv_byte, Takes
<1>5. CASE Fits(F, c)
  <2>1. PICK b \in Line : b = F.keyboard_buffer
    BY <1>1, GoodPos DEF Good
  <2>2. PICK n \in Nat : n = Len(b)
    BY DEF Line
  <2>3. PICK d \in Line : d = Append(b, c)
    <3>1. Append(b, c) \in Line
      BY DEF Line
    <3>2. QED
      BY <3>1
  <2>4. /\ Len(d) = n + 1 /\ d[n + 1] = c
        /\ \A i \in 1 .. n : d[i] = b[i]
    BY <2>2, <2>3 DEF Line
  <2>5. Len(d) =< KEYBOARD_BUFFER_SIZE
    BY <1>5, <2>1, <2>2, <2>4, SizesAssumption DEF Fits
  <2>6. PICK E : E = WithLine(F, d, c = "nl")
    OBVIOUS
  <2>7. /\ E \in TerminalType /\ OnScreen(E) /\ Pos(E) = Pos(F)
        /\ E.keyboard_buffer = d /\ E.term_in_flag = (c = "nl")
        /\ E.video = F.video
    <3>1. E.video = F.video
      BY <2>6 DEF WithLine
    <3>2. QED
      BY <1>1, <2>6, <3>1, WithLineType DEF Good
  <2>8. c \in Byte /\ c # "tab"
    BY DEF Byte, KeyByte
  <2>9. PICK N : N = PutOne(E, c)
    OBVIOUS
  <2>10. SameLine(E, N)
    BY <2>7, <2>8, <2>9, PutOneMoves
  <2>11. N.keyboard_buffer = d /\ N.term_in_flag = (c = "nl")
    BY <2>7, <2>10 DEF SameLine
  <2>12. Shown(N)
    <3>1. CASE c = "nl"
      BY <2>11, <3>1 DEF Shown
    <3>2. CASE c # "nl"
      <4>1. n =< Pos(E) /\ n + 1 =< LastRow
        <5>1. Width(b) = n /\ Width(d) = n + 1
          BY <2>2, <2>4, NoTabs
        <5>2. Width(b) =< Pos(F)
          BY <1>1, <2>1 DEF Good
        <5>3. Width(d) =< LastRow
          BY <2>5, LineFits
        <5>4. QED
          BY <2>7, <5>1, <5>2, <5>3
      <4>2. /\ Pos(N) \in Int /\ N.video[Pos(N) - 1] = c
            /\ \A j \in 1 .. n : N.video[Pos(N) - 1 - j] = E.video[Pos(E) - j]
        BY <2>7, <2>8, <2>9, <3>2, <4>1, PutShows
      <4>3. \A k \in 1 .. n : F.video[Pos(F) - n + k - 1] = b[k]
        BY <1>2, <1>3, <2>1, <2>2 DEF Shown
      <4>4. PICK p \in Int, q \in Int : p = Pos(F) /\ q = Pos(N)
        BY <1>1, <4>2, GoodPos DEF Good
      <4>5. ASSUME NEW k \in 1 .. n + 1
            PROVE  N.video[q - (n + 1) + k - 1] = d[k]
        <5>1. CASE k = n + 1
          <6>1. q - (n + 1) + k - 1 = q - 1
            BY <5>1
          <6>2. QED
            BY <2>4, <4>2, <4>4, <5>1, <6>1
        <5>2. CASE k # n + 1
          <6>1. PICK j \in 1 .. n : j = n + 1 - k
            <7>1. n + 1 - k \in 1 .. n
              BY <5>2
            <7>2. QED
              BY <7>1
          <6>2. /\ q - (n + 1) + k - 1 = q - 1 - j
                /\ p - j = p - n + k - 1 /\ k \in 1 .. n
            BY <5>2, <6>1
          <6>3. N.video[q - 1 - j] = F.video[p - j]
            BY <2>7, <4>2, <4>4
          <6>4. F.video[p - n + k - 1] = b[k]
            BY <4>3, <4>4, <6>2
          <6>5. d[k] = b[k]
            BY <2>4, <6>2
          <6>6. QED
            BY <6>2, <6>3, <6>4, <6>5
        <5>3. QED
          BY <5>1, <5>2
      <4>6. QED
        BY <2>4, <2>11, <4>4, <4>5 DEF Shown
    <3>3. QED
      BY <3>1, <3>2
  <2>13. term_recv_byte(T, c) = N
    BY <1>1, <1>5, <2>1, <2>3, <2>6, <2>8, <2>9
       DEF term_recv_byte, Takes, term_putc
  <2>14. QED
    BY <2>12, <2>13
<1>6. QED
  BY <1>4, <1>5

(* Erasing takes the last byte of the line from the screen.                *)
LEMMA BkspShown ==
  ASSUME "tab" \notin Keys, NEW T, Good(T), Shown(T)
  PROVE  Shown(term_bksp(T))
<1>1. PICK b \in Line : b = T.keyboard_buffer /\ Len(b) \in Nat
  BY GoodPos DEF Good
<1>2. CASE Len(b) = 0
  BY <1>1, <1>2 DEF term_bksp
<1>3. CASE Len(b) # 0
  <2>1. PICK n \in Nat : n + 1 = Len(b)
    <3>1. Len(b) - 1 \in Nat /\ (Len(b) - 1) + 1 = Len(b)
      BY <1>1, <1>3
    <3>2. QED
      BY <3>1
  <2>2. PICK d \in Line : d = SubSeq(b, 1, Len(b) - 1)
    BY <1>3, WidthFront
  <2>3. Len(d) = n /\ \A i \in 1 .. n : d[i] = b[i]
    BY <2>1, <2>2 DEF Line
  <2>4. PICK E : E = WithLine(T, d, T.term_in_flag)
    OBVIOUS
  <2>5. /\ E \in TerminalType /\ OnScreen(E) /\ Pos(E) = Pos(T)
        /\ E.keyboard_buffer = d /\ E.term_in_flag = T.term_in_flag
        /\ E.video = T.video
    <3>1. E.video = T.video
      BY <2>4 DEF WithLine
    <3>2. T \in TerminalType /\ T.term_in_flag \in BOOLEAN /\ OnScreen(T)
      BY GoodPos DEF Good
    <3>3. QED
      BY <2>4, <3>1, <3>2, WithLineType
  <2>6. PICK p \in Int : p = Pos(T) /\ n + 1 =< p
    <3>1. Width(b) = n + 1 /\ Width(b) =< Pos(T)
      BY <1>1, <2>1, NoTabs DEF Good
    <3>2. QED
      BY <3>1, GoodPos DEF Good
  <2>7. PICK N : N = EraseOne(E)
    OBVIOUS
  <2>8. Pos(N) = p - 1 /\ SameLine(E, N)
    BY <2>5, <2>6, <2>7, EraseOneMoves
  <2>9. N.video = Drawn(T.video, p - 1, " ")
    BY <2>5, <2>6, <2>7 DEF EraseOne, At
  <2>10. ASSUME ~T.term_in_flag, NEW k \in 1 .. n
         PROVE  N.video[(p - 1) - n + k - 1] = d[k]
    <3>1. PICK i \in Int : i = p - (n + 1) + k - 1
      OBVIOUS
    <3>2. (p - 1) - n + k - 1 = i /\ i # p - 1 /\ k \in 1 .. n + 1
      BY <3>1
    <3>3. T.video[i] = b[k]
      BY <1>1, <2>1, <2>6, <2>10, <3>1, <3>2 DEF Shown
    <3>4. i \in Cell
      <4>1. p =< LastRow + NUM_COLS - 1
        <5>1. PICK x \in 0 .. NUM_COLS - 1, y \in 0 .. NUM_ROWS - 1 :
                T.screen_x = x /\ T.screen_y = y
          BY DEF Good, OnScreen
        <5>2. PICK r \in Int : r = NUM_COLS * y /\ r =< LastRow
          BY LastCells, Rows
        <5>3. p = r + x
          BY <2>6, <5>1, <5>2 DEF Pos, Cursor
        <5>4. QED
          BY <5>2, <5>3, Sizes, Rows
      <4>2. 0 =< i /\ i =< p
        BY <2>6, <3>1
      <4>3. QED
        BY <2>6, <4>1, <4>2, LastCells, Rows, Sizes
    <3>5. N.video[i] = T.video[i]
      BY <2>9, <3>2, <3>4 DEF Drawn
    <3>6. QED
      BY <2>3, <3>2, <3>3, <3>5
  <2>11. Shown(N)
    <3>1. N.keyboard_buffer = d /\ N.term_in_flag = T.term_in_flag
      BY <2>5, <2>8 DEF SameLine
    <3>2. QED
      BY <2>3, <2>8, <2>10, <3>1 DEF Shown
  <2>12. term_bksp(T) = N
    <3>1. b[Len(b)] # "tab"
      <4>1. Len(b) \in 1 .. Len(b)
        BY <1>1, <1>3
      <4>2. QED
        BY <4>1, NoTabs
    <3>2. QED
      BY <1>1, <1>3, <2>2, <2>4, <2>7, <3>1 DEF term_bksp
  <2>13. QED
    BY <2>11, <2>12
<1>4. QED
  BY <1>2, <1>3

(* The lines that are alone on their screens show.                         *)
ShownInv ==
  "tab" \notin Keys => \A t \in Terminals : alone[t] => Shown(terminals[t])

LEMMA NextShown ==
  ASSUME TerminalInv, SoundInv, ShownInv, [Next]_vars
  PROVE  ShownInv'
<1> SUFFICES ASSUME "tab" \notin Keys,
                    \A t \in Terminals : alone[t] => Shown(terminals[t])
             PROVE  \A t \in Terminals : alone'[t] => Shown(terminals'[t])
  <2>1. ShownInv' <=> ("tab" \notin Keys =>
           \A t \in Terminals : alone'[t] => Shown(terminals'[t]))
    BY DEF ShownInv, Shown, Pos
  <2>2. QED
    BY <2>1 DEF ShownInv
<1>0. /\ terminals \in [Terminals -> TerminalType]
      /\ alone \in [Terminals -> BOOLEAN]
      /\ active_terminal_id \in Terminals
      /\ \A t \in Terminals : Good(terminals[t])
  BY DEF TerminalInv, SoundInv
<1>1. ASSUME NEW t \in Terminals, NEW T,
             terminals' = [terminals EXCEPT ![t] = T],
             \A s \in Terminals : s # t => alone'[s] = alone[s],
             alone'[t] => Shown(T)
      PROVE  \A s \in Terminals : alone'[s] => Shown(terminals'[s])
  <2> TAKE s \in Terminals
  <2>1. CASE s = t
    BY <1>0, <1>1, <2>1
  <2>2. CASE s # t
    <3>1. terminals'[s] = terminals[s]
      BY <1>0, <1>1, <2>2
    <3>2. QED
      BY <1>1, <2>2, <3>1
  <2>3. QED
    BY <2>1, <2>2
<1>2. PICK a \in Terminals : a = active_terminal_id
  BY <1>0
<1>3. PICK T : T = terminals[a] /\ Good(T) /\ (alone[a] => Shown(T))
  BY <1>0
<1>4. LineBegins =>
        /\ \A s \in Terminals : s # a => alone'[s] = alone[s]
        /\ alone'[a] => Shown(T) \/ Fresh(T).keyboard_buffer = <<>>
  <2>1. PICK e : e = (Fresh(T).keyboard_buffer = <<>>)
    OBVIOUS
  <2>2. LineBegins => alone' = [alone EXCEPT ![a] = @ \/ e]
    BY <1>2, <1>3, <2>1 DEF LineBegins, active, ActiveT
  <2>3. alone' = [alone EXCEPT ![a] = @ \/ e] =>
          /\ \A s \in Terminals : s # a => alone'[s] = alone[s]
          /\ alone'[a] = (alone[a] \/ e)
    BY <1>0
  <2>4. QED
    BY <1>3, <2>1, <2>2, <2>3
<1>5. CASE Key
  <2>1. PICK c \in Keys : terminals' = [terminals EXCEPT ![a] = term_recv_byte(T, c)]
    BY <1>2, <1>3, <1>5 DEF Key, Becomes, active, ActiveT
  <2>2. LineBegins
    BY <1>5 DEF Key
  <2>3. alone'[a] => Shown(term_recv_byte(T, c))
    BY <1>3, <1>4, <2>2, RecvShown DEF KeyByte
  <2>4. QED
    BY <1>1, <1>4, <2>1, <2>2, <2>3
<1>6. CASE TabKey
  <2> DEFINE R(U) == term_recv_byte(U, " ")
  <2>1. terminals' = [terminals EXCEPT ![a] = R(R(R(R(T))))]
    BY <1>2, <1>3, <1>6 DEF TabKey, Becomes, active, ActiveT
  <2>2. LineBegins
    BY <1>6 DEF TabKey
  <2>3. \A U : Good(U) => Good(R(U))
    BY RecvGood DEF KeyByte
  <2>4. \A U : Good(U) /\ (Shown(U) \/ Fresh(U).keyboard_buffer = <<>>) => Shown(R(U))
    BY RecvShown DEF KeyByte
  <2> HIDE DEF R
  <2>5. alone'[a] => Shown(R(R(R(R(T)))))
    BY <1>3, <1>4, <2>2, <2>3, <2>4
  <2>6. QED
    BY <1>1, <1>4, <2>1, <2>2, <2>5
<1>7. CASE Backspace
  <2>1. terminals' = [terminals EXCEPT ![a] = term_bksp(T)] /\ alone' = alone
    BY <1>2, <1>3, <1>7 DEF Backspace, Becomes, active, ActiveT
  <2>2. alone'[a] => Shown(term_bksp(T))
    BY <1>3, <2>1, BkspShown
  <2>3. QED
    BY <1>1, <2>1, <2>2
<1>8. CASE CtrlL
  <2>1. PICK U : terminals' = [terminals EXCEPT ![a] = U]
    BY <1>2, <1>8 DEF CtrlL, Becomes, active
  <2>2. alone' = [alone EXCEPT ![a] = FALSE]
    BY <1>2, <1>8 DEF CtrlL, active
  <2>3. alone'[a] = FALSE /\ \A s \in Terminals : s # a => alone'[s] = alone[s]
    BY <1>0, <2>2
  <2>4. QED
    BY <1>1, <2>1, <2>3
<1>9. ASSUME UNCHANGED <<terminals, alone>>
      PROVE  \A t \in Terminals : alone'[t] => Shown(terminals'[t])
  BY <1>9
<1>10. ASSUME NEW t \in Terminals, Prints(t) \/ Paint(t)
       PROVE  \A s \in Terminals : alone'[s] => Shown(terminals'[s])
  <2>1. PICK U : terminals' = [terminals EXCEPT ![t] = U]
    BY <1>10 DEF Prints, Paint, Becomes
  <2>2. alone' = [alone EXCEPT ![t] = FALSE]
    BY <1>10 DEF Prints, Paint
  <2>3. alone'[t] = FALSE /\ \A s \in Terminals : s # t => alone'[s] = alone[s]
    BY <1>0, <2>2
  <2>4. QED
    BY <1>1, <2>1, <2>3
<1>11. ASSUME NEW t \in Terminals, ReadCopies(t)
       PROVE  \A s \in Terminals : alone'[s] => Shown(terminals'[s])
  <2>1. PICK U : U = WithLine(terminals[t], <<>>, FALSE)
    OBVIOUS
  <2>2. terminals' = [terminals EXCEPT ![t] = U] /\ alone' = alone
    BY <1>11, <2>1 DEF ReadCopies
  <2>3. Shown(U)
    BY <2>1, EmptyShown DEF WithLine
  <2>4. QED
    BY <1>1, <2>2, <2>3
<1>12. CASE CtrlC
  BY <1>9, <1>12 DEF CtrlC
<1>13. ASSUME NEW t \in Terminals, switch_terminal(t) \/ Read(t) \/ ReadSees(t)
       PROVE  \A s \in Terminals : alone'[s] => Shown(terminals'[s])
  BY <1>9, <1>13 DEF switch_terminal, Read, ReadSees
<1>14. CASE UNCHANGED vars
  BY <1>9, <1>14 DEF vars
<1>15. QED
  BY <1>5, <1>6, <1>7, <1>8, <1>10, <1>11, <1>12, <1>13, <1>14 DEF Next

LEMMA InitEmpty ==
  Init => \A t \in Terminals : terminals[t].keyboard_buffer = <<>>
<1> SUFFICES ASSUME Init
             PROVE  \A t \in Terminals : terminals[t].keyboard_buffer = <<>>
  OBVIOUS
<1>1. PICK x \in 0 .. NUM_COLS - 1, y \in 0 .. NUM_ROWS - 1 :
        terminals = [t \in Terminals |->
          [screen_x |-> IF t = active_terminal_id THEN x ELSE 0,
           screen_y |-> IF t = active_terminal_id THEN y ELSE 0,
           keyboard_buffer |-> <<>>, term_in_flag |-> FALSE,
           video |-> Blanked]]
  BY DEF Init
<1>2. QED
  BY <1>1

(* The cells before the cursor show the line that is being edited, as long *)
(* as nothing else is put on the screen: what is typed, wrapped, scrolled  *)
(* and erased is what a read gets, for every size of screen and buffer.    *)
THEOREM ScreenIsLine ==
  ASSUME ClearKey = FALSE
  PROVE  Spec => []ScreenShowsLine
<1>1. Init => ShownInv
  <2>1. SUFFICES ASSUME Init PROVE \A t \in Terminals : Shown(terminals[t])
    BY DEF ShownInv
  <2>2. \A t \in Terminals : terminals[t].keyboard_buffer = <<>>
    BY <2>1, InitEmpty
  <2>3. QED
    BY <2>2, EmptyShown
<1>2. Init => TerminalInv
  BY InitGood
<1>3. TerminalInv /\ [Next]_vars => TerminalInv'
  BY NextGood
<1>4. TerminalInv /\ SoundInv /\ ShownInv /\ [Next]_vars => ShownInv'
  BY NextShown
<1>5. ShownInv => ScreenShowsLine
  BY DEF ShownInv, Shown, ScreenShowsLine
<1>6. QED
  BY <1>1, <1>2, <1>3, <1>4, <1>5, SoundAlways, PTL DEF Spec
=============================================================================

----------------------------- MODULE MouseProofs -----------------------------
(***************************************************************************)
(* The driver's position is the mouse's, and the pointer follows it from   *)
(* any distance beyond an edge, for every speed, size of the screen and    *)
(* set of movements.                                                       *)
(***************************************************************************)
EXTENDS Mouse, TLAPS

----------------------------------------------------------------------------
(* Arithmetic with a speed that is not known.                              *)
LEMMA DivBounds ==
  ASSUME NEW a \in Int, NEW s \in Nat, s >= 1
  PROVE  /\ a \div s \in Int
         /\ (a \div s) * s =< a
         /\ a < (a \div s) * s + s
OBVIOUS

LEMMA Products ==
  ASSUME NEW x \in Int, NEW y \in Int, NEW s \in Nat, s >= 1
  PROVE  /\ x * s \in Int
         /\ (x - y) * s = x * s - y * s
         /\ (x + 1) * s = x * s + s
         /\ (x - 1) * s = x * s - s
         /\ x =< y => x * s =< y * s
         /\ x * s < y * s => x < y
OBVIOUS

----------------------------------------------------------------------------
(* One coordinate of do_render: `a` is the fine position before anything   *)
(* is taken back, `fine` what it was when do_render last ran.              *)
LEMMA Coordinate ==
  ASSUME NEW last \in Nat, NEW cell \in 0 .. last,
         NEW a \in Int, NEW fine \in Int,
         fine \in cell * MOUSE_SPEED .. cell * MOUSE_SPEED + MOUSE_SPEED - 1
  PROVE  LET back == Beyond(floor_div(a, MOUSE_SPEED), last)
             next == floor_div(a, MOUSE_SPEED) - back
         IN  /\ back \in Int /\ OffsetBack(back) \in Int
             /\ next \in 0 .. last
             /\ a - OffsetBack(back) \in
                  next * MOUSE_SPEED .. next * MOUSE_SPEED + MOUSE_SPEED - 1
             /\ Follows(cell, next, last, a - fine)
<1> DEFINE q == a \div MOUSE_SPEED
           back == Beyond(q, last)
           next == q - back
<1>0. MOUSE_SPEED \in Nat /\ MOUSE_SPEED >= 1
  BY MouseAssumption
<1>1. q \in Int /\ q * MOUSE_SPEED =< a /\ a < q * MOUSE_SPEED + MOUSE_SPEED
  BY <1>0, DivBounds
<1>2. back \in Int /\ next \in 0 .. last
  BY <1>1 DEF Beyond
<1>3. /\ (q - back) * MOUSE_SPEED = q * MOUSE_SPEED - back * MOUSE_SPEED
      /\ q * MOUSE_SPEED \in Int /\ back * MOUSE_SPEED \in Int
      /\ cell * MOUSE_SPEED \in Int
  <2>1. q \in Int /\ back \in Int /\ cell \in Int
    BY <1>1, <1>2
  <2> HIDE DEF q, back
  <2>2. (q - back) * MOUSE_SPEED = q * MOUSE_SPEED - back * MOUSE_SPEED
    BY <1>0, <2>1, Products
  <2>3. QED
    BY <1>0, <2>1, <2>2, Products
<1>4. a - OffsetBack(back) \in
        next * MOUSE_SPEED .. next * MOUSE_SPEED + MOUSE_SPEED - 1
  BY <1>0, <1>1, <1>2, <1>3 DEF OffsetBack
<1>5. a - fine >= MOUSE_SPEED => q > cell
  <2>1. (cell + 1) * MOUSE_SPEED = cell * MOUSE_SPEED + MOUSE_SPEED
    BY <1>0, Products
  <2>2. (q + 1) * MOUSE_SPEED = q * MOUSE_SPEED + MOUSE_SPEED
    BY <1>0, <1>1, Products
  <2>3. (cell + 1) * MOUSE_SPEED < (q + 1) * MOUSE_SPEED => cell + 1 < q + 1
    BY <1>0, <1>1, Products
  <2>4. QED
    BY <1>0, <1>1, <1>3, <2>1, <2>2, <2>3
<1>6. a - fine =< -MOUSE_SPEED => q < cell
  <2>1. q * MOUSE_SPEED < cell * MOUSE_SPEED => q < cell
    BY <1>0, <1>1, Products
  <2>2. QED
    BY <1>0, <1>1, <1>3, <2>1
<1>7. a = fine => q = cell
  <2>1. /\ (q + 1) * MOUSE_SPEED = q * MOUSE_SPEED + MOUSE_SPEED
        /\ (cell + 1) * MOUSE_SPEED = cell * MOUSE_SPEED + MOUSE_SPEED
    BY <1>0, <1>1, Products
  <2>2. /\ q * MOUSE_SPEED < (cell + 1) * MOUSE_SPEED => q < cell + 1
        /\ cell * MOUSE_SPEED < (q + 1) * MOUSE_SPEED => cell < q + 1
    BY <1>0, <1>1, Products
  <2>3. QED
    BY <1>0, <1>1, <1>3, <2>1, <2>2
<1>8. Follows(cell, next, last, a - fine)
  BY <1>0, <1>1, <1>2, <1>5, <1>6, <1>7 DEF Follows, Beyond
<1>9. back * MOUSE_SPEED = OffsetBack(back)
  BY DEF OffsetBack
<1>10. QED
  BY <1>2, <1>3, <1>4, <1>8, <1>9 DEF floor_div

----------------------------------------------------------------------------
(* While a packet is on its way the header's signs are those of its        *)
(* movements.                                                              *)
SignsMatch ==
  mouse_pos # 0 => /\ mouse_buttons.x_sign = (packet[1] < 0)
                   /\ mouse_buttons.y_sign = (packet[2] < 0)

MouseInv == TypeOK /\ TracksMouse /\ SignsMatch /\ PointerInv

(* A byte and its sign are the movement.                                   *)
LEMMA SignedMovement ==
  ASSUME NEW m \in -256 .. 255 PROVE Signed(m, m < 0) = m
BY DEF Signed

LEMMA InitInv == Init => MouseInv
<1> SUFFICES ASSUME Init PROVE MouseInv
  OBVIOUS
<1>0. /\ MOUSE_SPEED \in Nat /\ MOUSE_SPEED >= 1
      /\ VGA_WIDTH \in Nat /\ VGA_WIDTH >= 1
      /\ VGA_HEIGHT \in Nat /\ VGA_HEIGHT >= 2
  BY MouseAssumption
<1>1. TypeOK
  BY <1>0 DEF Init, TypeOK
<1>2. TracksMouse /\ SignsMatch
  BY DEF Init, TracksMouse, SignsMatch
<1>3. PointerInv
  BY <1>0 DEF Init, PointerInv
<1>4. QED
  BY <1>1, <1>2, <1>3 DEF MouseInv

(* What do_render leaves, on both coordinates.                             *)
LEMMA Rendered ==
  ASSUME MouseInv, do_render
  PROVE  /\ cursor_offset_x' \in Int /\ cursor_offset_y' \in Int
         /\ cursor_row' \in 0 .. VGA_HEIGHT - 2
         /\ cursor_col' \in 0 .. VGA_WIDTH - 1
         /\ seen' = <<mouse_x, mouse_y>>
         /\ cursor_offset_x' + mouse_x \in
              cursor_col' * MOUSE_SPEED ..
              cursor_col' * MOUSE_SPEED + MOUSE_SPEED - 1
         /\ cursor_offset_y' - mouse_y \in
              cursor_row' * MOUSE_SPEED ..
              cursor_row' * MOUSE_SPEED + MOUSE_SPEED - 1
         /\ Follows(cursor_col, cursor_col', VGA_WIDTH - 1, mouse_x - seen[1])
         /\ Follows(cursor_row, cursor_row', VGA_HEIGHT - 2, seen[2] - mouse_y)
<1> DEFINE ax == cursor_offset_x + mouse_x
           ay == cursor_offset_y - mouse_y
           right == Beyond(floor_div(ax, MOUSE_SPEED), VGA_WIDTH - 1)
           down == Beyond(floor_div(ay, MOUSE_SPEED), VGA_HEIGHT - 2)
<1>0. VGA_WIDTH - 1 \in Nat /\ VGA_HEIGHT - 2 \in Nat
  BY MouseAssumption
<1>1. /\ mouse_x \in Int /\ mouse_y \in Int
      /\ seen[1] \in Int /\ seen[2] \in Int
      /\ cursor_offset_x \in Int /\ cursor_offset_y \in Int
      /\ cursor_row \in 0 .. VGA_HEIGHT - 2 /\ cursor_col \in 0 .. VGA_WIDTH - 1
  BY DEF MouseInv, TypeOK
<1>2. /\ cursor_offset_x' = cursor_offset_x - OffsetBack(right)
      /\ cursor_col' = floor_div(ax, MOUSE_SPEED) - right
      /\ cursor_offset_y' = cursor_offset_y - OffsetBack(down)
      /\ cursor_row' = floor_div(ay, MOUSE_SPEED) - down
      /\ seen' = <<mouse_x, mouse_y>>
  BY DEF do_render
<1>3. /\ OffsetBack(right) \in Int
      /\ cursor_col' \in 0 .. VGA_WIDTH - 1
      /\ ax - OffsetBack(right) \in
           cursor_col' * MOUSE_SPEED ..
           cursor_col' * MOUSE_SPEED + MOUSE_SPEED - 1
      /\ Follows(cursor_col, cursor_col', VGA_WIDTH - 1,
                 ax - (cursor_offset_x + seen[1]))
  <2>1. ax \in Int /\ cursor_offset_x + seen[1] \in Int
    BY <1>1
  <2>2. cursor_offset_x + seen[1] \in
          cursor_col * MOUSE_SPEED .. cursor_col * MOUSE_SPEED + MOUSE_SPEED - 1
    BY DEF MouseInv, PointerInv
  <2> HIDE DEF ax
  <2>3. QED
    BY <1>0, <1>1, <1>2, <2>1, <2>2, Coordinate
<1>4. /\ OffsetBack(down) \in Int
      /\ cursor_row' \in 0 .. VGA_HEIGHT - 2
      /\ ay - OffsetBack(down) \in
           cursor_row' * MOUSE_SPEED ..
           cursor_row' * MOUSE_SPEED + MOUSE_SPEED - 1
      /\ Follows(cursor_row, cursor_row', VGA_HEIGHT - 2,
                 ay - (cursor_offset_y - seen[2]))
  <2>1. ay \in Int /\ cursor_offset_y - seen[2] \in Int
    BY <1>1
  <2>2. cursor_offset_y - seen[2] \in
          cursor_row * MOUSE_SPEED .. cursor_row * MOUSE_SPEED + MOUSE_SPEED - 1
    BY DEF MouseInv, PointerInv
  <2> HIDE DEF ay
  <2>3. QED
    BY <1>0, <1>1, <1>2, <2>1, <2>2, Coordinate
<1>5. /\ ax - (cursor_offset_x + seen[1]) = mouse_x - seen[1]
      /\ ay - (cursor_offset_y - seen[2]) = seen[2] - mouse_y
  BY <1>1
<1> HIDE DEF right, down
<1>6. /\ ax - OffsetBack(right) = cursor_offset_x' + mouse_x
      /\ ay - OffsetBack(down) = cursor_offset_y' - mouse_y
      /\ cursor_offset_x' \in Int /\ cursor_offset_y' \in Int
  BY <1>1, <1>2, <1>3, <1>4
<1>7. QED
  BY <1>2, <1>3, <1>4, <1>5, <1>6

LEMMA StepInv == MouseInv /\ [Next]_vars => MouseInv'
<1> SUFFICES ASSUME MouseInv, [Next]_vars PROVE MouseInv'
  OBVIOUS
<1>0. /\ mouse_pos \in 0 .. 2 /\ mouse_x \in Int /\ mouse_y \in Int
      /\ packet[1] \in -256 .. 255 /\ packet[2] \in -256 .. 255
      /\ at \in Int \X Int
  BY DEF MouseInv, TypeOK
<1>1. CASE \E left \in BOOLEAN, move \in Moves : Header(left, move)
  <2>1. PICK left \in BOOLEAN, move \in Moves : Header(left, move)
    BY <1>1
  <2>2. move \in (-256 .. 255) \X (-256 .. 255)
    BY MouseAssumption
  <2>3. TypeOK'
    BY <2>1, <2>2, <1>0 DEF MouseInv, TypeOK, Header, pointerVars
  <2>4. TracksMouse' /\ SignsMatch'
    BY <2>1, <2>2, <1>0 DEF MouseInv, TracksMouse, SignsMatch, Header
  <2>5. PointerInv'
    BY <2>1 DEF MouseInv, PointerInv, Header, pointerVars
  <2>6. QED
    BY <2>3, <2>4, <2>5 DEF MouseInv
<1>2. CASE XDelta
  <2>1. mouse_x' = mouse_x + packet[1]
    BY <1>0, <1>2, SignedMovement DEF MouseInv, SignsMatch, XDelta
  <2>2. TypeOK'
    BY <1>0, <1>2, <2>1 DEF MouseInv, TypeOK, XDelta, pointerVars
  <2>3. TracksMouse' /\ SignsMatch'
    BY <1>0, <1>2, <2>1 DEF MouseInv, TypeOK, TracksMouse, SignsMatch, XDelta
  <2>4. PointerInv'
    BY <1>2 DEF MouseInv, PointerInv, XDelta, pointerVars
  <2>5. QED
    BY <2>2, <2>3, <2>4 DEF MouseInv
<1>3. CASE YDelta
  <2>1. mouse_y' = mouse_y + packet[2]
    BY <1>0, <1>3, SignedMovement DEF MouseInv, SignsMatch, YDelta
  <2>2. TypeOK'
    BY <1>0, <1>3, <2>1 DEF MouseInv, TypeOK, YDelta, pointerVars
  <2>3. TracksMouse' /\ SignsMatch'
    BY <1>0, <1>3, <2>1 DEF MouseInv, TypeOK, TracksMouse, SignsMatch, YDelta
  <2>4. PointerInv'
    BY <1>3 DEF MouseInv, PointerInv, YDelta, pointerVars
  <2>5. QED
    BY <2>2, <2>3, <2>4 DEF MouseInv
<1>4. CASE do_render
  <2>1. UNCHANGED driverVars
    BY <1>4 DEF do_render
  <2>2. TypeOK'
    BY <1>0, <1>4, <2>1, Rendered DEF MouseInv, TypeOK, driverVars
  <2>3. TracksMouse' /\ SignsMatch'
    BY <2>1 DEF MouseInv, TracksMouse, SignsMatch, driverVars
  <2>4. PointerInv'
    BY <1>4, <2>1, Rendered DEF PointerInv, driverVars
  <2>5. QED
    BY <2>2, <2>3, <2>4 DEF MouseInv
<1>5. CASE UNCHANGED vars
  BY <1>5 DEF vars, driverVars, pointerVars, MouseInv, TypeOK, TracksMouse,
              SignsMatch, PointerInv
<1>6. QED
  BY <1>1, <1>2, <1>3, <1>4, <1>5 DEF Next

(* The inductive invariant of the mouse and the pointer.                   *)
LEMMA Invariance == Spec => []MouseInv
BY InitInv, StepInv, PTL DEF Spec

(* The types, and that the pointer is always on the screen.                *)
THEOREM TypeCorrect == Spec => []TypeOK
<1>1. MouseInv => TypeOK
  BY DEF MouseInv
<1>2. QED
  BY <1>1, Invariance, PTL

(* mouse_handler loses no sign and no byte of a movement.                  *)
THEOREM PositionTracked == Spec => []TracksMouse
<1>1. MouseInv => TracksMouse
  BY DEF MouseInv
<1>2. QED
  BY <1>1, Invariance, PTL

(* What the offsets of do_render are for: the pointer follows the mouse    *)
(* at once from wherever it is.                                            *)
THEOREM PointerMoves == Spec => PointerFollows
<1> DEFINE FollowsStep ==
      seen' = <<mouse_x, mouse_y>> /\ UNCHANGED driverVars =>
        /\ Follows(cursor_col, cursor_col', VGA_WIDTH - 1, mouse_x - seen[1])
        /\ Follows(cursor_row, cursor_row', VGA_HEIGHT - 2, seen[2] - mouse_y)
<1>1. MouseInv /\ [Next]_vars => [FollowsStep]_vars
  <2> SUFFICES ASSUME MouseInv, Next, UNCHANGED driverVars PROVE FollowsStep
    OBVIOUS
  <2>1. do_render
    BY DEF Next, driverVars, Header, XDelta, YDelta
  <2>2. QED
    BY <2>1, Rendered
<1>2. QED
  BY <1>1, Invariance, PTL DEF Spec, PointerFollows
=============================================================================

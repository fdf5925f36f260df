-------------------------------- MODULE Mouse --------------------------------
(***************************************************************************)
(* The mouse driver (mouse.c) and the pointer that do_render (gui.c) keeps *)
(* on the screen.  The mouse sends a movement in three bytes, an interrupt *)
(* for each; do_render runs in the PIT interrupt, so it may come between   *)
(* any two of them and then sees a new button, or a new column, with an    *)
(* old row.                                                                *)
(***************************************************************************)
EXTENDS Integers

CONSTANTS
  MOUSE_SPEED,       \* steps of the mouse for one character
  VGA_WIDTH, VGA_HEIGHT,
  Moves,             \* the movements <<x, y>> that a packet reports
  MaxSteps           \* bound: the mouse stays this close to where it began

ASSUME MouseAssumption ==
  /\ MOUSE_SPEED \in Nat /\ MOUSE_SPEED >= 1
  /\ VGA_WIDTH \in Nat /\ VGA_WIDTH >= 1
  /\ VGA_HEIGHT \in Nat /\ VGA_HEIGHT >= 2
  /\ Moves \subseteq (-256 .. 255) \X (-256 .. 255)

VARIABLES
  mouse_pos,         \* which byte of a packet comes next
  mouse_x, mouse_y,
  mouse_buttons,     \* the header's left button and signs
  packet,            \* the movement the mouse is reporting
  at,                \* where the mouse is, all its packets included
  cursor_offset_x, cursor_offset_y,
  cursor_row, cursor_col,
  seen               \* mouse_x and mouse_y when do_render last ran

driverVars == <<mouse_pos, mouse_x, mouse_y, mouse_buttons, packet, at>>
pointerVars == <<cursor_offset_x, cursor_offset_y, cursor_row, cursor_col,
                 seen>>
vars == <<driverVars, pointerVars>>

Init ==
  /\ mouse_pos = 0 /\ mouse_x = 0 /\ mouse_y = 0
  /\ mouse_buttons = [left |-> FALSE, x_sign |-> FALSE, y_sign |-> FALSE]
  /\ packet = <<0, 0>> /\ at = <<0, 0>>
  /\ cursor_offset_x = 0 /\ cursor_offset_y = 0
  /\ cursor_row = 0 /\ cursor_col = 0 /\ seen = <<0, 0>>

(* Byte 0.  The mouse sends the low eight bits of a movement in a byte and *)
(* its sign in the header.                                                 *)
Header(left, move) ==
  /\ mouse_pos = 0
  /\ at' = <<at[1] + move[1], at[2] + move[2]>>
  /\ at'[1] \in -MaxSteps .. MaxSteps /\ at'[2] \in -MaxSteps .. MaxSteps
  /\ packet' = move
  /\ mouse_buttons' =
       [left |-> left, x_sign |-> move[1] < 0, y_sign |-> move[2] < 0]
  /\ mouse_pos' = 1
  /\ UNCHANGED <<mouse_x, mouse_y, pointerVars>>

(* Mutant of Signed: the byte is taken for the movement.                   *)
Unsigned(move, sign) == move % 256

(* A byte, and the bit of the header that stands for -256.                 *)
Signed(move, sign) == (move % 256) - (IF sign THEN 256 ELSE 0)

XDelta ==
  /\ mouse_pos = 1
  /\ mouse_x' = mouse_x + Signed(packet[1], mouse_buttons.x_sign)
  /\ mouse_pos' = 2
  /\ UNCHANGED <<mouse_y, mouse_buttons, packet, at, pointerVars>>

YDelta ==
  /\ mouse_pos = 2
  /\ mouse_y' = mouse_y + Signed(packet[2], mouse_buttons.y_sign)
  /\ mouse_pos' = 0
  /\ UNCHANGED <<mouse_x, mouse_buttons, packet, at, pointerVars>>

floor_div(a, b) == a \div b

(* How many characters before the first cell, or past the last, a row or   *)
(* column is: what the offset takes back.                                  *)
Beyond(cell, last) ==
  IF cell < 0 THEN cell ELSE IF cell > last THEN cell - last ELSE 0

(* Mutant of OffsetBack: the offset stays as it is.                        *)
OffsetKept(cells) == 0

OffsetBack(cells) == cells * MOUSE_SPEED

(* do_render, if the pointer is enabled: rows grow downwards, the mouse's  *)
(* y upwards.                                                              *)
do_render ==
  /\ LET row == floor_div(cursor_offset_y - mouse_y, MOUSE_SPEED)
         col == floor_div(cursor_offset_x + mouse_x, MOUSE_SPEED)
         down == Beyond(row, VGA_HEIGHT - 2)
         right == Beyond(col, VGA_WIDTH - 1)
     IN  /\ cursor_offset_y' = cursor_offset_y - OffsetBack(down)
         /\ cursor_row' = row - down
         /\ cursor_offset_x' = cursor_offset_x - OffsetBack(right)
         /\ cursor_col' = col - right
  /\ seen' = <<mouse_x, mouse_y>>
  /\ UNCHANGED driverVars

Next ==
  \/ \E left \in BOOLEAN, move \in Moves : Header(left, move)
  \/ XDelta \/ YDelta
  \/ do_render

Spec == Init /\ [][Next]_vars

----------------------------------------------------------------------------
TypeOK ==
  /\ mouse_pos \in 0 .. 2
  /\ mouse_x \in Int /\ mouse_y \in Int
  /\ mouse_buttons \in [left : BOOLEAN, x_sign : BOOLEAN, y_sign : BOOLEAN]
  /\ packet \in (-256 .. 255) \X (-256 .. 255)
  /\ at \in Int \X Int /\ seen \in Int \X Int
  /\ cursor_offset_x \in Int /\ cursor_offset_y \in Int
  /\ cursor_row \in 0 .. VGA_HEIGHT - 2
  /\ cursor_col \in 0 .. VGA_WIDTH - 1

(* The driver's position is the mouse's, up to the part of the packet that *)
(* has not come yet: no sign is lost, in either direction, at any byte.    *)
TracksMouse ==
  /\ mouse_x = at[1] - (IF mouse_pos = 1 THEN packet[1] ELSE 0)
  /\ mouse_y = at[2] - (IF mouse_pos # 0 THEN packet[2] ELSE 0)

(* gui.c: the offsets "prevent the cursor getting stuck at the screen      *)
(* edges": however far the mouse has gone past an edge, moving it by a     *)
(* character moves the pointer at once, unless it is at the edge it moves  *)
(* to; and an unmoved mouse leaves the pointer where it is.                *)
Follows(cell, next, last, steps) ==
  /\ steps >= MOUSE_SPEED => next > cell \/ next = last
  /\ steps =< -MOUSE_SPEED => next < cell \/ next = 0
  /\ steps = 0 => next = cell

PointerFollows ==
  [][seen' = <<mouse_x, mouse_y>> /\ UNCHANGED driverVars =>
       /\ Follows(cursor_col, cursor_col', VGA_WIDTH - 1, mouse_x - seen[1])
       /\ Follows(cursor_row, cursor_row', VGA_HEIGHT - 2,
                  seen[2] - mouse_y)]_vars

(* The offsets keep the pointer's fine position on the screen: what makes  *)
(* PointerFollows true.                                                    *)
PointerInv ==
  LET fine_x == cursor_offset_x + seen[1]
      fine_y == cursor_offset_y - seen[2]
  IN  /\ fine_x \in cursor_col * MOUSE_SPEED ..
                    cursor_col * MOUSE_SPEED + MOUSE_SPEED - 1
      /\ fine_y \in cursor_row * MOUSE_SPEED ..
                    cursor_row * MOUSE_SPEED + MOUSE_SPEED - 1
=============================================================================

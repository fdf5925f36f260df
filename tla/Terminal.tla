------------------------------- MODULE Terminal -------------------------------
(***************************************************************************)
(* The terminals (terminal.c): the line a user edits, its echo on the      *)
(* screen, the output of programs, the hardware cursor, and term_read.     *)
(*                                                                         *)
(* Every operation on a terminal runs with interrupts disabled.  term_write*)
(* puts its bytes one at a time and term_read waits with interrupts        *)
(* enabled, so keys, output and reads interleave.                          *)
(***************************************************************************)
EXTENDS Integers, Sequences, FiniteSets

CONSTANTS
  Terminals,              \* 0 .. NUM_TERMINALS - 1
  NUM_COLS, NUM_ROWS,
  KEYBOARD_BUFFER_SIZE,
  Keys,                   \* the bytes of the keys that are pressed
  Output,                 \* the bytes that programs and the kernel print
  ClearKey                \* Ctrl-L is pressed

(* "nl" is a newline or a return, "tab" a tab, "nul" a key that has no     *)
(* character, " " a blank; any other byte is printed as it is.             *)
KeyWidth == IF "tab" \in Keys THEN 4 ELSE 1

ASSUME SizesAssumption ==
  /\ NUM_COLS \in Nat \ {0} /\ NUM_ROWS \in Nat \ {0, 1}
  /\ KEYBOARD_BUFFER_SIZE \in Nat \ {0}
  /\ KeyWidth * KEYBOARD_BUFFER_SIZE =< (NUM_ROWS - 1) * NUM_COLS
  /\ "nul" \notin Output
  /\ ClearKey \in BOOLEAN

KeyByte == Keys \cup {" "}
Byte == KeyByte \cup Output
Cell == 0 .. NUM_ROWS * NUM_COLS - 1

VARIABLES
  terminals,              \* terminal_t, and its video buffer
  active_terminal_id,
  cursor,                 \* where the hardware shows the cursor
  pc,                     \* where the process of each terminal is
  alone                   \* history: see ScreenShowsLine

vars == <<terminals, active_terminal_id, cursor, pc, alone>>

(* "waiting": in term_read's loop.  "copying": past the loop, before the   *)
(* cli.                                                                    *)
Place == {"user", "waiting", "copying"}

----------------------------------------------------------------------------
(* The operations on one terminal T: with its cursor and screen changed,   *)
(* and with its line changed.                                              *)
At(T, x, y, v) ==
  [screen_x |-> x, screen_y |-> y, keyboard_buffer |-> T.keyboard_buffer,
   term_in_flag |-> T.term_in_flag, video |-> v]

WithLine(T, b, complete) ==
  [screen_x |-> T.screen_x, screen_y |-> T.screen_y, keyboard_buffer |-> b,
   term_in_flag |-> complete, video |-> T.video]

Cursor(x, y) == NUM_COLS * y + x
Pos(T) == Cursor(T.screen_x, T.screen_y)

Drawn(v, i, c) == [j \in Cell |-> IF j = i THEN c ELSE v[j]]

Blanked == [j \in Cell |-> " "]

RowUp(v) ==
  [j \in Cell |-> IF j + NUM_COLS \in Cell THEN v[j + NUM_COLS] ELSE " "]

Scroll(T) ==
  IF T.screen_y < NUM_ROWS THEN T
  ELSE At(T, T.screen_x, NUM_ROWS - 1, RowUp(T.video))

(* term_putc, of a byte that is not a tab.                                 *)
PutOne(T, c) ==
  LET v == Drawn(T.video, Pos(T), c)
  IN  Scroll(IF c = "nl"
             THEN At(T, 0, T.screen_y + 1, T.video)
             ELSE IF T.screen_x + 1 = NUM_COLS
             THEN At(T, 0, T.screen_y + 1, v)
             ELSE At(T, T.screen_x + 1, T.screen_y, v))

term_putc(T, c) ==
  IF c = "tab"
  THEN PutOne(PutOne(PutOne(PutOne(T, " "), " "), " "), " ")
  ELSE PutOne(T, c)

(* A byte after a complete line replaces it.                               *)
Fresh(T) == IF T.term_in_flag THEN WithLine(T, <<>>, FALSE) ELSE T

(* A byte is taken while there is room for it and for a newline after it.  *)
Fits(T, c) ==
  LET n == Len(T.keyboard_buffer)
  IN  c # "nul" /\ (n < KEYBOARD_BUFFER_SIZE - 1
                     \/ (n = KEYBOARD_BUFFER_SIZE - 1 /\ c = "nl"))

(* Mutant of Takes: a byte that is not taken is echoed.                    *)
TakesOrEchoes(T, c) ==
  term_putc(IF Fits(T, c)
            THEN WithLine(T, Append(T.keyboard_buffer, c), c = "nl") ELSE T, c)

Takes(T, c) ==
  IF Fits(T, c)
  THEN term_putc(WithLine(T, Append(T.keyboard_buffer, c), c = "nl"), c)
  ELSE T

(* Mutant of term_recv_byte: a complete line is not cleared.               *)
RecvAppends(T, c) == Takes(T, c)

term_recv_byte(T, c) == Takes(Fresh(T), c)

(* Mutant of EraseOne: always along the row.                               *)
EraseInRow(T) ==
  At(T, T.screen_x - 1, T.screen_y, Drawn(T.video, Pos(T) - 1, " "))

(* One step back, over the start of a row to the end of the one above; the *)
(* cell there is blanked.                                                  *)
EraseOne(T) ==
  LET v == Drawn(T.video, Pos(T) - 1, " ")
  IN  IF T.screen_x = 0 /\ T.screen_y > 0
      THEN At(T, NUM_COLS - 1, T.screen_y - 1, v)
      ELSE At(T, T.screen_x - 1, T.screen_y, v)

term_bksp(T) ==
  LET b == T.keyboard_buffer
      n == Len(b)
      E == WithLine(T, SubSeq(b, 1, n - 1), T.term_in_flag)
  IN  IF n = 0 THEN T
      ELSE IF b[n] = "tab"
      THEN EraseOne(EraseOne(EraseOne(EraseOne(E))))
      ELSE EraseOne(E)

term_clear_screen(T) == At(T, 0, 0, Blanked)

----------------------------------------------------------------------------
(* What was printed at boot is cleared, the cursor is where it left it.    *)
Init ==
  /\ active_terminal_id \in Terminals
  /\ \E x \in 0 .. NUM_COLS - 1, y \in 0 .. NUM_ROWS - 1 :
       terminals = [t \in Terminals |->
         [screen_x |-> IF t = active_terminal_id THEN x ELSE 0,
          screen_y |-> IF t = active_terminal_id THEN y ELSE 0,
          keyboard_buffer |-> <<>>, term_in_flag |-> FALSE,
          video |-> Blanked]]
  /\ cursor = Pos(terminals[active_terminal_id])
  /\ pc = [t \in Terminals |-> "user"]
  /\ alone = [t \in Terminals |-> TRUE]

(* Terminal t becomes T; term_update_cursor, if it is the active one.      *)
Becomes(t, T) ==
  /\ terminals' = [terminals EXCEPT ![t] = T]
  /\ cursor' = IF t = active_terminal_id THEN Pos(T) ELSE cursor
  /\ UNCHANGED <<active_terminal_id, pc>>

active == active_terminal_id
ActiveT == terminals[active_terminal_id]

(* A new line begins alone.                                                *)
LineBegins ==
  alone' = [alone EXCEPT ![active] = @ \/ Fresh(ActiveT).keyboard_buffer = <<>>]

(* A key that has a character, or none: the keyboard handler's default     *)
(* case, and the keys of the on-screen keyboard.                           *)
Key ==
  /\ \E c \in Keys : Becomes(active, term_recv_byte(ActiveT, c))
  /\ LineBegins

(* The keyboard's Tab is four blanks.                                      *)
TabKey ==
  /\ " " \in Keys
  /\ LET R(T) == term_recv_byte(T, " ")
     IN  Becomes(active, R(R(R(R(ActiveT)))))
  /\ LineBegins

Backspace ==
  /\ Becomes(active, term_bksp(ActiveT))
  /\ UNCHANGED alone

CtrlL ==
  /\ ClearKey
  /\ Becomes(active, term_clear_screen(ActiveT))
  /\ alone' = [alone EXCEPT ![active] = FALSE]

(* Mutant of switch_terminal: the cursor is updated before the change.     *)
SwitchAfterCursor(t) ==
  /\ t # active_terminal_id
  /\ active_terminal_id' = t
  /\ cursor' = Pos(ActiveT)
  /\ UNCHANGED <<terminals, pc, alone>>

switch_terminal(t) ==
  /\ t # active_terminal_id
  /\ active_terminal_id' = t
  /\ cursor' = Pos(terminals[t])
  /\ UNCHANGED <<terminals, pc, alone>>

(* term_write puts one byte, or the kernel's printf does.                  *)
Prints(t) ==
  /\ \E c \in Output : Becomes(t, term_putc(terminals[t], c))
  /\ alone' = [alone EXCEPT ![t] = FALSE]

(* A program writes to the video memory it mapped with vidmap.             *)
Paint(t) ==
  /\ \E i \in Cell, c \in Output \ {"nl", "tab"} :
       terminals' = [terminals EXCEPT ![t].video = Drawn(@, i, c)]
  /\ alone' = [alone EXCEPT ![t] = FALSE]
  /\ UNCHANGED <<active_terminal_id, cursor, pc>>

(* term_read begins ...                                                    *)
Read(t) ==
  /\ pc[t] = "user"
  /\ pc' = [pc EXCEPT ![t] = "waiting"]
  /\ UNCHANGED <<terminals, active_terminal_id, cursor, alone>>

(* ... finds term_in_flag set ...                                          *)
ReadSees(t) ==
  /\ pc[t] = "waiting" /\ terminals[t].term_in_flag
  /\ pc' = [pc EXCEPT ![t] = "copying"]
  /\ UNCHANGED <<terminals, active_terminal_id, cursor, alone>>

(* ... and, interrupts disabled, takes what the buffer holds now and       *)
(* clears it.                                                              *)
ReadCopies(t) ==
  /\ pc[t] = "copying"
  /\ pc' = [pc EXCEPT ![t] = "user"]
  /\ terminals' = [terminals EXCEPT ![t] = WithLine(@, <<>>, FALSE)]
  /\ UNCHANGED <<active_terminal_id, cursor, alone>>

(* The reader is killed; what was typed stays for the next one.            *)
CtrlC ==
  /\ pc' = [pc EXCEPT ![active] = "user"]
  /\ UNCHANGED <<terminals, active_terminal_id, cursor, alone>>

Next ==
  \/ Key \/ TabKey \/ Backspace \/ CtrlL \/ CtrlC
  \/ \E t \in Terminals :
       \/ switch_terminal(t) \/ Prints(t) \/ Paint(t)
       \/ Read(t) \/ ReadSees(t) \/ ReadCopies(t)

Spec == Init /\ [][Next]_vars

----------------------------------------------------------------------------
TerminalType ==
  [screen_x : Int, screen_y : Int, keyboard_buffer : Seq(KeyByte),
   term_in_flag : BOOLEAN, video : [Cell -> Byte]]

(* The buffer is never overrun.                                            *)
TypeOK ==
  /\ terminals \in [Terminals -> TerminalType]
  /\ \A t \in Terminals :
       Len(terminals[t].keyboard_buffer) =< KEYBOARD_BUFFER_SIZE
  /\ active_terminal_id \in Terminals
  /\ cursor \in Int
  /\ pc \in [Terminals -> Place]
  /\ alone \in [Terminals -> BOOLEAN]

OnScreen(T) ==
  T.screen_x \in 0 .. NUM_COLS - 1 /\ T.screen_y \in 0 .. NUM_ROWS - 1

(* The cursor of every terminal is on its screen, so that nothing is       *)
(* written before or after its video buffer, however lines are typed,      *)
(* erased, wrapped and scrolled, and whatever programs print meanwhile.    *)
CursorOnScreen == \A t \in Terminals : OnScreen(terminals[t])

(* A buffer holds one line: nothing is kept after a newline, and a line    *)
(* that holds one is complete, whatever is typed before it is read.        *)
OneLine ==
  \A t \in Terminals :
    LET b == terminals[t].keyboard_buffer
    IN  \A i \in 1 .. Len(b) :
          b[i] = "nl" => i = Len(b) /\ terminals[t].term_in_flag

(* While nothing else has been put on the screen since the line began, the *)
(* cells before the cursor show the line that a read will get: across the  *)
(* ends of rows, scrolling, erasing, and the limit of the buffer.          *)
ScreenShowsLine ==
  \A t \in Terminals :
    LET T == terminals[t]
        b == T.keyboard_buffer
    IN  alone[t] /\ ~T.term_in_flag /\ "tab" \notin Keys =>
          \A k \in 1 .. Len(b) : T.video[Pos(T) - Len(b) + k - 1] = b[k]

(* The hardware shows the cursor of the active terminal, whichever of them *)
(* prints while the user switches.                                         *)
HardwareCursor == cursor = Pos(terminals[active_terminal_id])
=============================================================================

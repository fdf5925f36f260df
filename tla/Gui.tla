--------------------------------- MODULE Gui ---------------------------------
(***************************************************************************)
(* The two keyboards: the modifier flags and switches of keyboard.c, and   *)
(* the on-screen keyboard of gui.c, where a key is pressed with the left   *)
(* button of the mouse, dragged over and released, as do_render sees it at *)
(* the PIT's interrupts.  Where the pointer is comes from the mouse        *)
(* (Mouse); what a key does to a line or to the processes is Terminal's    *)
(* and Process's, except that killing the current process does not return  *)
(* to do_render.                                                           *)
(***************************************************************************)
EXTENDS Integers, FiniteSets

CONSTANTS
  Key,               \* the keys of the on-screen keyboard
  Pos,               \* the cells the pointer can be on
  KeyAt,             \* osk_codes: the key at a cell, or NoKey
  NoKey,
  Held               \* the modifier keys of the keyboard

Toggle == {"lshift", "rshift", "lctrl", "rctrl", "lalt", "ralt", "caps"}
Modifier == {"shift", "ctrl", "alt"}

(* What a modifier key of the keyboard is one of.                          *)
KindOf(k) ==
  CASE k \in {"lshift", "rshift"} -> "shift"
    [] k \in {"lctrl", "rctrl"} -> "ctrl"
    [] OTHER -> "alt"

ASSUME LayoutAssumption ==
  /\ KeyAt \in [Pos -> Key \cup {NoKey}] /\ NoKey \notin Key
  /\ Held \subseteq Toggle \ {"caps"}

(* The characters that the four sprites show, row by row, on the keys that *)
(* have one: four signs by their names.                                    *)
osk_string == <<
  <<"grave", "1", "2", "3", "4", "5", "6", "7", "8", "9", "0", "-", "=">>,
  <<"q", "w", "e", "r", "t", "y", "u", "i", "o", "p", "[", "]", "backslash">>,
  <<"a", "s", "d", "f", "g", "h", "j", "k", "l", ";", "apostrophe">>,
  <<"z", "x", "c", "v", "b", "n", "m", ",", ".", "/">> >>

osk_string_caps == <<
  <<"grave", "1", "2", "3", "4", "5", "6", "7", "8", "9", "0", "-", "=">>,
  <<"Q", "W", "E", "R", "T", "Y", "U", "I", "O", "P", "[", "]", "backslash">>,
  <<"A", "S", "D", "F", "G", "H", "K", "K", "L", ";", "apostrophe">>,
  <<"Z", "X", "C", "V", "B", "N", "M", ",", ".", "/">> >>

osk_string_shift == <<
  <<"~", "!", "@", "#", "$", "%", "^", "&", "*", "(", ")", "_", "+">>,
  <<"Q", "W", "E", "R", "T", "Y", "U", "I", "O", "P", "{", "}", "|">>,
  <<"A", "S", "D", "F", "G", "H", "J", "K", "L", ":", "quote">>,
  <<"Z", "X", "C", "V", "B", "N", "M", "<", ">", "?">> >>

osk_string_caps_shift == <<
  <<"~", "!", "@", "#", "$", "%", "^", "&", "*", "(", ")", "_", "+">>,
  <<"q", "w", "e", "r", "t", "y", "u", "i", "o", "p", "{", "}", "|">>,
  <<"a", "s", "d", "f", "g", "h", "j", "k", "l", ":", "quote">>,
  <<"z", "x", "c", "v", "b", "n", "m", "<", ">", "?">> >>

Sprite ==
  {osk_string, osk_string_caps, osk_string_shift, osk_string_caps_shift}

(* The codes that the same keys send, from the four arrays of codes.       *)
osk_keys == <<
  <<"grave", "1", "2", "3", "4", "5", "6", "7", "8", "9", "0", "-", "=">>,
  <<"q", "w", "e", "r", "t", "y", "u", "i", "o", "p", "[", "]", "backslash">>,
  <<"a", "s", "d", "f", "g", "h", "j", "k", "l", ";", "apostrophe">>,
  <<"z", "x", "c", "v", "b", "n", "m", ",", ".", "/">> >>

osk_keys_caps == <<
  <<"grave", "1", "2", "3", "4", "5", "6", "7", "8", "9", "0", "-", "=">>,
  <<"Q", "W", "E", "R", "T", "Y", "U", "I", "O", "P", "[", "]", "backslash">>,
  <<"A", "S", "D", "F", "G", "H", "J", "K", "L", ";", "apostrophe">>,
  <<"Z", "X", "C", "V", "B", "N", "M", ",", ".", "/">> >>

osk_keys_shift == <<
  <<"~", "!", "@", "#", "$", "%", "^", "&", "*", "(", ")", "_", "+">>,
  <<"Q", "W", "E", "R", "T", "Y", "U", "I", "O", "P", "{", "}", "|">>,
  <<"A", "S", "D", "F", "G", "H", "J", "K", "L", ":", "quote">>,
  <<"Z", "X", "C", "V", "B", "N", "M", "<", ">", "?">> >>

osk_keys_caps_shift == <<
  <<"~", "!", "@", "#", "$", "%", "^", "&", "*", "(", ")", "_", "+">>,
  <<"q", "w", "e", "r", "t", "y", "u", "i", "o", "p", "{", "}", "|">>,
  <<"a", "s", "d", "f", "g", "h", "j", "k", "l", ":", "quote">>,
  <<"z", "x", "c", "v", "b", "n", "m", "<", ">", "?">> >>

(* A key of these by its row and its place in the row.                     *)
Character == UNION {{<<r, i>> : i \in DOMAIN osk_string[r]} : r \in 1 .. 4}

VARIABLES
  (* keyboard.c *)
  held,              \* the modifier keys that are down
  pressed,           \* shift_pressed, ctrl_pressed, alt_pressed
  caps_lock_active,
  (* gui.c *)
  osk_enable, cursor_enable,
  gui_toggleable,    \* the toggles that are on
  attr,              \* the color of each key in osk_vga
  labels,            \* the characters in osk_vga
  was_pressed,
  cursor_prev,       \* cursor_prev_row, cursor_prev_col
  (* mouse.c *)
  left,              \* the left button, in mouse_buttons
  (* what has happened *)
  clicked,           \* the button has gone down since a key was pressed ...
  killed,            \* ... or that key killed the current process
  steady             \* nothing was switched off while the button was down

keyboardVars == <<held, pressed, caps_lock_active>>
switchVars == <<osk_enable, cursor_enable, steady>>
keyVars == <<gui_toggleable, attr, labels>>
pointVars == <<was_pressed, cursor_prev, clicked, killed>>
vars == <<keyboardVars, switchVars, keyVars, pointVars, left>>

Init ==
  /\ held = {} /\ pressed = {} /\ caps_lock_active = FALSE
  /\ osk_enable = FALSE /\ cursor_enable = FALSE /\ steady = TRUE
  /\ gui_toggleable = {} /\ attr = [k \in Key |-> "osk"]
  /\ labels = osk_string
  /\ was_pressed = FALSE /\ cursor_prev \in {p \in Pos : KeyAt[p] = NoKey}
  /\ clicked = FALSE /\ killed = FALSE
  /\ left = FALSE

----------------------------------------------------------------------------
(* keyboard_handler: a modifier key goes down, or repeats ...              *)
ModifierPress(k) ==
  /\ held' = held \cup {k}
  /\ pressed' = pressed \cup {KindOf(k)}
  /\ UNCHANGED <<caps_lock_active, switchVars, keyVars, pointVars, left>>

(* Mutant of Released: a right key's release has no case.                  *)
ReleasedLeft(k) ==
  IF k \in {"rshift", "rctrl", "ralt"} THEN pressed ELSE pressed \ {KindOf(k)}

(* ... and up: the two keys of a kind share a flag.                        *)
Released(k) == pressed \ {KindOf(k)}

ModifierRelease(k) ==
  /\ k \in held
  /\ held' = held \ {k}
  /\ pressed' = Released(k)
  /\ UNCHANGED <<caps_lock_active, switchVars, keyVars, pointVars, left>>

CapsLock ==
  /\ caps_lock_active' = ~caps_lock_active
  /\ UNCHANGED <<held, pressed, switchVars, keyVars, pointVars, left>>

(* Ctrl-K and Ctrl-M switch the on-screen keyboard and the pointer.        *)
SwitchOsk == osk_enable' = ~osk_enable /\ UNCHANGED cursor_enable
SwitchCursor == cursor_enable' = ~cursor_enable /\ UNCHANGED osk_enable

CtrlK ==
  /\ "ctrl" \in pressed /\ SwitchOsk
  /\ steady' = (steady /\ (osk_enable => ~was_pressed))
  /\ UNCHANGED <<keyboardVars, keyVars, pointVars, left>>

CtrlM ==
  /\ "ctrl" \in pressed /\ SwitchCursor
  /\ steady' = (steady /\ (cursor_enable => ~was_pressed))
  /\ UNCHANGED <<keyboardVars, keyVars, pointVars, left>>

(* The header of a mouse packet.                                           *)
Button ==
  /\ left' = ~left
  /\ clicked' = (clicked \/ ~left)
  /\ UNCHANGED <<keyboardVars, switchVars, keyVars, was_pressed, cursor_prev,
                 killed>>

----------------------------------------------------------------------------
(* The color of a key that the pointer is not pressing.                    *)
Resting(k, on) == IF k \in on THEN "on" ELSE "osk"

(* Mutant of osk_deselect: the key at a cell is given its plain color.     *)
DeselectPlain(cell) ==
  [k \in Key |-> IF k = KeyAt[cell] THEN "osk" ELSE attr[k]]

(* The colors after osk_deselect and osk_select of the key at a cell.      *)
osk_deselect(cell) ==
  [k \in Key |-> IF k = KeyAt[cell] THEN Resting(k, gui_toggleable)
                 ELSE attr[k]]
osk_select(colors, cell) ==
  [k \in Key |-> IF k = KeyAt[cell] THEN "press" ELSE colors[k]]

Shift(on) == "lshift" \in on \/ "rshift" \in on

(* The array of codes that osk_keypress takes the key from.                *)
Codes(on) ==
  IF Shift(on)
  THEN IF "caps" \in on THEN osk_keys_caps_shift ELSE osk_keys_shift
  ELSE IF "caps" \in on THEN osk_keys_caps ELSE osk_keys

(* Mutant of new_string: the right shift is forgotten.                     *)
NewStringLeft(on) ==
  IF "lshift" \in on
  THEN IF "caps" \in on THEN osk_string_caps_shift ELSE osk_string_shift
  ELSE IF "caps" \in on THEN osk_string_caps ELSE osk_string

(* The sprite that is drawn when a toggle that chooses it changes.         *)
new_string(on) ==
  IF Shift(on)
  THEN IF "caps" \in on THEN osk_string_caps_shift ELSE osk_string_shift
  ELSE IF "caps" \in on THEN osk_string_caps ELSE osk_string

(* do_render acts on the pointer only if both are enabled.                 *)
Acts == cursor_enable /\ osk_enable

(* The end of do_render.                                                   *)
Rendered == was_pressed' = left

(* Nothing to act on.                                                      *)
RenderIdle(cell) ==
  /\ ~Acts \/ (left = was_pressed /\ (left => cell = cursor_prev))
  /\ Rendered
  /\ UNCHANGED <<keyboardVars, switchVars, keyVars, cursor_prev, clicked,
                 killed, left>>

(* gui_handle_mouse_press                                                  *)
RenderPress(cell) ==
  /\ Acts /\ left /\ ~was_pressed
  /\ attr' = osk_select(attr, cell)
  /\ cursor_prev' = cell
  /\ Rendered
  /\ UNCHANGED <<keyboardVars, switchVars, gui_toggleable, labels, clicked,
                 killed, left>>

(* Mutant of Dragged: the key that was left keeps its highlight.           *)
DraggedOn(cell) == osk_select(attr, cell)

Dragged(cell) == osk_select(osk_deselect(cursor_prev), cell)

(* gui_handle_mouse_drag                                                   *)
RenderDrag(cell) ==
  /\ Acts /\ left /\ was_pressed /\ cell # cursor_prev
  /\ attr' = Dragged(cell)
  /\ cursor_prev' = cell
  /\ Rendered
  /\ UNCHANGED <<keyboardVars, switchVars, gui_toggleable, labels, clicked,
                 killed, left>>

(* gui_handle_mouse_release, osk_deselect and osk_keypress: the key is the *)
(* one under the pointer now.                                              *)
Releases == Acts /\ ~left /\ was_pressed

(* Mutant of KeyDone: do_render returns without its last statement.        *)
KeyDoneEarly ==
  clicked' = FALSE /\ killed' = FALSE /\ UNCHANGED was_pressed

(* A key has been pressed and do_render goes on to its end.                *)
KeyDone == clicked' = FALSE /\ killed' = FALSE /\ Rendered

(* The release of a toggle: its color, and for the three that choose a     *)
(* sprite the labels.                                                      *)
Choosers == {"lshift", "rshift", "caps"}

Relabel(k, on) == IF k \in Choosers THEN new_string(on) ELSE labels

ReleaseToggle(cell) ==
  /\ Releases /\ KeyAt[cell] \in Toggle
  /\ LET k == KeyAt[cell]
         on == IF k \in gui_toggleable THEN gui_toggleable \ {k}
               ELSE gui_toggleable \cup {k}
     IN  /\ gui_toggleable' = on
         /\ attr' = [osk_deselect(cursor_prev) EXCEPT ![k] = Resting(k, on)]
         /\ labels' = Relabel(k, on)
  /\ KeyDone
  /\ UNCHANGED <<keyboardVars, switchVars, cursor_prev, left>>

OskCtrl == gui_toggleable \cap {"lctrl", "rctrl"} # {}

(* The release of any other key, or beside the keys.  With ctrl, "k" and   *)
(* "m" are switches.                                                       *)
ReleaseKey(cell) ==
  /\ Releases /\ KeyAt[cell] \notin Toggle
  /\ attr' = osk_deselect(cursor_prev)
  /\ CASE OskCtrl /\ KeyAt[cell] = "k" -> SwitchOsk
       [] OskCtrl /\ KeyAt[cell] = "m" -> SwitchCursor
       [] OTHER -> UNCHANGED <<osk_enable, cursor_enable>>
  /\ UNCHANGED steady
  /\ IF KeyAt[cell] = NoKey THEN Rendered /\ UNCHANGED <<clicked, killed>>
     ELSE KeyDone
  /\ UNCHANGED <<keyboardVars, gui_toggleable, labels, cursor_prev, left>>

(* Ctrl-C: kill_term_process schedules another process and does not return *)
(* if the current one was killed, so do_render does not end.               *)
ReleaseKills(cell) ==
  /\ Releases /\ KeyAt[cell] = "c" /\ OskCtrl
  /\ attr' = osk_deselect(cursor_prev)
  /\ clicked' = FALSE /\ killed' = TRUE
  /\ UNCHANGED <<keyboardVars, switchVars, gui_toggleable, labels,
                 was_pressed, cursor_prev, left>>

do_render(cell) ==
  \/ RenderIdle(cell) \/ RenderPress(cell) \/ RenderDrag(cell)
  \/ ReleaseToggle(cell) \/ ReleaseKey(cell) \/ ReleaseKills(cell)

Next ==
  \/ \E k \in Held : ModifierPress(k) \/ ModifierRelease(k)
  \/ CapsLock \/ CtrlK \/ CtrlM \/ Button
  \/ \E cell \in Pos : do_render(cell)

Spec == Init /\ [][Next]_vars

----------------------------------------------------------------------------
TypeOK ==
  /\ held \subseteq Held /\ pressed \subseteq Modifier
  /\ caps_lock_active \in BOOLEAN
  /\ osk_enable \in BOOLEAN /\ cursor_enable \in BOOLEAN
  /\ gui_toggleable \subseteq Toggle
  /\ attr \in [Key -> {"osk", "on", "press"}]
  /\ labels \in Sprite
  /\ was_pressed \in BOOLEAN /\ cursor_prev \in Pos /\ left \in BOOLEAN
  /\ clicked \in BOOLEAN /\ killed \in BOOLEAN /\ steady \in BOOLEAN

(* No modifier is stuck: a flag is set only while a key of its kind is     *)
(* down, whatever the order in which the two keys that share it go down    *)
(* and up.  (The converse fails: releasing one of two clears the flag.)    *)
NoStuckModifier == \A m \in pressed : \E k \in held : KindOf(k) = m

(* A key is highlighted only while the button holds it: the highlight      *)
(* follows the drag and ends with the release.  (Switching the keyboard or *)
(* the pointer off in between leaves it behind.)                           *)
HighlightFollows ==
  steady => \A k \in Key :
    attr[k] = "press" => was_pressed /\ k = KeyAt[cursor_prev]

(* Where the sprite has another character than the key: on J, with caps    *)
(* lock and without shift.                                                 *)
ShowsK(key) ==
  key = <<3, 7>> /\ "caps" \in gui_toggleable /\ ~Shift(gui_toggleable)

(* What a key shows, and what osk_keypress would send for it now.          *)
Shown(key) == labels[key[1]][key[2]]
Sent(key) == Codes(gui_toggleable)[key[1]][key[2]]

(* The keys look as they act, through all presses, drags and releases, by  *)
(* whichever key they end on: a toggle that is not being pressed shows     *)
(* whether it is on, and the sprite that is drawn, chosen by one piece of  *)
(* code, shows what the array of codes chosen by another sends: on every   *)
(* key but J, which with caps lock shows "K".                              *)
KeysShown ==
  /\ \A k \in Key : attr[k] # "press" => attr[k] = Resting(k, gui_toggleable)
  /\ \A key \in Character : ~ShowsK(key) => Shown(key) = Sent(key)

(* A key is pressed once for a click: when a release is acted on, the      *)
(* button has gone down since the last key, unless that key was a Ctrl-C   *)
(* that did not return.  (Then the next PIT interrupt releases the same    *)
(* key again.)                                                             *)
OneKeyPerClick == Releases => clicked \/ killed
=============================================================================

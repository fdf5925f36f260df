------------------------------ MODULE GuiProofs ------------------------------
(***************************************************************************)
(* What the user sees of the on-screen keyboard is what its keys do, for   *)
(* every layout and every mixture of clicks, drags and switches.           *)
(***************************************************************************)
EXTENDS Gui, TLAPS

(* With both enabled a highlight belongs to the key that is being pressed; *)
(* with one disabled there is none.                                        *)
HighlightInv ==
  steady => \A k \in Key :
    attr[k] = "press" => was_pressed /\ k = KeyAt[cursor_prev] /\ Acts

(* A button that is down, or was, has gone down since the last key.        *)
ClickInv == left \/ was_pressed => clicked \/ killed

(* The colors and the sprite are those of the toggles.                     *)
ColorsInv ==
  \A k \in Key : attr[k] # "press" => attr[k] = Resting(k, gui_toggleable)

SpriteInv == labels = new_string(gui_toggleable)

GuiInv ==
  /\ TypeOK /\ NoStuckModifier /\ HighlightInv /\ ClickInv
  /\ ColorsInv /\ SpriteInv

----------------------------------------------------------------------------
(* The sprite depends on three toggles only.                               *)
LEMMA SameSprite ==
  ASSUME NEW on, NEW other,
         "lshift" \in on <=> "lshift" \in other,
         "rshift" \in on <=> "rshift" \in other,
         "caps" \in on <=> "caps" \in other
  PROVE  new_string(on) = new_string(other)
BY DEF new_string, Shift

(* Sprite by sprite, what osk_vga shows of a key is what the array of      *)
(* codes has for it, but for one key of one sprite (osk_string,            *)
(* osk_keys).                                                              *)
LEMMA SameTables ==
  /\ osk_string = osk_keys
  /\ osk_string_shift = osk_keys_shift
  /\ osk_string_caps_shift = osk_keys_caps_shift
BY DEF osk_string, osk_string_shift, osk_string_caps_shift, osk_keys,
       osk_keys_shift, osk_keys_caps_shift

LEMMA CharacterIs ==
  \A key \in Character :
    /\ key = <<key[1], key[2]>>
    /\ \/ key[1] = 1 /\ key[2] \in 1 .. 13
       \/ key[1] = 2 /\ key[2] \in 1 .. 13
       \/ key[1] = 3 /\ key[2] \in 1 .. 11
       \/ key[1] = 4 /\ key[2] \in 1 .. 10
<1>1. /\ DOMAIN osk_string[1] = 1 .. 13
      /\ DOMAIN osk_string[2] = 1 .. 13
      /\ DOMAIN osk_string[3] = 1 .. 11
      /\ DOMAIN osk_string[4] = 1 .. 10
  BY DEF osk_string
<1>2. TAKE key \in Character
<1>3. PICK r \in 1 .. 4 : \E i \in DOMAIN osk_string[r] : key = <<r, i>>
  BY DEF Character
<1>4. PICK i \in DOMAIN osk_string[r] : key = <<r, i>>
  BY <1>3
<1>5. r = 1 \/ r = 2 \/ r = 3 \/ r = 4
  OBVIOUS
<1>6. key[1] = r /\ key[2] = i
  BY <1>4
<1>7. QED
  BY <1>1, <1>4, <1>5, <1>6

LEMMA CapsTables ==
  \A key \in Character : key # <<3, 7>> =>
    osk_string_caps[key[1]][key[2]] = osk_keys_caps[key[1]][key[2]]
<1>1. /\ osk_string_caps[1] = osk_keys_caps[1]
      /\ osk_string_caps[2] = osk_keys_caps[2]
      /\ osk_string_caps[4] = osk_keys_caps[4]
  BY DEF osk_string_caps, osk_keys_caps
<1>2. \A i \in 1 .. 11 : i # 7 =>
        osk_string_caps[3][i] = osk_keys_caps[3][i]
  <2>1. TAKE i \in 1 .. 11
  <2> DEFINE Agree(j) == osk_string_caps[3][j] = osk_keys_caps[3][j]
  <2>2. /\ Agree(1) /\ Agree(2) /\ Agree(3) /\ Agree(4) /\ Agree(5) /\ Agree(6)
        /\ Agree(8) /\ Agree(9) /\ Agree(10) /\ Agree(11)
    BY DEF osk_string_caps, osk_keys_caps
  <2> HIDE DEF Agree
  <2>3. i # 7 => Agree(i)
    BY <2>2
  <2>4. QED
    BY <2>3 DEF Agree
<1>3. QED
  BY <1>1, <1>2, CharacterIs

----------------------------------------------------------------------------
LEMMA InitInv == Init => GuiInv
<1> SUFFICES ASSUME Init PROVE GuiInv
  OBVIOUS
<1>1. TypeOK
  BY DEF Init, TypeOK, Sprite
<1>2. NoStuckModifier /\ HighlightInv /\ ClickInv
  BY DEF Init, NoStuckModifier, HighlightInv, ClickInv
<1>3. ColorsInv /\ SpriteInv
  BY DEF Init, ColorsInv, SpriteInv, Resting, new_string, Shift
<1>4. QED
  BY <1>1, <1>2, <1>3 DEF GuiInv

(* The two modifier flags of the keyboard.                                 *)
LEMMA ModifierStep ==
  ASSUME GuiInv, NEW k \in Held, ModifierPress(k) \/ ModifierRelease(k)
  PROVE  GuiInv'
<1>0. /\ KindOf(k) \in Modifier /\ held \subseteq Held
      /\ pressed \subseteq Modifier
  BY DEF GuiInv, TypeOK, KindOf, Modifier
<1>1. UNCHANGED <<caps_lock_active, switchVars, keyVars, pointVars, left>>
  BY DEF ModifierPress, ModifierRelease
<1>2. TypeOK'
  BY <1>0, <1>1 DEF GuiInv, TypeOK, ModifierPress, ModifierRelease, Released,
                    switchVars, keyVars, pointVars
<1>3. NoStuckModifier'
  BY <1>0 DEF GuiInv, NoStuckModifier, ModifierPress, ModifierRelease, Released
<1>4. HighlightInv' /\ ClickInv' /\ ColorsInv' /\ SpriteInv'
  BY <1>1 DEF GuiInv, HighlightInv, ClickInv, ColorsInv, SpriteInv, Acts, Resting,
              switchVars, keyVars, pointVars
<1>5. QED
  BY <1>2, <1>3, <1>4 DEF GuiInv

LEMMA SwitchStep ==
  ASSUME GuiInv, CapsLock \/ CtrlK \/ CtrlM \/ Button
  PROVE  GuiInv'
<1>1. UNCHANGED <<held, pressed, gui_toggleable, attr, labels, was_pressed,
                  cursor_prev, killed>>
  BY DEF CapsLock, CtrlK, CtrlM, Button, keyboardVars, keyVars, pointVars
<1>2. TypeOK'
  BY <1>1 DEF GuiInv, TypeOK, CapsLock, CtrlK, CtrlM, Button, SwitchOsk,
              SwitchCursor, keyboardVars, keyVars, pointVars, switchVars
<1>3. NoStuckModifier' /\ ColorsInv' /\ SpriteInv'
  BY <1>1 DEF GuiInv, NoStuckModifier, ColorsInv, SpriteInv, Resting
<1>4. HighlightInv'
  BY <1>1 DEF GuiInv, TypeOK, HighlightInv, Acts, CapsLock, CtrlK, CtrlM, Button,
              SwitchOsk, SwitchCursor, switchVars
<1>5. ClickInv'
  BY <1>1 DEF GuiInv, TypeOK, ClickInv, CapsLock, CtrlK, CtrlM, Button, pointVars
<1>6. QED
  BY <1>2, <1>3, <1>4, <1>5 DEF GuiInv

----------------------------------------------------------------------------
(* The colors that the two functions of the sprite leave.                  *)
LEMMA Deselected ==
  ASSUME TypeOK, NEW cell \in Pos
  PROVE  /\ osk_deselect(cell) \in [Key -> {"osk", "on", "press"}]
         /\ \A k \in Key : osk_deselect(cell)[k] =
              IF k = KeyAt[cell] THEN Resting(k, gui_toggleable) ELSE attr[k]
BY DEF TypeOK, osk_deselect, Resting

LEMMA Selected ==
  ASSUME NEW colors \in [Key -> {"osk", "on", "press"}], NEW cell \in Pos
  PROVE  /\ osk_select(colors, cell) \in [Key -> {"osk", "on", "press"}]
         /\ \A k \in Key : osk_select(colors, cell)[k] =
              IF k = KeyAt[cell] THEN "press" ELSE colors[k]
BY DEF osk_select

(* After a deselection no other key is highlighted, and all toggles look   *)
(* as they act.                                                            *)
LEMMA NoHighlight ==
  ASSUME GuiInv
  PROVE  /\ steady => \A k \in Key : osk_deselect(cursor_prev)[k] # "press"
         /\ \A k \in Key : osk_deselect(cursor_prev)[k] # "press" =>
              osk_deselect(cursor_prev)[k] = Resting(k, gui_toggleable)
<1>1. cursor_prev \in Pos /\ TypeOK
  BY DEF GuiInv, TypeOK
<1>2. \A k \in Key : Resting(k, gui_toggleable) # "press"
  BY DEF Resting
<1>3. QED
  BY <1>1, <1>2, Deselected DEF GuiInv, HighlightInv, ColorsInv

LEMMA RenderStep ==
  ASSUME GuiInv, NEW cell \in Pos, do_render(cell)
  PROVE  GuiInv'
<1>0. TypeOK /\ cursor_prev \in Pos
  BY DEF GuiInv, TypeOK
<1>1. NoStuckModifier' /\ UNCHANGED keyboardVars
  BY DEF do_render, RenderIdle, RenderPress, RenderDrag, ReleaseToggle, ReleaseKey,
         ReleaseKills, keyboardVars, GuiInv, NoStuckModifier
<1>2. CASE RenderIdle(cell)
  <2>1. TypeOK' /\ ColorsInv' /\ SpriteInv'
    BY <1>0, <1>2 DEF GuiInv, TypeOK, ColorsInv, SpriteInv, Resting, RenderIdle,
                 Rendered, keyboardVars, switchVars, keyVars
  <2>2. HighlightInv' /\ ClickInv'
    BY <1>0, <1>2 DEF GuiInv, TypeOK, HighlightInv, ClickInv, RenderIdle, Rendered,
                 Acts, switchVars, keyVars
  <2>3. QED
    BY <1>1, <2>1, <2>2 DEF GuiInv
<1>3. CASE RenderPress(cell)
  <2>1. /\ attr' = osk_select(attr, cell) /\ attr \in [Key -> {"osk", "on", "press"}]
        /\ cursor_prev' = cell /\ was_pressed' = TRUE /\ Acts /\ left /\ ~was_pressed
        /\ UNCHANGED <<switchVars, gui_toggleable, labels, clicked, killed, left>>
    BY <1>0, <1>3 DEF RenderPress, Rendered, TypeOK
  <2>2. TypeOK'
    BY <1>0, <1>1, <2>1, Selected DEF TypeOK, keyboardVars, switchVars
  <2>3. ColorsInv' /\ SpriteInv'
    BY <2>1, Selected DEF GuiInv, ColorsInv, SpriteInv, Resting
  <2>4. HighlightInv'
    BY <2>1, Selected DEF GuiInv, HighlightInv, Acts, switchVars
  <2>5. ClickInv'
    BY <2>1 DEF GuiInv, ClickInv
  <2>6. QED
    BY <1>1, <2>2, <2>3, <2>4, <2>5 DEF GuiInv
<1>4. CASE RenderDrag(cell)
  <2> DEFINE colors == osk_deselect(cursor_prev)
  <2>1. /\ attr' = osk_select(colors, cell)
        /\ cursor_prev' = cell /\ was_pressed' = TRUE /\ Acts /\ left
        /\ UNCHANGED <<switchVars, gui_toggleable, labels, clicked, killed, left>>
    BY <1>0, <1>4 DEF RenderDrag, Dragged, Rendered, TypeOK
  <2>2. colors \in [Key -> {"osk", "on", "press"}]
    BY <1>0, Deselected
  <2>3. /\ steady => \A k \in Key : colors[k] # "press"
        /\ \A k \in Key : colors[k] # "press" => colors[k] = Resting(k, gui_toggleable)
    BY NoHighlight
  <2> HIDE DEF colors
  <2>4. TypeOK'
    BY <1>0, <1>1, <2>1, <2>2, Selected DEF TypeOK, keyboardVars, switchVars
  <2>5. ColorsInv' /\ SpriteInv'
    BY <2>1, <2>2, <2>3, Selected DEF GuiInv, ColorsInv, SpriteInv, Resting
  <2>6. HighlightInv'
    BY <2>1, <2>2, <2>3, Selected DEF HighlightInv, Acts, switchVars
  <2>7. ClickInv'
    BY <2>1 DEF GuiInv, ClickInv
  <2>8. QED
    BY <1>1, <2>4, <2>5, <2>6, <2>7 DEF GuiInv
<1>5. CASE ReleaseToggle(cell)
  <2> DEFINE colors == osk_deselect(cursor_prev)
  <2>1. PICK k \in Toggle, on \in SUBSET Toggle :
          /\ k = KeyAt[cell] /\ gui_toggleable' = on
          /\ \A j \in Toggle \ {k} : (j \in on) <=> (j \in gui_toggleable)
          /\ attr' = [colors EXCEPT ![k] = Resting(k, on)]
          /\ labels' = Relabel(k, on)
    BY <1>0, <1>5 DEF ReleaseToggle, TypeOK
  <2>2. /\ was_pressed' = FALSE /\ ~left /\ clicked' = FALSE /\ killed' = FALSE
        /\ UNCHANGED <<switchVars, cursor_prev, left>>
    BY <1>0, <1>5 DEF ReleaseToggle, KeyDone, Rendered, Releases, TypeOK
  <2>3. colors \in [Key -> {"osk", "on", "press"}]
    BY <1>0, Deselected
  <2>4. /\ steady => \A j \in Key : colors[j] # "press"
        /\ \A j \in Key : colors[j] # "press" => colors[j] = Resting(j, gui_toggleable)
    BY NoHighlight
  <2> HIDE DEF colors
  <2>5. Resting(k, on) \in {"osk", "on"}
    BY DEF Resting
  <2>6. labels' = new_string(on)
    <3>1. CASE k \in Choosers
      BY <2>1, <3>1 DEF Relabel
    <3>2. CASE k \notin Choosers
      <4>1. /\ "lshift" \in on <=> "lshift" \in gui_toggleable
            /\ "rshift" \in on <=> "rshift" \in gui_toggleable
            /\ "caps" \in on <=> "caps" \in gui_toggleable
        BY <2>1, <3>2 DEF Choosers, Toggle
      <4>2. new_string(on) = new_string(gui_toggleable)
        BY <4>1, SameSprite
      <4>3. QED
        BY <2>1, <3>2, <4>2 DEF GuiInv, SpriteInv, Relabel
    <3>3. QED
      BY <3>1, <3>2
  <2>7. TypeOK'
    <3>1. labels' \in Sprite
      BY <2>6 DEF new_string, Sprite
    <3>2. attr' \in [Key -> {"osk", "on", "press"}]
      BY <2>1, <2>3, <2>5
    <3>3. QED
      BY <1>0, <1>1, <2>1, <2>2, <3>1, <3>2 DEF TypeOK, keyboardVars, switchVars
  <2>8. ColorsInv' /\ SpriteInv'
    <3>1. \A j \in Key : attr'[j] = IF j = k THEN Resting(k, on) ELSE colors[j]
      BY <2>1, <2>3
    <3>2. \A j \in Key \ {k} : Resting(j, on) = Resting(j, gui_toggleable)
      BY <1>0, <2>1 DEF Resting, TypeOK
    <3>3. QED
      BY <2>1, <2>4, <2>6, <3>1, <3>2 DEF ColorsInv, SpriteInv
  <2>9. HighlightInv'
    BY <2>1, <2>2, <2>3, <2>4, <2>5 DEF HighlightInv, switchVars
  <2>10. ClickInv'
    BY <2>2 DEF ClickInv
  <2>11. QED
    BY <1>1, <2>7, <2>8, <2>9, <2>10 DEF GuiInv
<1>6. CASE ReleaseKey(cell) \/ ReleaseKills(cell)
  <2>1. /\ attr' = osk_deselect(cursor_prev)
        /\ UNCHANGED <<gui_toggleable, labels, cursor_prev, left, steady>>
        /\ osk_enable' \in BOOLEAN /\ cursor_enable' \in BOOLEAN
    BY <1>0, <1>6 DEF ReleaseKey, ReleaseKills, SwitchOsk, SwitchCursor, TypeOK,
                      switchVars
  <2>2. /\ was_pressed' \in BOOLEAN /\ clicked' \in BOOLEAN /\ killed' \in BOOLEAN
        /\ ~left /\ (was_pressed' => killed')
    BY <1>0, <1>6 DEF ReleaseKey, ReleaseKills, KeyDone, Rendered, Releases, TypeOK
  <2>3. osk_deselect(cursor_prev) \in [Key -> {"osk", "on", "press"}]
    BY <1>0, Deselected
  <2>4. TypeOK'
    BY <1>0, <1>1, <2>1, <2>2, <2>3 DEF TypeOK, keyboardVars
  <2>5. ColorsInv' /\ SpriteInv'
    BY <2>1, NoHighlight DEF GuiInv, ColorsInv, SpriteInv, Resting
  <2>6. HighlightInv'
    BY <2>1, NoHighlight DEF HighlightInv
  <2>7. ClickInv'
    BY <2>1, <2>2 DEF ClickInv
  <2>8. QED
    BY <1>1, <2>4, <2>5, <2>6, <2>7 DEF GuiInv
<1>7. QED
  BY <1>2, <1>3, <1>4, <1>5, <1>6 DEF do_render

LEMMA StepInv == GuiInv /\ [Next]_vars => GuiInv'
<1> SUFFICES ASSUME GuiInv, [Next]_vars PROVE GuiInv'
  OBVIOUS
<1>1. CASE UNCHANGED vars
  BY <1>1 DEF vars, keyboardVars, switchVars, keyVars, pointVars, GuiInv, TypeOK,
              NoStuckModifier, HighlightInv, ClickInv, ColorsInv, SpriteInv, Acts,
              Resting
<1>2. QED
  BY <1>1, ModifierStep, SwitchStep, RenderStep DEF Next

(* The inductive invariant of the two keyboards.                           *)
LEMMA Invariance == Spec => []GuiInv
BY InitInv, StepInv, PTL DEF Spec

(* The types of the switches, the toggles, the colors and the labels.      *)
THEOREM TypeCorrect == Spec => []TypeOK
<1>1. GuiInv => TypeOK
  BY DEF GuiInv
<1>2. QED
  BY <1>1, Invariance, PTL

(* keyboard.c: no flag outlives the keys that share it.                    *)
THEOREM ModifiersRelease == Spec => []NoStuckModifier
<1>1. GuiInv => NoStuckModifier
  BY DEF GuiInv
<1>2. QED
  BY <1>1, Invariance, PTL

(* gui.c: the highlight follows a drag and ends with the release.          *)
THEOREM Highlighted == Spec => []HighlightFollows
<1>1. GuiInv => HighlightFollows
  BY DEF GuiInv, HighlightInv, HighlightFollows
<1>2. QED
  BY <1>1, Invariance, PTL

(* gui.c: the toggles show whether they are on, and every key but J shows  *)
(* the character that osk_keypress sends for it, J too unless caps lock is *)
(* on alone.                                                               *)
THEOREM ShownAsTheyAct == Spec => []KeysShown
<1>1. ASSUME ColorsInv, SpriteInv PROVE KeysShown
  <2>1. ASSUME NEW key \in Character, ~ShowsK(key)
        PROVE  Shown(key) = Sent(key)
    <3>1. CASE Shift(gui_toggleable) \/ "caps" \notin gui_toggleable
      <4>1. labels = Codes(gui_toggleable)
        BY <1>1, <3>1, SameTables DEF SpriteInv, new_string, Codes
      <4>2. QED
        BY <4>1 DEF Shown, Sent
    <3>2. CASE ~Shift(gui_toggleable) /\ "caps" \in gui_toggleable
      <4>1. labels = osk_string_caps /\ Codes(gui_toggleable) = osk_keys_caps
        BY <1>1, <3>2 DEF SpriteInv, new_string, Codes
      <4>2. key # <<3, 7>>
        BY <2>1, <3>2 DEF ShowsK
      <4>3. QED
        BY <2>1, <4>1, <4>2, CapsTables DEF Shown, Sent
    <3>3. QED
      BY <3>1, <3>2
  <2>2. QED
    BY <1>1, <2>1 DEF ColorsInv, KeysShown
<1>2. GuiInv => ColorsInv /\ SpriteInv
  BY DEF GuiInv
<1>3. QED
  BY <1>1, <1>2, Invariance, PTL

(* do_render: a click presses one key, unless a kill does not return.      *)
THEOREM KeyPerClick == Spec => []OneKeyPerClick
<1>1. GuiInv => OneKeyPerClick
  BY DEF GuiInv, ClickInv, OneKeyPerClick, Releases
<1>2. QED
  BY <1>1, Invariance, PTL
=============================================================================

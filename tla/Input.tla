------------------------------- MODULE Input -------------------------------
(***************************************************************************)
(* How the Vita's controls become mouse buttons and keys of the Mac        *)
(* (PSP2/video_psp.cpp): the touch panels, the buttons of the pad with     *)
(* their input map, a Bluetooth mouse and keyboard, the on-screen keyboard *)
(* and the menu, which VideoInterrupt looks at once a frame, one after the *)
(* other.  They share the Mac's mouse button and keys: what one has        *)
(* pressed, another releases.                                              *)
(*                                                                         *)
(* A frame is a sequence of steps, none of which is interrupted by another *)
(* frame.  The variable down is what ADBMouseDown, ADBMouseUp, ADBKeyDown  *)
(* and ADBKeyUp have left pressed; how the Mac is told is in Adb.          *)
(***************************************************************************)
EXTENDS Touch

CONSTANTS
    Keys,               \* Mac keys
    Cmd, Opt, Ctrl, Shift, Caps,
    Hid,                \* codes of the Bluetooth keyboard's other keys
    mac_key,            \* the Mac key of a code, or NoKey
    NoKey,              \* 255 in mac_key
    NoCode,             \* 0 in a report
    Slots,              \* length of the code array of a report
    Entries,            \* lines of an input map
    Maps,               \* input maps: what each line presses; {Caps} is a line
                        \* that starts with Caps Lock, whatever else is on it
    Sessions            \* the devices in use together, and the modifiers of
                        \* the keyboard that are pressed

Modifiers == {Cmd, Opt, Ctrl, Shift}
Codes == [1 .. Slots -> Hid \cup {NoCode}]
NoCodes == [i \in 1 .. Slots |-> NoCode]

ASSUME InputAssumption ==
    /\ Modifiers \subseteq Keys /\ Cardinality(Modifiers) = 4 /\ Caps \in Keys \ Modifiers
    /\ Keys \cap Buttons = {} /\ NoKey \notin Keys \cup Buttons
    /\ mac_key \in [Hid \cup {NoCode} -> (Keys \cup {NoKey}) \ Modifiers]
    /\ NoCode \notin Hid /\ mac_key[NoCode] = NoKey
    /\ \A c, d \in Hid : mac_key[c] = mac_key[d] => c = d \/ mac_key[c] = NoKey
    /\ Slots \in Nat /\ Entries \in Nat
    /\ Maps \subseteq [1 .. Entries -> SUBSET (Keys \cup Buttons)] /\ Maps # {}
    /\ \A s \in Sessions : s \subseteq {"panel", "screen", "mouse", "keyboard", "osk"} \cup Modifiers

VARIABLES
    used,           \* the session's devices and modifiers
    stage,          \* the step of VideoInterrupt
    input_mode, show_menu,
    qualifiers,     \* modifiers chosen on the on-screen keyboard
    button_map,     \* the input map
    held,           \* its lines that are flagged as down
    line,           \* the line that is looked at
    mouseClickedTouch, initialTouch,
    clicked,        \* leftMouseClicked, rightMouseClicked
    caps_lock,
    prev_keys, prev_left, prev_right,   \* the last report; prev_modifiers
    report,         \* the codes of the report, while it is handled
    before,         \* history: the codes of the report before
    plugged,        \* keyboard_hid_handle # 0
    lost            \* history: pressed, and no device will release them

padVars == <<button_map, held, line>>
mouseVars == <<mouseClickedTouch, initialTouch, clicked>>
keyVars == <<prev_keys, prev_left, prev_right, report, before, plugged>>
modeVars == <<used, input_mode, show_menu, qualifiers>>

vars == <<touchVars, down, modeVars, stage, padVars, mouseVars, caps_lock, keyVars, lost>>

Init ==
    /\ TouchStart /\ down = {} /\ lost = {}
    /\ used \in Sessions /\ stage = "idle"
    /\ input_mode = FALSE /\ show_menu = FALSE /\ qualifiers = 0
    /\ button_map \in Maps /\ held = {} /\ line = 1
    /\ mouseClickedTouch = FALSE /\ initialTouch = FALSE /\ clicked = {}
    /\ caps_lock = FALSE
    /\ prev_keys = NoCodes /\ report = NoCodes /\ before = NoCodes
    /\ prev_left = {} /\ prev_right = {}
    /\ plugged = ("keyboard" \in used)

-----------------------------------------------------------------------------
(* The start of a frame. *)

\* Mutant of Frame: the qualifiers do not come round.
FrameOn(start, select) ==
    LET osk == (input_mode # start) /\ "osk" \in used
    IN  /\ stage = "idle"
        /\ input_mode' = osk
        /\ show_menu' = (~osk /\ (show_menu # select))
        /\ qualifiers' = IF ~osk THEN 0 ELSE IF select THEN qualifiers + 1 ELSE qualifiers
        /\ stage' = IF osk THEN "osk" ELSE IF show_menu' THEN "menu" ELSE "panel"
        /\ UNCHANGED <<used, touchVars, down, padVars, mouseVars, caps_lock, keyVars, lost>>

\* START shows the on-screen keyboard if it has been loaded, SELECT the menu or,
\* on the on-screen keyboard, the next qualifier.
Frame(start, select) ==
    LET osk == (input_mode # start) /\ "osk" \in used
    IN  /\ stage = "idle"
        /\ input_mode' = osk
        /\ show_menu' = (~osk /\ (show_menu # select))
        /\ qualifiers' = IF ~osk THEN 0 ELSE IF select THEN (qualifiers + 1) % 5 ELSE qualifiers
        /\ stage' = IF osk THEN "osk" ELSE IF show_menu' THEN "menu" ELSE "panel"
        /\ UNCHANGED <<used, touchVars, down, padVars, mouseVars, caps_lock, keyVars, lost>>

\* What the lines that are down release when they go up.
PadHolds == UNION {button_map[i] : i \in {j \in held : button_map[j] # {Caps}}}

\* parse_imap, from the menu: the flags go with the old map, and what its lines
\* hold down stays down.
LoadMap(map) ==
    /\ button_map' = map
    /\ held' = {}
    /\ lost' = lost \cup (down \cap PadHolds)
    /\ stage' = "idle"
    /\ UNCHANGED <<line, touchVars, down, modeVars, mouseVars, caps_lock, keyVars>>

\* The menu's other choices are in Drives.
Menu ==
    /\ stage = "menu"
    /\ \/ \E map \in Maps : LoadMap(map)
       \/ stage' = "idle" /\ UNCHANGED <<padVars, touchVars, down, modeVars, mouseVars, caps_lock, keyVars, lost>>

Qualifier(q) == CASE q = 1 -> {Cmd} [] q = 2 -> {Opt} [] q = 3 -> {Ctrl}
                  [] q = 4 -> {Cmd, Opt} [] OTHER -> {}

\* A key of the on-screen keyboard with or without shift, or none.
Strokes == {{}} \cup {s \in SUBSET Keys : Cardinality(s \ {Shift}) = 1}

\* A key of the on-screen keyboard goes down and up in one frame, with its
\* qualifiers and shift; the qualifiers do so in every frame.
OnScreenKey(stroke) ==
    /\ stage = "osk"
    /\ down' = down \ (Qualifier(qualifiers) \cup stroke)
    /\ lost' = lost \ (Qualifier(qualifiers) \cup stroke)
    /\ stage' = "idle"
    /\ UNCHANGED <<padVars, touchVars, modeVars, mouseVars, caps_lock, keyVars>>

-----------------------------------------------------------------------------
(* The touch panels. *)

\* The panel whose gestures Touch describes.
PanelPoll ==
    /\ stage = "panel"
    /\ IF "panel" \in used
         THEN /\ \E r \in SUBSET Fingers, d \in 0 .. MaxDelay : PollTouch(r, d)
              /\ stage' = "fingers"
         ELSE stage' = "screen" /\ UNCHANGED <<touchVars, down>>
    /\ lost' = lost \cap down'
    /\ UNCHANGED <<modeVars, padVars, mouseVars, caps_lock, keyVars>>

PanelEvent ==
    /\ stage = "fingers"
    /\ \/ TouchEvent /\ UNCHANGED stage
       \/ PollDone /\ stage' = "screen"
    /\ lost' = lost \cap down'
    /\ UNCHANGED <<modeVars, padVars, mouseVars, caps_lock, keyVars>>

\* Direct touch: a finger on the screen presses the button, except in the first
\* frame after the last time it was released.
Screen(touched) ==
    /\ stage = "screen"
    /\ stage' = "pad"
    /\ touched => "screen" \in used
    /\ IF ~touched /\ mouseClickedTouch
         THEN /\ mouseClickedTouch' = FALSE /\ initialTouch' = TRUE
              /\ down' = down \ {"left"}
         ELSE IF touched /\ ~mouseClickedTouch
           THEN /\ mouseClickedTouch' = ~initialTouch /\ initialTouch' = FALSE
                /\ down' = IF initialTouch THEN down ELSE down \cup {"left"}
           ELSE UNCHANGED <<mouseClickedTouch, initialTouch, down>>
    /\ lost' = lost \cap down'
    /\ UNCHANGED <<touchVars, modeVars, padVars, clicked, caps_lock, keyVars>>

-----------------------------------------------------------------------------
(* The pad. *)

\* key_down: a line of the map is sent once. A line that starts with Caps Lock
\* switches it over and sends nothing else; elsewhere it is a key like others.
key_down(i) ==
    /\ i \notin held
    /\ held' = held \cup {i}
    /\ IF button_map[i] = {Caps}
         THEN /\ caps_lock' = ~caps_lock
              /\ down' = IF caps_lock THEN down \ {Caps} ELSE down \cup {Caps}
         ELSE down' = down \cup button_map[i] /\ UNCHANGED caps_lock

\* Mutant of key_up: only keys are released.
key_up_keys(i) ==
    /\ i \in held
    /\ held' = held \ {i}
    /\ down' = IF button_map[i] = {Caps} THEN down ELSE down \ (button_map[i] \cap Keys)
    /\ UNCHANGED caps_lock

\* key_up
key_up(i) ==
    /\ i \in held
    /\ held' = held \ {i}
    /\ down' = IF button_map[i] = {Caps} THEN down ELSE down \ button_map[i]
    /\ UNCHANGED caps_lock

\* A line of the map after the other; a line is pressed when its combination of
\* buttons is held.
PadLine(pressed) ==
    /\ stage = "pad" /\ line <= Entries
    /\ line' = line + 1
    /\ IF pressed /\ line \notin held THEN key_down(line)
       ELSE IF ~pressed /\ line \in held THEN key_up(line)
       ELSE UNCHANGED <<held, down, caps_lock>>
    /\ lost' = lost \cap down'
    /\ UNCHANGED <<button_map, stage, touchVars, modeVars, mouseVars, keyVars>>

PadDone ==
    /\ stage = "pad" /\ line > Entries
    /\ line' = 1
    /\ stage' = "mouse"
    /\ UNCHANGED <<button_map, held, touchVars, down, modeVars, mouseVars, caps_lock, keyVars, lost>>

-----------------------------------------------------------------------------
(* The Bluetooth mouse and keyboard. *)

\* The buttons of one report, or of none; the motion is in Adb.
Mouse(buttons) ==
    /\ stage = "mouse"
    /\ "mouse" \notin used => buttons = clicked
    /\ clicked' = buttons
    /\ down' = (down \cup (buttons \ clicked)) \ (clicked \ buttons)
    /\ lost' = lost \cap down'
    /\ stage' = IF plugged THEN "keyboard" ELSE "idle"
    /\ UNCHANGED <<touchVars, modeVars, padVars, mouseClickedTouch, initialTouch, caps_lock, keyVars>>

\* What the keyboard holds down on the Mac.
Typed == prev_left \cup {mac_key[prev_keys[i]] : i \in 1 .. Slots}

\* No report since the last frame, or an error, after which the keyboard is not
\* read any more.
NoReport ==
    /\ stage = "keyboard"
    /\ plugged' \in BOOLEAN
    /\ lost' = IF plugged' THEN lost ELSE lost \cup (down \cap Typed)
    /\ stage' = "idle"
    /\ UNCHANGED <<down, touchVars, modeVars, padVars, mouseVars, caps_lock,
                   prev_keys, prev_left, prev_right, report, before>>

\* Whether a modifier counts as pressed, and as pressed before: the key on the
\* right is looked up in the last report, and for Alt (Command) not at all.
Pressed(m, left) == m \in left \/ m \in prev_right
WasPressed(m) == m \in prev_left \/ (m # Cmd /\ m \in prev_right)

\* handle_keyboard, first half: Caps Lock, as the report's lamp shows it and
\* when it has changed, and the modifiers of the last report.
HandleModifiers(codes, left, right, caps) ==
    LET press == {m \in Modifiers : Pressed(m, left) /\ ~WasPressed(m)}
        release == {m \in Modifiers : ~Pressed(m, left) /\ WasPressed(m)}
    IN  /\ stage = "keyboard"
        /\ caps_lock' = caps
        /\ down' = ((down \cup press \cup (IF caps /\ ~caps_lock THEN {Caps} ELSE {})) \ release)
                      \ (IF ~caps /\ caps_lock THEN {Caps} ELSE {})
        /\ lost' = (lost \cap down') \cup {m \in Modifiers \cap down' : m \in prev_right /\ m \notin left}
        /\ prev_left' = left /\ prev_right' = right
        /\ report' = codes /\ before' = prev_keys
        /\ line' = 1
        /\ stage' = "codes"
        /\ UNCHANGED <<button_map, held, touchVars, modeVars, mouseVars, prev_keys, plugged>>

\* Mutant of HandleCode: a slot that had a key only releases it.
HandleCodeElse ==
    /\ stage = "codes" /\ line <= Slots
    /\ line' = line + 1
    /\ prev_keys' = [prev_keys EXCEPT ![line] = report[line]]
    /\ IF report[line] = prev_keys[line] THEN UNCHANGED down
       ELSE IF prev_keys[line] # NoCode THEN down' = down \ {mac_key[prev_keys[line]]}
       ELSE down' = down \cup ({mac_key[report[line]]} \ {NoKey})
    /\ lost' = lost \cap down'
    /\ UNCHANGED <<button_map, held, stage, touchVars, modeVars, mouseVars, caps_lock,
                   prev_left, prev_right, report, before, plugged>>

\* Second half: the codes, slot by slot. A slot that has changed releases the
\* key it had and presses the one it has.
HandleCode ==
    /\ stage = "codes" /\ line <= Slots
    /\ line' = line + 1
    /\ prev_keys' = [prev_keys EXCEPT ![line] = report[line]]
    /\ IF report[line] = prev_keys[line] THEN UNCHANGED down
       ELSE down' = (down \ {mac_key[prev_keys[line]]})
                      \cup ({mac_key[report[line]]} \ {NoKey})
    /\ lost' = lost \cap down'
    /\ UNCHANGED <<button_map, held, stage, touchVars, modeVars, mouseVars, caps_lock,
                   prev_left, prev_right, report, before, plugged>>

CodesDone ==
    /\ stage = "codes" /\ line > Slots
    /\ line' = 1
    /\ stage' = "idle"
    /\ report' = NoCodes /\ before' = NoCodes
    /\ UNCHANGED <<button_map, held, touchVars, down, modeVars, mouseVars, caps_lock,
                   prev_keys, prev_left, prev_right, plugged, lost>>

\* A report lists the pressed keys once each.
Reports == {c \in Codes : \A i, j \in 1 .. Slots : c[i] = c[j] /\ c[i] # NoCode => i = j}

Next ==
    \/ \E start, select \in BOOLEAN : Frame(start, select)
    \/ Menu
    \/ \E stroke \in Strokes : OnScreenKey(stroke)
    \/ PanelPoll \/ PanelEvent
    \/ \E touched \in BOOLEAN : Screen(touched)
    \/ \E pressed \in BOOLEAN : PadLine(pressed)
    \/ PadDone
    \/ \E buttons \in SUBSET Buttons : Mouse(buttons)
    \/ NoReport
    \/ \E codes \in Reports, left, right \in SUBSET (used \cap Modifiers), caps \in BOOLEAN :
         HandleModifiers(codes, left, right, caps)
    \/ HandleCode \/ CodesDone

Spec == Init /\ [][Next]_vars

-----------------------------------------------------------------------------
(* Properties. *)

TypeOK ==
    /\ TouchTypeOK
    /\ down \subseteq Keys \cup Buttons /\ lost \subseteq Keys \cup Buttons
    /\ used \in Sessions
    /\ stage \in {"idle", "osk", "menu", "panel", "fingers", "screen", "pad", "mouse", "keyboard", "codes"}
    /\ input_mode \in BOOLEAN /\ show_menu \in BOOLEAN /\ qualifiers \in 0 .. 4
    /\ button_map \in Maps /\ held \subseteq 1 .. Entries
    /\ line \in 1 .. (IF stage = "codes" THEN Slots ELSE Entries) + 1
    /\ mouseClickedTouch \in BOOLEAN /\ initialTouch \in BOOLEAN /\ clicked \subseteq Buttons
    /\ caps_lock \in BOOLEAN /\ plugged \in BOOLEAN
    /\ prev_keys \in Codes /\ report \in Codes /\ before \in Codes
    /\ prev_left \subseteq Modifiers /\ prev_right \subseteq Modifiers

\* What the devices hold down and will release again.
Held ==
    PadHolds
    \cup {b \in Buttons : click[b] # Idle}
    \cup (IF drag # "none" THEN {DragButton} ELSE {})
    \cup (IF mouseClickedTouch THEN {"left"} ELSE {})
    \cup clicked
    \cup (IF caps_lock THEN {Caps} ELSE {})
    \cup (IF plugged THEN Typed ELSE {})

\* No button and no key of the Mac stays down with nobody to release it: each
\* belongs to a gesture, a line of the input map, a mouse button, the last
\* keyboard report or a Caps Lock that is on. It takes loading a map over a held line, a modifier on the
\* right of the keyboard or the loss of the keyboard to leave one behind.
NothingStuck == down \subseteq Held \cup lost

\* A key that is new in a report of the keyboard is down on the Mac when the
\* report has been handled, wherever in the report it is and whatever has
\* moved to another place in it.
PressSeen ==
    [][CodesDone => \A i \in 1 .. Slots :
         (\A j \in 1 .. Slots : report[i] # before[j]) =>
             report[i] = NoCode \/ mac_key[report[i]] \in down \cup {NoKey}]_vars
=============================================================================

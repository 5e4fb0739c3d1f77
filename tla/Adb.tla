--------------------------------- MODULE Adb ---------------------------------
(***************************************************************************)
(* ADB emulation (adb.cpp): keyboard and mouse events on their way from    *)
(* the host's input devices to the Mac's ADB handlers.                     *)
(*                                                                         *)
(* VideoInterrupt (PSP2/video_psp.cpp), inside the 60Hz handler, turns     *)
(* touch, pad and HID input into ADBMouseMoved, ADBKeyDown and so on; the  *)
(* same pass of the dispatcher then finds INTFLAG_ADB and calls            *)
(* ADBInterrupt, which calls the Mac's handlers through Execute68k.  The   *)
(* 68k code that runs in between, handlers included, may call ADBOp.  That *)
(* the dispatcher is not entered a second time meanwhile is                *)
(* Interrupts!DispatcherNotReentered.                                      *)
(*                                                                         *)
(* The pointer has one axis here: both are treated alike.                  *)
(***************************************************************************)
EXTENDS Integers, Sequences

CONSTANTS
  Keys,            \* Mac key codes
  Buttons,         \* mouse buttons
  Addresses,       \* ADB addresses
  HandlerIDs,      \* handler IDs that the Mac gives the mouse
  KeyBufferSize,   \* KEY_BUFFER_SIZE
  MaxPending,      \* bound on the key events typed before they are delivered
  Positions,       \* positions of a finger on the screen
  Moves,           \* relative motions
  MaxMotion,       \* bound on accumulated motion
  MotionRange      \* 64: seven bits of motion are -64..63

(***************************************************************************)
(* ADBKeyDown does not look whether the buffer is full.  It holds one      *)
(* event less than its size.                                               *)
(***************************************************************************)
ASSUME AdbAssumption ==
  /\ KeyBufferSize \in Nat /\ MaxPending \in Nat
  /\ MaxPending < KeyBufferSize
  /\ Buttons \subseteq 0..2
  /\ {2, 3} \subseteq Addresses /\ HandlerIDs \subseteq {1, 2, 4}
  /\ Positions \subseteq Nat /\ Moves \subseteq Int /\ MaxMotion \in Nat
  /\ MotionRange \in Nat \ {0}

VARIABLES
  relative_mouse, mouse_x, old_mouse_x,
  mouse_button, old_mouse_button,   \* sets of pressed buttons
  key_buffer, key_read_ptr, key_write_ptr,
  key_states,      \* set of pressed keys
  mouse_reg_3,     \* address and handler ID of the mouse
  key_reg_3,       \* address of the keyboard
  adb_flag,        \* INTFLAG_ADB
  cpu,             \* where the emulation thread is
  mb,              \* ADBInterrupt's copy of mouse_button
  adb_base,        \* has the Mac initialized ADB
  mac_x, mac_button, mac_keys,   \* what the Mac's handlers have been told
  pending,         \* key events typed and not yet delivered
  owed,            \* relative motion not yet delivered, modulo 2 * MotionRange
  missed,          \* ADBInterrupt returned early and has not run since
  finger           \* where the last pointer event left the finger, or NoFinger

mouseVars == <<relative_mouse, mouse_x, old_mouse_x, mouse_button,
               old_mouse_button, mb>>

keyVars == <<key_buffer, key_read_ptr, key_write_ptr, key_states>>

regVars == <<mouse_reg_3, key_reg_3>>

macVars == <<mac_x, mac_button, mac_keys>>

historyVars == <<pending, owed, missed, finger>>

vars == <<mouseVars, keyVars, regVars, adb_flag, cpu, adb_base, macVars,
          historyVars>>

NoFinger == -1

\* Where relative motion has taken the Mac's pointer.
Elsewhere == -1

Event == [code : Keys, up : BOOLEAN]

\* Registers after a reset.
MouseReg3 == [addr |-> 3, id |-> 1]

KeyReg3 == 2

\* State after VideoInit has chosen relative mode.
Init ==
  /\ relative_mouse = TRUE /\ mouse_x = 0 /\ old_mouse_x = 0
  /\ mouse_button = {} /\ old_mouse_button = {} /\ mb = {}
  /\ \E k \in Keys :
       key_buffer = [p \in 0..(KeyBufferSize - 1) |-> [code |-> k, up |-> FALSE]]
  /\ key_read_ptr = 0 /\ key_write_ptr = 0
  /\ key_states = {}
  /\ mouse_reg_3 = MouseReg3 /\ key_reg_3 = KeyReg3
  /\ adb_flag = FALSE
  /\ cpu = "mac"
  /\ adb_base = FALSE
  /\ mac_x = 0 /\ mac_button = {} /\ mac_keys = {}
  /\ pending = << >> /\ owed = 0 /\ missed = FALSE /\ finger = NoFinger

-----------------------------------------------------------------------------
(***************************************************************************)
(* Input events, inside VideoInterrupt.                                    *)
(***************************************************************************)
\* The pointer after ADBSetRelMouseMode(rel).
PointerIn(rel) == IF relative_mouse = rel THEN mouse_x ELSE 0

\* ADBSetRelMouseMode(rel), then ADBMouseMoved(x).
MouseMoved(rel, x) ==
  LET to == IF rel THEN PointerIn(rel) + x ELSE x IN
  /\ cpu = "video"
  /\ to \in (-MaxMotion)..MaxMotion
  /\ relative_mouse' = rel
  /\ mouse_x' = to
  /\ owed' = IF rel
             THEN ((IF relative_mouse THEN owed ELSE 0) + x) % (2 * MotionRange)
             ELSE 0
  /\ adb_flag' = TRUE
  /\ UNCHANGED <<old_mouse_x, mouse_button, old_mouse_button, mb, keyVars,
                 regVars, cpu, adb_base, macVars, pending, missed>>

\* A finger on the screen.
TouchMoved(x) == MouseMoved(FALSE, x) /\ finger' = x

\* The analog stick, a finger on the rear panel, a HID mouse.
StickMoved(d) == MouseMoved(TRUE, d) /\ finger' = NoFinger

\* A pad button that is mapped to a motion leaves the mode alone.
MappedMove(d) == MouseMoved(relative_mouse, d) /\ finger' = NoFinger

\* A report of a HID mouse that has not moved.
SetRelMouseMode ==
  /\ cpu = "video"
  /\ relative_mouse' = TRUE
  /\ mouse_x' = PointerIn(TRUE)
  /\ owed' = IF relative_mouse THEN owed ELSE 0
  /\ finger' = IF relative_mouse THEN finger ELSE NoFinger
  /\ UNCHANGED <<old_mouse_x, mouse_button, old_mouse_button, mb, keyVars,
                 regVars, adb_flag, cpu, adb_base, macVars, pending, missed>>

\* ADBMouseDown(b) and ADBMouseUp(b).
MouseButton(b) ==
  /\ cpu = "video"
  /\ mouse_button' \in {mouse_button \cup {b}, mouse_button \ {b}}
  /\ adb_flag' = TRUE
  /\ UNCHANGED <<relative_mouse, mouse_x, old_mouse_x, old_mouse_button, mb,
                 keyVars, regVars, cpu, adb_base, macVars, historyVars>>

\* Mutant of NextPtr: the last entry is not used.
NextPtrShort(p) == (p + 1) % (KeyBufferSize - 1)

\* Mutant of NextPtr: the pointer does not wrap.
NextPtrStraight(p) == p + 1

NextPtr(p) == (p + 1) % KeyBufferSize

\* Mutant of KeyMatrix: a release is not recorded.
KeyMatrixSet(k, up) == key_states \cup {k}

KeyMatrix(k, up) == IF up THEN key_states \ {k} ELSE key_states \cup {k}

\* ADBKeyDown(k) and ADBKeyUp(k).
KeyEvent(k, up) ==
  /\ cpu = "video"
  /\ Len(pending) < MaxPending
  /\ key_buffer' = [key_buffer EXCEPT ![key_write_ptr] = [code |-> k, up |-> up]]
  /\ key_write_ptr' = NextPtr(key_write_ptr)
  /\ key_states' = KeyMatrix(k, up)
  /\ pending' = Append(pending, [code |-> k, up |-> up])
  /\ adb_flag' = TRUE
  /\ UNCHANGED <<mouseVars, key_read_ptr, regVars, cpu, adb_base, macVars,
                 owed, missed, finger>>

-----------------------------------------------------------------------------
(***************************************************************************)
(* The Mac.                                                                *)
(***************************************************************************)
MacRuns == cpu \in {"mac", "vbl", "mouse", "key"}

\* The Mac's ADB Manager is initialized.
AdbBase ==
  /\ cpu = "mac"
  /\ ~adb_base
  /\ adb_base' = TRUE
  /\ UNCHANGED <<mouseVars, keyVars, regVars, adb_flag, cpu, macVars,
                 historyVars>>

\* ADBOp: reset.
ADBOpReset ==
  /\ MacRuns
  /\ mouse_reg_3' = MouseReg3
  /\ key_reg_3' = KeyReg3
  /\ UNCHANGED <<mouseVars, keyVars, adb_flag, cpu, adb_base, macVars,
                 historyVars>>

\* ADBOp: Listen to register 3 of the device at address adr, with a new
\* address a.  The mouse comes first if both are there.
ADBOpAddress(adr, a) ==
  /\ MacRuns
  /\ \/ /\ adr = mouse_reg_3.addr
        /\ mouse_reg_3' = [mouse_reg_3 EXCEPT !.addr = a]
        /\ UNCHANGED key_reg_3
     \/ /\ adr # mouse_reg_3.addr /\ adr = key_reg_3
        /\ key_reg_3' = a
        /\ UNCHANGED mouse_reg_3
  /\ UNCHANGED <<mouseVars, keyVars, adb_flag, cpu, adb_base, macVars,
                 historyVars>>

\* ADBOp: the same with a handler ID, which only the mouse takes.
ADBOpHandler(adr, id) ==
  /\ MacRuns
  /\ adr = mouse_reg_3.addr
  /\ mouse_reg_3' = [mouse_reg_3 EXCEPT !.id = id]
  /\ UNCHANGED <<mouseVars, keyVars, key_reg_3, adb_flag, cpu, adb_base,
                 macVars, historyVars>>

-----------------------------------------------------------------------------
(***************************************************************************)
(* The dispatcher, from the 60Hz handler to the ADB handler.               *)
(***************************************************************************)
Goto(from, to) ==
  /\ cpu = from
  /\ cpu' = to
  /\ UNCHANGED <<mouseVars, keyVars, regVars, adb_flag, adb_base, macVars,
                 historyVars>>

Irq60Hz == Goto("mac", "video")

VideoInterruptEnd == Goto("video", "vbl")

\* DoVBLTask has run; INTFLAG_ADB is tested.
VblTaskEnd == Goto("vbl", IF adb_flag THEN "adb" ELSE "mac")

\* ADBInterrupt before the Mac has initialized ADB.
ADBNotInitialized ==
  /\ cpu = "adb"
  /\ ~adb_base
  /\ adb_flag' = FALSE
  /\ missed' = TRUE
  /\ cpu' = "mac"
  /\ UNCHANGED <<mouseVars, keyVars, regVars, adb_base, macVars, pending, owed,
                 finger>>

\* The buttons and the range of motion that the protocol carries.
Carried == IF mouse_reg_3.id = 4 THEN Buttons ELSE Buttons \cap {0, 1}

CarriedRange == IF mouse_reg_3.id = 4 THEN 8 * MotionRange ELSE MotionRange

\* The motion that the Mac decodes: the low bits, sign extended.
Decoded(mx) == ((mx + CarriedRange) % (2 * CarriedRange)) - CarriedRange

\* Mutant of MouseChanged: buttons alone count.
ButtonsChanged == mouse_button # old_mouse_button

\* The Mac's mouse handler is to be called.
MouseChanged ==
  (relative_mouse /\ mouse_x # 0) \/ mouse_button # old_mouse_button

\* ADBInterrupt: copy the mouse state, update the position (absolute mode)
\* and call the mouse handler if there is news for it.
ADBInterrupt ==
  /\ cpu = "adb"
  /\ adb_base
  /\ mb' = mouse_button
  /\ mouse_x' = IF relative_mouse THEN 0 ELSE mouse_x
  /\ old_mouse_x' = IF relative_mouse THEN old_mouse_x ELSE mouse_x
  /\ mac_x' = IF ~relative_mouse /\ mouse_x # old_mouse_x
              THEN mouse_x
              ELSE IF relative_mouse /\ mouse_x # 0 THEN Elsewhere ELSE mac_x
  /\ cpu' = IF MouseChanged THEN "mouse" ELSE "keys"
  /\ mac_button' = IF MouseChanged
                   THEN (mac_button \ Carried) \cup (mouse_button \cap Carried)
                   ELSE mac_button
  /\ owed' = IF relative_mouse /\ MouseChanged
             THEN (owed - Decoded(mouse_x)) % (2 * MotionRange)
             ELSE owed
  /\ missed' = FALSE
  /\ UNCHANGED <<relative_mouse, mouse_button, old_mouse_button, keyVars,
                 regVars, adb_flag, adb_base, mac_keys, pending, finger>>

\* The mouse handler returns.
MouseReturns ==
  /\ cpu = "mouse"
  /\ old_mouse_button' = mb
  /\ cpu' = "keys"
  /\ UNCHANGED <<relative_mouse, mouse_x, old_mouse_x, mouse_button, mb,
                 keyVars, regVars, adb_flag, adb_base, macVars, historyVars>>

\* The next key event is read and the keyboard handler called with it.
KeyRead ==
  LET e == key_buffer[key_read_ptr] IN
  /\ cpu = "keys"
  /\ key_read_ptr # key_write_ptr
  /\ key_read_ptr' = NextPtr(key_read_ptr)
  /\ mac_keys' = IF e.up THEN mac_keys \ {e.code} ELSE mac_keys \cup {e.code}
  /\ pending' = IF pending = << >> THEN pending ELSE Tail(pending)
  /\ cpu' = "key"
  /\ UNCHANGED <<mouseVars, key_buffer, key_write_ptr, key_states, regVars,
                 adb_flag, adb_base, mac_x, mac_button, owed, missed, finger>>

KeyReturns == Goto("key", "keys")

\* Mutant of KeysDone: one key event per interrupt.
KeysDoneEarly ==
  /\ cpu = "keys"
  /\ adb_flag' = FALSE
  /\ cpu' = "mac"
  /\ UNCHANGED <<mouseVars, keyVars, regVars, adb_base, macVars, historyVars>>

\* The buffer is empty: ADBInterrupt returns and its flag is cleared.
KeysDone ==
  /\ cpu = "keys"
  /\ key_read_ptr = key_write_ptr
  /\ adb_flag' = FALSE
  /\ cpu' = "mac"
  /\ UNCHANGED <<mouseVars, keyVars, regVars, adb_base, macVars, historyVars>>

-----------------------------------------------------------------------------
Inputs ==
  \/ \E x \in Positions : TouchMoved(x)
  \/ \E d \in Moves : StickMoved(d) \/ MappedMove(d)
  \/ SetRelMouseMode
  \/ \E b \in Buttons : MouseButton(b)
  \/ \E k \in Keys, up \in BOOLEAN : KeyEvent(k, up)

Mac ==
  \/ AdbBase \/ ADBOpReset
  \/ \E adr \in Addresses : \/ \E a \in Addresses : ADBOpAddress(adr, a)
                            \/ \E id \in HandlerIDs : ADBOpHandler(adr, id)

Dispatch ==
  \/ Irq60Hz \/ VideoInterruptEnd \/ VblTaskEnd
  \/ ADBNotInitialized \/ ADBInterrupt \/ MouseReturns
  \/ KeyRead \/ KeyReturns \/ KeysDone

Next == Inputs \/ Mac \/ Dispatch

Spec == Init /\ [][Next]_vars

-----------------------------------------------------------------------------
\* Every variable has its type.
TypeOK ==
  /\ relative_mouse \in BOOLEAN
  /\ mouse_x \in (-MaxMotion)..MaxMotion
  /\ old_mouse_x \in (-MaxMotion)..MaxMotion
  /\ mouse_button \subseteq Buttons /\ old_mouse_button \subseteq Buttons
  /\ mb \subseteq Buttons
  /\ key_buffer \in [0..(KeyBufferSize - 1) -> Event]
  /\ key_read_ptr \in 0..(KeyBufferSize - 1)
  /\ key_write_ptr \in 0..(KeyBufferSize - 1)
  /\ key_states \subseteq Keys
  /\ mouse_reg_3 \in [addr : Addresses, id : {1, 2, 4}]
  /\ key_reg_3 \in Addresses
  /\ adb_flag \in BOOLEAN
  /\ cpu \in {"mac", "video", "vbl", "adb", "mouse", "keys", "key"}
  /\ adb_base \in BOOLEAN
  /\ mac_x \in (-MaxMotion)..MaxMotion
  /\ mac_button \subseteq Buttons /\ mac_keys \subseteq Keys
  /\ pending \in Seq(Event) /\ Len(pending) <= MaxPending
  /\ owed \in 0..(2 * MotionRange - 1)
  /\ missed \in BOOLEAN
  /\ finger \in Positions \cup {NoFinger}

\* The events in the buffer, the oldest one first.
Buffered ==
  [n \in 1..((key_write_ptr - key_read_ptr) % KeyBufferSize) |->
     key_buffer[(key_read_ptr + n - 1) % KeyBufferSize]]

\* No key event is lost, doubled or overtaken on its way through the ring
\* buffer, up to the KEY_BUFFER_SIZE - 1 events that it can hold: also when
\* they pile up because ADBInterrupt returns early, and when the pointers
\* wrap while ADBInterrupt empties it.
KeysInOrder == Buffered = pending

\* The key matrix, which a Talk to register 2 reports at once, is what the
\* Mac will know once it has been given the events still in the buffer.
MatrixFollows ==
  \A k \in Keys :
    LET of == {n \in 1..Len(pending) : pending[n].code = k}
        last == CHOOSE n \in of : \A j \in of : j <= n
    IN k \in key_states <=>
         IF of = {} THEN k \in mac_keys ELSE ~pending[last].up

\* When ADBInterrupt has nothing left to do the Mac knows every key and
\* every button that its mouse protocol has: the comparison with the old
\* button state never hides a change, and a flag that is cleared after the
\* handlers hides no event.  (Only an early return leaves events behind,
\* until the next input event.)
CaughtUp ==
  ~adb_flag /\ ~missed =>
    /\ pending = << >>
    /\ mac_keys = key_states
    /\ old_mouse_button = mouse_button
    /\ mac_button \cap {0, 1} = mouse_button \cap {0, 1}

\* Relative motion is neither lost nor reported twice, up to the seven bits
\* that reach the Mac: what has been moved and not reported is in mouse_x.
MotionKept == relative_mouse => owed = mouse_x % (2 * MotionRange)

\* What the manual says of direct touch, "pointer jumps to finger": once a
\* touch has been handled the Mac's pointer is there.
PointerAtFinger ==
  ~adb_flag /\ ~missed /\ finger # NoFinger => mac_x = finger

=============================================================================

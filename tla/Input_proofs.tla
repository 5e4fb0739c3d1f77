---------------------------- MODULE Input_proofs ----------------------------
(***************************************************************************)
(* Proofs about Input and the gestures of Touch, for any number of fingers *)
(* and tracked fingers, any keys and input maps, any length of a keyboard  *)
(* report and any combination of devices.                                  *)
(***************************************************************************)
EXTENDS Input, FiniteSetTheorems, TLAPS

(***************************************************************************)
(* Gestures.                                                               *)
(***************************************************************************)
LEMMA Times ==
  /\ MAX_TAP_TIME \in Nat /\ MaxDelay \in Nat /\ MAX_NUM_FINGERS \in Nat
  /\ Long \in Nat /\ Up \in Nat /\ Idle \in Nat
  /\ Long = MAX_TAP_TIME + 1 /\ Up = MAX_TAP_TIME + 2
  /\ Idle = SIMULATED_CLICK_DURATION /\ 1 <= Idle /\ Idle <= MAX_TAP_TIME
PROOF
  BY TouchAssumption DEF Long, Up, Idle

\* What the handling of one poll keeps up: only fingers on the panel, or lifted
\* and not yet handled, are tracked; a finger that is new in the report is not
\* tracked before it is handled; a drag has a finger.
Fingered ==
    /\ unread \subseteq panel
    /\ Tracked \subseteq panel \cup lifted
    /\ unread \cap fresh \cap Tracked = {}
    /\ drag # "none" => Tracked # {}

\* A left click comes from the only finger, so those down now came later than
\* the click; a right click leaves one finger that may have come before.
Younger ==
    /\ click["left"] # Idle => \A f \in Tracked : age[f] <= click["left"]
    /\ click["right"] # Idle => \E g : \A f \in Tracked \ {g} : age[f] <= click["right"]

LEMMA TrackedFinite == IsFiniteSet(Tracked) /\ Cardinality(Tracked) \in Nat
PROOF
  <1>1. Tracked \in SUBSET Fingers /\ IsFiniteSet(Fingers)
    BY TouchAssumption DEF Tracked
  <1>2. IsFiniteSet(Tracked)
    BY <1>1, FS_Subset
  <1>3. QED
    BY <1>2, FS_CardinalityType

LEMMA TouchInit ==
  ASSUME TouchStart
  PROVE  TouchTypeOK /\ Fingered /\ Younger /\ DragHeld
PROOF
  <1>1. Tracked = {}
    BY DEF TouchStart, Tracked
  <1>2. TouchTypeOK
    BY Times DEF TouchStart, TouchTypeOK
  <1>3. QED
    BY <1>1, <1>2 DEF TouchStart, Fingered, Younger, DragHeld, Buttons

LEMMA PollKeeps ==
  ASSUME TouchTypeOK, Fingered, Younger, DragHeld, unread = {}, lifted = {},
         NEW r \in SUBSET Fingers, NEW d \in 0 .. MaxDelay, PollTouch(r, d)
  PROVE  TouchTypeOK' /\ Fingered' /\ Younger' /\ DragHeld'
PROOF
  <1> DEFINE over == {b \in Buttons : click[b] # Idle /\ click[b] + d >= SIMULATED_CLICK_DURATION}
  <1>1. /\ panel' = r /\ fresh' = r \ panel /\ unread' = r /\ lifted' = panel \ r
        /\ age' = [f \in Fingers |-> IF age[f] = Up THEN Up ELSE Smaller(age[f] + d, Long)]
        /\ click' = [b \in Buttons |->
                       IF b \in over \/ click[b] = Idle THEN Idle ELSE click[b] + d]
        /\ drag' = drag
    BY DEF PollTouch
  <1>2. d \in Nat /\ age \in [Fingers -> 0 .. Up] /\ click \in [Buttons -> 0 .. Idle]
    BY Times DEF TouchTypeOK
  <1>3. ASSUME NEW f \in Fingers
        PROVE  /\ age'[f] \in 0 .. Up /\ (age'[f] = Up <=> age[f] = Up)
               /\ age[f] # Up => age'[f] <= age[f] + d
    BY <1>1, <1>2, Times DEF Smaller
  <1>4. age' \in [Fingers -> 0 .. Up]
    BY <1>1, <1>3
  <1>5. Tracked' = Tracked
    BY <1>3 DEF Tracked
  <1>6. ASSUME NEW b \in Buttons
        PROVE  /\ click'[b] \in 0 .. Idle /\ (click[b] = Idle => click'[b] = Idle)
               /\ click'[b] # Idle => click[b] # Idle /\ click'[b] = click[b] + d
    BY <1>1, <1>2, Times
  <1>7. click' \in [Buttons -> 0 .. Idle]
    BY <1>1, <1>6
  <1>8. TouchTypeOK'
    BY <1>1, <1>4, <1>7 DEF TouchTypeOK
  <1>9. Fingered'
    BY <1>1, <1>5 DEF Fingered
  <1>10. ASSUME NEW f \in Tracked
         PROVE  age'[f] <= age[f] + d /\ age[f] \in Nat /\ age'[f] \in Nat
    BY <1>2, <1>3, Times DEF Tracked
  <1>11. "left" \in Buttons /\ "right" \in Buttons
    BY DEF Buttons
  <1>12. Younger'
    <2>1. ASSUME click'["left"] # Idle, NEW f \in Tracked PROVE age'[f] <= click'["left"]
      <3>1. click["left"] # Idle /\ click'["left"] = click["left"] + d /\ click["left"] \in Nat
        BY <1>2, <1>6, <1>11, <2>1, Times
      <3>2. age[f] <= click["left"]
        BY <3>1 DEF Younger
      <3>3. QED
        BY <1>2, <1>10, <3>1, <3>2
    <2>2. ASSUME click'["right"] # Idle
          PROVE  \E g : \A f \in Tracked \ {g} : age'[f] <= click'["right"]
      <3>1. click["right"] # Idle /\ click'["right"] = click["right"] + d /\ click["right"] \in Nat
        BY <1>2, <1>6, <1>11, <2>2, Times
      <3>2. PICK g : \A f \in Tracked \ {g} : age[f] <= click["right"]
        BY <3>1 DEF Younger
      <3>3. \A f \in Tracked \ {g} : age'[f] <= click'["right"]
        BY <1>2, <1>10, <3>1, <3>2
      <3>4. QED
        BY <3>3
    <2>3. QED
      BY <1>5, <2>1, <2>2 DEF Younger, Idle
  <1>13. DragHeld'
    <2>1. DragButton' = DragButton /\ DragButton \in Buttons
      BY <1>1 DEF DragButton, Buttons
    <2>2. QED
      BY <1>1, <1>6, <2>1 DEF DragHeld, Idle
  <1>14. QED
    BY <1>8, <1>9, <1>12, <1>13

LEMMA DownKeeps ==
  ASSUME TouchTypeOK, Fingered, Younger, DragHeld, NEW f \in Fingers, FingerDown(f)
  PROVE  TouchTypeOK' /\ Fingered' /\ Younger' /\ DragHeld'
PROOF
  <1> DEFINE a == IF Cardinality(Tracked \ {f}) < MAX_NUM_FINGERS THEN 0 ELSE Up
  <1>1. /\ f \in unread /\ f \in fresh /\ unread' = unread \ {f}
        /\ age' = [age EXCEPT ![f] = a]
        /\ UNCHANGED <<panel, fresh, lifted, drag, click, down>>
    BY DEF FingerDown
  <1>2. a \in 0 .. Up /\ (a = 0 \/ a = Up)
    BY Times
  <1> HIDE DEF a
  <1>3. age' \in [Fingers -> 0 .. Up] /\ age'[f] = a /\ \A g \in Fingers : g # f => age'[g] = age[g]
    BY <1>1, <1>2 DEF TouchTypeOK
  <1>4. f \notin Tracked
    BY <1>1 DEF Fingered
  <1>5. /\ Tracked \subseteq Tracked' /\ Tracked' \subseteq Tracked \cup {f}
        /\ \A g \in Tracked' : (g \in Tracked /\ age'[g] = age[g]) \/ age'[g] = 0
    <2>1. Tracked' = {g \in Fingers : age'[g] # Up}
      BY DEF Tracked, Up, Long
    <2>2. ASSUME NEW g \in Tracked PROVE g \in Tracked'
      BY <1>3, <1>4, <2>1 DEF Tracked
    <2>3. ASSUME NEW g \in Tracked'
          PROVE  g \in Tracked \cup {f} /\ ((g \in Tracked /\ age'[g] = age[g]) \/ age'[g] = 0)
      BY <1>2, <1>3, <2>1 DEF Tracked
    <2>4. QED
      BY <2>2, <2>3
  <1>6. TouchTypeOK'
    BY <1>1, <1>3, Times DEF TouchTypeOK
  <1>7. Fingered'
    BY <1>1, <1>4, <1>5 DEF Fingered
  <1>8. click' = click /\ drag' = drag
        /\ click["left"] \in Nat /\ click["right"] \in Nat
    BY <1>1, Times DEF TouchTypeOK, Buttons
  <1>9. Younger'
    <2>1. ASSUME click["left"] # Idle, NEW g \in Tracked' PROVE age'[g] <= click["left"]
      BY <1>5, <1>8, <2>1 DEF Younger
    <2>2. ASSUME click["right"] # Idle
          PROVE  \E h : \A g \in Tracked' \ {h} : age'[g] <= click["right"]
      <3>1. PICK h : \A g \in Tracked \ {h} : age[g] <= click["right"]
        BY <2>2 DEF Younger
      <3>2. ASSUME NEW g \in Tracked' \ {h} PROVE age'[g] <= click["right"]
        BY <1>5, <1>8, <3>1
      <3>3. QED
        BY <3>2
    <2>3. QED
      BY <1>8, <2>1, <2>2 DEF Younger, Idle
  <1>10. DragHeld'
    BY <1>8 DEF DragHeld, DragButton, Idle
  <1>11. QED
    BY <1>6, <1>7, <1>9, <1>10

LEMMA MotionKeeps ==
  ASSUME TouchTypeOK, Fingered, Younger, DragHeld, NEW f \in Fingers,
         FingerMotion(f) \/ FingerStill(f)
  PROVE  TouchTypeOK' /\ Fingered' /\ Younger' /\ DragHeld'
PROOF
  <1>1. unread' = unread \ {f} /\ UNCHANGED <<panel, fresh, lifted, age, click>>
    BY DEF FingerMotion, FingerStill
  <1>2. Tracked' = Tracked
    BY <1>1 DEF Tracked, Up, Long
  <1>3. Younger'
    BY <1>1, <1>2 DEF Younger, Idle
  <1>4. CASE drag' = drag
    BY <1>1, <1>2, <1>3, <1>4 DEF TouchTypeOK, Fingered, DragHeld, DragButton, Idle
  <1>5. CASE drag' # drag
    <2>1. /\ drag = "none" /\ Cardinality(LongDown) >= 2
          /\ drag' = IF Cardinality(LongDown) = 2 THEN "two" ELSE "three"
      BY <1>5 DEF FingerMotion, FingerStill
    <2>2. IsFiniteSet(LongDown) /\ Cardinality(LongDown) \in Nat /\ LongDown \subseteq Tracked
      <3>1. LongDown \in SUBSET Tracked
        BY DEF LongDown
      <3>2. IsFiniteSet(LongDown)
        BY <3>1, TrackedFinite, FS_Subset
      <3>3. QED
        BY <3>1, <3>2, FS_CardinalityType
    <2>3. LongDown # {}
      BY <2>1, <2>2, FS_EmptySet
    <2>4. \A g \in LongDown : g \in Tracked /\ age[g] > MAX_TAP_TIME /\ age[g] \in Nat
      BY Times DEF LongDown, Tracked, TouchTypeOK
    <2>5. click["left"] \in 0 .. Idle /\ click["right"] \in 0 .. Idle
      BY DEF TouchTypeOK, Buttons
    <2>6. click["left"] = Idle
      <3>1. SUFFICES ASSUME click["left"] # Idle PROVE FALSE
        OBVIOUS
      <3>2. PICK g \in LongDown : TRUE
        BY <2>3
      <3>3. age[g] <= click["left"]
        BY <2>4, <3>1 DEF Younger
      <3>4. QED
        BY <2>4, <2>5, <3>1, <3>3, Times
    <2>7. drag' = "three" => click["right"] = Idle
      <3>1. SUFFICES ASSUME drag' = "three", click["right"] # Idle PROVE FALSE
        OBVIOUS
      <3>2. Cardinality(LongDown) >= 3
        BY <2>1, <2>2, <3>1
      <3>3. PICK h : \A g \in Tracked \ {h} : age[g] <= click["right"]
        BY <3>1 DEF Younger
      <3>4. IsFiniteSet(LongDown \ {h}) /\ Cardinality(LongDown \ {h}) >= 2
        <4>1. /\ IsFiniteSet(LongDown \ {h})
              /\ Cardinality(LongDown \ {h}) =
                   IF h \in LongDown THEN Cardinality(LongDown) - 1 ELSE Cardinality(LongDown)
          BY <2>2, FS_RemoveElement
        <4>2. QED
          BY <2>2, <3>2, <4>1
      <3>5. LongDown \ {h} # {}
        BY <3>4, FS_EmptySet
      <3>6. PICK g \in LongDown \ {h} : TRUE
        BY <3>5
      <3>7. age[g] <= click["right"] /\ age[g] > MAX_TAP_TIME /\ age[g] \in Nat
        BY <2>4, <3>3, <3>6
      <3>8. QED
        BY <2>5, <3>1, <3>7, Times
    <2>8. DragHeld'
      BY <1>1, <2>1, <2>6, <2>7 DEF DragHeld, DragButton, Idle
    <2>9. TouchTypeOK'
      BY <1>1, <2>1 DEF TouchTypeOK, Idle, Up, Long
    <2>10. Fingered'
      BY <1>1, <1>2, <2>2, <2>3 DEF Fingered
    <2>11. QED
      BY <1>3, <2>8, <2>9, <2>10
  <1>6. QED
    BY <1>4, <1>5

LEMMA UpKeeps ==
  ASSUME TouchTypeOK, Fingered, Younger, DragHeld, NEW f \in Fingers, NEW near \in BOOLEAN,
         FingerUp(f, near)
  PROVE  TouchTypeOK' /\ Fingered' /\ Younger' /\ DragHeld'
PROOF
  <1> DEFINE n == Cardinality(Tracked)
             b == IF n = 2 THEN "right" ELSE "left"
  <1>1. /\ unread = {} /\ f \in lifted /\ lifted' = lifted \ {f} /\ age' = [age EXCEPT ![f] = Up]
        /\ UNCHANGED <<panel, fresh, unread>>
    BY DEF FingerUp
  <1>2. \/ /\ f \in Tracked /\ drag = "none" /\ n \in {1, 2}
           /\ click' = [click EXCEPT ![b] = 0] /\ drag' = drag
        \/ f \in Tracked /\ drag # "none" /\ n = 1 /\ drag' = "none" /\ click' = click
        \/ (f \in Tracked /\ drag # "none" => n # 1) /\ drag' = drag /\ click' = click
    BY DEF FingerUp
  <1>3. age' \in [Fingers -> 0 .. Up] /\ age'[f] = Up /\ \A g \in Fingers : g # f => age'[g] = age[g]
    BY <1>1, Times DEF TouchTypeOK
  <1>4. Tracked' = Tracked \ {f} /\ \A g \in Tracked' : age'[g] = age[g]
    <2>1. Tracked' = {g \in Fingers : age'[g] # Up}
      BY DEF Tracked, Up, Long
    <2>2. QED
      BY <1>3, <2>1 DEF Tracked
  <1>5. IsFiniteSet(Tracked) /\ n \in Nat
    BY TrackedFinite
  <1>6. f \in Tracked => IsFiniteSet(Tracked \ {f}) /\ Cardinality(Tracked \ {f}) = n - 1
    BY <1>5, FS_RemoveElement
  <1>7. f \in Tracked /\ n # 1 => Tracked' # {}
    BY <1>4, <1>5, <1>6, FS_EmptySet
  <1>8. drag' \in {"none", "two", "three"} /\ click' \in [Buttons -> 0 .. Idle]
    BY <1>2, Times DEF TouchTypeOK
  <1>9. TouchTypeOK'
    BY <1>1, <1>3, <1>8 DEF TouchTypeOK, Up, Long, Idle
  <1>10. Fingered'
    <2>1. drag' # "none" => Tracked' # {}
      BY <1>2, <1>4, <1>7 DEF Fingered
    <2>2. QED
      BY <1>1, <1>4, <2>1 DEF Fingered
  <1>11. DragHeld'
    BY <1>2 DEF DragHeld, DragButton, Idle
  <1>12. click["left"] \in 0 .. Idle /\ click["right"] \in 0 .. Idle /\ click \in [Buttons -> 0 .. Idle]
         /\ "left" \in Buttons /\ "right" \in Buttons
    BY DEF TouchTypeOK, Buttons
  <1>13. Younger'
    <2>1. CASE click' = click
      BY <1>4, <2>1 DEF Younger, Idle
    <2>2. CASE f \in Tracked /\ n = 1 /\ click' = [click EXCEPT !["left"] = 0]
      <3>1. Tracked' = {}
        BY <1>4, <1>6, <2>2, FS_EmptySet
      <3>2. QED
        BY <3>1 DEF Younger
    <2>3. CASE f \in Tracked /\ n = 2 /\ click' = [click EXCEPT !["right"] = 0]
      <3>1. Cardinality(Tracked \ {f}) = 1 /\ IsFiniteSet(Tracked \ {f})
        BY <1>6, <2>3
      <3>2. PICK g : Tracked \ {f} = {g}
        BY <3>1, FS_Singleton
      <3>3. \A h \in Tracked' \ {g} : age'[h] <= click'["right"]
        BY <1>4, <3>2
      <3>4. click'["left"] = click["left"]
        BY <1>12, <2>3
      <3>5. click["left"] # Idle => \A h \in Tracked' : age'[h] <= click'["left"]
        BY <1>4, <3>4 DEF Younger
      <3>6. QED
        BY <3>3, <3>4, <3>5 DEF Younger, Idle
    <2>4. QED
      BY <1>2, <2>1, <2>2, <2>3
  <1>14. QED
    BY <1>9, <1>10, <1>11, <1>13

LEMMA PollDoneKeeps ==
  ASSUME TouchTypeOK, Fingered, Younger, DragHeld, PollDone
  PROVE  TouchTypeOK' /\ Fingered' /\ Younger' /\ DragHeld'
PROOF
  <1>1. fresh' = {} /\ UNCHANGED <<panel, unread, lifted, age, drag, click, down>>
    BY DEF PollDone
  <1>2. Tracked' = Tracked
    BY <1>1 DEF Tracked, Up, Long
  <1>3. QED
    BY <1>1, <1>2 DEF TouchTypeOK, Fingered, Younger, DragHeld, DragButton, Idle, Up, Long

LEMMA TouchSame ==
  ASSUME TouchTypeOK, Fingered, Younger, DragHeld, UNCHANGED touchVars
  PROVE  TouchTypeOK' /\ Fingered' /\ Younger' /\ DragHeld'
PROOF
  <1>1. UNCHANGED <<panel, fresh, unread, lifted, age, drag, click>>
    BY DEF touchVars
  <1>2. Tracked' = Tracked
    BY <1>1 DEF Tracked, Up, Long
  <1>3. QED
    BY <1>1, <1>2 DEF TouchTypeOK, Fingered, Younger, DragHeld, DragButton, Idle, Up, Long

(***************************************************************************)
(* The gestures in a frame: between two polls nothing waits to be handled. *)
(***************************************************************************)
TouchInv ==
    /\ TouchTypeOK /\ Fingered /\ Younger /\ DragHeld
    /\ stage # "fingers" => unread = {} /\ lifted = {}

LEMMA TouchInvNext == TouchInv /\ [Next]_vars => TouchInv'
PROOF
  <1> SUFFICES ASSUME TouchInv, [Next]_vars PROVE TouchInv'
    OBVIOUS
  <1> USE DEF TouchInv
  <1>1. CASE PanelPoll
    <2>1. CASE "panel" \in used
      <3>1. PICK r \in SUBSET Fingers, d \in 0 .. MaxDelay : PollTouch(r, d)
        BY <1>1, <2>1 DEF PanelPoll
      <3>2. stage = "panel" /\ stage' = "fingers"
        BY <1>1, <2>1 DEF PanelPoll
      <3>3. QED
        BY <3>1, <3>2, PollKeeps
    <2>2. CASE "panel" \notin used
      BY <1>1, <2>2, TouchSame DEF PanelPoll, touchVars
    <2>3. QED
      BY <2>1, <2>2
  <1>2. CASE PanelEvent
    <2>1. CASE TouchEvent /\ UNCHANGED stage
      <3>1. stage' = "fingers"
        BY <1>2, <2>1 DEF PanelEvent
      <3>2. CASE \E f \in Fingers : FingerDown(f) \/ FingerMotion(f) \/ FingerStill(f)
        BY <3>1, <3>2, DownKeeps, MotionKeeps
      <3>3. CASE \E f \in Fingers, near \in BOOLEAN : FingerUp(f, near)
        BY <3>1, <3>3, UpKeeps
      <3>4. QED
        BY <2>1, <3>2, <3>3 DEF TouchEvent
    <2>2. CASE PollDone /\ stage' = "screen"
      <3>1. unread' = {} /\ lifted' = {}
        BY <2>2 DEF PollDone
      <3>2. QED
        BY <2>2, <3>1, PollDoneKeeps
    <2>3. QED
      BY <1>2, <2>1, <2>2 DEF PanelEvent
  <1>3. CASE stage # "fingers" /\ stage' # "fingers" /\ UNCHANGED touchVars
    BY <1>3, TouchSame DEF touchVars
  <1>4. CASE UNCHANGED vars
    BY <1>4, TouchSame DEF vars, touchVars
  <1>5. CASE \E start, select \in BOOLEAN : Frame(start, select)
    <2>1. PICK start \in BOOLEAN, select \in BOOLEAN : Frame(start, select)
      BY <1>5
    <2>2. stage = "idle" /\ UNCHANGED touchVars /\ stage' \in {"osk", "menu", "panel"}
      BY <2>1 DEF Frame
    <2>3. QED
      BY <1>3, <2>2
  <1>6. CASE \/ Menu \/ NoReport \/ HandleCode \/ CodesDone \/ PadDone
             \/ \E stroke \in Strokes : OnScreenKey(stroke)
             \/ \E touched \in BOOLEAN : Screen(touched)
             \/ \E pressed \in BOOLEAN : PadLine(pressed)
             \/ \E buttons \in SUBSET Buttons : Mouse(buttons)
    <2>1. stage # "fingers" /\ stage' # "fingers" /\ UNCHANGED touchVars
      BY <1>6 DEF Menu, LoadMap, NoReport, HandleCode, CodesDone, PadDone, OnScreenKey, Screen,
                  PadLine, Mouse
    <2>2. QED
      BY <1>3, <2>1
  <1>7. CASE \E codes \in Reports, left, right \in SUBSET (used \cap Modifiers), caps \in BOOLEAN :
               HandleModifiers(codes, left, right, caps)
    <2>1. stage # "fingers" /\ stage' # "fingers" /\ UNCHANGED touchVars
      BY <1>7 DEF HandleModifiers
    <2>2. QED
      BY <1>3, <2>1
  <1>8. QED
    BY <1>1, <1>2, <1>4, <1>5, <1>6, <1>7 DEF Next

LEMMA TouchAlways == Spec => []TouchInv
PROOF
  <1>1. Init => TouchInv
    BY TouchInit DEF Init, TouchInv, TouchStart
  <1>2. QED
    BY <1>1, TouchInvNext, PTL DEF Spec

\* For any number of fingers, also more than are tracked, in any order and at
\* any time: a simulated click never releases the button of a drag.
THEOREM DragKeepsButton == Spec => []DragHeld
PROOF
  BY TouchAlways, PTL DEF TouchInv

\* When the last finger is gone nothing is tracked and no drag goes on.
THEOREM PanelForgets == Spec => []FingersGone
PROOF
  <1>1. TouchInv => FingersGone
    BY DEF TouchInv, Fingered, FingersGone
  <1>2. QED
    BY <1>1, TouchAlways, PTL

(***************************************************************************)
(* Types.                                                                  *)
(***************************************************************************)
Stages == {"idle", "osk", "menu", "panel", "fingers", "screen", "pad", "mouse", "keyboard", "codes"}

LEMMA Tables ==
  /\ Modifiers \subseteq Keys /\ Caps \in Keys /\ Caps \notin Modifiers
  /\ \A c \in Hid \cup {NoCode} : mac_key[c] \in Keys \cup {NoKey}
  /\ Slots \in Nat /\ Entries \in Nat
  /\ NoCodes \in Codes
  /\ \A map \in Maps, i \in 1 .. Entries : map[i] \subseteq Keys \cup Buttons
PROOF
  BY InputAssumption DEF NoCodes, Codes

LEMMA TypesPanel ==
  ASSUME TouchInv, TypeOK, PanelPoll \/ PanelEvent
  PROVE  TypeOK'
PROOF
  <1>1. TouchTypeOK'
    BY TouchInvNext DEF TouchInv, Next
  <1>2. DragButton' \in Buttons /\ DragButton \in Buttons
    BY DEF DragButton, Buttons
  <1>3. down' \subseteq down \cup Buttons
    <2>1. CASE PanelPoll
      BY <2>1 DEF PanelPoll, PollTouch
    <2>2. CASE PanelEvent
      <3>1. CASE PollDone
        BY <3>1 DEF PollDone
      <3>2. CASE \E f \in Fingers : FingerDown(f) \/ FingerMotion(f) \/ FingerStill(f)
        BY <1>2, <3>2 DEF FingerDown, FingerMotion, FingerStill
      <3>3. CASE \E f \in Fingers, near \in BOOLEAN : FingerUp(f, near)
        <4>1. PICK f \in Fingers, near \in BOOLEAN : FingerUp(f, near)
          BY <3>3
        <4>2. \/ \E b \in Buttons : down' = down \cup {b}
              \/ down' = down \ {DragButton} \/ down' = down
          BY <4>1 DEF FingerUp, Buttons
        <4>3. QED
          BY <4>2
      <3>4. QED
        BY <2>2, <3>1, <3>2, <3>3 DEF PanelEvent, TouchEvent
    <2>3. QED
      BY <2>1, <2>2
  <1>4. stage' \in {"fingers", "screen"} /\ stage \in {"panel", "fingers"} /\ lost' = lost \cap down'
    BY DEF PanelPoll, PanelEvent
  <1>5. UNCHANGED <<modeVars, padVars, mouseVars, caps_lock, keyVars>>
    BY DEF PanelPoll, PanelEvent
  <1>6. QED
    BY <1>1, <1>3, <1>4, <1>5 DEF TypeOK, modeVars, padVars, mouseVars, keyVars

LEMMA TypesFrame ==
  ASSUME TypeOK, TouchTypeOK', NEW start \in BOOLEAN, NEW select \in BOOLEAN, Frame(start, select)
  PROVE  TypeOK'
PROOF
  <1> DEFINE osk == (input_mode # start) /\ "osk" \in used
  <1>1. osk \in BOOLEAN /\ (~osk /\ (show_menu # select)) \in BOOLEAN
    OBVIOUS
  <1>2. input_mode' \in BOOLEAN /\ show_menu' \in BOOLEAN
    BY <1>1, Zenon DEF Frame
  <1>3. (qualifiers + 1) % 5 \in 0 .. 4
    BY DEF TypeOK
  <1>4. qualifiers' \in {0, (qualifiers + 1) % 5, qualifiers}
    BY DEF Frame
  <1>5. qualifiers' \in 0 .. 4
    BY <1>3, <1>4 DEF TypeOK
  <1>6. stage = "idle" /\ stage' \in {"osk", "menu", "panel"}
        /\ UNCHANGED <<used, down, padVars, mouseVars, caps_lock, keyVars, lost>>
    BY DEF Frame
  <1>7. QED
    BY <1>2, <1>5, <1>6 DEF TypeOK, padVars, mouseVars, keyVars

LEMMA TypesPad ==
  ASSUME TypeOK, TouchTypeOK', NEW pressed \in BOOLEAN, PadLine(pressed)
  PROVE  TypeOK'
PROOF
  <1>1. /\ stage = "pad" /\ line <= Entries /\ line' = line + 1 /\ lost' = lost \cap down'
        /\ UNCHANGED <<button_map, stage, modeVars, mouseVars, keyVars>>
    BY DEF PadLine
  <1>2. line \in 1 .. Entries /\ line' \in 1 .. Entries + 1
    BY <1>1, Tables DEF TypeOK
  <1>3. (~caps_lock) \in BOOLEAN
    OBVIOUS
  <1>4. caps_lock' = caps_lock \/ caps_lock' = ~caps_lock
    BY DEF PadLine, key_down, key_up
  <1>5. caps_lock' \in BOOLEAN
    <2>1. CASE caps_lock' = caps_lock
      BY <2>1 DEF TypeOK
    <2>2. CASE caps_lock' = ~caps_lock
      BY <1>3, <2>2, Zenon
    <2>3. QED
      BY <1>4, <2>1, <2>2
  <1>6. CASE UNCHANGED <<held, down>>
    BY <1>1, <1>2, <1>5, <1>6 DEF TypeOK, modeVars, mouseVars, keyVars
  <1>7. CASE line \in 1 .. Entries /\ held' \subseteq held \cup {line}
             /\ down' \subseteq down \cup button_map[line] \cup {Caps}
    <2>1. button_map[line] \subseteq Keys \cup Buttons
      BY <1>7, Tables DEF TypeOK
    <2>2. down' \subseteq Keys \cup Buttons /\ held' \subseteq 1 .. Entries
      BY <1>7, <2>1, Tables DEF TypeOK
    <2>3. QED
      BY <1>1, <1>2, <1>5, <2>2 DEF TypeOK, modeVars, mouseVars, keyVars
  <1>8. QED
    <2>1. CASE key_down(line)
      <3>1. held' \subseteq held \cup {line} /\ down' \subseteq down \cup button_map[line] \cup {Caps}
        BY <2>1 DEF key_down
      <3>2. QED
        BY <1>2, <1>7, <3>1
    <2>2. CASE key_up(line)
      <3>1. /\ line \in held /\ held' \subseteq held \cup {line}
            /\ down' \subseteq down \cup button_map[line] \cup {Caps}
        BY <2>2 DEF key_up
      <3>2. QED
        BY <1>7, <3>1 DEF TypeOK
    <2>3. CASE UNCHANGED <<held, down, caps_lock>>
      BY <1>6, <2>3
    <2>4. QED
      BY <2>1, <2>2, <2>3 DEF PadLine

LEMMA TypesScreen ==
  ASSUME TypeOK, TouchTypeOK', NEW touched \in BOOLEAN, Screen(touched)
  PROVE  TypeOK'
PROOF
  <1>1. /\ stage = "screen" /\ stage' = "pad" /\ lost' = lost \cap down'
        /\ UNCHANGED <<modeVars, padVars, clicked, caps_lock, keyVars>>
    BY DEF Screen
  <1>2. down' \subseteq down \cup {"left"}
    BY DEF Screen
  <1>3. (~initialTouch) \in BOOLEAN
    OBVIOUS
  <1>4. mouseClickedTouch' \in BOOLEAN /\ initialTouch' \in BOOLEAN
    <2>1. CASE ~touched /\ mouseClickedTouch
      BY <2>1 DEF Screen
    <2>2. CASE touched /\ ~mouseClickedTouch
      BY <1>3, <2>2, Zenon DEF Screen
    <2>3. CASE ~(~touched /\ mouseClickedTouch) /\ ~(touched /\ ~mouseClickedTouch)
      BY <2>3 DEF Screen, TypeOK
    <2>4. QED
      BY <2>1, <2>2, <2>3
  <1>5. QED
    BY <1>1, <1>2, <1>4 DEF TypeOK, modeVars, padVars, keyVars, Buttons

LEMMA TypesModifiers ==
  ASSUME TypeOK, TouchTypeOK', NEW codes \in Reports, NEW left \in SUBSET (used \cap Modifiers),
         NEW right \in SUBSET (used \cap Modifiers), NEW caps \in BOOLEAN,
         HandleModifiers(codes, left, right, caps)
  PROVE  TypeOK'
PROOF
  <1>1. /\ stage' = "codes" /\ line' = 1 /\ caps_lock' = caps
        /\ prev_left' = left /\ prev_right' = right /\ report' = codes /\ before' = prev_keys
        /\ UNCHANGED <<button_map, held, modeVars, mouseVars, prev_keys, plugged>>
    BY DEF HandleModifiers
  <1>2. down' \subseteq down \cup Modifiers \cup {Caps} /\ lost' \subseteq lost \cup Modifiers
    BY DEF HandleModifiers
  <1>3. codes \in Codes
    BY DEF Reports
  <1>4. line' \in 1 .. Slots + 1
    BY <1>1, Tables
  <1>5. QED
    BY <1>1, <1>2, <1>3, <1>4, Tables DEF TypeOK, modeVars, mouseVars

LEMMA TypesCode ==
  ASSUME TypeOK, TouchTypeOK', HandleCode
  PROVE  TypeOK'
PROOF
  <1>1. /\ stage = "codes" /\ line <= Slots /\ line' = line + 1 /\ lost' = lost \cap down'
        /\ prev_keys' = [prev_keys EXCEPT ![line] = report[line]]
        /\ UNCHANGED <<button_map, held, stage, modeVars, mouseVars, caps_lock,
                       prev_left, prev_right, report, before, plugged>>
    BY DEF HandleCode
  <1>2. line \in 1 .. Slots /\ line' \in 1 .. Slots + 1
    BY <1>1, Tables DEF TypeOK
  <1>3. report[line] \in Hid \cup {NoCode}
    BY <1>2 DEF TypeOK, Codes
  <1>4. down' \subseteq down \cup Keys
    BY <1>3, Tables DEF HandleCode
  <1>5. prev_keys' \in Codes
    BY <1>1, <1>3 DEF TypeOK, Codes
  <1>6. QED
    BY <1>1, <1>2, <1>4, <1>5 DEF TypeOK, modeVars, mouseVars

LEMMA TypesRest ==
  ASSUME TypeOK, TouchTypeOK',
         \/ Menu \/ NoReport \/ CodesDone \/ PadDone
         \/ \E stroke \in Strokes : OnScreenKey(stroke)
         \/ \E buttons \in SUBSET Buttons : Mouse(buttons)
  PROVE  TypeOK'
PROOF
  <1>1. CASE Menu
    <2>1. CASE \E map \in Maps : LoadMap(map)
      <3>1. PICK map \in Maps : LoadMap(map)
        BY <2>1
      <3>2. lost' \subseteq lost \cup down
        BY <3>1 DEF LoadMap
      <3>3. QED
        BY <1>1, <3>1, <3>2 DEF TypeOK, Menu, LoadMap, modeVars, mouseVars, keyVars
    <2>2. CASE UNCHANGED <<padVars, touchVars, down, modeVars, mouseVars, caps_lock, keyVars, lost>>
               /\ stage' = "idle"
      BY <1>1, <2>2 DEF TypeOK, Menu, padVars, modeVars, mouseVars, keyVars
    <2>3. QED
      BY <1>1, <2>1, <2>2 DEF Menu
  <1>2. CASE NoReport
    <2>1. lost' \subseteq lost \cup down
      BY <1>2 DEF NoReport
    <2>2. QED
      BY <1>2, <2>1 DEF TypeOK, NoReport, modeVars, padVars, mouseVars
  <1>3. CASE CodesDone
    BY <1>3, Tables DEF TypeOK, CodesDone, modeVars, mouseVars
  <1>4. CASE PadDone
    BY <1>4, Tables DEF TypeOK, PadDone, modeVars, mouseVars, keyVars
  <1>5. CASE \E stroke \in Strokes : OnScreenKey(stroke)
    <2>1. down' \subseteq down /\ lost' \subseteq lost
      BY <1>5 DEF OnScreenKey
    <2>2. QED
      BY <1>5, <2>1 DEF TypeOK, OnScreenKey, padVars, modeVars, mouseVars, keyVars
  <1>6. CASE \E buttons \in SUBSET Buttons : Mouse(buttons)
    <2>1. PICK buttons \in SUBSET Buttons : Mouse(buttons)
      BY <1>6
    <2>2. down' \subseteq down \cup Buttons /\ lost' \subseteq lost /\ clicked' \subseteq Buttons
      BY <2>1 DEF Mouse
    <2>3. QED
      BY <2>1, <2>2 DEF TypeOK, Mouse, padVars, modeVars, keyVars
  <1>7. QED
    BY <1>1, <1>2, <1>3, <1>4, <1>5, <1>6

LEMMA TypesNext == TouchInv /\ TypeOK /\ [Next]_vars => TypeOK'
PROOF
  <1> SUFFICES ASSUME TouchInv, TypeOK, [Next]_vars PROVE TypeOK'
    OBVIOUS
  <1>1. TouchTypeOK'
    BY TouchInvNext DEF TouchInv
  <1>2. CASE UNCHANGED vars
    BY <1>1, <1>2 DEF TypeOK, vars, modeVars, padVars, mouseVars, keyVars
  <1>3. CASE \E start, select \in BOOLEAN : Frame(start, select)
    BY <1>1, <1>3, TypesFrame
  <1>4. CASE PanelPoll \/ PanelEvent
    BY <1>4, TypesPanel
  <1>5. CASE \E touched \in BOOLEAN : Screen(touched)
    BY <1>1, <1>5, TypesScreen
  <1>6. CASE \E pressed \in BOOLEAN : PadLine(pressed)
    BY <1>1, <1>6, TypesPad
  <1>7. CASE \E codes \in Reports, left, right \in SUBSET (used \cap Modifiers), caps \in BOOLEAN :
               HandleModifiers(codes, left, right, caps)
    BY <1>1, <1>7, TypesModifiers
  <1>8. CASE HandleCode
    BY <1>1, <1>8, TypesCode
  <1>9. CASE \/ Menu \/ NoReport \/ CodesDone \/ PadDone
             \/ \E stroke \in Strokes : OnScreenKey(stroke)
             \/ \E buttons \in SUBSET Buttons : Mouse(buttons)
    BY <1>1, <1>9, TypesRest
  <1>10. QED
    BY <1>2, <1>3, <1>4, <1>5, <1>6, <1>7, <1>8, <1>9 DEF Next

LEMMA InitTypes == Init => TouchInv /\ TypeOK
PROOF
  <1> SUFFICES ASSUME Init PROVE TouchInv /\ TypeOK
    OBVIOUS
  <1>1. TouchInv
    BY TouchInit DEF Init, TouchInv, TouchStart
  <1>2. ("keyboard" \in used) \in BOOLEAN
    OBVIOUS
  <1>3. plugged \in BOOLEAN
    BY <1>2, Zenon DEF Init
  <1>4. line \in 1 .. (IF stage = "codes" THEN Slots ELSE Entries) + 1
    BY Tables DEF Init
  <1>5. prev_keys \in Codes /\ report \in Codes /\ before \in Codes
    BY Tables DEF Init
  <1>6. /\ down = {} /\ lost = {} /\ held = {} /\ clicked = {} /\ prev_left = {} /\ prev_right = {}
        /\ used \in Sessions /\ stage = "idle" /\ input_mode = FALSE /\ show_menu = FALSE
        /\ qualifiers = 0 /\ button_map \in Maps /\ mouseClickedTouch = FALSE
        /\ initialTouch = FALSE /\ caps_lock = FALSE
    BY DEF Init
  <1>7. TouchTypeOK
    BY <1>1 DEF TouchInv
  <1>8. /\ down \subseteq Keys \cup Buttons /\ lost \subseteq Keys \cup Buttons
        /\ held \subseteq 1 .. Entries /\ clicked \subseteq Buttons
        /\ prev_left \subseteq Modifiers /\ prev_right \subseteq Modifiers
    BY <1>6
  <1>9. input_mode \in BOOLEAN /\ show_menu \in BOOLEAN /\ mouseClickedTouch \in BOOLEAN
        /\ initialTouch \in BOOLEAN /\ caps_lock \in BOOLEAN
    BY <1>6
  <1>10. TypeOK
    BY <1>3, <1>4, <1>5, <1>6, <1>7, <1>8, <1>9 DEF TypeOK
  <1>11. QED
    BY <1>1, <1>10

\* For any input maps, keyboards and fingers, every variable of the controls
\* keeps its type; the qualifiers of the on-screen keyboard and the positions in
\* the map and in a report stay in their arrays.
THEOREM InputTypeCorrect == Spec => []TypeOK
PROOF
  <1>1. (TouchInv /\ TypeOK) /\ [Next]_vars => (TouchInv /\ TypeOK)'
    BY TouchInvNext, TypesNext
  <1>2. QED
    BY <1>1, InitTypes, PTL DEF Spec

(***************************************************************************)
(* What is down has somebody to release it.                                *)
(***************************************************************************)
\* The members of Held, one device after the other.
ByPad(x) == \E i \in held : x \in button_map[i] /\ button_map[i] # {Caps}
ByFingers(x) == (x \in Buttons /\ click[x] # Idle) \/ (drag # "none" /\ x = DragButton)
ByScreen(x) == mouseClickedTouch /\ x = "left"
ByMouse(x) == x \in clicked
ByCaps(x) == caps_lock /\ x = Caps
ByKeyboard(x) == plugged /\ (x \in prev_left \/ \E i \in 1 .. Slots : x = mac_key[prev_keys[i]])
HeldBy(x) == ByPad(x) \/ ByFingers(x) \/ ByScreen(x) \/ ByMouse(x) \/ ByCaps(x) \/ ByKeyboard(x)

LEMMA HeldIs == \A x : x \in Held <=> HeldBy(x)
PROOF
  <1> TAKE x
  <1>1. x \in PadHolds <=> ByPad(x)
    BY DEF ByPad, PadHolds
  <1>2. x \in ({b \in Buttons : click[b] # Idle}
               \cup (IF drag # "none" THEN {DragButton} ELSE {})) <=> ByFingers(x)
    BY DEF ByFingers, Buttons, Idle
  <1>3. x \in (IF mouseClickedTouch THEN {"left"} ELSE {}) <=> ByScreen(x)
    BY DEF ByScreen
  <1>4. x \in (IF caps_lock THEN {Caps} ELSE {}) <=> ByCaps(x)
    BY DEF ByCaps
  <1>5. x \in (IF plugged THEN Typed ELSE {}) <=> ByKeyboard(x)
    BY DEF ByKeyboard, Typed
  <1>6. QED
    BY <1>1, <1>2, <1>3, <1>4, <1>5 DEF Held, HeldBy, ByMouse

LEMMA HeldIsNext == \A x : x \in Held' <=> HeldBy(x)'
PROOF
  <1> TAKE x
  <1>1. x \in PadHolds' <=> ByPad(x)'
    BY DEF ByPad, PadHolds
  <1>2. x \in ({b \in Buttons : click[b] # Idle}
               \cup (IF drag # "none" THEN {DragButton} ELSE {}))' <=> ByFingers(x)'
    BY DEF ByFingers, Buttons, Idle
  <1>3. x \in (IF mouseClickedTouch THEN {"left"} ELSE {})' <=> ByScreen(x)'
    BY DEF ByScreen
  <1>4. x \in (IF caps_lock THEN {Caps} ELSE {})' <=> ByCaps(x)'
    BY DEF ByCaps
  <1>5. x \in (IF plugged THEN Typed ELSE {})' <=> ByKeyboard(x)'
    BY DEF ByKeyboard, Typed
  <1>6. QED
    BY <1>1, <1>2, <1>3, <1>4, <1>5 DEF Held, HeldBy, ByMouse

\* Each device that a step does not concern holds what it held.
LEMMA OthersHold ==
  /\ UNCHANGED <<button_map, held>> => \A x : ByPad(x) => ByPad(x)'
  /\ UNCHANGED <<click, drag>> => \A x : ByFingers(x) => ByFingers(x)'
  /\ UNCHANGED mouseClickedTouch => \A x : ByScreen(x) => ByScreen(x)'
  /\ UNCHANGED clicked => \A x : ByMouse(x) => ByMouse(x)'
  /\ UNCHANGED caps_lock => \A x : ByCaps(x) => ByCaps(x)'
  /\ UNCHANGED <<plugged, prev_left, prev_keys>> => \A x : ByKeyboard(x) => ByKeyboard(x)'
PROOF
  BY DEF ByPad, ByFingers, ByScreen, ByMouse, ByCaps, ByKeyboard, DragButton, Idle, Buttons

\* The keyboard is there while its report is handled.
StuckInv ==
    /\ TouchInv /\ TypeOK
    /\ \A x \in down : HeldBy(x) \/ x \in lost
    /\ stage \in {"keyboard", "codes"} => plugged

\* A step after which the devices hold what they held, and what was lost and is
\* still down is lost.
LEMMA SameHolders ==
  ASSUME StuckInv, down' \subseteq down, lost \cap down' \subseteq lost',
         UNCHANGED <<button_map, held, click, drag, mouseClickedTouch, clicked, caps_lock,
                     plugged, prev_left, prev_keys>>
  PROVE  \A x \in down' : HeldBy(x)' \/ x \in lost'
PROOF
  <1>1. \A x : HeldBy(x) => HeldBy(x)'
    BY OthersHold DEF HeldBy
  <1>2. QED
    BY <1>1 DEF StuckInv

LEMMA StuckPoll ==
  ASSUME StuckInv, NEW r \in SUBSET Fingers, NEW d \in 0 .. MaxDelay, PollTouch(r, d),
         UNCHANGED <<button_map, held, mouseClickedTouch, clicked, caps_lock, plugged, prev_left, prev_keys>>,
         lost' = lost \cap down'
  PROVE  \A x \in down' : HeldBy(x)' \/ x \in lost'
PROOF
  <1> DEFINE over == {b \in Buttons : click[b] # Idle /\ click[b] + d >= SIMULATED_CLICK_DURATION}
  <1>1. /\ click' = [b \in Buttons |-> IF b \in over \/ click[b] = Idle THEN Idle ELSE click[b] + d]
        /\ drag' = drag /\ down' = down \ over
    BY DEF PollTouch
  <1>2. d \in Nat /\ click \in [Buttons -> 0 .. Idle]
    BY Times DEF StuckInv, TypeOK, TouchTypeOK
  <1>3. ASSUME NEW x \in down', ByFingers(x) PROVE ByFingers(x)'
    <2>1. CASE drag # "none" /\ x = DragButton
      BY <1>1, <2>1 DEF ByFingers, DragButton
    <2>2. CASE x \in Buttons /\ click[x] # Idle
      <3>1. x \notin over
        BY <1>1
      <3>2. click'[x] = click[x] + d /\ click[x] + d < SIMULATED_CLICK_DURATION
        BY <1>1, <1>2, <2>2, <3>1, Times
      <3>3. click'[x] # Idle
        BY <1>2, <2>2, <3>2, Times
      <3>4. QED
        BY <2>2, <3>3 DEF ByFingers, Idle
    <2>3. QED
      BY <1>3, <2>1, <2>2 DEF ByFingers
  <1>4. ASSUME NEW x \in down' PROVE HeldBy(x)' \/ x \in lost'
    <2>1. HeldBy(x) \/ x \in lost
      BY <1>1 DEF StuckInv
    <2>2. QED
      BY <1>3, <2>1, OthersHold DEF HeldBy
  <1>5. QED
    BY <1>4

LEMMA StuckTouch ==
  ASSUME StuckInv, TouchEvent,
         UNCHANGED <<button_map, held, mouseClickedTouch, clicked, caps_lock, plugged, prev_left, prev_keys>>,
         lost' = lost \cap down'
  PROVE  \A x \in down' : HeldBy(x)' \/ x \in lost'
PROOF
  <1>1. ASSUME NEW x \in down', ByFingers(x) \/ x \notin down PROVE ByFingers(x)'
    <2>1. CASE \E f \in Fingers : FingerDown(f) \/ FingerStill(f)
      BY <1>1, <2>1 DEF FingerDown, FingerStill, ByFingers, DragButton, Idle, Buttons
    <2>2. CASE \E f \in Fingers : FingerMotion(f)
      <3>1. click' = click
        BY <2>2 DEF FingerMotion
      <3>2. CASE UNCHANGED <<drag, down>>
        BY <1>1, <3>1, <3>2 DEF ByFingers, DragButton, Idle, Buttons
      <3>3. CASE drag = "none" /\ drag' # "none" /\ down' = down \cup {DragButton'}
        BY <1>1, <3>1, <3>3 DEF ByFingers, Idle, Buttons
      <3>4. QED
        BY <2>2, <3>2, <3>3 DEF FingerMotion
    <2>3. CASE \E f \in Fingers, near \in BOOLEAN : FingerUp(f, near)
      <3>1. PICK f \in Fingers, near \in BOOLEAN : FingerUp(f, near)
        BY <2>3
      <3>2. click \in [Buttons -> 0 .. Idle] /\ 0 # Idle
        BY Times DEF StuckInv, TypeOK, TouchTypeOK
      <3>3. CASE UNCHANGED <<drag, click, down>>
        BY <1>1, <3>3 DEF ByFingers, DragButton, Idle, Buttons
      <3>4. CASE drag' = "none" /\ drag # "none" /\ down' = down \ {DragButton} /\ click' = click
        BY <1>1, <3>4 DEF ByFingers, Idle, Buttons
      <3>5. ASSUME NEW b \in Buttons, click' = [click EXCEPT ![b] = 0], down' = down \cup {b}, drag' = drag
            PROVE  ByFingers(x)'
        <4>1. \A y \in Buttons : click'[y] # Idle <=> y = b \/ click[y] # Idle
          BY <3>2, <3>5
        <4>2. QED
          BY <1>1, <3>5, <4>1 DEF ByFingers, DragButton, Idle, Buttons
      <3>6. QED
        BY <3>1, <3>3, <3>4, <3>5 DEF FingerUp, Buttons
    <2>4. QED
      BY <2>1, <2>2, <2>3 DEF TouchEvent
  <1>2. ASSUME NEW x \in down' PROVE HeldBy(x)' \/ x \in lost'
    <2>1. CASE x \notin down
      BY <1>1, <2>1 DEF HeldBy
    <2>2. CASE x \in down
      <3>1. HeldBy(x) \/ x \in lost
        BY <2>2 DEF StuckInv
      <3>2. QED
        BY <1>1, <3>1, OthersHold DEF HeldBy
    <2>3. QED
      BY <2>1, <2>2
  <1>3. QED
    BY <1>2

LEMMA StuckPad ==
  ASSUME StuckInv, NEW pressed \in BOOLEAN, PadLine(pressed)
  PROVE  \A x \in down' : HeldBy(x)' \/ x \in lost'
PROOF
  <1>1. /\ lost' = lost \cap down' /\ button_map' = button_map
        /\ UNCHANGED <<click, drag, mouseClickedTouch, clicked, plugged, prev_left, prev_keys>>
    BY DEF PadLine, touchVars, mouseVars, keyVars
  <1>2. line \in 1 .. Entries /\ button_map \in Maps /\ caps_lock \in BOOLEAN
    BY Tables DEF PadLine, StuckInv, TypeOK
  <1>3. CASE UNCHANGED <<held, down, caps_lock>>
    BY <1>1, <1>3, SameHolders
  <1>4. CASE key_down(line)
    <2>1. held' = held \cup {line}
      BY <1>4 DEF key_down
    <2>2. \A x : ByPad(x) => ByPad(x)'
      BY <1>1, <2>1 DEF ByPad
    <2>3. CASE button_map[line] = {Caps}
      <3>1. /\ caps_lock' <=> ~caps_lock
            /\ down' = IF caps_lock THEN down \ {Caps} ELSE down \cup {Caps}
        BY <1>4, <2>3 DEF key_down
      <3>2. ASSUME NEW x \in down' PROVE HeldBy(x)' \/ x \in lost'
        <4>1. CASE x = Caps
          <5>1. caps_lock'
            BY <3>1, <4>1
          <5>2. QED
            BY <4>1, <5>1 DEF HeldBy, ByCaps
        <4>2. CASE x # Caps
          <5>1. x \in down /\ ~ByCaps(x)
            BY <3>1, <4>2 DEF ByCaps
          <5>2. QED
            BY <1>1, <2>2, <5>1, OthersHold DEF StuckInv, HeldBy
        <4>3. QED
          BY <4>1, <4>2
      <3>3. QED
        BY <3>2
    <2>4. CASE button_map[line] # {Caps}
      <3>1. down' = down \cup button_map[line] /\ caps_lock' = caps_lock
        BY <1>4, <2>4 DEF key_down
      <3>2. ASSUME NEW x \in button_map[line] PROVE ByPad(x)'
        BY <1>1, <2>1, <2>4 DEF ByPad
      <3>3. ASSUME NEW x \in down PROVE HeldBy(x)' \/ x \in lost'
        BY <1>1, <2>2, <3>1, OthersHold DEF StuckInv, HeldBy
      <3>4. QED
        BY <3>1, <3>2, <3>3 DEF HeldBy
    <2>5. QED
      BY <2>3, <2>4
  <1>5. CASE key_up(line)
    <2>1. /\ held' = held \ {line} /\ caps_lock' = caps_lock
          /\ down' = IF button_map[line] = {Caps} THEN down ELSE down \ button_map[line]
      BY <1>5 DEF key_up
    <2>2. ASSUME NEW x \in down', ByPad(x) PROVE ByPad(x)'
      BY <1>1, <2>1, <2>2 DEF ByPad
    <2>3. QED
      BY <1>1, <2>1, <2>2, OthersHold DEF StuckInv, HeldBy
  <1>6. QED
    BY <1>3, <1>4, <1>5 DEF PadLine

LEMMA StuckScreen ==
  ASSUME StuckInv, NEW touched \in BOOLEAN, Screen(touched)
  PROVE  \A x \in down' : HeldBy(x)' \/ x \in lost'
PROOF
  <1>1. /\ lost' = lost \cap down'
        /\ UNCHANGED <<button_map, held, click, drag, clicked, caps_lock, plugged, prev_left, prev_keys>>
    BY DEF Screen, touchVars, padVars, keyVars
  <1>2. ASSUME NEW x \in down', x \notin down \/ ByScreen(x) PROVE ByScreen(x)'
    <2>1. CASE ~touched /\ mouseClickedTouch
      BY <1>2, <2>1 DEF Screen, ByScreen
    <2>2. CASE touched /\ ~mouseClickedTouch
      <3>1. /\ mouseClickedTouch' <=> ~initialTouch
            /\ down' = IF initialTouch THEN down ELSE down \cup {"left"}
        BY <2>2 DEF Screen
      <3>2. QED
        BY <1>2, <2>2, <3>1 DEF ByScreen
    <2>3. CASE ~(~touched /\ mouseClickedTouch) /\ ~(touched /\ ~mouseClickedTouch)
      BY <1>2, <2>3 DEF Screen, ByScreen
    <2>4. QED
      BY <2>1, <2>2, <2>3
  <1>3. QED
    BY <1>1, <1>2, OthersHold DEF StuckInv, HeldBy

LEMMA StuckModifiers ==
  ASSUME StuckInv, NEW codes \in Reports, NEW left \in SUBSET (used \cap Modifiers),
         NEW right \in SUBSET (used \cap Modifiers), NEW caps \in BOOLEAN,
         HandleModifiers(codes, left, right, caps)
  PROVE  \A x \in down' : HeldBy(x)' \/ x \in lost'
PROOF
  <1> DEFINE press == {m \in Modifiers : Pressed(m, left) /\ ~WasPressed(m)}
             release == {m \in Modifiers : ~Pressed(m, left) /\ WasPressed(m)}
             kept == {m \in Modifiers \cap down' : m \in prev_right /\ m \notin left}
  <1>1. /\ stage = "keyboard" /\ caps_lock' = caps /\ prev_left' = left
        /\ down' = ((down \cup press \cup (IF caps /\ ~caps_lock THEN {Caps} ELSE {})) \ release)
                      \ (IF ~caps /\ caps_lock THEN {Caps} ELSE {})
        /\ lost' = (lost \cap down') \cup kept
        /\ UNCHANGED <<button_map, held, click, drag, mouseClickedTouch, clicked, plugged, prev_keys>>
    BY DEF HandleModifiers, touchVars, mouseVars
  <1>2. plugged'
    BY <1>1 DEF StuckInv
  <1>3. ASSUME NEW x \in down' PROVE HeldBy(x)' \/ x \in lost'
    <2>1. CASE x = Caps /\ caps
      BY <1>1, <2>1 DEF HeldBy, ByCaps
    <2>2. CASE x \in left
      BY <1>1, <1>2, <2>2 DEF HeldBy, ByKeyboard
    <2>3. CASE ~(x = Caps /\ caps) /\ x \notin left /\ x \in press
      <3>1. x \in kept
        BY <2>3 DEF Pressed
      <3>2. QED
        BY <1>1, <3>1
    <2>4. CASE ~(x = Caps /\ caps) /\ x \notin left /\ x \notin press
      <3>1. x \in down /\ x \notin release
        BY <1>1, <2>4
      <3>2. CASE x \in prev_left
        <4>1. x \in Modifiers /\ WasPressed(x)
          BY <3>2 DEF StuckInv, TypeOK, WasPressed
        <4>2. x \in prev_right
          BY <2>4, <3>1, <4>1 DEF Pressed
        <4>3. QED
          BY <1>1, <2>4, <4>1, <4>2
      <3>3. CASE x \notin prev_left
        <4>1. ByKeyboard(x) => ByKeyboard(x)'
          BY <1>1, <3>3 DEF ByKeyboard
        <4>2. ~ByCaps(x)
          BY <1>1, <2>4 DEF ByCaps
        <4>3. QED
          BY <1>1, <3>1, <4>1, <4>2, OthersHold DEF StuckInv, HeldBy
      <3>4. QED
        BY <3>2, <3>3
    <2>5. QED
      BY <2>1, <2>2, <2>3, <2>4
  <1>4. QED
    BY <1>3

LEMMA StuckCode ==
  ASSUME StuckInv, HandleCode
  PROVE  \A x \in down' : HeldBy(x)' \/ x \in lost'
PROOF
  <1>1. /\ stage = "codes" /\ lost' = lost \cap down'
        /\ prev_keys' = [prev_keys EXCEPT ![line] = report[line]]
        /\ UNCHANGED <<button_map, held, click, drag, mouseClickedTouch, clicked, caps_lock,
                       plugged, prev_left>>
    BY DEF HandleCode, touchVars, mouseVars
  <1>2. line \in 1 .. Slots /\ prev_keys \in Codes /\ plugged
    BY <1>1, Tables DEF HandleCode, StuckInv, TypeOK
  <1>3. prev_keys'[line] = report[line] /\ \A i \in 1 .. Slots : i # line => prev_keys'[i] = prev_keys[i]
    BY <1>1, <1>2 DEF Codes
  <1>4. ASSUME NEW x \in down', x \notin down \/ ByKeyboard(x) PROVE ByKeyboard(x)'
    <2>1. CASE x \in prev_left
      BY <1>1, <1>2, <2>1 DEF ByKeyboard
    <2>2. CASE x \notin down
      <3>1. x = mac_key[report[line]]
        BY <2>2 DEF HandleCode
      <3>2. QED
        BY <1>1, <1>2, <1>3, <3>1 DEF ByKeyboard
    <2>3. CASE x \in down /\ x \notin prev_left
      <3>1. PICK i \in 1 .. Slots : x = mac_key[prev_keys[i]]
        BY <1>4, <2>3 DEF ByKeyboard
      <3>2. CASE i # line
        BY <1>1, <1>2, <1>3, <3>1, <3>2 DEF ByKeyboard
      <3>3. CASE i = line
        <4>1. report[line] = prev_keys[line] \/ x = mac_key[report[line]]
          BY <3>1, <3>3 DEF HandleCode
        <4>2. x = mac_key[prev_keys'[line]]
          BY <1>3, <3>1, <3>3, <4>1
        <4>3. QED
          BY <1>1, <1>2, <4>2 DEF ByKeyboard
      <3>4. QED
        BY <3>2, <3>3
    <2>4. QED
      BY <2>1, <2>2, <2>3
  <1>5. QED
    BY <1>1, <1>4, OthersHold DEF StuckInv, HeldBy

LEMMA StuckOthers ==
  ASSUME StuckInv,
         \/ \E start, select \in BOOLEAN : Frame(start, select)
         \/ Menu \/ NoReport \/ CodesDone \/ PadDone
         \/ \E stroke \in Strokes : OnScreenKey(stroke)
         \/ \E buttons \in SUBSET Buttons : Mouse(buttons)
  PROVE  \A x \in down' : HeldBy(x)' \/ x \in lost'
PROOF
  <1>1. CASE \/ \E start, select \in BOOLEAN : Frame(start, select)
             \/ CodesDone \/ PadDone \/ \E stroke \in Strokes : OnScreenKey(stroke)
    <2>1. down' \subseteq down /\ lost \cap down' \subseteq lost'
      BY <1>1 DEF Frame, CodesDone, PadDone, OnScreenKey
    <2>2. UNCHANGED <<button_map, held, click, drag, mouseClickedTouch, clicked, caps_lock,
                      plugged, prev_left, prev_keys>>
      BY <1>1 DEF Frame, CodesDone, PadDone, OnScreenKey, touchVars, padVars, mouseVars, keyVars
    <2>3. QED
      BY <2>1, <2>2, SameHolders
  <1>2. CASE Menu
    <2>1. CASE \E map \in Maps : LoadMap(map)
      <3>1. /\ lost' = lost \cup (down \cap PadHolds) /\ down' = down
            /\ UNCHANGED <<click, drag, mouseClickedTouch, clicked, caps_lock, plugged,
                           prev_left, prev_keys>>
        BY <2>1 DEF LoadMap, touchVars, mouseVars, keyVars
      <3>2. ASSUME NEW x \in down, ByPad(x) PROVE x \in lost'
        <4>1. x \in PadHolds
          BY <3>2 DEF ByPad, PadHolds
        <4>2. QED
          BY <3>1, <4>1
      <3>3. QED
        BY <3>1, <3>2, OthersHold DEF StuckInv, HeldBy
    <2>2. CASE UNCHANGED <<padVars, touchVars, down, modeVars, mouseVars, caps_lock, keyVars, lost>>
      BY <2>2, SameHolders DEF padVars, touchVars, mouseVars, keyVars
    <2>3. QED
      BY <1>2, <2>1, <2>2 DEF Menu
  <1>3. CASE NoReport
    <2>1. /\ stage = "keyboard" /\ down' = down
          /\ lost' = IF plugged' THEN lost ELSE lost \cup (down \cap Typed)
          /\ plugged' \in BOOLEAN
          /\ UNCHANGED <<button_map, held, click, drag, mouseClickedTouch, clicked, caps_lock,
                         prev_left, prev_keys>>
      BY <1>3 DEF NoReport, touchVars, padVars, mouseVars
    <2>2. ASSUME NEW x \in down, ByKeyboard(x) PROVE ByKeyboard(x)' \/ x \in lost'
      <3>1. CASE plugged'
        BY <2>1, <2>2, <3>1 DEF ByKeyboard
      <3>2. CASE ~plugged'
        <4>1. x \in Typed
          BY <2>2 DEF ByKeyboard, Typed
        <4>2. QED
          BY <2>1, <3>2, <4>1
      <3>3. QED
        BY <3>1, <3>2
    <2>3. lost \subseteq lost'
      BY <2>1
    <2>4. QED
      BY <2>1, <2>2, <2>3, OthersHold DEF StuckInv, HeldBy
  <1>4. CASE \E buttons \in SUBSET Buttons : Mouse(buttons)
    <2>1. PICK buttons \in SUBSET Buttons : Mouse(buttons)
      BY <1>4
    <2>2. /\ clicked' = buttons /\ lost' = lost \cap down'
          /\ down' = (down \cup (buttons \ clicked)) \ (clicked \ buttons)
          /\ UNCHANGED <<button_map, held, click, drag, mouseClickedTouch, caps_lock, plugged,
                         prev_left, prev_keys>>
      BY <2>1 DEF Mouse, touchVars, padVars, keyVars
    <2>3. ASSUME NEW x \in down', x \notin down \/ ByMouse(x) PROVE ByMouse(x)'
      BY <2>2, <2>3 DEF ByMouse
    <2>4. QED
      BY <2>2, <2>3, OthersHold DEF StuckInv, HeldBy
  <1>5. QED
    BY <1>1, <1>2, <1>3, <1>4

LEMMA StuckInvNext == StuckInv /\ [Next]_vars => StuckInv'
PROOF
  <1> SUFFICES ASSUME StuckInv, [Next]_vars PROVE StuckInv'
    OBVIOUS
  <1>1. TouchInv' /\ TypeOK'
    BY TouchInvNext, TypesNext DEF StuckInv
  <1>2. CASE UNCHANGED vars
    <2>1. \A x \in down' : HeldBy(x)' \/ x \in lost'
      BY <1>2, SameHolders DEF vars, padVars, touchVars, mouseVars, keyVars
    <2>2. UNCHANGED <<stage, plugged>>
      BY <1>2 DEF vars, keyVars
    <2>3. QED
      BY <1>1, <2>1, <2>2 DEF StuckInv
  <1>3. CASE PanelPoll \/ PanelEvent
    <2>1. /\ UNCHANGED <<button_map, held, mouseClickedTouch, clicked, caps_lock, plugged, prev_left,
                         prev_keys>>
          /\ lost' = lost \cap down' /\ stage' \notin {"keyboard", "codes"}
      BY <1>3 DEF PanelPoll, PanelEvent, padVars, mouseVars, keyVars
    <2>2. CASE \E r \in SUBSET Fingers, d \in 0 .. MaxDelay : PollTouch(r, d)
      BY <1>1, <2>1, <2>2, StuckPoll DEF StuckInv
    <2>3. CASE TouchEvent
      BY <1>1, <2>1, <2>3, StuckTouch DEF StuckInv
    <2>4. CASE PollDone \/ UNCHANGED <<touchVars, down>>
      <3>1. UNCHANGED <<click, drag, down>>
        BY <2>4 DEF PollDone, touchVars
      <3>2. \A x \in down' : HeldBy(x)' \/ x \in lost'
        BY <2>1, <3>1, SameHolders
      <3>3. QED
        BY <1>1, <2>1, <3>2 DEF StuckInv
    <2>5. QED
      BY <1>3, <2>2, <2>3, <2>4 DEF PanelPoll, PanelEvent
  <1>4. CASE \/ \E start, select \in BOOLEAN : Frame(start, select)
             \/ Menu \/ NoReport \/ CodesDone \/ PadDone
             \/ \E stroke \in Strokes : OnScreenKey(stroke)
             \/ \E buttons \in SUBSET Buttons : Mouse(buttons)
    <2>1. \A x \in down' : HeldBy(x)' \/ x \in lost'
      BY <1>4, StuckOthers
    <2>2. stage' \in {"keyboard", "codes"} => plugged'
      <3>1. CASE \E buttons \in SUBSET Buttons : Mouse(buttons)
        BY <3>1 DEF Mouse, keyVars
      <3>2. CASE \/ \E start, select \in BOOLEAN : Frame(start, select)
                 \/ Menu \/ NoReport \/ CodesDone \/ PadDone
                 \/ \E stroke \in Strokes : OnScreenKey(stroke)
        BY <3>2 DEF Frame, Menu, LoadMap, NoReport, CodesDone, PadDone, OnScreenKey
      <3>3. QED
        BY <1>4, <3>1, <3>2
    <2>3. QED
      BY <1>1, <2>1, <2>2 DEF StuckInv
  <1>5. CASE \E touched \in BOOLEAN : Screen(touched)
    <2>1. stage' = "pad"
      BY <1>5 DEF Screen
    <2>2. \A x \in down' : HeldBy(x)' \/ x \in lost'
      BY <1>5, StuckScreen
    <2>3. QED
      BY <1>1, <2>1, <2>2 DEF StuckInv
  <1>6. CASE \E pressed \in BOOLEAN : PadLine(pressed)
    <2>1. stage' = "pad"
      BY <1>6 DEF PadLine
    <2>2. \A x \in down' : HeldBy(x)' \/ x \in lost'
      BY <1>6, StuckPad
    <2>3. QED
      BY <1>1, <2>1, <2>2 DEF StuckInv
  <1>7. CASE \E codes \in Reports, left, right \in SUBSET (used \cap Modifiers), caps \in BOOLEAN :
               HandleModifiers(codes, left, right, caps)
    <2>1. stage = "keyboard" /\ plugged' = plugged
      BY <1>7 DEF HandleModifiers
    <2>2. \A x \in down' : HeldBy(x)' \/ x \in lost'
      BY <1>7, StuckModifiers
    <2>3. QED
      BY <1>1, <2>1, <2>2 DEF StuckInv
  <1>8. CASE HandleCode
    <2>1. stage = "codes" /\ plugged' = plugged
      BY <1>8 DEF HandleCode
    <2>2. \A x \in down' : HeldBy(x)' \/ x \in lost'
      BY <1>8, StuckCode
    <2>3. QED
      BY <1>1, <2>1, <2>2 DEF StuckInv
  <1>9. QED
    BY <1>2, <1>3, <1>4, <1>5, <1>6, <1>7, <1>8 DEF Next

\* For any input maps, keyboards, fingers and devices used together, Caps Lock
\* shared by the keyboard's lamp, its key and any line of the map included:
\* whatever is down on the Mac belongs to a gesture, a line of the map, a mouse
\* button, the last keyboard report or a Caps Lock that is on, or was left behind
\* in one of the three ways that the history variable lost records.
THEOREM NeverStuck == Spec => []NothingStuck
PROOF
  <1>1. Init => StuckInv
    <2> SUFFICES ASSUME Init PROVE StuckInv
      OBVIOUS
    <2>1. down = {} /\ stage = "idle"
      BY DEF Init
    <2>2. QED
      BY <2>1, InitTypes DEF StuckInv
  <1>2. StuckInv => NothingStuck
    BY HeldIs DEF StuckInv, NothingStuck
  <1>3. QED
    BY <1>1, <1>2, StuckInvNext, PTL DEF Spec

(***************************************************************************)
(* A report of the keyboard.                                               *)
(***************************************************************************)
\* The code in slot i was not in the report before.
IsNew(i) == \A j \in 1 .. Slots : report[i] # before[j]

\* The slots before line are those of the new report, the others still those of
\* the old one, and the new keys of the first are down.
CodeInv ==
    /\ TouchInv /\ TypeOK
    /\ stage = "codes" => \A i \in 1 .. Slots :
         /\ i < line => prev_keys[i] = report[i]
         /\ i >= line => prev_keys[i] = before[i]
         /\ i < line /\ IsNew(i) => report[i] = NoCode \/ mac_key[report[i]] \in down \cup {NoKey}

LEMMA CodeInvNext == CodeInv /\ [Next]_vars => CodeInv'
PROOF
  <1> SUFFICES ASSUME CodeInv, [Next]_vars PROVE CodeInv'
    OBVIOUS
  <1>1. TouchInv' /\ TypeOK'
    BY TouchInvNext, TypesNext DEF CodeInv
  <1>2. CASE stage' # "codes"
    BY <1>1, <1>2 DEF CodeInv
  <1>3. CASE UNCHANGED vars
    <2>1. UNCHANGED <<stage, line, prev_keys, report, before, down>>
      BY <1>3 DEF vars, padVars, keyVars
    <2>2. QED
      BY <1>1, <2>1 DEF CodeInv, IsNew
  <1>4. CASE HandleCode
    <2>1. /\ stage = "codes" /\ line' = line + 1
          /\ prev_keys' = [prev_keys EXCEPT ![line] = report[line]]
          /\ UNCHANGED <<report, before>>
      BY <1>4 DEF HandleCode
    <2>2. /\ line \in 1 .. Slots /\ prev_keys \in Codes /\ report \in Codes /\ before \in Codes
      BY <1>4, Tables DEF HandleCode, CodeInv, TypeOK
    <2>3. prev_keys'[line] = report[line] /\ \A i \in 1 .. Slots : i # line => prev_keys'[i] = prev_keys[i]
      BY <2>1, <2>2 DEF Codes
    <2>4. ASSUME NEW i \in 1 .. Slots
          PROVE  /\ i < line' => prev_keys'[i] = report'[i]
                 /\ i >= line' => prev_keys'[i] = before'[i]
      BY <2>1, <2>2, <2>3 DEF CodeInv
    <2>5. ASSUME NEW i \in 1 .. Slots, i < line', IsNew(i)
          PROVE  report[i] = NoCode \/ mac_key[report[i]] \in down' \cup {NoKey}
      <3>1. prev_keys[line] = before[line] /\ report[i] # before[line]
        BY <2>1, <2>2, <2>5 DEF CodeInv, IsNew
      <3>2. CASE i = line
        BY <1>4, <3>1, <3>2 DEF HandleCode
      <3>3. CASE i # line
        <4>1. report[i] = NoCode \/ mac_key[report[i]] \in down \cup {NoKey}
          BY <2>1, <2>2, <2>5, <3>3 DEF CodeInv
        <4>2. report[i] \in Hid \cup {NoCode} /\ before[line] \in Hid \cup {NoCode}
          BY <2>2 DEF Codes
        <4>3. \/ report[i] = NoCode \/ mac_key[report[i]] = NoKey
              \/ mac_key[report[i]] # mac_key[prev_keys[line]]
          BY <3>1, <4>2, InputAssumption
        <4>4. down \ {mac_key[prev_keys[line]]} \subseteq down'
          BY <1>4 DEF HandleCode
        <4>5. QED
          BY <4>1, <4>3, <4>4
      <3>4. QED
        BY <3>2, <3>3
    <2>6. \A i \in 1 .. Slots : IsNew(i)' <=> IsNew(i)
      BY <2>1 DEF IsNew
    <2>7. QED
      BY <1>1, <2>1, <2>4, <2>5, <2>6 DEF CodeInv
  <1>5. CASE \E codes \in Reports, left, right \in SUBSET (used \cap Modifiers), caps \in BOOLEAN :
               HandleModifiers(codes, left, right, caps)
    <2>1. line' = 1 /\ before' = prev_keys /\ prev_keys' = prev_keys
      BY <1>5 DEF HandleModifiers
    <2>2. QED
      BY <1>1, <2>1 DEF CodeInv
  <1>6. CASE \/ \E start, select \in BOOLEAN : Frame(start, select)
             \/ Menu \/ NoReport \/ CodesDone \/ PadDone \/ PanelPoll \/ PanelEvent
             \/ \E stroke \in Strokes : OnScreenKey(stroke)
             \/ \E touched \in BOOLEAN : Screen(touched)
             \/ \E pressed \in BOOLEAN : PadLine(pressed)
             \/ \E buttons \in SUBSET Buttons : Mouse(buttons)
    <2>1. stage' # "codes"
      BY <1>6 DEF Frame, Menu, LoadMap, NoReport, CodesDone, PadDone, PanelPoll, PanelEvent,
                  OnScreenKey, Screen, PadLine, Mouse
    <2>2. QED
      BY <1>2, <2>1
  <1>7. QED
    BY <1>3, <1>4, <1>5, <1>6 DEF Next

\* For any number of slots and any table of keys that gives two codes different
\* keys: a key that is new in a report is down when the report has been handled.
THEOREM PressesArrive == Spec => PressSeen
PROOF
  <1>1. Init => CodeInv
    BY InitTypes DEF Init, CodeInv
  <1>2. ASSUME CodeInv, CodesDone, NEW i \in 1 .. Slots, IsNew(i)
        PROVE  report[i] = NoCode \/ mac_key[report[i]] \in down \cup {NoKey}
    <2>1. stage = "codes" /\ line > Slots /\ line \in Nat
      BY <1>2, Tables DEF CodesDone, CodeInv, TypeOK
    <2>2. i < line
      BY <2>1, Tables
    <2>3. QED
      BY <1>2, <2>1, <2>2 DEF CodeInv
  <1>3. CodeInv => (CodesDone => \A i \in 1 .. Slots :
                      (\A j \in 1 .. Slots : report[i] # before[j]) =>
                          report[i] = NoCode \/ mac_key[report[i]] \in down \cup {NoKey})
    BY <1>2 DEF IsNew
  <1>4. QED
    BY <1>1, <1>3, CodeInvNext, PTL DEF Spec, PressSeen
=============================================================================

------------------------------- MODULE Touch -------------------------------
(***************************************************************************)
(* The gestures of a touch panel that works like a track pad               *)
(* (PSP2/psp2_touch.cpp): a short tap is a left click, a tap while another *)
(* finger is down a right click, and moving two or three fingers that have *)
(* been down for some time drags with the left or the right button.  A     *)
(* click presses the button at once and releases it at a later poll.       *)
(*                                                                         *)
(* Every frame psp2PollTouch compares the panel's report with the one      *)
(* before and handles a finger at a time; the order of a report is not     *)
(* fixed.  Times are kept as ages, which stop counting when the longest    *)
(* wait is over, and where a finger is only as whether it has left the     *)
(* place at which it came down: what motion does to the pointer is in Adb. *)
(***************************************************************************)
EXTENDS Naturals, FiniteSets

CONSTANTS
    Fingers,                    \* identifiers the panel gives to fingers
    MAX_NUM_FINGERS,            \* fingers the program keeps track of
    MAX_TAP_TIME, SIMULATED_CLICK_DURATION,
    MaxDelay                    \* bound on the time between two polls

Buttons == {"left", "right"}
Long == MAX_TAP_TIME + 1
Up == Long + 1                  \* the age of a finger that is not tracked
Idle == SIMULATED_CLICK_DURATION

ASSUME TouchAssumption ==
    /\ IsFiniteSet(Fingers)
    /\ MAX_NUM_FINGERS \in Nat /\ MAX_TAP_TIME \in Nat /\ MaxDelay \in Nat
    /\ SIMULATED_CLICK_DURATION \in 1 .. MAX_TAP_TIME

VARIABLES
    panel,      \* fingers in the last report of the panel
    fresh,      \* during a poll, those of them that were not in the one before
    unread,     \* those of them not yet handled in this poll
    lifted,     \* fingers of the report before that are gone, not yet handled
    age,        \* time since a tracked finger came down
    drag,       \* _multiFingerDragging
    click,      \* time since a simulated click began, or Idle
    down        \* mouse buttons and keys that the Mac sees pressed

touchVars == <<panel, fresh, unread, lifted, age, drag, click>>

Tracked == {f \in Fingers : age[f] # Up}

\* The button a drag holds down.
DragButton == IF drag = "three" THEN "right" ELSE "left"

Smaller(a, b) == IF a < b THEN a ELSE b

\* psp2InitTouch
TouchStart ==
    /\ panel = {} /\ fresh = {} /\ unread = {} /\ lifted = {}
    /\ age = [f \in Fingers |-> Up]
    /\ drag = "none"
    /\ click = [b \in Buttons |-> Idle]

\* psp2PollTouch looks at the panel; psp2FinishSimulatedMouseClicks comes first.
PollTouch(report, delay) ==
    LET over == {b \in Buttons : click[b] # Idle /\ click[b] + delay >= SIMULATED_CLICK_DURATION}
    IN  /\ panel' = report
        /\ fresh' = report \ panel
        /\ unread' = report
        /\ lifted' = panel \ report
        /\ age' = [f \in Fingers |-> IF age[f] = Up THEN Up ELSE Smaller(age[f] + delay, Long)]
        /\ click' = [b \in Buttons |->
                       IF b \in over \/ click[b] = Idle THEN Idle ELSE click[b] + delay]
        /\ down' = down \ over
        /\ UNCHANGED drag

\* psp2ProcessFingerDown: a finger takes a free entry, if there is one.
FingerDown(f) ==
    /\ f \in unread \cap fresh
    /\ unread' = unread \ {f}
    /\ age' = [age EXCEPT ![f] = IF Cardinality(Tracked \ {f}) < MAX_NUM_FINGERS THEN 0 ELSE Up]
    /\ UNCHANGED <<panel, fresh, lifted, drag, click, down>>

\* Mutant of LongDown: every finger counts.
LongDownAll == Tracked

\* Fingers down for so long that they do not tap any more.
LongDown == {f \in Tracked : age[f] > MAX_TAP_TIME}

\* psp2ProcessFingerMotion: two or more such fingers start a drag.
FingerMotion(f) ==
    /\ f \in unread \ fresh
    /\ unread' = unread \ {f}
    /\ IF drag = "none" /\ Cardinality(LongDown) >= 2
         THEN /\ drag' = IF Cardinality(LongDown) = 2 THEN "two" ELSE "three"
              /\ down' = down \cup {DragButton'}
         ELSE UNCHANGED <<drag, down>>
    /\ UNCHANGED <<panel, fresh, lifted, age, click>>

\* A finger that has not moved since the last poll.
FingerStill(f) ==
    /\ f \in unread \ fresh
    /\ unread' = unread \ {f}
    /\ UNCHANGED <<panel, fresh, lifted, age, drag, click, down>>

\* Mutant of FingerUp: a finger that has just come down does not end a drag.
FingerUpLong(f, near) ==
    LET n == Cardinality(Tracked)
    IN  /\ unread = {} /\ f \in lifted
        /\ lifted' = lifted \ {f}
        /\ age' = [age EXCEPT ![f] = Up]
        /\ IF f \in Tracked /\ drag = "none" /\ age[f] <= MAX_TAP_TIME /\ near /\ n \in {1, 2}
             THEN LET b == IF n = 2 THEN "right" ELSE "left"
                  IN  click' = [click EXCEPT ![b] = 0] /\ down' = down \cup {b} /\ drag' = drag
             ELSE IF f \in Tracked /\ drag # "none" /\ n = 1 /\ age[f] > MAX_TAP_TIME
                    THEN drag' = "none" /\ down' = down \ {DragButton} /\ click' = click
                    ELSE UNCHANGED <<drag, click, down>>
        /\ UNCHANGED <<panel, fresh, unread>>

\* psp2ProcessFingerUp: a short tap clicks if the finger is still near the
\* place where it came down; the last finger ends a drag.
FingerUp(f, near) ==
    LET n == Cardinality(Tracked)
    IN  /\ unread = {} /\ f \in lifted
        /\ lifted' = lifted \ {f}
        /\ age' = [age EXCEPT ![f] = Up]
        /\ IF f \in Tracked /\ drag = "none" /\ age[f] <= MAX_TAP_TIME /\ near /\ n \in {1, 2}
             THEN LET b == IF n = 2 THEN "right" ELSE "left"
                  IN  click' = [click EXCEPT ![b] = 0] /\ down' = down \cup {b} /\ drag' = drag
             ELSE IF f \in Tracked /\ drag # "none" /\ n = 1
                    THEN drag' = "none" /\ down' = down \ {DragButton} /\ click' = click
                    ELSE UNCHANGED <<drag, click, down>>
        /\ UNCHANGED <<panel, fresh, unread>>

\* The end of psp2PollTouch.
PollDone ==
    /\ unread = {} /\ lifted = {}
    /\ fresh' = {}
    /\ UNCHANGED <<panel, unread, lifted, age, drag, click, down>>

TouchEvent ==
    \/ \E f \in Fingers : FingerDown(f) \/ FingerMotion(f) \/ FingerStill(f)
    \/ \E f \in Fingers, near \in BOOLEAN : FingerUp(f, near)

-----------------------------------------------------------------------------
TouchTypeOK ==
    /\ panel \subseteq Fingers /\ fresh \subseteq Fingers
    /\ unread \subseteq Fingers /\ lifted \subseteq Fingers
    /\ age \in [Fingers -> 0 .. Up]
    /\ drag \in {"none", "two", "three"}
    /\ click \in [Buttons -> 0 .. Idle]

\* The release that ends a simulated click never comes in the middle of a drag
\* that holds the same button: fingers that have been down long enough to drag
\* have outlived the click.
DragHeld == drag # "none" => click[DragButton] = Idle

\* When no finger is left on the panel none is tracked and no drag goes on,
\* also when more fingers came down than are tracked and in whatever order
\* they were lifted.
FingersGone == panel \cup lifted = {} => Tracked = {} /\ drag = "none"
=============================================================================

----------------------------- MODULE Adb_proofs -----------------------------
(***************************************************************************)
(* Proofs about Adb for every buffer size, every set of keys and buttons   *)
(* and every range of motion: the key event buffer is a queue, the key     *)
(* matrix and the buttons agree with what the Mac has been told, and no    *)
(* relative motion is lost.                                                *)
(***************************************************************************)
EXTENDS Adb, TLAPS

\* Where the n-th event behind read pointer r is: the remainder in Buffered
\* without "%".
Slot(r, n) ==
  IF r + n - 1 < KeyBufferSize THEN r + n - 1 ELSE r + n - 1 - KeyBufferSize

RingType ==
  /\ key_buffer \in [0..(KeyBufferSize - 1) -> Event]
  /\ key_read_ptr \in 0..(KeyBufferSize - 1)
  /\ key_write_ptr \in 0..(KeyBufferSize - 1)
  /\ pending \in Seq(Event)
  /\ Len(pending) <= MaxPending

\* The inductive invariant: the pending events lie between the pointers.
Ring ==
  /\ RingType
  /\ key_write_ptr = Slot(key_read_ptr, Len(pending) + 1)
  /\ \A n \in 1..Len(pending) : key_buffer[Slot(key_read_ptr, n)] = pending[n]

ringVars == <<key_buffer, key_read_ptr, key_write_ptr, pending>>

-----------------------------------------------------------------------------
LEMMA Sizes ==
  /\ KeyBufferSize \in Nat /\ KeyBufferSize > 0
  /\ MaxPending \in Nat /\ MaxPending < KeyBufferSize
PROOF
  BY AdbAssumption DEF AdbAssumption

\* Remainders of numbers at most one divisor away.
LEMMA NearRemainder ==
  ASSUME NEW n \in Nat, n > 0
  PROVE  /\ \A x \in 0..(n - 1) : x % n = x
         /\ \A x \in n..(2 * n - 1) : x % n = x - n
         /\ \A x \in (1 - n)..(-1) : x % n = x + n
PROOF
  <1>1. ASSUME NEW x \in 0..(n - 1) PROVE x % n = x
    OBVIOUS
  <1>2. ASSUME NEW x \in n..(2 * n - 1) PROVE x % n = x - n
    OBVIOUS
  <1>3. ASSUME NEW x \in (1 - n)..(-1) PROVE x % n = x + n
    OBVIOUS
  <1>4. QED
    BY <1>1, <1>2, <1>3

LEMMA NextPtrIs ==
  \A p \in 0..(KeyBufferSize - 1) :
    NextPtr(p) = IF p + 1 < KeyBufferSize THEN p + 1 ELSE 0
PROOF
  <1>1. SUFFICES ASSUME NEW p \in 0..(KeyBufferSize - 1)
                 PROVE NextPtr(p) = IF p + 1 < KeyBufferSize THEN p + 1 ELSE 0
    OBVIOUS
  <1>2. CASE p + 1 < KeyBufferSize
    <2>1. p + 1 \in 0..(KeyBufferSize - 1)
      BY <1>2, Sizes
    <2>2. QED
      BY <1>2, <2>1, Sizes, NearRemainder DEF NextPtr
  <1>3. CASE p + 1 = KeyBufferSize
    <2>1. p + 1 \in KeyBufferSize..(2 * KeyBufferSize - 1)
      BY <1>3, Sizes
    <2>2. QED
      BY <1>3, <2>1, Sizes, NearRemainder DEF NextPtr
  <1>4. QED
    BY <1>2, <1>3, Sizes

\* What a step leaves alone stays a queue.
LEMMA RingSame == Ring /\ UNCHANGED ringVars => Ring'
PROOF
  BY DEF Ring, RingType, Slot, ringVars

\* ADBKeyDown and ADBKeyUp add the event behind the last one.
LEMMA RingKeyEvent ==
  ASSUME Ring, NEW k \in Keys, NEW up \in BOOLEAN, KeyEvent(k, up)
  PROVE  Ring'
PROOF
  <1> DEFINE e == [code |-> k, up |-> up]
             L == Len(pending)
  <1>1. e \in Event
    BY DEF Event
  <1>2. /\ L < MaxPending
        /\ key_buffer' = [key_buffer EXCEPT ![key_write_ptr] = e]
        /\ key_write_ptr' = NextPtr(key_write_ptr)
        /\ pending' = Append(pending, e)
        /\ key_read_ptr' = key_read_ptr
    BY DEF KeyEvent
  <1>3. /\ RingType
        /\ key_write_ptr = Slot(key_read_ptr, L + 1)
        /\ \A n \in 1..L : key_buffer[Slot(key_read_ptr, n)] = pending[n]
    BY DEF Ring
  <1>4. L \in Nat
    BY <1>3 DEF RingType
  <1>5. key_write_ptr' =
          IF key_write_ptr + 1 < KeyBufferSize THEN key_write_ptr + 1 ELSE 0
    BY <1>2, <1>3, NextPtrIs DEF RingType
  <1>6. /\ pending' \in Seq(Event) /\ Len(pending') = L + 1
        /\ pending'[L + 1] = e
        /\ \A n \in 1..L : pending'[n] = pending[n]
    BY <1>1, <1>2, <1>3, <1>4 DEF RingType
  <1> HIDE DEF e, L
  <1>8. RingType'
    <2>1. key_buffer' \in [0..(KeyBufferSize - 1) -> Event]
      BY <1>1, <1>2, <1>3 DEF RingType
    <2>2. key_write_ptr' \in 0..(KeyBufferSize - 1)
      BY <1>3, <1>5, Sizes DEF RingType
    <2>3. QED
      BY <1>2, <1>3, <1>4, <1>6, <2>1, <2>2, Sizes DEF RingType
  <1>9. key_write_ptr' = Slot(key_read_ptr', Len(pending') + 1)
    <2>1. key_write_ptr' = Slot(key_read_ptr, L + 2)
      BY <1>2, <1>3, <1>4, <1>5, Sizes DEF RingType, Slot
    <2>2. Len(pending') + 1 = L + 2
      BY <1>4, <1>6
    <2>3. QED
      BY <1>2, <2>1, <2>2
  <1>10. ASSUME NEW n \in 1..Len(pending')
         PROVE  key_buffer'[Slot(key_read_ptr', n)] = pending'[n]
    <2>1. n \in 1..(L + 1)
      BY <1>6
    <2>2. CASE n = L + 1
      BY <1>2, <1>3, <1>6, <2>2 DEF RingType
    <2>3. CASE n \in 1..L
      <3>1. Slot(key_read_ptr, n) # key_write_ptr /\ Slot(key_read_ptr, n) \in 0..(KeyBufferSize - 1)
        BY <1>2, <1>3, <1>4, <2>3, Sizes DEF RingType, Slot
      <3>2. key_buffer'[Slot(key_read_ptr, n)] = key_buffer[Slot(key_read_ptr, n)]
        BY <1>2, <1>3, <3>1 DEF RingType
      <3>3. QED
        BY <1>2, <1>3, <1>6, <2>3, <3>2
    <2>4. QED
      BY <1>4, <2>1, <2>2, <2>3
  <1>11. QED
    BY <1>8, <1>9, <1>10 DEF Ring

\* ADBInterrupt takes the event that has waited longest.
LEMMA RingKeyRead ==
  ASSUME Ring, KeyRead
  PROVE  Ring' /\ pending # << >> /\ key_buffer[key_read_ptr] = Head(pending)
PROOF
  <1> DEFINE L == Len(pending)
  <1>1. /\ RingType
        /\ key_write_ptr = Slot(key_read_ptr, L + 1)
        /\ \A n \in 1..L : key_buffer[Slot(key_read_ptr, n)] = pending[n]
    BY DEF Ring
  <1>2. /\ key_read_ptr # key_write_ptr
        /\ key_read_ptr' = NextPtr(key_read_ptr)
        /\ pending' = IF pending = << >> THEN pending ELSE Tail(pending)
        /\ key_buffer' = key_buffer /\ key_write_ptr' = key_write_ptr
    BY DEF KeyRead
  <1>3. L \in Nat /\ pending \in Seq(Event)
    BY <1>1 DEF RingType
  <1>4. Slot(key_read_ptr, 1) = key_read_ptr
    BY <1>1, Sizes DEF RingType, Slot
  <1>5. L > 0
    <2>1. L = 0 => L + 1 = 1
      BY <1>3
    <2>2. QED
      BY <1>1, <1>2, <1>3, <1>4, <2>1
  <1>6. pending # << >>
    BY <1>3, <1>5
  <1>7. /\ pending' = Tail(pending) /\ pending' \in Seq(Event)
        /\ Len(pending') = L - 1
        /\ \A n \in 1..(L - 1) : pending'[n] = pending[n + 1]
        /\ pending[1] = Head(pending)
    BY <1>2, <1>3, <1>5, <1>6
  <1>8. key_read_ptr' =
          IF key_read_ptr + 1 < KeyBufferSize THEN key_read_ptr + 1 ELSE 0
    BY <1>1, <1>2, NextPtrIs DEF RingType
  <1> HIDE DEF L
  <1>9. \A n \in 1..L : Slot(key_read_ptr', n) = Slot(key_read_ptr, n + 1)
    BY <1>1, <1>2, <1>3, <1>8, Sizes DEF RingType, Slot, L
  <1>10. RingType'
    <2>1. key_read_ptr' \in 0..(KeyBufferSize - 1)
      BY <1>1, <1>8, Sizes DEF RingType
    <2>2. Len(pending') <= MaxPending
      BY <1>1, <1>3, <1>7, Sizes DEF RingType, L
    <2>3. QED
      BY <1>1, <1>2, <1>7, <2>1, <2>2 DEF RingType
  <1>11. key_write_ptr' = Slot(key_read_ptr', Len(pending') + 1)
    <2>1. Len(pending') + 1 = L /\ L \in 1..L
      BY <1>3, <1>5, <1>7
    <2>2. Slot(key_read_ptr', L) = Slot(key_read_ptr, L + 1)
      BY <1>9, <2>1
    <2>3. QED
      BY <1>1, <1>2, <2>1, <2>2 DEF Slot
  <1>12. ASSUME NEW n \in 1..Len(pending')
         PROVE  key_buffer'[Slot(key_read_ptr', n)] = pending'[n]
    <2>1. n \in 1..(L - 1) /\ n \in 1..L /\ n + 1 \in 1..L
      BY <1>3, <1>5, <1>7
    <2>2. Slot(key_read_ptr', n) = Slot(key_read_ptr, n + 1)
      BY <1>9, <2>1
    <2>3. QED
      BY <1>1, <1>2, <1>7, <2>1, <2>2
  <1>13. Ring'
    BY <1>10, <1>11, <1>12 DEF Ring
  <1>14. key_buffer[key_read_ptr] = Head(pending)
    <2>1. 1 \in 1..L
      BY <1>3, <1>5
    <2>2. QED
      BY <1>1, <1>4, <1>7, <2>1
  <1>15. QED
    BY <1>6, <1>13, <1>14

LEMMA RingInit == Init => Ring
PROOF
  <1>1. SUFFICES ASSUME Init PROVE Ring
    OBVIOUS
  <1>2. PICK k \in Keys :
          key_buffer = [p \in 0..(KeyBufferSize - 1) |-> [code |-> k, up |-> FALSE]]
    BY <1>1 DEF Init
  <1>3. [code |-> k, up |-> FALSE] \in Event
    BY DEF Event
  <1>4. /\ key_buffer \in [0..(KeyBufferSize - 1) -> Event]
        /\ key_read_ptr = 0 /\ key_write_ptr = 0 /\ pending = << >>
    BY <1>1, <1>2, <1>3 DEF Init
  <1>5. pending \in Seq(Event) /\ Len(pending) = 0
    BY <1>4
  <1>6. QED
    BY <1>4, <1>5, Sizes DEF Ring, RingType, Slot

LEMMA RingNext == Ring /\ [Next]_vars => Ring'
PROOF
  <1>1. SUFFICES ASSUME Ring, [Next]_vars PROVE Ring'
    OBVIOUS
  <1>2. CASE Inputs
    <2>1. ASSUME NEW k \in Keys, NEW up \in BOOLEAN, KeyEvent(k, up)
          PROVE  Ring'
      BY <1>1, <2>1, RingKeyEvent
    <2>2. ASSUME NEW rel, NEW x, MouseMoved(rel, x)
          PROVE  Ring'
      BY <1>1, <2>2, RingSame DEF MouseMoved, keyVars, ringVars
    <2>3. CASE SetRelMouseMode
      BY <1>1, <2>3, RingSame DEF SetRelMouseMode, keyVars, ringVars
    <2>4. ASSUME NEW b \in Buttons, MouseButton(b)
          PROVE  Ring'
      BY <1>1, <2>4, RingSame DEF MouseButton, keyVars, historyVars, ringVars
    <2>5. QED
      BY <1>2, <2>1, <2>2, <2>3, <2>4
      DEF Inputs, TouchMoved, StickMoved, MappedMove
  <1>3. CASE Mac
    <2>1. UNCHANGED ringVars
      BY <1>3 DEF Mac, AdbBase, ADBOpReset, ADBOpAddress, ADBOpHandler,
                  keyVars, historyVars, ringVars
    <2>2. QED
      BY <1>1, <2>1, RingSame
  <1>4. CASE Dispatch
    <2>1. CASE KeyRead
      BY <1>1, <2>1, RingKeyRead
    <2>2. CASE ADBNotInitialized \/ ADBInterrupt
      <3>1. UNCHANGED ringVars
        BY <2>2 DEF ADBNotInitialized, ADBInterrupt, keyVars, ringVars
      <3>2. QED
        BY <1>1, <3>1, RingSame
    <2>3. CASE MouseReturns \/ KeysDone
      <3>1. UNCHANGED ringVars
        BY <2>3 DEF MouseReturns, KeysDone, keyVars, historyVars, ringVars
      <3>2. QED
        BY <1>1, <3>1, RingSame
    <2>4. ASSUME NEW from, NEW to, Goto(from, to)
          PROVE  Ring'
      BY <1>1, <2>4, RingSame DEF Goto, keyVars, historyVars, ringVars
    <2>5. QED
      BY <1>4, <2>1, <2>2, <2>3, <2>4
      DEF Dispatch, Irq60Hz, VideoInterruptEnd, VblTaskEnd, KeyReturns
  <1>5. CASE UNCHANGED vars
    <2>1. UNCHANGED ringVars
      BY <1>5 DEF vars, keyVars, historyVars, ringVars
    <2>2. QED
      BY <1>1, <2>1, RingSame
  <1>6. QED
    BY <1>1, <1>2, <1>3, <1>4, <1>5 DEF Next

\* The remainders in Buffered are the slots of Ring.
LEMMA RingInOrder == Ring => KeysInOrder
PROOF
  <1>1. SUFFICES ASSUME Ring PROVE KeysInOrder
    OBVIOUS
  <1> DEFINE L == Len(pending)
  <1>2. /\ RingType /\ L \in Nat /\ L <= MaxPending
        /\ key_write_ptr = Slot(key_read_ptr, L + 1)
        /\ \A n \in 1..L : key_buffer[Slot(key_read_ptr, n)] = pending[n]
    BY <1>1 DEF Ring, RingType
  <1>3. pending = [n \in 1..L |-> pending[n]]
    BY <1>2 DEF RingType
  <1> HIDE DEF L
  <1>4. (key_write_ptr - key_read_ptr) % KeyBufferSize = L
    <2>1. CASE key_read_ptr + L < KeyBufferSize
      <3>1. key_write_ptr - key_read_ptr = L /\ L \in 0..(KeyBufferSize - 1)
        BY <1>2, <2>1, Sizes DEF RingType, Slot
      <3>2. QED
        BY <3>1, Sizes, NearRemainder
    <2>2. CASE ~(key_read_ptr + L < KeyBufferSize)
      <3>1. /\ key_write_ptr - key_read_ptr = L - KeyBufferSize
            /\ L - KeyBufferSize \in (1 - KeyBufferSize)..(-1)
        BY <1>2, <2>2, Sizes DEF RingType, Slot
      <3>2. (L - KeyBufferSize) % KeyBufferSize = (L - KeyBufferSize) + KeyBufferSize
        BY <3>1, Sizes, NearRemainder
      <3>3. QED
        BY <1>2, <3>1, <3>2, Sizes
    <2>3. QED
      BY <2>1, <2>2
  <1>5. ASSUME NEW n \in 1..L
        PROVE  (key_read_ptr + n - 1) % KeyBufferSize = Slot(key_read_ptr, n)
    <2>1. CASE key_read_ptr + n - 1 < KeyBufferSize
      <3>1. key_read_ptr + n - 1 \in 0..(KeyBufferSize - 1)
        BY <1>2, <2>1, Sizes DEF RingType
      <3>2. (key_read_ptr + n - 1) % KeyBufferSize = key_read_ptr + n - 1
        BY <3>1, Sizes, NearRemainder, Zenon
      <3>3. QED
        BY <2>1, <3>2 DEF Slot
    <2>2. CASE ~(key_read_ptr + n - 1 < KeyBufferSize)
      <3>1. key_read_ptr + n - 1 \in KeyBufferSize..(2 * KeyBufferSize - 1)
        BY <1>2, <2>2, Sizes DEF RingType
      <3>2. (key_read_ptr + n - 1) % KeyBufferSize =
              (key_read_ptr + n - 1) - KeyBufferSize
        BY <3>1, Sizes, NearRemainder, Zenon
      <3>3. QED
        BY <1>2, <2>2, <3>1, <3>2, Sizes DEF Slot, RingType
    <2>3. QED
      BY <2>1, <2>2
  <1>6. \A n \in 1..L :
          key_buffer[(key_read_ptr + n - 1) % KeyBufferSize] = pending[n]
    BY <1>2, <1>5
  <1>7. Buffered = [n \in 1..L |->
                      key_buffer[(key_read_ptr + n - 1) % KeyBufferSize]]
    BY <1>4 DEF Buffered
  <1>8. QED
    BY <1>3, <1>6, <1>7 DEF KeysInOrder

-----------------------------------------------------------------------------
\* For every buffer size: the ring buffer between ADBKeyDown and
\* ADBInterrupt is a queue, as long as fewer events pile up than it has
\* entries.
THEOREM QueueKept == Spec => []KeysInOrder
PROOF
  <1>1. Init => Ring
    BY RingInit
  <1>2. Ring /\ [Next]_vars => Ring'
    BY RingNext
  <1>3. Ring => KeysInOrder
    BY RingInOrder
  <1>4. QED
    BY <1>1, <1>2, <1>3, PTL DEF Spec

\* What ADBInterrupt gives to the Mac's keyboard handler is always the event
\* that has waited longest, and there is one.
Oldest == KeyRead => pending # << >> /\ key_buffer[key_read_ptr] = Head(pending)

THEOREM OldestFirst == Spec => [][Oldest]_vars
PROOF
  <1>1. Init => Ring
    BY RingInit
  <1>2. Ring /\ [Next]_vars => Ring'
    BY RingNext
  <1>3. Ring => [Oldest]_vars
    BY RingKeyRead DEF Oldest
  <1>4. QED
    BY <1>1, <1>2, <1>3, PTL DEF Spec

-----------------------------------------------------------------------------
(* Types. *)

\* The conjuncts of TypeOK that are not in RingType.
RestType ==
  /\ relative_mouse \in BOOLEAN
  /\ mouse_x \in (-MaxMotion)..MaxMotion
  /\ old_mouse_x \in (-MaxMotion)..MaxMotion
  /\ mouse_button \subseteq Buttons /\ old_mouse_button \subseteq Buttons
  /\ mb \subseteq Buttons
  /\ key_states \subseteq Keys
  /\ mouse_reg_3 \in [addr : Addresses, id : {1, 2, 4}]
  /\ key_reg_3 \in Addresses
  /\ adb_flag \in BOOLEAN
  /\ cpu \in {"mac", "video", "vbl", "adb", "mouse", "keys", "key"}
  /\ adb_base \in BOOLEAN
  /\ mac_x \in (-MaxMotion)..MaxMotion
  /\ mac_button \subseteq Buttons /\ mac_keys \subseteq Keys
  /\ owed \in 0..(2 * MotionRange - 1)
  /\ missed \in BOOLEAN
  /\ finger \in Positions \cup {NoFinger}

LEMMA TypesSplit == TypeOK <=> RingType /\ RestType
PROOF
  BY DEF TypeOK, RingType, RestType

LEMMA Ranges ==
  /\ MaxMotion \in Nat /\ MotionRange \in Nat /\ MotionRange > 0
  /\ 2 * MotionRange \in Nat /\ 2 * MotionRange > 0
  /\ Positions \subseteq Int /\ Moves \subseteq Int
PROOF
  BY AdbAssumption DEF AdbAssumption

LEMMA RemainderIn ==
  ASSUME NEW n \in Nat, n > 0, NEW x \in Int
  PROVE  x % n \in 0..(n - 1)
PROOF
  OBVIOUS

LEMMA RestInit == Init => RestType
PROOF
  <1> SUFFICES ASSUME Init PROVE RestType
    OBVIOUS
  <1>1. 0 \in (-MaxMotion)..MaxMotion /\ 0 \in 0..(2 * MotionRange - 1)
    BY Ranges
  <1>2. MouseReg3 \in [addr : Addresses, id : {1, 2, 4}] /\ KeyReg3 \in Addresses
    BY AdbAssumption DEF AdbAssumption, MouseReg3, KeyReg3
  <1>3. QED
    BY <1>1, <1>2 DEF Init, RestType

\* ADBSetRelMouseMode and ADBMouseMoved.
LEMMA RestMoved ==
  ASSUME RestType, NEW rel \in BOOLEAN, NEW x \in Int, MouseMoved(rel, x),
         finger' \in Positions \cup {NoFinger}
  PROVE  RestType'
PROOF
  <1>1. owed' \in 0..(2 * MotionRange - 1)
    <2>1. (IF relative_mouse THEN owed ELSE 0) + x \in Int
      BY Ranges DEF RestType
    <2>2. ((IF relative_mouse THEN owed ELSE 0) + x) % (2 * MotionRange)
            \in 0..(2 * MotionRange - 1)
      BY <2>1, Ranges, RemainderIn
    <2>3. QED
      BY <2>2, Ranges DEF MouseMoved
  <1>2. mouse_x' \in (-MaxMotion)..MaxMotion
    BY DEF MouseMoved
  <1>3. QED
    BY <1>1, <1>2 DEF RestType, MouseMoved, keyVars, regVars, macVars

LEMMA RestInputs == RestType /\ Inputs => RestType'
PROOF
  <1> SUFFICES ASSUME RestType, Inputs PROVE RestType'
    OBVIOUS
  <1>1. ASSUME NEW x \in Positions, TouchMoved(x) PROVE RestType'
    BY <1>1, RestMoved, Ranges DEF TouchMoved
  <1>2. ASSUME NEW d \in Moves, StickMoved(d) \/ MappedMove(d) PROVE RestType'
    <2>1. relative_mouse \in BOOLEAN /\ d \in Int
      BY Ranges DEF RestType
    <2>2. QED
      BY <1>2, <2>1, RestMoved DEF StickMoved, MappedMove
  <1>3. CASE SetRelMouseMode
    <2>1. mouse_x' \in (-MaxMotion)..MaxMotion
      BY <1>3, Ranges DEF SetRelMouseMode, RestType, PointerIn
    <2>2. owed' \in 0..(2 * MotionRange - 1)
      BY <1>3, Ranges DEF SetRelMouseMode, RestType
    <2>3. QED
      BY <1>3, <2>1, <2>2
      DEF SetRelMouseMode, RestType, keyVars, regVars, macVars
  <1>4. ASSUME NEW b \in Buttons, MouseButton(b) PROVE RestType'
    BY <1>4 DEF MouseButton, RestType, keyVars, regVars, macVars, historyVars
  <1>5. ASSUME NEW k \in Keys, NEW up \in BOOLEAN, KeyEvent(k, up)
        PROVE  RestType'
    <2>1. key_states' \subseteq Keys
      BY <1>5 DEF KeyEvent, KeyMatrix, RestType
    <2>2. QED
      BY <1>5, <2>1 DEF KeyEvent, RestType, mouseVars, regVars, macVars
  <1>6. QED
    BY <1>1, <1>2, <1>3, <1>4, <1>5 DEF Inputs

LEMMA RestMac == RestType /\ Mac => RestType'
PROOF
  <1> SUFFICES ASSUME RestType, Mac PROVE RestType'
    OBVIOUS
  <1>1. CASE AdbBase
    BY <1>1 DEF AdbBase, RestType, mouseVars, keyVars, regVars, macVars, historyVars
  <1>2. CASE ADBOpReset
    BY <1>2, AdbAssumption
    DEF AdbAssumption, ADBOpReset, MouseReg3, KeyReg3, RestType, mouseVars,
        keyVars, macVars, historyVars
  <1>3. ASSUME NEW adr \in Addresses, NEW a \in Addresses, ADBOpAddress(adr, a)
        PROVE  RestType'
    <2>1. mouse_reg_3' \in [addr : Addresses, id : {1, 2, 4}] /\ key_reg_3' \in Addresses
      BY <1>3 DEF ADBOpAddress, RestType
    <2>2. QED
      BY <1>3, <2>1 DEF ADBOpAddress, RestType, mouseVars, keyVars, macVars, historyVars
  <1>4. ASSUME NEW adr \in Addresses, NEW id \in HandlerIDs, ADBOpHandler(adr, id)
        PROVE  RestType'
    <2>1. mouse_reg_3' \in [addr : Addresses, id : {1, 2, 4}]
      BY <1>4, AdbAssumption DEF AdbAssumption, ADBOpHandler, RestType
    <2>2. QED
      BY <1>4, <2>1 DEF ADBOpHandler, RestType, mouseVars, keyVars, macVars, historyVars
  <1>5. QED
    BY <1>1, <1>2, <1>3, <1>4 DEF Mac

\* ADBInterrupt; a pointer that has moved has room to be elsewhere.
LEMMA RestInterrupt == RestType /\ ADBInterrupt => RestType'
PROOF
  <1> SUFFICES ASSUME RestType, ADBInterrupt PROVE RestType'
    OBVIOUS
  <1>1. /\ mouse_x' \in (-MaxMotion)..MaxMotion
        /\ old_mouse_x' \in (-MaxMotion)..MaxMotion
    BY Ranges DEF ADBInterrupt, RestType
  <1>2. mac_x' \in (-MaxMotion)..MaxMotion
    <2>1. mouse_x # 0 => -1 \in (-MaxMotion)..MaxMotion
      BY Ranges DEF RestType
    <2>2. QED
      BY <2>1 DEF ADBInterrupt, RestType, Elsewhere
  <1>3. owed' \in 0..(2 * MotionRange - 1)
    <2>1. CarriedRange \in Nat /\ 2 * CarriedRange \in Nat /\ 2 * CarriedRange > 0
      BY Ranges DEF CarriedRange
    <2>2. mouse_x + CarriedRange \in Int
      BY <2>1, Ranges DEF RestType
    <2>3. Decoded(mouse_x) \in Int
      BY <2>1, <2>2, RemainderIn DEF Decoded
    <2>4. owed - Decoded(mouse_x) \in Int
      BY <2>3, Ranges DEF RestType
    <2>5. (owed - Decoded(mouse_x)) % (2 * MotionRange) \in 0..(2 * MotionRange - 1)
      BY <2>4, Ranges, RemainderIn
    <2>6. QED
      BY <2>5 DEF ADBInterrupt, RestType
  <1>4. mac_button' \subseteq Buttons
    BY DEF ADBInterrupt, RestType
  <1>5. QED
    BY <1>1, <1>2, <1>3, <1>4 DEF ADBInterrupt, RestType, keyVars, regVars

LEMMA RestDispatch == Ring /\ RestType /\ Dispatch => RestType'
PROOF
  <1> SUFFICES ASSUME Ring, RestType, Dispatch PROVE RestType'
    OBVIOUS
  <1>1. CASE Irq60Hz \/ VideoInterruptEnd \/ VblTaskEnd \/ KeyReturns
    BY <1>1 DEF Irq60Hz, VideoInterruptEnd, VblTaskEnd, KeyReturns, Goto,
                RestType, mouseVars, keyVars, regVars, macVars, historyVars
  <1>2. CASE ADBNotInitialized
    BY <1>2 DEF ADBNotInitialized, RestType, mouseVars, keyVars, regVars, macVars
  <1>3. CASE ADBInterrupt
    BY <1>3, RestInterrupt
  <1>4. CASE MouseReturns
    BY <1>4 DEF MouseReturns, RestType, keyVars, regVars, macVars, historyVars
  <1>5. CASE KeyRead
    <2>1. key_buffer[key_read_ptr] \in Event
      BY DEF Ring, RingType
    <2>2. key_buffer[key_read_ptr].code \in Keys
      BY <2>1 DEF Event
    <2>3. mac_keys' \subseteq Keys
      BY <1>5, <2>2 DEF KeyRead, RestType
    <2>4. QED
      BY <1>5, <2>3 DEF KeyRead, RestType, mouseVars, regVars
  <1>6. CASE KeysDone
    BY <1>6 DEF KeysDone, RestType, mouseVars, keyVars, regVars, macVars, historyVars
  <1>7. QED
    BY <1>1, <1>2, <1>3, <1>4, <1>5, <1>6 DEF Dispatch

LEMMA RestNext == Ring /\ RestType /\ [Next]_vars => RestType'
PROOF
  <1>1. RestType /\ UNCHANGED vars => RestType'
    BY DEF RestType, vars, mouseVars, keyVars, regVars, macVars, historyVars
  <1>2. QED
    BY <1>1, RestInputs, RestMac, RestDispatch DEF Next

\* Every variable keeps its type, for every buffer size, every set of keys and
\* every range of motion: the pointers of the key buffer stay inside it and
\* what ADBInterrupt owes the Mac is a remainder again after each report.
THEOREM AdbTypeCorrect == Spec => []TypeOK
PROOF
  <1>1. Init => Ring /\ RestType
    BY RingInit, RestInit
  <1>2. Ring /\ RestType /\ [Next]_vars => Ring' /\ RestType'
    BY RingNext, RestNext
  <1>3. Ring /\ RestType => TypeOK
    BY TypesSplit DEF Ring
  <1>4. QED
    BY <1>1, <1>2, <1>3, PTL DEF Spec

-----------------------------------------------------------------------------
(* Relative motion. *)

\* A multiple of the divisor does not change a remainder.
LEMMA MultipleDropped ==
  ASSUME NEW n \in Nat, n > 0, NEW q \in Int, NEW r \in 0..(n - 1)
  PROVE  (n * q + r) % n = r
PROOF
  <1> DEFINE x == n * q + r
  <1>1. x \in Int /\ x % n \in 0..(n - 1)
    OBVIOUS
  <1>2. x = n * (x \div n) + (x % n) /\ x \div n \in Int
    OBVIOUS
  <1>3. PICK p \in Int : p = q - (x \div n)
    BY <1>2
  <1>4. n * p = (x % n) - r
    BY <1>1, <1>2, <1>3
  <1>5. p = 0
    BY <1>1, <1>4
  <1>6. QED
    BY <1>1, <1>4, <1>5

LEMMA Quotient ==
  ASSUME NEW n \in Nat, n > 0, NEW x \in Int
  PROVE  \E q \in Int : x = n * q + (x % n)
PROOF
  <1>1. x = n * (x \div n) + (x % n) /\ x \div n \in Int
    OBVIOUS
  <1>2. QED
    BY <1>1

\* Numbers that differ by a multiple of the divisor have the same remainder.
LEMMA Congruent ==
  ASSUME NEW n \in Nat, n > 0, NEW x \in Int, NEW y \in Int, NEW q \in Int,
         x = y + n * q
  PROVE  x % n = y % n
PROOF
  <1>1. PICK p \in Int : y = n * p + (y % n)
    BY Quotient
  <1>2. y % n \in 0..(n - 1)
    BY RemainderIn
  <1>3. p + q \in Int /\ x = n * (p + q) + (y % n)
    BY <1>1, <1>2
  <1>4. (n * (p + q) + (y % n)) % n = y % n
    BY <1>2, <1>3, MultipleDropped
  <1>5. QED
    BY <1>3, <1>4

\* Motion that is added to a remainder.
LEMMA AddToRemainder ==
  ASSUME NEW n \in Nat, n > 0, NEW x \in Int, NEW y \in Int
  PROVE  ((x % n) + y) % n = (x + y) % n
PROOF
  <1>1. PICK q \in Int : x = n * q + (x % n)
    BY Quotient
  <1>2. x % n \in Int
    BY RemainderIn
  <1> DEFINE r == x % n
  <1>3. r + y \in Int /\ x + y \in Int /\ x + y = (r + y) + n * q
    BY <1>1, <1>2
  <1> HIDE DEF r
  <1>4. (x + y) % n = (r + y) % n
    BY <1>3, Congruent
  <1>5. QED
    BY <1>4 DEF r

\* What the Mac decodes differs from the motion by a multiple of the seven
\* bits, whichever of the two protocols carries it.
LEMMA DecodedCongruent ==
  ASSUME NEW x \in Int
  PROVE  /\ Decoded(x) \in Int
         /\ \E q \in Int : x = Decoded(x) + (2 * MotionRange) * q
PROOF
  <1> DEFINE r == CarriedRange
  <1>1. r \in Nat /\ 2 * r \in Nat /\ 2 * r > 0 /\ x + r \in Int
    BY Ranges DEF CarriedRange
  <1>2. \E j \in Int : r = j * MotionRange
    <2>1. r = 8 * MotionRange \/ r = 1 * MotionRange
      BY Ranges DEF CarriedRange
    <2>2. QED
      BY <2>1
  <1>3. PICK j \in Int : r = j * MotionRange
    BY <1>2
  <1>4. Decoded(x) = ((x + r) % (2 * r)) - r
    BY DEF Decoded
  <1> HIDE DEF r
  <1>5. PICK q \in Int : x + r = (2 * r) * q + ((x + r) % (2 * r))
    BY <1>1, Quotient
  <1>6. (x + r) % (2 * r) \in Int
    BY <1>1, RemainderIn
  <1>7. Decoded(x) \in Int /\ x = Decoded(x) + (2 * r) * q
    BY <1>1, <1>4, <1>5, <1>6
  <1>8. (2 * r) * q = (2 * MotionRange) * (j * q) /\ j * q \in Int
    BY <1>3, Ranges
  <1>9. QED
    BY <1>7, <1>8

\* A report takes off exactly what the Mac has decoded.
LEMMA ReportedAll ==
  ASSUME NEW x \in Int, owed = x % (2 * MotionRange)
  PROVE  (owed - Decoded(x)) % (2 * MotionRange) = 0
PROOF
  <1> DEFINE n == 2 * MotionRange
  <1>1. n \in Nat /\ n > 0
    BY Ranges
  <1>2. PICK p \in Int : x = Decoded(x) + n * p
    BY DecodedCongruent
  <1>3. Decoded(x) \in Int
    BY DecodedCongruent
  <1>4. owed = x % n
    OBVIOUS
  <1> HIDE DEF n
  <1>5. owed \in Int
    BY <1>1, <1>4, RemainderIn
  <1>6. PICK q \in Int : x = n * q + owed
    BY <1>1, <1>4, Quotient
  <1>7. p - q \in Int /\ owed - Decoded(x) = n * (p - q) + 0 /\ 0 \in 0..(n - 1)
    <2>1. n * (p - q) = n * p - n * q /\ n * p \in Int /\ n * q \in Int
      BY <1>1
    <2>2. owed - Decoded(x) = n * p - n * q
      BY <1>2, <1>3, <1>5, <1>6, <2>1
    <2>3. QED
      BY <1>1, <2>1, <2>2
  <1>8. (n * (p - q) + 0) % n = 0
    BY <1>1, <1>7, MultipleDropped
  <1>9. (owed - Decoded(x)) % n = 0
    BY <1>7, <1>8
  <1>10. QED
    BY <1>9 DEF n

LEMMA ZeroRemainder == 0 % (2 * MotionRange) = 0
PROOF
  BY Ranges

LEMMA MotionMoved ==
  ASSUME RestType, MotionKept, NEW rel \in BOOLEAN, NEW x \in Int, MouseMoved(rel, x)
  PROVE  MotionKept'
PROOF
  <1> DEFINE n == 2 * MotionRange
  <1>1. SUFFICES ASSUME relative_mouse' PROVE owed' = mouse_x' % n
    BY DEF MotionKept
  <1>2. rel
    BY <1>1 DEF MouseMoved
  <1>3. /\ mouse_x' = PointerIn(TRUE) + x
        /\ owed' = ((IF relative_mouse THEN owed ELSE 0) + x) % n
    BY <1>2 DEF MouseMoved
  <1>4. mouse_x \in Int /\ relative_mouse \in BOOLEAN /\ n \in Nat /\ n > 0
    BY Ranges DEF RestType
  <1>5. CASE relative_mouse
    <2>1. mouse_x' = mouse_x + x /\ owed' = ((mouse_x % n) + x) % n
      BY <1>3, <1>4, <1>5 DEF PointerIn, MotionKept
    <2> HIDE DEF n
    <2>2. ((mouse_x % n) + x) % n = (mouse_x + x) % n
      BY <1>4, AddToRemainder
    <2>3. QED
      BY <2>1, <2>2
  <1>6. CASE ~relative_mouse
    <2>1. mouse_x' = 0 + x /\ owed' = (0 + x) % n
      BY <1>3, <1>4, <1>6 DEF PointerIn
    <2>2. QED
      BY <2>1
  <1>7. QED
    BY <1>5, <1>6

LEMMA MotionInputs == RestType /\ MotionKept /\ Inputs => MotionKept'
PROOF
  <1> SUFFICES ASSUME RestType, MotionKept, Inputs PROVE MotionKept'
    OBVIOUS
  <1>1. ASSUME NEW x \in Positions, TouchMoved(x) PROVE MotionKept'
    BY <1>1, MotionMoved, Ranges DEF TouchMoved
  <1>2. ASSUME NEW d \in Moves, StickMoved(d) \/ MappedMove(d) PROVE MotionKept'
    <2>1. relative_mouse \in BOOLEAN /\ d \in Int
      BY Ranges DEF RestType
    <2>2. QED
      BY <1>2, <2>1, MotionMoved DEF StickMoved, MappedMove
  <1>3. CASE SetRelMouseMode
    BY <1>3, ZeroRemainder DEF SetRelMouseMode, MotionKept, PointerIn, RestType
  <1>4. ASSUME NEW b \in Buttons, MouseButton(b) PROVE MotionKept'
    BY <1>4 DEF MouseButton, MotionKept, historyVars
  <1>5. ASSUME NEW k \in Keys, NEW up \in BOOLEAN, KeyEvent(k, up)
        PROVE  MotionKept'
    BY <1>5 DEF KeyEvent, MotionKept, mouseVars
  <1>6. QED
    BY <1>1, <1>2, <1>3, <1>4, <1>5 DEF Inputs

LEMMA MotionDispatch == RestType /\ MotionKept /\ Dispatch => MotionKept'
PROOF
  <1> SUFFICES ASSUME RestType, MotionKept, Dispatch PROVE MotionKept'
    OBVIOUS
  <1>1. CASE ADBInterrupt
    <2>1. SUFFICES ASSUME relative_mouse PROVE owed' = 0 /\ mouse_x' = 0
      BY <1>1, ZeroRemainder DEF ADBInterrupt, MotionKept
    <2>2. mouse_x \in Int /\ owed = mouse_x % (2 * MotionRange)
      BY <2>1, Ranges DEF RestType, MotionKept
    <2>3. CASE MouseChanged
      <3>1. (owed - Decoded(mouse_x)) % (2 * MotionRange) = 0
        BY <2>2, ReportedAll
      <3>2. QED
        BY <1>1, <2>1, <2>3, <3>1 DEF ADBInterrupt
    <2>4. CASE ~MouseChanged
      <3>1. mouse_x = 0
        BY <2>1, <2>4 DEF MouseChanged
      <3>2. QED
        BY <1>1, <2>1, <2>2, <2>4, <3>1, ZeroRemainder DEF ADBInterrupt
    <2>5. QED
      BY <2>3, <2>4
  <1>2. CASE Irq60Hz \/ VideoInterruptEnd \/ VblTaskEnd \/ KeyReturns
    BY <1>2 DEF Irq60Hz, VideoInterruptEnd, VblTaskEnd, KeyReturns, Goto,
                MotionKept, mouseVars, historyVars
  <1>3. CASE ADBNotInitialized \/ MouseReturns \/ KeyRead \/ KeysDone
    BY <1>3 DEF ADBNotInitialized, MouseReturns, KeyRead, KeysDone,
                MotionKept, mouseVars, historyVars
  <1>4. QED
    BY <1>1, <1>2, <1>3 DEF Dispatch

LEMMA MotionNext == RestType /\ MotionKept /\ [Next]_vars => MotionKept'
PROOF
  <1>1. MotionKept /\ UNCHANGED vars => MotionKept'
    BY DEF MotionKept, vars, mouseVars, historyVars
  <1>2. MotionKept /\ Mac => MotionKept'
    BY DEF Mac, AdbBase, ADBOpReset, ADBOpAddress, ADBOpHandler, MotionKept,
           mouseVars, historyVars
  <1>3. QED
    BY <1>1, <1>2, MotionInputs, MotionDispatch DEF Next

\* For every range of motion and both mouse protocols: relative motion that
\* ADBMouseMoved has added and ADBInterrupt has not reported is in mouse_x,
\* up to the bits that the protocol carries, whatever mode changes, handler
\* changes and early returns lie between.
THEOREM NoMotionLost == Spec => []MotionKept
PROOF
  <1>1. Init => Ring /\ RestType /\ MotionKept
    <2>1. Init => MotionKept
      BY ZeroRemainder DEF Init, MotionKept
    <2>2. QED
      BY <2>1, RingInit, RestInit
  <1>2. Ring /\ RestType /\ MotionKept /\ [Next]_vars
          => Ring' /\ RestType' /\ MotionKept'
    BY RingNext, RestNext, MotionNext
  <1>3. QED
    BY <1>1, <1>2, PTL DEF Spec

-----------------------------------------------------------------------------
(* The key matrix. *)

\* The sequence s has no event of key k.
NoEvent(s, k) == \A n \in 1..Len(s) : s[n].code # k

\* The n-th event of s is the last one of key k.
LastEvent(s, k, n) ==
  s[n].code = k /\ \A j \in 1..Len(s) : s[j].code = k => j <= n

\* MatrixFollows for one key, with the last event where the CHOOSE has it.
Follows(k) ==
  \/ NoEvent(pending, k) /\ (k \in key_states <=> k \in mac_keys)
  \/ \E n \in 1..Len(pending) :
       LastEvent(pending, k, n) /\ (k \in key_states <=> ~pending[n].up)

Matrix == \A k \in Keys : Follows(k)

LEMMA MatrixSame ==
  Matrix /\ UNCHANGED <<pending, key_states, mac_keys>> => Matrix'
PROOF
  BY DEF Matrix, Follows, NoEvent, LastEvent

LEMMA MatrixKeyEvent ==
  ASSUME Ring, Matrix, NEW c \in Keys, NEW up \in BOOLEAN, KeyEvent(c, up)
  PROVE  Matrix'
PROOF
  <1> DEFINE e == [code |-> c, up |-> up]
             L == Len(pending)
  <1>1. pending \in Seq(Event) /\ L \in Nat
    BY DEF Ring, RingType
  <1>2. e \in Event /\ e.code = c /\ e.up = up
    BY DEF Event
  <1>3. /\ pending' = Append(pending, e) /\ mac_keys' = mac_keys
        /\ key_states' = IF up THEN key_states \ {c} ELSE key_states \cup {c}
    BY DEF KeyEvent, KeyMatrix, macVars
  <1> HIDE DEF e
  <1>4. /\ Len(pending') = L + 1 /\ pending'[L + 1] = e
        /\ \A n \in 1..L : pending'[n] = pending[n]
    BY <1>1, <1>2, <1>3
  <1> HIDE DEF L
  <1>5. SUFFICES ASSUME NEW k \in Keys PROVE Follows(k)'
    BY DEF Matrix
  <1>6. CASE k = c
    <2>1. LastEvent(pending', k, L + 1) /\ L + 1 \in 1..Len(pending')
      BY <1>1, <1>2, <1>4, <1>6 DEF LastEvent
    <2>2. k \in key_states' <=> ~pending'[L + 1].up
      BY <1>2, <1>3, <1>4, <1>6
    <2>3. QED
      BY <2>1, <2>2 DEF Follows
  <1>7. CASE k # c
    <2>1. (k \in key_states' <=> k \in key_states) /\ mac_keys' = mac_keys
      BY <1>3, <1>7
    <2>2. CASE NoEvent(pending, k) /\ (k \in key_states <=> k \in mac_keys)
      <3>1. NoEvent(pending', k)
        BY <1>1, <1>2, <1>4, <1>7, <2>2 DEF NoEvent, L
      <3>2. QED
        BY <2>1, <2>2, <3>1 DEF Follows
    <2>3. CASE \E n \in 1..L :
                 LastEvent(pending, k, n) /\ (k \in key_states <=> ~pending[n].up)
      <3>1. PICK n \in 1..L :
                   LastEvent(pending, k, n) /\ (k \in key_states <=> ~pending[n].up)
        BY <2>3
      <3>2. n \in 1..Len(pending') /\ pending'[n] = pending[n]
        BY <1>1, <1>4, <3>1
      <3>3. LastEvent(pending', k, n)
        <4>1. ASSUME NEW j \in 1..Len(pending'), pending'[j].code = k PROVE j <= n
          <5>1. j # L + 1
            BY <1>2, <1>4, <1>7, <4>1
          <5>2. j \in 1..L
            BY <1>1, <1>4, <5>1
          <5>3. QED
            BY <1>4, <3>1, <4>1, <5>2 DEF LastEvent, L
        <4>2. QED
          BY <3>1, <3>2, <4>1 DEF LastEvent
      <3>4. QED
        BY <2>1, <3>1, <3>2, <3>3 DEF Follows
    <2>4. QED
      BY <2>2, <2>3 DEF Matrix, Follows, L
  <1>8. QED
    BY <1>6, <1>7

LEMMA MatrixKeyRead ==
  ASSUME Ring, Matrix, KeyRead
  PROVE  Matrix'
PROOF
  <1> DEFINE e == Head(pending)
             L == Len(pending)
  <1>1. pending \in Seq(Event) /\ L \in Nat
    BY DEF Ring, RingType
  <1>2. pending # << >> /\ key_buffer[key_read_ptr] = e
    BY RingKeyRead
  <1>3. /\ pending' = Tail(pending) /\ key_states' = key_states
        /\ mac_keys' = IF e.up THEN mac_keys \ {e.code} ELSE mac_keys \cup {e.code}
    BY <1>2 DEF KeyRead
  <1>4. /\ L > 0 /\ Len(pending') = L - 1 /\ pending[1] = e
        /\ \A n \in 1..(L - 1) : pending'[n] = pending[n + 1]
    BY <1>1, <1>2, <1>3
  <1> HIDE DEF e, L
  <1>5. SUFFICES ASSUME NEW k \in Keys PROVE Follows(k)'
    BY DEF Matrix
  <1>6. CASE NoEvent(pending, k) /\ (k \in key_states <=> k \in mac_keys)
    <2>1. k # e.code
      <3>1. 1 \in 1..L
        BY <1>1, <1>4
      <3>2. QED
        BY <1>4, <1>6, <3>1 DEF NoEvent, L
    <2>2. NoEvent(pending', k)
      <3>1. ASSUME NEW n \in 1..Len(pending') PROVE pending'[n].code # k
        <4>1. n \in 1..(L - 1) /\ n + 1 \in 1..L
          BY <1>1, <1>4
        <4>2. QED
          BY <1>4, <1>6, <4>1 DEF NoEvent, L
      <3>2. QED
        BY <3>1 DEF NoEvent
    <2>3. QED
      BY <1>3, <1>6, <2>1, <2>2 DEF Follows
  <1>7. CASE \E n \in 1..L :
               LastEvent(pending, k, n) /\ (k \in key_states <=> ~pending[n].up)
    <2>1. PICK n \in 1..L :
                 LastEvent(pending, k, n) /\ (k \in key_states <=> ~pending[n].up)
      BY <1>7
    <2>2. CASE n = 1
      <3>1. NoEvent(pending', k)
        <4>1. ASSUME NEW j \in 1..Len(pending'), pending'[j].code = k PROVE FALSE
          <5>1. j \in 1..(L - 1) /\ j + 1 \in 1..L
            BY <1>1, <1>4
          <5>2. pending[j + 1].code = k
            BY <1>4, <4>1, <5>1
          <5>3. j + 1 <= 1
            BY <2>1, <2>2, <5>1, <5>2 DEF LastEvent, L
          <5>4. QED
            BY <5>1, <5>3
        <4>2. QED
          BY <4>1 DEF NoEvent
      <3>2. e.code = k /\ (k \in key_states <=> ~e.up)
        BY <1>4, <2>1, <2>2 DEF LastEvent
      <3>3. k \in mac_keys' <=> ~e.up
        BY <1>3, <3>2
      <3>4. QED
        BY <1>3, <3>1, <3>2, <3>3 DEF Follows
    <2>3. CASE n # 1
      <3>1. n - 1 \in 1..Len(pending') /\ n - 1 \in 1..(L - 1) /\ (n - 1) + 1 = n
        BY <1>1, <1>4, <2>3
      <3>2. pending'[n - 1] = pending[n]
        BY <1>4, <3>1
      <3>3. LastEvent(pending', k, n - 1)
        <4>1. ASSUME NEW j \in 1..Len(pending'), pending'[j].code = k PROVE j <= n - 1
          <5>1. j \in 1..(L - 1) /\ j + 1 \in 1..L
            BY <1>1, <1>4
          <5>2. pending[j + 1].code = k
            BY <1>4, <4>1, <5>1
          <5>3. j + 1 <= n
            BY <2>1, <5>1, <5>2 DEF LastEvent, L
          <5>4. QED
            BY <5>1, <5>3
        <4>2. QED
          BY <2>1, <3>2, <4>1 DEF LastEvent
      <3>4. QED
        BY <1>3, <2>1, <3>1, <3>2, <3>3 DEF Follows
    <2>4. QED
      BY <2>2, <2>3
  <1>8. QED
    BY <1>6, <1>7 DEF Matrix, Follows, L

LEMMA MatrixNext == Ring /\ Matrix /\ [Next]_vars => Matrix'
PROOF
  <1> SUFFICES ASSUME Ring, Matrix, [Next]_vars PROVE Matrix'
    OBVIOUS
  <1>1. ASSUME NEW k \in Keys, NEW up \in BOOLEAN, KeyEvent(k, up) PROVE Matrix'
    BY <1>1, MatrixKeyEvent
  <1>2. CASE KeyRead
    BY <1>2, MatrixKeyRead
  <1>3. SUFFICES ASSUME UNCHANGED <<pending, key_states, mac_keys>> PROVE Matrix'
    <2>1. ASSUME NEW rel, NEW x, MouseMoved(rel, x)
          PROVE  UNCHANGED <<pending, key_states, mac_keys>>
      BY <2>1 DEF MouseMoved, keyVars, macVars
    <2>2. CASE SetRelMouseMode
      BY <1>3, <2>2 DEF SetRelMouseMode, keyVars, macVars
    <2>3. ASSUME NEW b \in Buttons, MouseButton(b)
          PROVE  UNCHANGED <<pending, key_states, mac_keys>>
      BY <2>3 DEF MouseButton, keyVars, macVars, historyVars
    <2>4. CASE Mac
      BY <1>3, <2>4 DEF Mac, AdbBase, ADBOpReset, ADBOpAddress, ADBOpHandler,
                        keyVars, macVars, historyVars
    <2>5. ASSUME NEW from, NEW to, Goto(from, to)
          PROVE  UNCHANGED <<pending, key_states, mac_keys>>
      BY <2>5 DEF Goto, keyVars, macVars, historyVars
    <2>6. CASE ADBNotInitialized \/ ADBInterrupt
      BY <1>3, <2>6 DEF ADBNotInitialized, ADBInterrupt, keyVars, macVars
    <2>7. CASE MouseReturns \/ KeysDone
      BY <1>3, <2>7 DEF MouseReturns, KeysDone, keyVars, macVars, historyVars
    <2>8. CASE UNCHANGED vars
      BY <1>3, <2>8 DEF vars, keyVars, macVars, historyVars
    <2>9. CASE Inputs
      BY <1>1, <1>3, <2>1, <2>2, <2>3, <2>9
      DEF Inputs, TouchMoved, StickMoved, MappedMove
    <2>10. CASE Dispatch
      BY <1>2, <1>3, <2>5, <2>6, <2>7, <2>10
      DEF Dispatch, Irq60Hz, VideoInterruptEnd, VblTaskEnd, KeyReturns
    <2>11. QED
      BY <2>4, <2>8, <2>9, <2>10 DEF Next
  <1>4. QED
    BY <1>3, MatrixSame

\* The CHOOSE of MatrixFollows picks the last event.
LEMMA MatrixIs == Ring /\ Matrix => MatrixFollows
PROOF
  <1> SUFFICES ASSUME Ring, Matrix PROVE MatrixFollows
    OBVIOUS
  <1>1. Len(pending) \in Nat
    BY DEF Ring, RingType
  <1>2. SUFFICES ASSUME NEW k \in Keys
                 PROVE  LET of == {n \in 1..Len(pending) : pending[n].code = k}
                            last == CHOOSE n \in of : \A j \in of : j <= n
                        IN  k \in key_states <=>
                              IF of = {} THEN k \in mac_keys ELSE ~pending[last].up
    BY DEF MatrixFollows
  <1> DEFINE of == {n \in 1..Len(pending) : pending[n].code = k}
             last == CHOOSE n \in of : \A j \in of : j <= n
  <1>3. CASE NoEvent(pending, k) /\ (k \in key_states <=> k \in mac_keys)
    <2>1. of = {}
      BY <1>3 DEF NoEvent
    <2>2. QED
      BY <1>3, <2>1
  <1>4. CASE \E n \in 1..Len(pending) :
               LastEvent(pending, k, n) /\ (k \in key_states <=> ~pending[n].up)
    <2>1. PICK n \in 1..Len(pending) :
                 LastEvent(pending, k, n) /\ (k \in key_states <=> ~pending[n].up)
      BY <1>4
    <2>2. n \in of /\ \A j \in of : j <= n
      BY <2>1 DEF LastEvent
    <2>3. last \in of /\ \A j \in of : j <= last
      BY <2>2
    <2>4. last = n
      <3>1. last <= n /\ n <= last
        BY <2>2, <2>3
      <3>2. last \in Nat /\ n \in Nat
        BY <1>1, <2>3
      <3> HIDE DEF last
      <3>3. QED
        BY <3>1, <3>2
    <2>5. QED
      BY <2>1, <2>2, <2>4
  <1>5. QED
    BY <1>3, <1>4 DEF Matrix, Follows

\* For every set of keys and every buffer size: the matrix that Talk reports
\* is at any time what the Mac will have been told once the events in the
\* buffer have been delivered.
THEOREM MatrixAgrees == Spec => []MatrixFollows
PROOF
  <1>1. Init => Ring /\ Matrix
    <2>1. Init => Matrix
      BY DEF Init, Matrix, Follows, NoEvent
    <2>2. QED
      BY <2>1, RingInit
  <1>2. Ring /\ Matrix /\ [Next]_vars => Ring' /\ Matrix'
    BY RingNext, MatrixNext
  <1>3. QED
    BY <1>1, <1>2, MatrixIs, PTL DEF Spec

-----------------------------------------------------------------------------
(* Buttons, and what a cleared flag means. *)

\* The buttons of the two-button protocol.
Low(s) == s \cap {0, 1}

\* ADBInterrupt runs with its flag set.  Outside the mouse handler the Mac
\* knows the old buttons, in it the copied ones; behind it nothing has
\* changed since the copy.  A clear flag leaves no event behind.
Buttoned ==
  /\ cpu \in {"adb", "mouse", "keys", "key"} => adb_flag
  /\ cpu = "mouse" => mb = mouse_button /\ Low(mac_button) = Low(mouse_button)
  /\ cpu # "mouse" => Low(mac_button) = Low(old_mouse_button)
  /\ cpu \in {"keys", "key"} => old_mouse_button = mouse_button
  /\ ~adb_flag /\ ~missed => pending = << >> /\ old_mouse_button = mouse_button

LEMMA ButtonedInputs == Buttoned /\ Inputs => Buttoned'
PROOF
  <1> SUFFICES ASSUME Buttoned, Inputs PROVE Buttoned'
    OBVIOUS
  <1>1. ASSUME NEW rel, NEW x, MouseMoved(rel, x) PROVE Buttoned'
    BY <1>1 DEF MouseMoved, Buttoned, macVars
  <1>2. CASE SetRelMouseMode
    BY <1>2 DEF SetRelMouseMode, Buttoned, macVars
  <1>3. ASSUME NEW b \in Buttons, MouseButton(b) PROVE Buttoned'
    BY <1>3 DEF MouseButton, Buttoned, macVars, historyVars
  <1>4. ASSUME NEW k \in Keys, NEW up \in BOOLEAN, KeyEvent(k, up) PROVE Buttoned'
    BY <1>4 DEF KeyEvent, Buttoned, mouseVars, macVars
  <1>5. QED
    BY <1>1, <1>2, <1>3, <1>4 DEF Inputs, TouchMoved, StickMoved, MappedMove

LEMMA ButtonedInterrupt == RestType /\ Buttoned /\ ADBInterrupt => Buttoned'
PROOF
  <1> SUFFICES ASSUME RestType, Buttoned, ADBInterrupt PROVE Buttoned'
    OBVIOUS
  <1>1. /\ cpu = "adb" /\ adb_flag /\ adb_flag' = adb_flag /\ mb' = mouse_button
        /\ mouse_button' = mouse_button /\ old_mouse_button' = old_mouse_button
    BY DEF ADBInterrupt, Buttoned
  <1>2. CASE MouseChanged
    <2>1. mac_button' = (mac_button \ Carried) \cup (mouse_button \cap Carried) /\ cpu' = "mouse"
      BY <1>2 DEF ADBInterrupt
    <2>2. Low(Buttons) \subseteq Carried
      BY DEF Low, Carried
    <2>3. mac_button \subseteq Buttons /\ mouse_button \subseteq Buttons
      BY DEF RestType
    <2>4. Low(mac_button') = Low(mouse_button)
      BY <2>1, <2>2, <2>3 DEF Low
    <2>5. QED
      BY <1>1, <2>1, <2>4 DEF Buttoned
  <1>3. CASE ~MouseChanged
    <2>1. mac_button' = mac_button /\ cpu' = "keys" /\ mouse_button = old_mouse_button
      BY <1>3 DEF ADBInterrupt, MouseChanged
    <2>2. QED
      BY <1>1, <2>1 DEF Buttoned
  <1>4. QED
    BY <1>2, <1>3

LEMMA ButtonedDispatch == Ring /\ RestType /\ Buttoned /\ Dispatch => Buttoned'
PROOF
  <1> SUFFICES ASSUME Ring, RestType, Buttoned, Dispatch PROVE Buttoned'
    OBVIOUS
  <1>1. CASE Irq60Hz \/ VideoInterruptEnd \/ VblTaskEnd \/ KeyReturns
    BY <1>1 DEF Irq60Hz, VideoInterruptEnd, VblTaskEnd, KeyReturns, Goto,
                Buttoned, mouseVars, macVars, historyVars
  <1>2. CASE ADBNotInitialized
    BY <1>2 DEF ADBNotInitialized, Buttoned, mouseVars, macVars
  <1>3. CASE ADBInterrupt
    BY <1>3, ButtonedInterrupt
  <1>4. CASE MouseReturns
    BY <1>4 DEF MouseReturns, Buttoned, macVars, historyVars
  <1>5. CASE KeyRead
    BY <1>5 DEF KeyRead, Buttoned, mouseVars
  <1>6. CASE KeysDone
    <2>1. Len(pending) = 0
      <3>1. /\ Len(pending) \in Nat /\ Len(pending) < KeyBufferSize
            /\ key_read_ptr = Slot(key_read_ptr, Len(pending) + 1)
        BY <1>6, Sizes DEF KeysDone, Ring, RingType
      <3>2. QED
        BY <3>1, Sizes DEF Slot, Ring, RingType
    <2>2. pending = << >>
      BY <2>1 DEF Ring, RingType
    <2>3. QED
      BY <1>6, <2>2 DEF KeysDone, Buttoned, mouseVars, macVars, historyVars
  <1>7. QED
    BY <1>1, <1>2, <1>3, <1>4, <1>5, <1>6 DEF Dispatch

LEMMA ButtonedNext == Ring /\ RestType /\ Buttoned /\ [Next]_vars => Buttoned'
PROOF
  <1>1. Buttoned /\ UNCHANGED vars => Buttoned'
    BY DEF Buttoned, vars, mouseVars, macVars, historyVars
  <1>2. Buttoned /\ Mac => Buttoned'
    BY DEF Mac, AdbBase, ADBOpReset, ADBOpAddress, ADBOpHandler, Buttoned,
           mouseVars, macVars, historyVars
  <1>3. QED
    BY <1>1, <1>2, ButtonedInputs, ButtonedDispatch DEF Next

LEMMA CaughtUpIs == RestType /\ Matrix /\ Buttoned => CaughtUp
PROOF
  <1> SUFFICES ASSUME RestType, Matrix, Buttoned, ~adb_flag, ~missed
               PROVE  /\ pending = << >>
                      /\ mac_keys = key_states
                      /\ old_mouse_button = mouse_button
                      /\ mac_button \cap {0, 1} = mouse_button \cap {0, 1}
    BY DEF CaughtUp
  <1>1. pending = << >> /\ old_mouse_button = mouse_button /\ cpu # "mouse"
    BY DEF Buttoned
  <1>2. mac_button \cap {0, 1} = mouse_button \cap {0, 1}
    BY <1>1 DEF Buttoned, Low
  <1>3. \A k \in Keys : k \in key_states <=> k \in mac_keys
    <2>1. Len(pending) = 0
      BY <1>1
    <2>2. 1..Len(pending) = {}
      BY <2>1
    <2>3. QED
      BY <2>2 DEF Matrix, Follows
  <1>4. mac_keys = key_states
    BY <1>3 DEF RestType
  <1>5. QED
    BY <1>1, <1>2, <1>4

\* For every set of keys and buttons: when INTFLAG_ADB is clear and
\* ADBInterrupt has not returned early, the Mac has been told every key and
\* every button.  Clearing the flag after the handlers, which run with
\* interrupts served, hides nothing because input comes only from
\* VideoInterrupt, before the flag is tested.
THEOREM AllDelivered == Spec => []CaughtUp
PROOF
  <1> DEFINE Inv == Ring /\ RestType /\ Matrix /\ Buttoned
  <1>1. Init => Inv
    <2>1. Init => Matrix
      BY DEF Init, Matrix, Follows, NoEvent
    <2>2. Init => Buttoned
      BY DEF Init, Buttoned
    <2>3. QED
      BY <2>1, <2>2, RingInit, RestInit
  <1>2. Inv /\ [Next]_vars => Inv'
    BY RingNext, RestNext, MatrixNext, ButtonedNext
  <1>3. Inv => CaughtUp
    BY CaughtUpIs
  <1> HIDE DEF Inv
  <1>4. QED
    BY <1>1, <1>2, <1>3, PTL DEF Spec

=============================================================================

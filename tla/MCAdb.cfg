SPECIFICATION Spec
CONSTANTS
  Keys = {k1}
  Buttons = {0, 2}
  Addresses = {2, 3}
  HandlerIDs = {1, 4}
  KeyBufferSize = 3
  MaxPending = 2
  Positions = {1}
  Moves <- MCMoves
  MaxMotion = 1
  MotionRange = 1
INVARIANTS
  TypeOK
  KeysInOrder
  MatrixFollows
  CaughtUp
  MotionKept

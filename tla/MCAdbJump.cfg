SPECIFICATION Spec
CONSTANTS
  Keys = {k1}
  Buttons = {0}
  Addresses = {2, 3}
  HandlerIDs = {1, 4}
  KeyBufferSize = 2
  MaxPending = 1
  Positions = {1, 2}
  Moves <- MCMoves
  MaxMotion = 2
  MotionRange = 2
INVARIANT
  PointerAtFinger

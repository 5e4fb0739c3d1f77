SPECIFICATION Spec
CONSTANTS
  Fingers = {f1, f2, f3, f4}
  MAX_NUM_FINGERS = 3
  MAX_TAP_TIME = 1
  SIMULATED_CLICK_DURATION = 1
  MaxDelay = 2
  Keys <- MCKeys
  Cmd = "cmd"
  Opt = "opt"
  Ctrl = "ctrl"
  Shift = "shift"
  Caps = "caps"
  Hid = {"a", "lock"}
  mac_key <- MCmac_key
  NoKey = "nokey"
  NoCode = "none"
  Slots = 2
  Entries = 1
  Maps <- MCMaps
  Sessions <- MCSessions
SYMMETRY Symmetric
INVARIANTS
  TypeOK
  DragHeld
  FingersGone
  NothingStuck
PROPERTY
  PressSeen

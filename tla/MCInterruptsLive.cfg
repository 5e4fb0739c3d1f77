SPECIFICATION FairSpec
CONSTANTS
  RomClassic = TRUE
  IsrMayUnmask = FALSE
  ProgramMasks = {0, 7}
  MaxDepth = 3
PROPERTY
  EventuallyHandled

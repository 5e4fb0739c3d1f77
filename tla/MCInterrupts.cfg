SPECIFICATION Spec
CONSTANTS
  RomClassic = FALSE
  IsrMayUnmask = FALSE
  ProgramMasks = {0, 1, 7}
  MaxDepth = 4
INVARIANTS
  TypeOK
  NoForgottenInterrupt
  RequestKept
  StreamWaitAnswered
  ProperNesting
  DispatcherNotReentered

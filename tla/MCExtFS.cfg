SPECIFICATION Spec
CONSTANTS
  Files = {f1}
  Dirs = {d1}
  Root = root
  None = none
  Loose = loose
  Names = {"a", "b", "long"}
  Guest <- MCGuest
  Empty = "empty"
  MaxItems = 4
  MaxLoose = 1
INVARIANTS
  TypeOK
  UniqueIds
  ParentAgrees
  IdKept
  ForkStays

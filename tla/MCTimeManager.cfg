SPECIFICATION FairSpec
CONSTANTS
  HostWord = 64
  MacWord = 16
  Milli = 2
  NoTask = none
  Tasks = {t1, t2}
  NumDescs = 2
  Delays <- MCDelays
  MaxTime = 1
  MaxWakeup = 1
  MaxNest = 2
INVARIANTS
  TypeOK
  OneDescriptor
  ActiveInstalled
PROPERTIES
  ExpiredServed
  Promise

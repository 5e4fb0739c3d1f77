SPECIFICATION HSpec
CONSTANTS
  HostWord = 64
  MacWord = 16
  Milli = 2
  NoTask = none
  Tasks = {t1, t2}
  NumDescs = 2
  Delays <- MCDelays
  MaxTime = 1
  MaxWakeup = 2
  MaxNest = 2
INVARIANT
  RelativeToLast

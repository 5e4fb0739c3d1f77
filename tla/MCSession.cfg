SPECIFICATION Spec
CONSTANTS
  FloppyImages = {f1}
  CDImages = {c1, c2}
  HardDisk = hd
  Writable = {f1, hd}
  Partitioned = {}
  Ext <- MCExt
  None = none
  NoHandle = nohandle
  Values = {v1, default}
  Zero = zero
  Default = default
  Torn = torn
  Gui = TRUE
INVARIANTS
  TypeOK
  InDrive
  MountedStays
  WillBeAnnounced
  MenuFinds
  SavedAtQuit
  WatchdogSound
SYMMETRY Symmetry

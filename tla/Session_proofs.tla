--------------------------- MODULE Session_proofs ---------------------------
(***************************************************************************)
(* Proofs about Session, for any images, any contents of the parameter RAM *)
(* and any number of launches.                                             *)
(***************************************************************************)
EXTENDS Session, TLAPS

(***************************************************************************)
(* Types.                                                                  *)
(***************************************************************************)
LEMMA NoDrivesFields ==
    /\ NoDrives.fh = [k \in Kinds |-> NoHandle]
    /\ NoDrives.inserted = [k \in Removable |-> FALSE]
    /\ NoDrives.driver = [k \in Kinds |-> "closed"]
    /\ NoDrives.info = [k \in Kinds |-> [tbm |-> FALSE, ro |-> FALSE, part |-> None]]
    /\ NoDrives.inPlace = [k \in Kinds |-> 0]
    /\ NoDrives.mounted = [k \in Kinds |-> None]
PROOF
  BY DEF NoDrives

LEMMA StartTypes == DriversStart => DriveTypeOK
PROOF
  BY NoDrivesFields DEF DriversStart, DriveTypeOK

LEMMA ExitTypes == DriversExit => DriveTypeOK'
PROOF
  BY NoDrivesFields DEF DriversExit, DriveTypeOK

\* Handles.
Handles == [img : Images \cup {None}, ro : BOOLEAN]

LEMMA HandleFields ==
  ASSUME NEW i \in Images \cup {None}, NEW b \in BOOLEAN
  PROVE  /\ [img |-> i, ro |-> b] \in Handles
         /\ [img |-> i, ro |-> b] # NoHandle
         /\ [img |-> i, ro |-> b].img = i
         /\ [img |-> i, ro |-> b].ro = b
PROOF
  BY DriveAssumption DEF Handles

LEMMA OpenTypes ==
  ASSUME NEW k \in Kinds, NEW i \in Images \cup {None}, NEW h \in Sys_open(k, i)
  PROVE  /\ h \in {NoHandle} \cup Handles
         /\ i = None => h \in Handles /\ ~IsDiskInserted(h)
         /\ IsDiskInserted(h) => h \in Handles /\ (h.ro \/ h.img \in Writable)
PROOF
  <1>1. CASE i = None
    <2>1. h = [img |-> None, ro |-> (k = "cdrom")]
      BY <1>1 DEF Sys_open
    <2>2. (k = "cdrom") \in BOOLEAN /\ None \in Images \cup {None}
      OBVIOUS
    <2>3. h \in Handles /\ h.img = None
      BY <2>1, <2>2, HandleFields, Zenon
    <2>4. QED
      BY <2>3 DEF IsDiskInserted
  <1>2. CASE i # None /\ h # NoHandle
    <2>1. h = [img |-> i, ro |-> (k = "cdrom" \/ i \notin Writable)]
      BY <1>2 DEF Sys_open
    <2>2. (k = "cdrom" \/ i \notin Writable) \in BOOLEAN
      OBVIOUS
    <2>3. h \in Handles /\ h.img = i /\ h.ro = (k = "cdrom" \/ i \notin Writable)
      BY <2>1, <2>2, HandleFields, Zenon
    <2>4. h.ro \/ h.img \in Writable
      BY <2>3
    <2>5. QED
      BY <1>2, <2>3, <2>4
  <1>3. CASE h = NoHandle
    <2>1. i # None
      <3>1. ASSUME i = None PROVE FALSE
        <4>1. h = [img |-> None, ro |-> (k = "cdrom")]
          BY <3>1 DEF Sys_open
        <4>2. (k = "cdrom") \in BOOLEAN /\ None \in Images \cup {None}
          OBVIOUS
        <4>3. h # NoHandle
          BY <4>1, <4>2, HandleFields, Zenon
        <4>4. QED
          BY <1>3, <4>3
      <3>2. QED
        BY <3>1
    <2>2. QED
      BY <1>3, <2>1 DEF IsDiskInserted
  <1>4. QED
    BY <1>1, <1>2, <1>3

(***************************************************************************)
(* The parameter RAM.  It does not depend on the drives.                   *)
(***************************************************************************)
Phases == {"start", "ready", "running", "saving", "over", "died"}

XTypes == XpramTypeOK /\ phase \in Phases /\ reached \in BOOLEAN

\* What the watchdog's copy says while the Mac may run.
CopySaved ==
    /\ phase = "start" => last_xpram = Zero /\ saver = "none"
    /\ phase = "ready" => xpram # Zero /\ last_xpram = Zero /\ saver = "none"
    /\ phase = "running" =>
         /\ xpram # Zero
         /\ saver = "idle" /\ ~crossed /\ ~failed /\ last_xpram # Zero => file = last_xpram
         /\ saver # "idle" /\ ~crossed => xpram = last_xpram

\* What the Mac last wrote is in memory. When all is over a write that ended
\* well has put it into the file, and only a truncation after it, whose write
\* is still to come, can have taken it away.
LastKept ==
    /\ reached => xpram = kept
    /\ SavedAtQuit

LEMMA XTypesInit == Init => XTypes
PROOF
  BY XpramAssumption DEF Init, XTypes, XpramTypeOK, XpramStart, Contents, Phases

LEMMA XTypesNext == XTypes /\ [Next]_vars => XTypes'
PROOF
  <1> SUFFICES ASSUME XTypes, [Next]_vars PROVE XTypes'
    OBVIOUS
  <1> USE DEF XTypes, XpramTypeOK, Phases
  <1>1. CASE Dies
    BY <1>1 DEF Dies, xpramVars
  <1>2. CASE InitAll
    <2>1. Loaded \subseteq Contents
      BY XpramAssumption DEF Loaded, Contents
    <2>2. QED
      BY <1>2, <2>1 DEF InitAll, XPRAMInit
  <1>3. CASE Start680x0
    BY <1>3 DEF Start680x0, WatchdogStart
  <1>4. CASE QuitEmulator
    BY <1>4 DEF QuitEmulator, ExitOpens, ExitCannotOpen
  <1>5. CASE ExitAll
    BY <1>5 DEF ExitAll, ExitWrites
  <1>6. CASE Relaunch
    BY <1>6 DEF Relaunch, XpramRestart, Contents
  <1>7. CASE Tick
    <2>1. CASE WatchdogCopies
      BY <1>7, <2>1 DEF Tick, WatchdogCopies
    <2>2. CASE WatchdogOpens
      BY <1>7, <2>2 DEF Tick, WatchdogOpens
    <2>3. CASE WatchdogWrites
      BY <1>7, <2>3 DEF Tick, WatchdogWrites
    <2>4. QED
      BY <1>7, <2>1, <2>2, <2>3 DEF Tick
  <1>8. CASE Emulation
    <2>1. CASE UNCHANGED xpramVars
      BY <1>8, <2>1 DEF Emulation, xpramVars
    <2>2. CASE \E v \in Values : MacWrites(v)
      <3>1. PICK v \in Values : MacWrites(v)
        BY <2>2
      <3>2. (crossed \/ saver # "idle") \in BOOLEAN
        OBVIOUS
      <3>3. crossed' \in BOOLEAN
        BY <3>1, <3>2, Zenon DEF MacWrites
      <3>4. QED
        BY <1>8, <3>1, <3>3 DEF Emulation, MacWrites, Contents
    <2>3. QED
      BY <1>8, <2>1, <2>2 DEF Emulation
  <1>9. CASE UNCHANGED vars
    BY <1>9 DEF vars, xpramVars
  <1>10. QED
    BY <1>1, <1>2, <1>3, <1>4, <1>5, <1>6, <1>7, <1>8, <1>9 DEF Next

LEMMA CopySavedNext == XTypes /\ CopySaved /\ [Next]_vars => CopySaved'
PROOF
  <1> SUFFICES ASSUME XTypes, CopySaved, [Next]_vars PROVE CopySaved'
    OBVIOUS
  <1> USE DEF CopySaved
  <1>1. CASE QuitEmulator \/ ExitAll \/ Dies
    BY <1>1 DEF QuitEmulator, ExitAll, Dies
  <1>2. CASE InitAll
    <2>1. Zero \notin Loaded
      BY XpramAssumption DEF Loaded, XTypes, XpramTypeOK, Contents
    <2>2. QED
      BY <1>2, <2>1 DEF InitAll, XPRAMInit
  <1>3. CASE Start680x0
    BY <1>3 DEF Start680x0, WatchdogStart
  <1>4. CASE Relaunch
    BY <1>4 DEF Relaunch, XpramRestart
  <1>5. CASE Tick
    <2>1. CASE WatchdogCopies
      BY <1>5, <2>1 DEF Tick, WatchdogCopies
    <2>2. CASE WatchdogOpens
      BY <1>5, <2>2 DEF Tick, WatchdogOpens
    <2>3. CASE WatchdogWrites
      BY <1>5, <2>3 DEF Tick, WatchdogWrites
    <2>4. QED
      BY <1>5, <2>1, <2>2, <2>3 DEF Tick
  <1>6. CASE Emulation
    <2>1. CASE UNCHANGED xpramVars
      BY <1>6, <2>1 DEF Emulation, xpramVars
    <2>2. CASE \E v \in Values : MacWrites(v)
      <3>1. PICK v \in Values : MacWrites(v)
        BY <2>2
      <3>2. v # Zero /\ phase = "running" /\ phase' = "running"
        BY <1>6, XpramAssumption DEF Emulation
      <3>3. CASE saver = "idle"
        BY <3>1, <3>2, <3>3 DEF MacWrites
      <3>4. CASE saver # "idle"
        <4>1. crossed' /\ saver' # "idle"
          BY <3>1, <3>4 DEF MacWrites
        <4>2. QED
          BY <3>1, <3>2, <4>1 DEF MacWrites
      <3>5. QED
        BY <3>3, <3>4
    <2>3. QED
      BY <1>6, <2>1, <2>2 DEF Emulation
  <1>7. CASE UNCHANGED vars
    BY <1>7 DEF vars, xpramVars
  <1>8. QED
    BY <1>1, <1>2, <1>3, <1>4, <1>5, <1>6, <1>7 DEF Next

LEMMA LastKeptNext == LastKept /\ [Next]_vars => LastKept'
PROOF
  <1> SUFFICES ASSUME LastKept, [Next]_vars PROVE LastKept'
    OBVIOUS
  <1> USE DEF LastKept, SavedAtQuit
  <1>1. CASE Dies
    BY <1>1 DEF Dies, xpramVars
  <1>2. CASE InitAll
    BY <1>2 DEF InitAll, XPRAMInit
  <1>3. CASE Start680x0
    BY <1>3 DEF Start680x0, WatchdogStart
  <1>4. CASE QuitEmulator
    BY <1>4 DEF QuitEmulator, ExitOpens, ExitCannotOpen
  <1>5. CASE ExitAll
    BY <1>5 DEF ExitAll, ExitWrites
  <1>6. CASE Relaunch
    BY <1>6 DEF Relaunch
  <1>7. CASE Tick
    <2>1. CASE WatchdogCopies
      BY <1>7, <2>1 DEF Tick, WatchdogCopies
    <2>2. CASE WatchdogOpens
      BY <1>7, <2>2 DEF Tick, WatchdogOpens
    <2>3. CASE WatchdogWrites
      BY <1>7, <2>3 DEF Tick, WatchdogWrites
    <2>4. QED
      BY <1>7, <2>1, <2>2, <2>3 DEF Tick
  <1>8. CASE Emulation
    <2>1. CASE UNCHANGED xpramVars
      BY <1>8, <2>1 DEF Emulation, xpramVars
    <2>2. CASE \E v \in Values : MacWrites(v)
      BY <1>8, <2>2 DEF Emulation, MacWrites
    <2>3. QED
      BY <1>8, <2>1, <2>2 DEF Emulation
  <1>9. CASE UNCHANGED vars
    BY <1>9 DEF vars, xpramVars
  <1>10. QED
    BY <1>1, <1>2, <1>3, <1>4, <1>5, <1>6, <1>7, <1>8, <1>9 DEF Next

\* In every run, with saves whose open or write fails: contents the watchdog of
\* the 60Hz thread no longer looks at are in the file, unless that last save
\* failed or the Mac wrote while it was made.
THEOREM CopyIsSaved == Spec => []WatchdogSound
PROOF
  <1>1. Init => XTypes /\ CopySaved
    BY XTypesInit DEF Init, CopySaved, XpramStart
  <1>2. XTypes /\ CopySaved /\ [Next]_vars => (XTypes /\ CopySaved)'
    BY XTypesNext, CopySavedNext
  <1>3. XTypes /\ CopySaved => WatchdogSound
    BY DEF CopySaved, WatchdogSound
  <1>4. QED
    BY <1>1, <1>2, <1>3, PTL DEF Spec

\* Although QuitEmulator does not join the 60Hz thread, whose save may run
\* beside that of ExitAll or after it: once a run that got as far as XPRAMInit
\* is over, the file holds the Mac's last contents, unless the save that ended
\* last failed or the thread has truncated the file and not yet written it.
THEOREM QuitSaves == Spec => []SavedAtQuit
PROOF
  <1>1. Init => LastKept
    BY DEF Init, LastKept, SavedAtQuit
  <1>2. LastKept => SavedAtQuit
    BY DEF LastKept
  <1>3. QED
    BY <1>1, <1>2, LastKeptNext, PTL DEF Spec

(***************************************************************************)
(* Types of the drives.                                                    *)
(***************************************************************************)
Infos == [tbm : BOOLEAN, ro : BOOLEAN, part : Images \cup {None}]

LEMMA InfoFields ==
  ASSUME NEW t \in BOOLEAN, NEW r \in BOOLEAN, NEW p \in Images \cup {None}
  PROVE  /\ [tbm |-> t, ro |-> r, part |-> p] \in Infos
         /\ [tbm |-> t, ro |-> r, part |-> p].tbm = t
         /\ [tbm |-> t, ro |-> r, part |-> p].ro = r
         /\ [tbm |-> t, ro |-> r, part |-> p].part = p
PROOF
  BY DEF Infos

LEMMA KindImages ==
  ASSUME NEW k \in Kinds, NEW i \in ImagesFor(k)
  PROVE  i \in Images /\ i # None
PROOF
  BY DriveAssumption DEF ImagesFor, Images

\* The handles that DriversInit leaves.
Opened(gui, choice, h) ==
    /\ choice \in [Removable -> Images \cup {None}]
    /\ h["floppy"] \in Sys_open("floppy", choice["floppy"])
    /\ h["cdrom"] \in Sys_open("cdrom", choice["cdrom"])
    /\ h["disk"] \in Sys_open("disk", HardDisk)
    /\ h = [k \in Kinds |-> h[k]]
    /\ fh' = h
    /\ info' = [k \in Kinds |-> [info[k] EXCEPT !.ro = h[k] # NoHandle /\ h[k].ro]]
    /\ inserted' = [k \in Removable |-> gui /\ choice[k] # None]

LEMMA InitOpens ==
  ASSUME NEW gui, DriversInit(gui)
  PROVE  \E choice, h : Opened(gui, choice, h)
PROOF
  <1>0. PICK choice \in [Removable -> Images \cup {None}] :
          /\ \E f \in Sys_open("floppy", choice["floppy"]), c \in Sys_open("cdrom", choice["cdrom"]),
                d \in Sys_open("disk", HardDisk) :
               LET h == [k \in Kinds |-> IF k = "floppy" THEN f ELSE IF k = "cdrom" THEN c ELSE d]
               IN  /\ fh' = h
                   /\ info' = [k \in Kinds |-> [info[k] EXCEPT !.ro = h[k] # NoHandle /\ h[k].ro]]
          /\ inserted' = [k \in Removable |-> gui /\ choice[k] # None]
    BY Zenon DEF DriversInit
  <1>1. PICK f \in Sys_open("floppy", choice["floppy"]),
             c \in Sys_open("cdrom", choice["cdrom"]), d \in Sys_open("disk", HardDisk) :
               LET h == [k \in Kinds |-> IF k = "floppy" THEN f ELSE IF k = "cdrom" THEN c ELSE d]
               IN  /\ fh' = h
                   /\ info' = [k \in Kinds |-> [info[k] EXCEPT !.ro = h[k] # NoHandle /\ h[k].ro]]
    BY <1>0, Zenon
  <1> DEFINE h == [k \in Kinds |-> IF k = "floppy" THEN f ELSE IF k = "cdrom" THEN c ELSE d]
  <1>2. /\ fh' = h
        /\ info' = [k \in Kinds |-> [info[k] EXCEPT !.ro = h[k] # NoHandle /\ h[k].ro]]
        /\ inserted' = [k \in Removable |-> gui /\ choice[k] # None]
    BY <1>0, <1>1
  <1>3. h["floppy"] = f /\ h["cdrom"] = c /\ h["disk"] = d
    BY DEF Kinds
  <1>4. h = [k \in Kinds |-> h[k]]
    OBVIOUS
  <1> HIDE DEF h
  <1>5. Opened(gui, choice, h)
    BY <1>1, <1>2, <1>3, <1>4 DEF Opened
  <1>6. QED
    BY <1>5

LEMMA OpenedTypes ==
  ASSUME DriveTypeOK, NEW gui \in BOOLEAN, NEW choice, NEW h, Opened(gui, choice, h)
  PROVE  /\ h \in [Kinds -> {NoHandle} \cup Handles]
         /\ \A k \in Kinds : IsDiskInserted(h[k]) => h[k].ro \/ h[k].img \in Writable
         /\ \A k \in Removable : h[k] = NoHandle \/ IsDiskInserted(h[k]) => choice[k] # None
         /\ info' \in [Kinds -> Infos]
         /\ \A k \in Kinds : /\ info'[k].tbm = info[k].tbm
                             /\ info'[k].part = info[k].part
                             /\ h[k] # NoHandle => info'[k].ro = h[k].ro
         /\ inserted' \in [Removable -> BOOLEAN]
PROOF
  <1>1. /\ choice["floppy"] \in Images \cup {None} /\ choice["cdrom"] \in Images \cup {None}
        /\ HardDisk \in Images \cup {None}
    BY DEF Opened, Removable, Images
  <1>2. \A k \in Kinds : /\ h[k] \in {NoHandle} \cup Handles
                         /\ IsDiskInserted(h[k]) => h[k].ro \/ h[k].img \in Writable
    BY <1>1, OpenTypes DEF Opened, Kinds
  <1>3. \A k \in Removable : choice[k] = None => h[k] \in Handles /\ ~IsDiskInserted(h[k])
    BY <1>1, OpenTypes DEF Opened, Kinds, Removable
  <1>4. NoHandle \notin Handles
    BY DriveAssumption DEF Handles
  <1>5. h \in [Kinds -> {NoHandle} \cup Handles]
    BY <1>2 DEF Opened
  <1>6. ASSUME NEW k \in Kinds
        PROVE  /\ info'[k] \in Infos
               /\ info'[k].tbm = info[k].tbm /\ info'[k].part = info[k].part
               /\ h[k] # NoHandle => info'[k].ro = h[k].ro
    <2> DEFINE b == h[k] # NoHandle /\ h[k].ro
    <2>1. b \in BOOLEAN /\ (h[k] # NoHandle => b = h[k].ro)
      <3>1. h[k] # NoHandle => h[k].ro \in BOOLEAN
        BY <1>2 DEF Handles
      <3>2. QED
        BY <3>1, Zenon
    <2>2. info'[k] = [info[k] EXCEPT !.ro = b]
      BY DEF Opened
    <2>3. info[k] \in Infos
      BY DEF DriveTypeOK, Infos
    <2> HIDE DEF b
    <2>4. /\ [info[k] EXCEPT !.ro = b] \in Infos
          /\ [info[k] EXCEPT !.ro = b].ro = b
          /\ [info[k] EXCEPT !.ro = b].tbm = info[k].tbm
          /\ [info[k] EXCEPT !.ro = b].part = info[k].part
      BY <2>1, <2>3 DEF Infos
    <2>5. QED
      BY <2>1, <2>2, <2>4
  <1>7. info' \in [Kinds -> Infos]
    <2>1. info' = [k \in Kinds |-> info'[k]]
      BY DEF Opened
    <2>2. QED
      BY <1>6, <2>1
  <1>8. inserted' \in [Removable -> BOOLEAN]
    <2>1. \A k \in Removable : (gui /\ choice[k] # None) \in BOOLEAN
      OBVIOUS
    <2>2. QED
      BY <2>1, Zenon DEF Opened
  <1>9. QED
    BY <1>2, <1>3, <1>4, <1>5, <1>6, <1>7, <1>8

(***************************************************************************)
(* The inductive invariant of the drives.  An image in a removable drive   *)
(* is known to the menu, and a drive whose driver is closed is empty for   *)
(* the Mac: this is what keeps the menu from replacing a mounted image.    *)
(***************************************************************************)
PerDrive(k) ==
    /\ driver[k] # "closed" => (inPlace[k] # 0 <=> IsDiskInserted(fh[k]))
    /\ driver[k] = "closed" => inPlace[k] = 0 /\ mounted[k] = None
    /\ inPlace[k] # 0 /\ k # "floppy" => info[k].part = fh[k].img
    /\ IsDiskInserted(fh[k]) => /\ info[k].ro = fh[k].ro
                                /\ fh[k].ro \/ fh[k].img \in Writable
    /\ mounted[k] # None => fh[k] # NoHandle /\ fh[k].img = mounted[k]
    /\ k \in unseen => info[k].tbm /\ inPlace[k] # 0 /\ posting # k
    /\ k \in Removable /\ IsDiskInserted(fh[k]) => inserted[k]

AllOpen == \A k \in Kinds : driver[k] # "closed"

DriveInv == DriveTypeOK /\ (\A k \in Kinds : PerDrive(k)) /\ (posting # None => AllOpen)

AllClosed == \A k \in Kinds : driver[k] = "closed"

LEMMA DriveInvExit == DriversExit => DriveInv' /\ AllClosed'
PROOF
  <1> SUFFICES ASSUME DriversExit PROVE DriveInv' /\ AllClosed'
    OBVIOUS
  <1>1. ASSUME NEW k \in Kinds
        PROVE  /\ fh'[k] = NoHandle /\ driver'[k] = "closed" /\ inPlace'[k] = 0
               /\ mounted'[k] = None /\ unseen' = {} /\ posting' = None
    BY NoDrivesFields DEF DriversExit
  <1>2. DriveTypeOK'
    BY ExitTypes
  <1>3. QED
    BY <1>1, <1>2 DEF DriveInv, PerDrive, AllClosed, AllOpen, IsDiskInserted, DriversExit

LEMMA DriveInvStart == DriversStart => DriveInv /\ AllClosed
PROOF
  <1> SUFFICES ASSUME DriversStart PROVE DriveInv /\ AllClosed
    OBVIOUS
  <1>1. ASSUME NEW k \in Kinds
        PROVE  /\ fh[k] = NoHandle /\ driver[k] = "closed" /\ inPlace[k] = 0
               /\ mounted[k] = None /\ unseen = {} /\ posting = None
    BY NoDrivesFields DEF DriversStart
  <1>2. DriveTypeOK
    BY StartTypes
  <1>3. QED
    BY <1>1, <1>2 DEF DriveInv, PerDrive, AllClosed, AllOpen, IsDiskInserted, DriversStart

LEMMA DriveInvInit ==
  ASSUME DriveInv, AllClosed, Gui, DriversInit(Gui)
  PROVE  DriveInv' /\ MenuHasHandle'
PROOF
  <1>1. PICK choice, h : Opened(Gui, choice, h)
    BY InitOpens
  <1>2. Gui \in BOOLEAN /\ DriveTypeOK
    BY SessionAssumption DEF DriveInv
  <1>3. /\ h \in [Kinds -> {NoHandle} \cup Handles]
        /\ \A k \in Kinds : IsDiskInserted(h[k]) => h[k].ro \/ h[k].img \in Writable
        /\ \A k \in Removable : h[k] = NoHandle \/ IsDiskInserted(h[k]) => choice[k] # None
        /\ info' \in [Kinds -> Infos]
        /\ \A k \in Kinds : /\ info'[k].tbm = info[k].tbm
                            /\ info'[k].part = info[k].part
                            /\ h[k] # NoHandle => info'[k].ro = h[k].ro
        /\ inserted' \in [Removable -> BOOLEAN]
    BY <1>1, <1>2, OpenedTypes
  <1>4. fh' = h /\ \A k \in Removable : choice[k] # None => inserted'[k]
    BY <1>1, Gui DEF Opened
  <1>5. UNCHANGED <<driver, inPlace, nonHFS, posting, events, mounted, unseen>>
    BY DEF DriversInit
  <1>6. DriveTypeOK'
    BY <1>2, <1>3, <1>4, <1>5 DEF DriveTypeOK, Handles, Infos
  <1>7. ASSUME NEW k \in Kinds PROVE PerDrive(k)'
    <2>1. driver'[k] = "closed" /\ inPlace'[k] = 0 /\ mounted'[k] = None /\ k \notin unseen'
      BY <1>5 DEF DriveInv, PerDrive, AllClosed
    <2>2. QED
      BY <1>3, <1>4, <2>1 DEF PerDrive, IsDiskInserted
  <1>8. posting' = None
    BY <1>5 DEF DriveInv, AllOpen, AllClosed, Kinds
  <1>9. MenuHasHandle'
    BY <1>3, <1>4 DEF MenuHasHandle
  <1>10. QED
    BY <1>6, <1>7, <1>8, <1>9 DEF DriveInv

\* A drive that an action leaves alone.
LEMMA OtherDrive ==
  ASSUME NEW j \in Kinds, PerDrive(j),
         fh'[j] = fh[j], driver'[j] = driver[j], inPlace'[j] = inPlace[j],
         info'[j] = info[j], mounted'[j] = mounted[j],
         j \in Removable => inserted'[j] = inserted[j],
         j \in unseen' => j \in unseen, posting' = posting \/ posting' # j
  PROVE  PerDrive(j)'
PROOF
  BY DEF PerDrive, IsDiskInserted

LEMMA DriveInvOpen ==
  ASSUME DriveInv, NEW k \in Kinds, DriverOpen(k)
  PROVE  DriveInv'
PROOF
  <1> DEFINE there == IsDiskInserted(fh[k])
  <1>1. there \in BOOLEAN /\ (nonHFS \/ k = "cdrom") \in BOOLEAN
    BY DEF IsDiskInserted
  <1>2. /\ info[k] \in Infos /\ info \in [Kinds -> Infos]
        /\ there => fh[k].img \in Images \cup {None}
    BY DEF DriveInv, DriveTypeOK, Infos, IsDiskInserted
  <1> DEFINE p == IF there /\ k # "floppy" THEN fh[k].img ELSE info[k].part
  <1>3. p \in Images \cup {None}
    BY <1>2 DEF Infos
  <1>4. info' = [info EXCEPT ![k].tbm = there, ![k].part = p]
    BY DEF DriverOpen
  <1>5. /\ driver' = [driver EXCEPT ![k] = "open"]
        /\ inPlace' = [inPlace EXCEPT ![k] = IF ~there THEN 0 ELSE IF k = "disk" THEN 8 ELSE 1]
        /\ unseen' = IF there THEN unseen \cup {k} ELSE unseen
        /\ nonHFS' = (nonHFS \/ k = "cdrom")
        /\ UNCHANGED <<fh, inserted, posting, events, mounted>>
        /\ driver[k] = "closed"
    BY DEF DriverOpen
  <1>6. posting = None
    BY <1>5 DEF DriveInv, AllOpen
  <1>7. there <=> IsDiskInserted(fh[k])
    OBVIOUS
  <1>8. there /\ k # "floppy" => p = fh[k].img
    OBVIOUS
  <1> HIDE DEF there, p
  <1>9. /\ info' \in [Kinds -> Infos]
        /\ info'[k].tbm = there /\ info'[k].part = p /\ info'[k].ro = info[k].ro
        /\ \A j \in Kinds : j # k => info'[j] = info[j]
    BY <1>1, <1>2, <1>3, <1>4 DEF Infos
  <1>10. DriveTypeOK'
    BY <1>1, <1>5, <1>9 DEF DriveInv, DriveTypeOK, Infos
  <1>11. PerDrive(k)'
    <2>1. /\ driver'[k] = "open" /\ posting' = None /\ mounted'[k] = mounted[k]
          /\ inPlace'[k] # 0 <=> there
          /\ k \in unseen' => there \/ k \in unseen
          /\ k \in Removable => inserted'[k] = inserted[k]
      BY <1>5, <1>6 DEF DriveInv, DriveTypeOK
    <2>2. PerDrive(k) /\ driver[k] = "closed" /\ fh'[k] = fh[k]
      BY <1>5 DEF DriveInv
    <2>3. k # None
      BY DriveAssumption
    <2>4. k \notin unseen
      BY <2>2 DEF PerDrive
    <2>5. QED
      BY <1>6, <1>7, <1>8, <1>9, <2>1, <2>2, <2>3, <2>4 DEF PerDrive, IsDiskInserted
  <1>12. ASSUME NEW j \in Kinds, j # k PROVE PerDrive(j)'
    BY <1>5, <1>9, <1>12, OtherDrive DEF DriveInv, DriveTypeOK
  <1>13. QED
    BY <1>5, <1>6, <1>10, <1>11, <1>12 DEF DriveInv

LEMMA DriveInvOneHz ==
  ASSUME DriveInv, OneHz
  PROVE  DriveInv'
PROOF
  <1>1. /\ info' = [k \in Kinds |-> IF k \in Flagged THEN [info[k] EXCEPT !.tbm = FALSE] ELSE info[k]]
        /\ unseen' = unseen \ Flagged /\ events' = events \cup Flagged /\ Flagged \subseteq Kinds
        /\ UNCHANGED <<fh, inserted, driver, inPlace, nonHFS, posting, mounted>>
    BY DEF OneHz, Flagged
  <1>2. info \in [Kinds -> Infos]
    BY DEF DriveInv, DriveTypeOK, Infos
  <1>3. ASSUME NEW k \in Kinds
        PROVE  /\ info'[k] \in Infos /\ info'[k].ro = info[k].ro /\ info'[k].part = info[k].part
               /\ k \notin Flagged => info'[k].tbm = info[k].tbm
    BY <1>1, <1>2 DEF Infos
  <1>4. info' \in [Kinds -> Infos]
    BY <1>1, <1>3
  <1>5. DriveTypeOK'
    BY <1>1, <1>4 DEF DriveInv, DriveTypeOK, Infos
  <1>6. ASSUME NEW k \in Kinds PROVE PerDrive(k)'
    <2>1. PerDrive(k)
      BY DEF DriveInv
    <2>2. QED
      BY <1>1, <1>3, <2>1 DEF PerDrive, IsDiskInserted
  <1>7. QED
    BY <1>1, <1>5, <1>6 DEF DriveInv, AllOpen

LEMMA DriveInvPost ==
  ASSUME DriveInv, NEW k \in Kinds, AccRunPost(k)
  PROVE  DriveInv'
PROOF
  <1>1. /\ AllOpen /\ posting = None
        /\ UNCHANGED <<fh, inserted, info, inPlace, nonHFS, mounted>>
    BY DEF AccRunPost, AllOpen
  <1>2. /\ driver' \in [Kinds -> {"closed", "open", "running"}]
        /\ \A j \in Kinds : driver'[j] # "closed"
    BY DEF AccRunPost, DriveInv, DriveTypeOK
  <1>3. /\ posting' \in {None, k} /\ events' \subseteq events \cup {k}
        /\ unseen' \subseteq unseen /\ (posting' = k => k \notin unseen')
    <2>1. CASE info[k].tbm
      BY <2>1 DEF AccRunPost
    <2>2. CASE ~info[k].tbm
      BY <1>1, <2>2, DriveAssumption DEF AccRunPost
    <2>3. QED
      BY <2>1, <2>2
  <1>4. DriveTypeOK'
    BY <1>1, <1>2, <1>3 DEF DriveInv, DriveTypeOK
  <1>5. ASSUME NEW j \in Kinds PROVE PerDrive(j)'
    <2>1. PerDrive(j) /\ driver[j] # "closed" /\ j # None
      BY <1>1, DriveAssumption DEF DriveInv, AllOpen
    <2>2. QED
      BY <1>1, <1>2, <1>3, <2>1 DEF PerDrive, IsDiskInserted
  <1>6. QED
    BY <1>2, <1>4, <1>5 DEF DriveInv, AllOpen

LEMMA DriveInvReturn ==
  ASSUME DriveInv, AccRunReturn
  PROVE  DriveInv'
PROOF
  <1>1. /\ posting # None /\ posting' = None
        /\ info' = [info EXCEPT ![posting].tbm = FALSE]
        /\ driver' = [driver EXCEPT ![posting] = "running"]
        /\ UNCHANGED <<fh, inserted, inPlace, nonHFS, events, mounted, unseen>>
    BY DEF AccRunReturn
  <1>2. AllOpen /\ posting \in Kinds /\ info \in [Kinds -> Infos]
    BY <1>1 DEF DriveInv, DriveTypeOK, Infos
  <1>3. /\ info' \in [Kinds -> Infos]
        /\ \A j \in Kinds : /\ info'[j].ro = info[j].ro /\ info'[j].part = info[j].part
                            /\ j # posting => info'[j].tbm = info[j].tbm
    BY <1>1, <1>2 DEF Infos
  <1>4. /\ driver' \in [Kinds -> {"closed", "open", "running"}]
        /\ \A j \in Kinds : driver'[j] # "closed"
    BY <1>1, <1>2 DEF DriveInv, DriveTypeOK, AllOpen
  <1>5. DriveTypeOK'
    BY <1>1, <1>3, <1>4 DEF DriveInv, DriveTypeOK, Infos
  <1>6. ASSUME NEW j \in Kinds PROVE PerDrive(j)'
    <2>1. PerDrive(j) /\ driver[j] # "closed" /\ j # None
      BY <1>2, DriveAssumption DEF DriveInv, AllOpen
    <2>2. QED
      BY <1>1, <1>3, <1>4, <2>1 DEF PerDrive, IsDiskInserted
  <1>7. QED
    BY <1>1, <1>5, <1>6 DEF DriveInv

LEMMA DriveInvMounts ==
  ASSUME DriveInv, NEW k \in Kinds, MacMounts(k)
  PROVE  DriveInv'
PROOF
  <1>1. /\ events' = events \ {k}
        /\ UNCHANGED <<fh, inserted, driver, info, nonHFS, posting, unseen>>
    BY DEF MacMounts
  <1>2. CASE ~(inPlace[k] # 0 /\ mounted[k] = None)
    <2>1. UNCHANGED <<mounted, inPlace>>
      BY <1>2 DEF MacMounts
    <2>2. DriveTypeOK'
      BY <1>1, <2>1 DEF DriveInv, DriveTypeOK
    <2>3. ASSUME NEW j \in Kinds PROVE PerDrive(j)'
      BY <1>1, <2>1, OtherDrive DEF DriveInv
    <2>4. QED
      BY <1>1, <2>2, <2>3 DEF DriveInv, AllOpen
  <1>3. CASE inPlace[k] # 0 /\ mounted[k] = None
    <2>1. /\ mounted' = [mounted EXCEPT ![k] = fh[k].img]
          /\ inPlace' = [inPlace EXCEPT ![k] = IF k = "floppy" THEN 2 ELSE @]
      BY <1>3 DEF MacMounts
    <2>2. PerDrive(k) /\ driver[k] # "closed" /\ IsDiskInserted(fh[k])
      BY <1>3 DEF DriveInv, PerDrive
    <2>3. fh[k] # NoHandle /\ fh[k].img \in Images \cup {None}
      BY <2>2 DEF DriveInv, DriveTypeOK, IsDiskInserted
    <2>4. /\ inPlace' \in [Kinds -> {0, 1, 2, 8}] /\ inPlace'[k] # 0
          /\ mounted' \in [Kinds -> Images \cup {None}] /\ mounted'[k] = fh[k].img
          /\ \A j \in Kinds : j # k => inPlace'[j] = inPlace[j] /\ mounted'[j] = mounted[j]
      BY <1>3, <2>1, <2>3 DEF DriveInv, DriveTypeOK
    <2>5. DriveTypeOK'
      BY <1>1, <2>4 DEF DriveInv, DriveTypeOK
    <2>6. PerDrive(k)'
      BY <1>1, <1>3, <2>2, <2>3, <2>4 DEF PerDrive, IsDiskInserted
    <2>7. ASSUME NEW j \in Kinds, j # k PROVE PerDrive(j)'
      BY <1>1, <2>4, <2>7, OtherDrive DEF DriveInv
    <2>8. QED
      BY <1>1, <2>5, <2>6, <2>7 DEF DriveInv, AllOpen
  <1>4. QED
    BY <1>2, <1>3

LEMMA DriveInvEject ==
  ASSUME DriveInv, NEW k \in Kinds, Eject(k)
  PROVE  /\ DriveInv'
         /\ MenuHasHandle => MenuHasHandle'
PROOF
  <1>1. /\ driver[k] # "closed" /\ inPlace[k] # 0 /\ mounted' = [mounted EXCEPT ![k] = None]
        /\ UNCHANGED <<driver, info, nonHFS, posting>>
    BY DEF Eject
  <1>2. PerDrive(k) /\ IsDiskInserted(fh[k])
    BY <1>1 DEF DriveInv, PerDrive
  <1>3. /\ mounted' \in [Kinds -> Images \cup {None}] /\ mounted'[k] = None
        /\ \A j \in Kinds : j # k => mounted'[j] = mounted[j]
    BY <1>1 DEF DriveInv, DriveTypeOK
  <1>4. CASE k = "disk"
    <2>1. events' = events \cup {k} /\ UNCHANGED <<fh, inserted, inPlace, unseen>>
      BY <1>4 DEF Eject
    <2>2. DriveTypeOK'
      BY <1>1, <1>3, <2>1 DEF DriveInv, DriveTypeOK
    <2>3. PerDrive(k)'
      BY <1>1, <1>2, <1>3, <2>1 DEF PerDrive, IsDiskInserted
    <2>4. ASSUME NEW j \in Kinds, j # k PROVE PerDrive(j)'
      BY <1>1, <1>3, <2>1, <2>4, OtherDrive DEF DriveInv
    <2>5. QED
      BY <1>1, <2>1, <2>2, <2>3, <2>4 DEF DriveInv, AllOpen, MenuHasHandle
  <1>5. CASE k # "disk"
    <2>1. /\ fh' = [fh EXCEPT ![k].img = None]
          /\ inserted' = [inserted EXCEPT ![k] = FALSE]
          /\ inPlace' = [inPlace EXCEPT ![k] = 0]
          /\ unseen' = unseen \ {k} /\ UNCHANGED events
      BY <1>5 DEF Eject
    <2>2. k \in Removable
      BY <1>5 DEF Kinds, Removable
    <2>3. fh[k] \in Handles /\ fh \in [Kinds -> {NoHandle} \cup Handles] /\ NoHandle \notin Handles
      BY <1>2, DriveAssumption DEF DriveInv, DriveTypeOK, IsDiskInserted, Handles
    <2>4. /\ fh' \in [Kinds -> {NoHandle} \cup Handles]
          /\ fh'[k] \in Handles /\ fh'[k].img = None
          /\ \A j \in Kinds : j # k => fh'[j] = fh[j]
      BY <2>1, <2>3 DEF Handles
    <2>5. /\ inPlace' \in [Kinds -> {0, 1, 2, 8}] /\ inPlace'[k] = 0
          /\ inserted' \in [Removable -> BOOLEAN]
          /\ \A j \in Kinds : j # k => inPlace'[j] = inPlace[j]
          /\ \A j \in Removable : j # k => inserted'[j] = inserted[j]
      BY <2>1, <2>2 DEF DriveInv, DriveTypeOK
    <2>6. DriveTypeOK'
      BY <1>1, <1>3, <2>1, <2>4, <2>5 DEF DriveInv, DriveTypeOK, Handles
    <2>7. PerDrive(k)'
      BY <1>1, <1>3, <2>1, <2>4, <2>5 DEF PerDrive, IsDiskInserted
    <2>8. ASSUME NEW j \in Kinds, j # k PROVE PerDrive(j)'
      BY <1>1, <1>3, <2>1, <2>4, <2>5, <2>8, OtherDrive DEF DriveInv
    <2>9. MenuHasHandle => MenuHasHandle'
      <3>1. Removable \subseteq Kinds
        BY DEF Kinds, Removable
      <3>2. QED
        BY <2>3, <2>4, <2>5, <3>1 DEF MenuHasHandle
    <2>10. QED
      BY <1>1, <2>6, <2>7, <2>8, <2>9 DEF DriveInv, AllOpen
  <1>6. QED
    BY <1>4, <1>5

LEMMA DriveInvModify ==
  ASSUME DriveInv, ModifyPostEvent
  PROVE  DriveInv'
PROOF
  <1>1. UNCHANGED <<fh, inserted, driver, info, inPlace, posting, events, mounted, unseen>>
    BY DEF ModifyPostEvent
  <1>2. (~nonHFS) \in BOOLEAN
    OBVIOUS
  <1>3. nonHFS' \in BOOLEAN
    BY <1>2, Zenon DEF ModifyPostEvent
  <1>4. DriveTypeOK'
    BY <1>1, <1>3 DEF DriveInv, DriveTypeOK
  <1>5. ASSUME NEW k \in Kinds PROVE PerDrive(k)'
    BY <1>1, OtherDrive DEF DriveInv
  <1>6. QED
    BY <1>1, <1>4, <1>5 DEF DriveInv, AllOpen

\* What MountVolume does to the drive and to no other.
LEMMA MountVolumeEffect ==
  ASSUME DriveInv, NEW k \in Kinds, NEW h \in Handles, MountVolume(k, h)
  PROVE  /\ info' \in [Kinds -> Infos] /\ info'[k].ro = h.ro
         /\ k # "floppy" => info'[k].part = h.img
         /\ \A j \in Kinds : j # k => info'[j] = info[j] /\ inPlace'[j] = inPlace[j]
         /\ inPlace' \in [Kinds -> {0, 1, 2, 8}]
         /\ driver[k] = "closed" => inPlace'[k] = inPlace[k] /\ unseen' = unseen
         /\ driver[k] # "closed" => inPlace'[k] = 1
         /\ unseen' \subseteq unseen \cup {k}
         /\ k \in unseen' => k \in unseen \/ (info'[k].tbm /\ posting # k)
PROOF
  <1> DEFINE wanted == k # "cdrom" \/ h.img \in Partitioned \/ nonHFS
             t == info[k].tbm \/ wanted
             p == IF k = "floppy" THEN info[k].part ELSE h.img
  <1>1. t \in BOOLEAN /\ (wanted => t)
    OBVIOUS
  <1>2. p \in Images \cup {None} /\ h.ro \in BOOLEAN /\ (k # "floppy" => p = h.img)
    BY DEF DriveInv, DriveTypeOK, Handles
  <1>3. info' = [info EXCEPT ![k] = [tbm |-> t, ro |-> h.ro, part |-> p]]
    BY DEF MountVolume
  <1>4. /\ driver[k] = "closed" => UNCHANGED <<inPlace, unseen>>
        /\ driver[k] # "closed" =>
             /\ inPlace' = [inPlace EXCEPT ![k] = 1]
             /\ unseen' = IF wanted /\ posting # k THEN unseen \cup {k} ELSE unseen
    BY DEF MountVolume
  <1>5. info \in [Kinds -> Infos] /\ inPlace \in [Kinds -> {0, 1, 2, 8}]
    BY DEF DriveInv, DriveTypeOK, Infos
  <1> HIDE DEF wanted, t, p
  <1>6. /\ [tbm |-> t, ro |-> h.ro, part |-> p] \in Infos
        /\ [tbm |-> t, ro |-> h.ro, part |-> p].tbm = t
        /\ [tbm |-> t, ro |-> h.ro, part |-> p].ro = h.ro
        /\ [tbm |-> t, ro |-> h.ro, part |-> p].part = p
    BY <1>1, <1>2, InfoFields
  <1> DEFINE n == [tbm |-> t, ro |-> h.ro, part |-> p]
  <1>7. n \in Infos /\ n.tbm = t /\ n.ro = h.ro /\ n.part = p /\ info' = [info EXCEPT ![k] = n]
    BY <1>3, <1>6
  <1> HIDE DEF n
  <1>8. /\ info' \in [Kinds -> Infos] /\ info'[k] = n
        /\ \A j \in Kinds : j # k => info'[j] = info[j]
    BY <1>5, <1>7
  <1>9. /\ inPlace' \in [Kinds -> {0, 1, 2, 8}]
        /\ \A j \in Kinds : j # k => inPlace'[j] = inPlace[j]
        /\ driver[k] = "closed" => inPlace'[k] = inPlace[k] /\ unseen' = unseen
        /\ driver[k] # "closed" => inPlace'[k] = 1
    BY <1>4, <1>5
  <1>10. /\ unseen' \subseteq unseen \cup {k}
         /\ k \in unseen' => k \in unseen \/ (wanted /\ posting # k)
    BY <1>4
  <1>11. QED
    BY <1>1, <1>2, <1>7, <1>8, <1>9, <1>10

LEMMA DriveInvMenu ==
  ASSUME DriveInv, NEW k \in Removable, NEW i \in ImagesFor(k), MenuMount(k, i)
  PROVE  /\ DriveInv'
         /\ MenuHasHandle => MenuHasHandle'
PROOF
  <1>1. k \in Kinds /\ Removable \subseteq Kinds
    BY DEF Kinds, Removable
  <1>2. /\ ~inserted[k] /\ fh[k] # NoHandle
        /\ UNCHANGED <<driver, nonHFS, posting, events, mounted>>
    BY DEF MenuMount
  <1>3. PerDrive(k) /\ ~IsDiskInserted(fh[k])
    BY <1>1, <1>2 DEF DriveInv, PerDrive
  <1>4. mounted[k] = None /\ inPlace[k] = 0 /\ k \notin unseen
    BY <1>2, <1>3 DEF PerDrive, IsDiskInserted
  <1>5. /\ fh \in [Kinds -> {NoHandle} \cup Handles] /\ NoHandle \notin Handles
        /\ i \in Images \cup {None} /\ i # None
    BY <1>1, KindImages, DriveAssumption DEF DriveInv, DriveTypeOK, Handles
  <1> DEFINE r == k = "cdrom" \/ fh[k].ro \/ i \notin Writable
             h == [img |-> i, ro |-> r]
  <1>6. r \in BOOLEAN /\ (r \/ i \in Writable)
    OBVIOUS
  <1>7. h \in Handles /\ h # NoHandle /\ h.img = i /\ h.ro = r
    BY <1>5, <1>6, HandleFields, Zenon
  <1>8. \/ /\ fh' = [fh EXCEPT ![k] = h]
           /\ inserted' = [inserted EXCEPT ![k] = TRUE]
           /\ MountVolume(k, h)
        \/ /\ fh' = [fh EXCEPT ![k] = [img |-> None, ro |-> TRUE]]
           /\ UNCHANGED <<inserted, info, inPlace, unseen>>
    BY DEF MenuMount
  <1> HIDE DEF h, r
  <1>9. CASE /\ fh' = [fh EXCEPT ![k] = h]
             /\ inserted' = [inserted EXCEPT ![k] = TRUE]
             /\ MountVolume(k, h)
    <2>1. /\ info' \in [Kinds -> Infos] /\ info'[k].ro = h.ro
          /\ k # "floppy" => info'[k].part = h.img
          /\ \A j \in Kinds : j # k => info'[j] = info[j] /\ inPlace'[j] = inPlace[j]
          /\ inPlace' \in [Kinds -> {0, 1, 2, 8}]
          /\ driver[k] = "closed" => inPlace'[k] = inPlace[k] /\ unseen' = unseen
          /\ driver[k] # "closed" => inPlace'[k] = 1
          /\ unseen' \subseteq unseen \cup {k}
          /\ k \in unseen' => k \in unseen \/ (info'[k].tbm /\ posting # k)
      BY <1>1, <1>7, <1>9, MountVolumeEffect
    <2>2. /\ fh' \in [Kinds -> {NoHandle} \cup Handles] /\ fh'[k] = h
          /\ \A j \in Kinds : j # k => fh'[j] = fh[j]
      BY <1>1, <1>5, <1>7, <1>9
    <2>3. /\ inserted' \in [Removable -> BOOLEAN] /\ inserted'[k]
          /\ \A j \in Removable : j # k => inserted'[j] = inserted[j]
      BY <1>9 DEF DriveInv, DriveTypeOK
    <2>4. DriveTypeOK'
      BY <1>1, <1>2, <2>1, <2>2, <2>3 DEF DriveInv, DriveTypeOK, Handles, Infos
    <2>5. PerDrive(k)'
      BY <1>2, <1>3, <1>4, <1>5, <1>6, <1>7, <2>1, <2>2, <2>3 DEF PerDrive, IsDiskInserted
    <2>6. ASSUME NEW j \in Kinds, j # k PROVE PerDrive(j)'
      <3>1. j \in unseen' => j \in unseen
        BY <2>1, <2>6
      <3>2. PerDrive(j)
        BY DEF DriveInv
      <3>3. QED
        BY <1>2, <2>1, <2>2, <2>3, <2>6, <3>1, <3>2, OtherDrive
    <2>7. MenuHasHandle => MenuHasHandle'
      BY <1>1, <1>7, <2>2, <2>3 DEF MenuHasHandle
    <2>8. QED
      BY <1>2, <2>4, <2>5, <2>6, <2>7 DEF DriveInv, AllOpen
  <1>10. CASE /\ fh' = [fh EXCEPT ![k] = [img |-> None, ro |-> TRUE]]
              /\ UNCHANGED <<inserted, info, inPlace, unseen>>
    <2>1. /\ [img |-> None, ro |-> TRUE] \in Handles
          /\ [img |-> None, ro |-> TRUE].img = None
      BY HandleFields
    <2>2. /\ fh' \in [Kinds -> {NoHandle} \cup Handles]
          /\ fh'[k] \in Handles /\ fh'[k].img = None
          /\ \A j \in Kinds : j # k => fh'[j] = fh[j]
      BY <1>1, <1>5, <1>10, <2>1
    <2>3. DriveTypeOK'
      BY <1>2, <1>10, <2>2 DEF DriveInv, DriveTypeOK, Handles
    <2>4. PerDrive(k)'
      BY <1>2, <1>3, <1>4, <1>10, <2>2 DEF PerDrive, IsDiskInserted
    <2>5. ASSUME NEW j \in Kinds, j # k PROVE PerDrive(j)'
      BY <1>2, <1>10, <2>2, <2>5, OtherDrive DEF DriveInv
    <2>6. MenuHasHandle => MenuHasHandle'
      BY <1>1, <1>5, <1>10, <2>2 DEF MenuHasHandle
    <2>7. QED
      BY <1>2, <2>3, <2>4, <2>5, <2>6 DEF DriveInv, AllOpen
  <1>11. QED
    BY <1>8, <1>9, <1>10

LEMMA DriveInvSame ==
  ASSUME DriveInv, UNCHANGED driveVars
  PROVE  DriveInv' /\ (MenuHasHandle => MenuHasHandle') /\ (AllClosed => AllClosed')
PROOF
  <1>1. UNCHANGED <<fh, inserted, driver, info, inPlace, nonHFS, posting, events, mounted, unseen>>
    BY DEF driveVars
  <1>2. DriveTypeOK'
    BY <1>1 DEF DriveInv, DriveTypeOK
  <1>3. ASSUME NEW k \in Kinds PROVE PerDrive(k)'
    BY <1>1, OtherDrive DEF DriveInv
  <1>4. QED
    BY <1>1, <1>2, <1>3 DEF DriveInv, AllOpen, AllClosed, MenuHasHandle

(***************************************************************************)
(* The drives in a session.                                                *)
(***************************************************************************)
SessionInv ==
    /\ DriveInv
    /\ phase \in {"start", "over", "died"} => AllClosed
    /\ phase \in {"ready", "running"} => MenuHasHandle

LEMMA SessionInvNext ==
  ASSUME Gui, SessionInv, [Next]_vars
  PROVE  SessionInv'
PROOF
  <1> USE DEF SessionInv
  <1>1. CASE Start680x0
    BY <1>1, DriveInvSame DEF Start680x0
  <1>2. CASE InitAll
    BY <1>2, Gui, DriveInvInit DEF InitAll
  <1>3. CASE QuitEmulator \/ ExitAll \/ Dies
    BY <1>3, DriveInvSame, DriveInvExit DEF QuitEmulator, ExitAll, Dies
  <1>4. CASE Relaunch
    BY <1>4, DriveInvSame DEF Relaunch
  <1>5. CASE Tick
    BY <1>5, DriveInvSame DEF Tick
  <1>6. CASE Emulation
    <2>1. phase' = "running" /\ MenuHasHandle
      BY <1>6 DEF Emulation
    <2>2. CASE UNCHANGED driveVars
      BY <2>1, <2>2, DriveInvSame
    <2>3. ASSUME NEW k \in Kinds, DriverOpen(k) \/ AccRunPost(k) \/ MacMounts(k)
          PROVE  DriveInv' /\ MenuHasHandle'
      <3>1. DriveInv'
        BY <2>3, DriveInvOpen, DriveInvPost, DriveInvMounts
      <3>2. UNCHANGED <<fh, inserted>>
        BY <2>3 DEF DriverOpen, AccRunPost, MacMounts
      <3>3. QED
        BY <2>1, <3>1, <3>2 DEF MenuHasHandle
    <2>4. ASSUME NEW k \in Kinds, Eject(k) PROVE DriveInv' /\ MenuHasHandle'
      BY <2>1, <2>4, DriveInvEject
    <2>5. CASE AccRunReturn \/ OneHz \/ ModifyPostEvent
      <3>1. DriveInv'
        BY <2>5, DriveInvReturn, DriveInvOneHz, DriveInvModify
      <3>2. UNCHANGED <<fh, inserted>>
        BY <2>5 DEF AccRunReturn, OneHz, ModifyPostEvent
      <3>3. QED
        BY <2>1, <3>1, <3>2 DEF MenuHasHandle
    <2>6. ASSUME NEW k \in Removable, NEW i \in ImagesFor(k), MenuMount(k, i)
          PROVE  DriveInv' /\ MenuHasHandle'
      BY <2>1, <2>6, DriveInvMenu
    <2>7. QED
      BY <1>6, <2>1, <2>2, <2>3, <2>4, <2>5, <2>6 DEF Emulation
  <1>7. CASE UNCHANGED vars
    BY <1>7, DriveInvSame DEF vars
  <1>8. QED
    BY <1>1, <1>2, <1>3, <1>4, <1>5, <1>6, <1>7 DEF Next

LEMMA SessionAlways == Gui => (Spec => []SessionInv)
PROOF
  <1> SUFFICES ASSUME Gui PROVE Spec => []SessionInv
    OBVIOUS
  <1>1. Init => SessionInv
    BY DriveInvStart DEF Init, SessionInv
  <1>2. SessionInv /\ [Next]_vars => SessionInv'
    BY SessionInvNext
  <1>3. QED
    BY <1>1, <1>2, PTL DEF Spec

\* With the settings screen, every variable of every run keeps its type.
THEOREM SessionTypeCorrect == Gui => (Spec => []TypeOK)
PROOF
  <1> SUFFICES ASSUME Gui PROVE Spec => []TypeOK
    OBVIOUS
  <1>1. Spec => []XTypes
    BY XTypesInit, XTypesNext, PTL DEF Spec
  <1>2. SessionInv /\ XTypes => TypeOK
    BY DEF SessionInv, DriveInv, XTypes, Phases, TypeOK
  <1>3. QED
    BY <1>1, <1>2, SessionAlways, PTL

\* With the settings screen, dsDiskInPlace, the write protection and the
\* partition start that the drivers report are those of the image in the drive.
THEOREM StatusAgrees == Gui => (Spec => []InDrive)
PROOF
  <1> SUFFICES ASSUME Gui PROVE Spec => []InDrive
    OBVIOUS
  <1>1. SessionInv => InDrive
    BY DEF SessionInv, DriveInv, PerDrive, InDrive
  <1>2. QED
    BY <1>1, SessionAlways, PTL

\* With the settings screen, neither the menu nor the drivers ever change the
\* image under a mounted volume.
THEOREM NeverReplaced == Gui => (Spec => []MountedStays)
PROOF
  <1> SUFFICES ASSUME Gui PROVE Spec => []MountedStays
    OBVIOUS
  <1>1. SessionInv => MountedStays
    BY DEF SessionInv, DriveInv, PerDrive, MountedStays
  <1>2. QED
    BY <1>1, SessionAlways, PTL

\* With the settings screen, an image that nobody has announced to the Mac is
\* still flagged and still in the drive, so the next poll announces it.
THEOREM StaysFlagged == Gui => (Spec => []WillBeAnnounced)
PROOF
  <1> SUFFICES ASSUME Gui PROVE Spec => []WillBeAnnounced
    OBVIOUS
  <1>1. SessionInv => WillBeAnnounced
    BY DEF SessionInv, DriveInv, DriveTypeOK, PerDrive, WillBeAnnounced
  <1>2. QED
    BY <1>1, SessionAlways, PTL

\* With the settings screen, the menu finds a handle in every drive that it
\* takes for empty.
THEOREM MenuAlwaysFinds == Gui => (Spec => []MenuFinds)
PROOF
  <1> SUFFICES ASSUME Gui PROVE Spec => []MenuFinds
    OBVIOUS
  <1>1. SessionInv => MenuFinds
    BY DEF SessionInv, MenuFinds
  <1>2. QED
    BY <1>1, SessionAlways, PTL
=============================================================================

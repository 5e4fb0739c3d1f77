------------------------------- MODULE Drives -------------------------------
(***************************************************************************)
(* The floppy, hard disk and CD-ROM drivers (sony.cpp, disk.cpp,           *)
(* cdrom.cpp) and the disk images behind them (PSP2/sys_psp.cpp), with the *)
(* menu that inserts an image while the Mac runs (PSP2/video_psp.cpp).     *)
(* There is one drive of each kind: the settings screen offers one floppy  *)
(* and one CD-ROM, and the hard disks behave alike.                        *)
(*                                                                         *)
(* An image is inserted by opening its file into the drive's handle, in    *)
(* which an image of None is the descriptor -1, and announced to the Mac   *)
(* with a diskEvent.  The drivers and the menu run on the emulation        *)
(* thread; the menu runs in the 60Hz interrupt, so it comes between any    *)
(* two driver calls and inside a PostEvent that the periodic action of a   *)
(* driver makes with interrupts enabled.                                   *)
(*                                                                         *)
(* The actions describe the drives only; Session says when they happen.    *)
(***************************************************************************)
EXTENDS Naturals

CONSTANTS
    FloppyImages, CDImages, HardDisk,   \* image files
    Writable,       \* images that can be opened for writing
    Partitioned,    \* CD-ROM images with an HFS partition
    Ext,            \* extension of an image's name: "hfv" (or none), "dsk", "other"
    None, NoHandle

Kinds == {"floppy", "disk", "cdrom"}
Removable == {"floppy", "cdrom"}
Images == FloppyImages \cup CDImages \cup {HardDisk}
ImagesFor(k) == IF k = "floppy" THEN FloppyImages
                ELSE IF k = "cdrom" THEN CDImages ELSE {HardDisk}

ASSUME DriveAssumption ==
    /\ None \notin Images \cup Kinds /\ NoHandle \notin [img : Images \cup {None}, ro : BOOLEAN]
    /\ HardDisk \notin FloppyImages \cup CDImages /\ FloppyImages \cap CDImages = {}
    /\ Writable \subseteq Images

\* Sys_open tells the kind of a handle from the name, whichever driver asks, and
\* the menu and SysEject work on the handles it made last of the two removable
\* kinds, floppy_fh and cdrom_fh.
KindByName(i) ==
    IF Ext[i] = "hfv" THEN "disk" ELSE IF Ext[i] = "dsk" THEN "floppy" ELSE "cdrom"

\* Every image is named for its drive, as those the settings screen makes are:
\* then floppy_fh and cdrom_fh are the handles of the two drives. (A hard disk
\* named *.dsk would be floppy_fh, and the menu would replace it.)
ASSUME NamesAssumption == \A k \in Kinds : \A i \in ImagesFor(k) : KindByName(i) = k

VARIABLES
    fh,         \* file handle of each drive: image and read_only, or NoHandle
    inserted,   \* psp_floppy_inserted, psp_cdrom_inserted # NULL
    driver,     \* "closed", "open", or "running" once accRun has been called
    info,       \* to_be_mounted, read_only, the image start_byte was read from
    inPlace,    \* dsDiskInPlace of the drive status record
    nonHFS,     \* mount_non_hfs of the CD-ROM drive
    posting,    \* the drive whose diskEvent the periodic action is posting
    events,     \* diskEvents the Mac has not looked at
    mounted,    \* the image of the volume the Mac has online
    unseen      \* history: drives whose image has not been announced; those
                \* in which the menu changed the image during a PostEvent are
                \* no longer counted

driveVars == <<fh, inserted, driver, info, inPlace, nonHFS, posting, events, mounted, unseen>>

\* The state of a process that starts.
NoDrives ==
    [fh |-> [k \in Kinds |-> NoHandle],
     inserted |-> [k \in Removable |-> FALSE],
     driver |-> [k \in Kinds |-> "closed"],
     info |-> [k \in Kinds |-> [tbm |-> FALSE, ro |-> FALSE, part |-> None]],
     inPlace |-> [k \in Kinds |-> 0],
     mounted |-> [k \in Kinds |-> None]]

DriversStart ==
    /\ fh = NoDrives.fh /\ inserted = NoDrives.inserted /\ driver = NoDrives.driver
    /\ info = NoDrives.info /\ inPlace = NoDrives.inPlace /\ mounted = NoDrives.mounted
    /\ nonHFS = TRUE /\ posting = None /\ events = {} /\ unseen = {}

\* SonyExit, DiskExit and CDROMExit close the files; with the process the rest
\* of the state goes too.
DriversExit ==
    /\ fh' = NoDrives.fh /\ inserted' = NoDrives.inserted /\ driver' = NoDrives.driver
    /\ info' = NoDrives.info /\ inPlace' = NoDrives.inPlace /\ mounted' = NoDrives.mounted
    /\ nonHFS' = TRUE /\ posting' = None /\ events' = {} /\ unseen' = {}

-----------------------------------------------------------------------------
(* Image files. *)

\* What Sys_open makes of an image: a handle, read-only when it cannot be
\* written or when the driver asks for it, or no handle when the file cannot
\* be opened.  The placeholder (None) gives a handle without a file. Under
\* NamesAssumption floppy_fh is fh["floppy"] and cdrom_fh is fh["cdrom"].
Sys_open(k, i) ==
    IF i = None THEN {[img |-> None, ro |-> k = "cdrom"]}
    ELSE {NoHandle, [img |-> i, ro |-> k = "cdrom" \/ i \notin Writable]}

\* SysIsDiskInserted
IsDiskInserted(h) == h # NoHandle /\ h.img # None

\* Mutant of DriversInit: an image that cannot be opened is not inserted.
DriversInitOpened(gui) ==
    \E choice \in [Removable -> Images \cup {None}] :
        /\ \A k \in Removable : choice[k] \in ImagesFor(k) \cup {None}
        /\ \E f \in Sys_open("floppy", choice["floppy"]), c \in Sys_open("cdrom", choice["cdrom"]),
              d \in Sys_open("disk", HardDisk) :
             LET h == [k \in Kinds |-> IF k = "floppy" THEN f ELSE IF k = "cdrom" THEN c ELSE d]
             IN  /\ fh' = h
                 /\ info' = [k \in Kinds |->
                       [info[k] EXCEPT !.ro = h[k] # NoHandle /\ h[k].ro]]
        /\ inserted' = [k \in Removable |-> gui /\ IsDiskInserted(fh'[k])]
        /\ UNCHANGED <<driver, inPlace, nonHFS, posting, events, mounted, unseen>>

\* PrefsEditor leaves the chosen images in the preferences and in
\* psp_*_inserted, SonyInit, DiskInit and CDROMInit open them. Without the
\* editor ("nogui") psp_*_inserted is NULL whatever the preferences name.
DriversInit(gui) ==
    \E choice \in [Removable -> Images \cup {None}] :
        /\ \A k \in Removable : choice[k] \in ImagesFor(k) \cup {None}
        /\ \E f \in Sys_open("floppy", choice["floppy"]), c \in Sys_open("cdrom", choice["cdrom"]),
              d \in Sys_open("disk", HardDisk) :
             LET h == [k \in Kinds |-> IF k = "floppy" THEN f ELSE IF k = "cdrom" THEN c ELSE d]
             IN  /\ fh' = h
                 /\ info' = [k \in Kinds |->
                       [info[k] EXCEPT !.ro = h[k] # NoHandle /\ h[k].ro]]
        /\ inserted' = [k \in Removable |-> gui /\ choice[k] # None]
        /\ UNCHANGED <<driver, inPlace, nonHFS, posting, events, mounted, unseen>>

-----------------------------------------------------------------------------
(* Drivers. *)

\* Mutant of MountVolume: the drive is not flagged.
MountVolumeUnflagged(k, h) ==
    LET wanted == k # "cdrom" \/ h.img \in Partitioned \/ nonHFS
    IN  /\ info' = [info EXCEPT ![k] = [tbm |-> @.tbm, ro |-> h.ro,
                                        part |-> IF k = "floppy" THEN @.part ELSE h.img]]
        /\ IF driver[k] = "closed"
             THEN UNCHANGED <<inPlace, unseen>>
             ELSE /\ inPlace' = [inPlace EXCEPT ![k] = 1]
                  /\ unseen' = IF wanted /\ posting # k THEN unseen \cup {k} ELSE unseen

\* SonyMountVolume, DiskMountVolume, CDROMMountVolume: a disk is in the drive.
\* A CD-ROM without an HFS partition is announced if the Mac asked for it.
\* Before the driver is open there is no status record to write to.
MountVolume(k, h) ==
    LET wanted == k # "cdrom" \/ h.img \in Partitioned \/ nonHFS
    IN  /\ info' = [info EXCEPT ![k] = [tbm |-> @.tbm \/ wanted, ro |-> h.ro,
                                        part |-> IF k = "floppy" THEN @.part ELSE h.img]]
        /\ IF driver[k] = "closed"
             THEN UNCHANGED <<inPlace, unseen>>
             ELSE /\ inPlace' = [inPlace EXCEPT ![k] = 1]
                  /\ unseen' = IF wanted /\ posting # k THEN unseen \cup {k} ELSE unseen

\* The ROM opens .Sony, InstallDrivers then .Disk and .AppleCD; programs, and
\* with them the periodic actions, run after that.
OpenedBefore(k) == IF k = "floppy" THEN {} ELSE IF k = "disk" THEN {"floppy"} ELSE {"floppy", "disk"}

\* SonyOpen, DiskOpen, CDROMOpen: what is in the drive is flagged for mounting.
DriverOpen(k) ==
    LET there == IsDiskInserted(fh[k])
    IN  /\ driver[k] = "closed"
        /\ \A j \in OpenedBefore(k) : driver[j] # "closed"
        /\ driver' = [driver EXCEPT ![k] = "open"]
        /\ info' = [info EXCEPT ![k].tbm = there,
                                ![k].part = IF there /\ k # "floppy" THEN fh[k].img ELSE @]
        /\ inPlace' = [inPlace EXCEPT ![k] = IF ~there THEN 0 ELSE IF k = "disk" THEN 8 ELSE 1]
        /\ nonHFS' = (nonHFS \/ k = "cdrom")
        /\ unseen' = IF there THEN unseen \cup {k} ELSE unseen
        /\ UNCHANGED <<fh, inserted, posting, events, mounted>>

\* mount_mountable_volumes posts the diskEvent of every flagged drive. The poll
\* for a disk in a drive that was empty finds none: the menu has flagged it.
Flagged == {k \in Kinds : driver[k] = "running" /\ info[k].tbm}

\* SonyInterrupt, DiskInterrupt and CDROMInterrupt, once a second.
OneHz ==
    /\ Flagged # {}
    /\ events' = events \cup Flagged
    /\ info' = [k \in Kinds |-> IF k \in Flagged THEN [info[k] EXCEPT !.tbm = FALSE] ELSE info[k]]
    /\ unseen' = unseen \ Flagged
    /\ UNCHANGED <<fh, inserted, driver, inPlace, nonHFS, posting, mounted>>

\* Control(accRun), called once: PostEvent runs with interrupts enabled, and
\* to_be_mounted is reset when it returns.
AccRunPost(k) ==
    /\ driver[k] = "open" /\ \A j \in Kinds : driver[j] # "closed"
    /\ posting = None
    /\ IF info[k].tbm THEN posting' = k /\ events' = events \cup {k} /\ unseen' = unseen \ {k}
                      ELSE UNCHANGED <<posting, events, unseen>>
    /\ driver' = [driver EXCEPT ![k] = IF info[k].tbm THEN @ ELSE "running"]
    /\ UNCHANGED <<fh, inserted, info, inPlace, nonHFS, mounted>>

AccRunReturn ==
    /\ posting # None
    /\ posting' = None
    /\ info' = [info EXCEPT ![posting].tbm = FALSE]
    /\ driver' = [driver EXCEPT ![posting] = "running"]
    /\ UNCHANGED <<fh, inserted, inPlace, nonHFS, events, mounted, unseen>>

\* Mutant of MacMounts: accesses are counted in dsDiskInPlace.
MacMountsCounted(k) ==
    /\ k \in events /\ posting = None
    /\ events' = events \ {k}
    /\ IF inPlace[k] # 0 /\ mounted[k] = None
         THEN /\ mounted' = [mounted EXCEPT ![k] = fh[k].img]
              /\ inPlace' = [inPlace EXCEPT ![k] = @ + 2]
         ELSE UNCHANGED <<mounted, inPlace>>
    /\ UNCHANGED <<fh, inserted, driver, info, nonHFS, posting, unseen>>

\* The Mac handles a diskEvent: it reads the drive (Prime), which works when a
\* disk is in place, and puts the volume online.
MacMounts(k) ==
    /\ k \in events /\ posting = None
    /\ events' = events \ {k}
    /\ IF inPlace[k] # 0 /\ mounted[k] = None
         THEN /\ mounted' = [mounted EXCEPT ![k] = fh[k].img]
              /\ inPlace' = [inPlace EXCEPT ![k] = IF k = "floppy" THEN 2 ELSE @]
         ELSE UNCHANGED <<mounted, inPlace>>
    /\ UNCHANGED <<fh, inserted, driver, info, nonHFS, posting, unseen>>

\* Mutant of Eject: dsDiskInPlace is not reset.
EjectInPlace(k) ==
    /\ driver[k] # "closed" /\ posting = None /\ inPlace[k] # 0
    /\ mounted' = [mounted EXCEPT ![k] = None]
    /\ IF k = "disk"
         THEN events' = events \cup {k} /\ UNCHANGED <<fh, inserted, inPlace, unseen>>
         ELSE /\ fh' = [fh EXCEPT ![k].img = None]
              /\ inserted' = [inserted EXCEPT ![k] = FALSE]
              /\ unseen' = unseen \ {k}
              /\ UNCHANGED <<events, inPlace>>
    /\ UNCHANGED <<driver, info, nonHFS, posting>>

\* Control(eject) and SysEject; the Mac has taken the volume offline. A fixed
\* disk is announced again.
Eject(k) ==
    /\ driver[k] # "closed" /\ posting = None /\ inPlace[k] # 0
    /\ mounted' = [mounted EXCEPT ![k] = None]
    /\ IF k = "disk"
         THEN events' = events \cup {k} /\ UNCHANGED <<fh, inserted, inPlace, unseen>>
         ELSE /\ fh' = [fh EXCEPT ![k].img = None]
              /\ inserted' = [inserted EXCEPT ![k] = FALSE]
              /\ inPlace' = [inPlace EXCEPT ![k] = 0]
              /\ unseen' = unseen \ {k}
              /\ UNCHANGED events
    /\ UNCHANGED <<driver, info, nonHFS, posting>>

\* CDROMControl(ModifyPostEvent)
ModifyPostEvent ==
    /\ driver["cdrom"] # "closed" /\ posting = None /\ fh["cdrom"] # NoHandle
    /\ nonHFS' = ~nonHFS
    /\ UNCHANGED <<fh, inserted, driver, info, inPlace, posting, events, mounted, unseen>>

-----------------------------------------------------------------------------
(* The menu. *)

\* Mutant of MenuMount: an image that can be opened replaces the one in the drive.
MenuMountAnyway(k, i) ==
    /\ fh[k] # NoHandle
    /\ LET h == [img |-> i, ro |-> k = "cdrom" \/ fh[k].ro \/ i \notin Writable]
       IN  /\ fh' = [fh EXCEPT ![k] = h]
           /\ inserted' = [inserted EXCEPT ![k] = TRUE]
           /\ MountVolume(k, h)
    /\ UNCHANGED <<driver, nonHFS, posting, events, mounted>>

\* The user picks image i for drive k. When the file cannot be opened the
\* floppy handle stays read-only.
MenuMount(k, i) ==
    /\ ~inserted[k] /\ fh[k] # NoHandle
    /\ LET h == [img |-> i, ro |-> k = "cdrom" \/ fh[k].ro \/ i \notin Writable]
       IN  \/ /\ fh' = [fh EXCEPT ![k] = h]
              /\ inserted' = [inserted EXCEPT ![k] = TRUE]
              /\ MountVolume(k, h)
           \/ /\ fh' = [fh EXCEPT ![k] = [img |-> None, ro |-> TRUE]]
              /\ UNCHANGED <<inserted, info, inPlace, unseen>>
    /\ UNCHANGED <<driver, nonHFS, posting, events, mounted>>

-----------------------------------------------------------------------------
(* Properties. *)

DriveTypeOK ==
    /\ fh \in [Kinds -> {NoHandle} \cup [img : Images \cup {None}, ro : BOOLEAN]]
    /\ inserted \in [Removable -> BOOLEAN]
    /\ driver \in [Kinds -> {"closed", "open", "running"}]
    /\ info \in [Kinds -> [tbm : BOOLEAN, ro : BOOLEAN, part : Images \cup {None}]]
    /\ inPlace \in [Kinds -> {0, 1, 2, 8}]
    /\ nonHFS \in BOOLEAN
    /\ posting \in Kinds \cup {None}
    /\ events \subseteq Kinds /\ unseen \subseteq Kinds
    /\ mounted \in [Kinds -> Images \cup {None}]

\* The drive status the Mac reads agrees with the host: a disk is in place when
\* an image is open, its write protection is the one the image was opened with,
\* and the partition start is that of this image and not of an earlier one.
InDrive ==
    \A k \in Kinds : driver[k] # "closed" =>
        /\ inPlace[k] # 0 <=> IsDiskInserted(fh[k])
        /\ inPlace[k] # 0 => /\ info[k].ro = fh[k].ro
                             /\ fh[k].ro \/ fh[k].img \in Writable
                             /\ k # "floppy" => info[k].part = fh[k].img

\* The volume the Mac has online is on the image in the drive: no image is
\* replaced under it, whatever the menu is used for.
MountedStays ==
    \A k \in Kinds : mounted[k] # None => fh[k] # NoHandle /\ fh[k].img = mounted[k]

\* An image that was put into a drive and not yet announced is flagged for the
\* next poll, unless the menu put it in during the PostEvent of an earlier one.
WillBeAnnounced ==
    \A k \in unseen : info[k].tbm /\ inPlace[k] # 0

\* The menu finds a handle to open an image into whenever it takes one.
MenuHasHandle ==
    \A k \in Removable : ~inserted[k] => fh[k] # NoHandle
=============================================================================

------------------------------- MODULE Xpram -------------------------------
(***************************************************************************)
(* The 256 bytes of nonvolatile parameter RAM (xpram.cpp,                  *)
(* PSP2/xpram_psp.cpp).  The emulation thread writes them, the 60Hz thread *)
(* looks once a minute whether they have changed and saves them, and       *)
(* ExitAll saves them for the last time.  The whole contents are one       *)
(* value.  Saving truncates the file and then writes it, and either step   *)
(* may fail: nobody looks at what sceIoOpen and sceIoWrite return beyond   *)
(* "if (fd > 0)".                                                          *)
(***************************************************************************)
CONSTANTS
    Values,     \* contents that programs on the Mac write
    Zero,       \* all bytes zero, as the array is when the process starts
    Default,    \* the contents InitAll sets up when it finds no signature
    Torn        \* an empty or incomplete file

Contents == Values \cup {Zero, Default}

ASSUME XpramAssumption ==
    Zero # Default /\ Zero \notin Values /\ Torn \notin Contents

VARIABLES
    xpram, last_xpram,
    file,       \* the file's contents
    saver,      \* the 60Hz thread: "none", "idle", "copied", "opened"
    kept,       \* history: the contents as the Mac last had them
    crossed,    \* history: the Mac wrote while the last save was being made
    failed      \* history: the save that ended last could not open or write

xpramVars == <<xpram, last_xpram, file, saver, kept, crossed, failed>>

\* The array and the watchdog of a process that starts.
XpramStart ==
    /\ xpram = Zero /\ last_xpram = Zero
    /\ saver = "none" /\ crossed = FALSE /\ failed = FALSE

XpramRestart ==
    /\ xpram' = Zero /\ last_xpram' = Zero
    /\ saver' = "none" /\ crossed' = FALSE /\ failed' = FALSE
    /\ UNCHANGED <<file, kept>>

\* What XPRAMInit and InitAll make of the file: its contents, the defaults when
\* it cannot be opened or has no signature, and anything with a signature when
\* it is incomplete.
Loaded ==
    IF file = Torn THEN Contents \ {Zero} ELSE ({file} \ {Zero}) \cup {Default}

\* Mutant of XPRAMInit: the contents count as saved.
XPRAMInitSaved ==
    /\ xpram' \in Loaded
    /\ kept' = xpram' /\ last_xpram' = xpram'
    /\ UNCHANGED <<file, saver, crossed, failed>>

\* XPRAMInit, LoadXPRAM and the default values of InitAll. The boot and video
\* bytes that InitAll sets in addition are part of the contents.
XPRAMInit ==
    /\ xpram' \in Loaded
    /\ kept' = xpram'
    /\ UNCHANGED <<last_xpram, file, saver, crossed, failed>>

\* The 60Hz thread starts.
WatchdogStart ==
    /\ saver' = "idle"
    /\ UNCHANGED <<xpram, last_xpram, file, kept, crossed, failed>>

\* ClkNoMem
MacWrites(v) ==
    /\ v # xpram
    /\ xpram' = v /\ kept' = v
    /\ crossed' = (crossed \/ saver # "idle")
    /\ UNCHANGED <<last_xpram, file, saver, failed>>

\* xpram_watchdog: memcmp and memcpy, then SaveXPRAM.
WatchdogCopies ==
    /\ saver = "idle" /\ last_xpram # xpram
    /\ last_xpram' = xpram
    /\ crossed' = FALSE
    /\ saver' = "copied"
    /\ UNCHANGED <<xpram, file, kept, failed>>

\* sceIoOpen truncates the file, or fails and the save is over.
WatchdogOpens ==
    /\ saver = "copied"
    /\ \/ saver' = "opened" /\ file' = Torn /\ UNCHANGED failed
       \/ saver' = "idle" /\ failed' = TRUE /\ UNCHANGED file
    /\ UNCHANGED <<xpram, last_xpram, kept, crossed>>

\* sceIoWrite writes the array as it is now, or leaves what is there.
WatchdogWrites ==
    /\ saver = "opened"
    /\ saver' = "idle"
    /\ \/ file' = xpram /\ failed' = FALSE
       \/ failed' = TRUE /\ UNCHANGED file
    /\ UNCHANGED <<xpram, last_xpram, kept, crossed>>

\* SaveXPRAM in ExitAll, in two steps.
ExitOpens ==
    /\ file' = Torn
    /\ UNCHANGED <<xpram, last_xpram, saver, kept, crossed, failed>>

ExitCannotOpen ==
    /\ failed' = TRUE
    /\ UNCHANGED <<xpram, last_xpram, file, saver, kept, crossed>>

\* Mutant of ExitWrites: the watchdog's copy is saved.
ExitWritesCopy ==
    /\ \/ file' = last_xpram /\ failed' = FALSE
       \/ failed' = TRUE /\ UNCHANGED file
    /\ UNCHANGED <<xpram, last_xpram, saver, kept, crossed>>

ExitWrites ==
    /\ \/ file' = xpram /\ failed' = FALSE
       \/ failed' = TRUE /\ UNCHANGED file
    /\ UNCHANGED <<xpram, last_xpram, saver, kept, crossed>>

-----------------------------------------------------------------------------
XpramTypeOK ==
    /\ xpram \in Contents /\ last_xpram \in Contents /\ kept \in Contents
    /\ file \in Contents \cup {Torn}
    /\ saver \in {"none", "idle", "copied", "opened"}
    /\ crossed \in BOOLEAN /\ failed \in BOOLEAN
=============================================================================

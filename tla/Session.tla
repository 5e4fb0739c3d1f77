------------------------------ MODULE Session ------------------------------
(***************************************************************************)
(* A run of the emulator from main to the end of the process               *)
(* (PSP2/main_psp.cpp, main.cpp), with the drives and the parameter RAM    *)
(* that InitAll and ExitAll set up and take down, and the next runs, which *)
(* find what the file of the parameter RAM holds.  Three parties act: the  *)
(* emulation thread, the 60Hz thread, which saves the parameter RAM, and   *)
(* the user, who works the menu or ends the program from the system.       *)
(***************************************************************************)
EXTENDS Drives, Xpram

CONSTANT
    Gui             \* the settings screen is shown (the preference "nogui" is off)

ASSUME SessionAssumption == Gui \in BOOLEAN

VARIABLES
    phase,          \* where main is
    reached         \* history: this run has got as far as XPRAMInit

vars == <<driveVars, xpramVars, phase, reached>>

Init ==
    /\ DriversStart /\ XpramStart
    /\ file \in Contents \ {Zero} /\ kept = file
    /\ phase = "start" /\ reached = FALSE

InitAll ==
    /\ phase = "start"
    /\ XPRAMInit /\ DriversInit(Gui)
    /\ phase' = "ready" /\ reached' = TRUE

Start680x0 ==
    /\ phase = "ready"
    /\ WatchdogStart
    /\ phase' = "running"
    /\ UNCHANGED <<driveVars, reached>>

\* QuitEmulator: there is no memory, no ROM or one that CheckROM refuses, a
\* later part of InitAll or the 60Hz thread cannot be made, or the Mac has run.
\* It sets tick_thread_cancel and waits 100 ms, but does not join: the 60Hz
\* thread may be anywhere when ExitAll saves the parameter RAM, which comes
\* first, and takes everything down.
QuitEmulator ==
    /\ phase \in {"start", "ready", "running"}
    /\ \/ ExitOpens /\ phase' = "saving" /\ UNCHANGED driveVars
       \/ ExitCannotOpen /\ DriversExit /\ phase' = "over"
    /\ UNCHANGED reached

ExitAll ==
    /\ phase = "saving"
    /\ ExitWrites /\ DriversExit
    /\ phase' = "over"
    /\ UNCHANGED reached

\* The process is ended from outside or loses power.
Dies ==
    /\ phase \in {"running", "saving"}
    /\ DriversExit
    /\ phase' = "died"
    /\ UNCHANGED <<xpramVars, reached>>

\* The emulator is launched again.
Relaunch ==
    /\ phase \in {"over", "died"}
    /\ XpramRestart
    /\ phase' = "start" /\ reached' = FALSE
    /\ UNCHANGED driveVars

\* The 60Hz thread. It looks at tick_thread_cancel only between two ticks, so
\* the tick it is in goes on beside ExitAll and until the process ends.
Tick ==
    /\ phase # "died"
    /\ WatchdogCopies \/ WatchdogOpens \/ WatchdogWrites
    /\ UNCHANGED <<driveVars, phase, reached>>

\* The emulation thread: programs on the Mac, driver calls, interrupts.
Emulation ==
    /\ phase = "running"
    /\ \/ /\ posting = None
          /\ \E v \in Values : MacWrites(v)
          /\ UNCHANGED driveVars
       \/ /\ \/ \E k \in Kinds : DriverOpen(k) \/ AccRunPost(k) \/ MacMounts(k) \/ Eject(k)
             \/ AccRunReturn
             \/ OneHz
             \/ ModifyPostEvent
             \/ \E k \in Removable : \E i \in ImagesFor(k) : MenuMount(k, i)
          /\ UNCHANGED xpramVars
    /\ UNCHANGED <<phase, reached>>

Next ==
    \/ InitAll \/ Start680x0 \/ QuitEmulator \/ ExitAll \/ Dies \/ Relaunch
    \/ Tick \/ Emulation

Spec == Init /\ [][Next]_vars

-----------------------------------------------------------------------------
(* Properties. *)

TypeOK ==
    /\ DriveTypeOK /\ XpramTypeOK
    /\ phase \in {"start", "ready", "running", "saving", "over", "died"}
    /\ reached \in BOOLEAN

\* While the Mac runs the menu never opens an image into a drive that has no
\* handle: it takes one only where the start-up has made a handle.
MenuFinds == phase = "running" => MenuHasHandle

\* When the emulator has quit, the file holds what the Mac last left in the
\* parameter RAM, although the 60Hz thread, which nobody joins, may save it at
\* the same time or later. Only two things lose it: the save that ended last
\* could not open or write the file, or the process ends between the late
\* thread's truncation and its write.
SavedAtQuit ==
    phase = "over" /\ reached /\ ~failed /\ saver # "opened" => file = kept

\* TECH: the parameter RAM "is saved to disk to preserve the contents for the
\* next time Basilisk is launched", whether or not this launch succeeds, when
\* nothing goes wrong with the file.
Preserved == phase = "over" /\ ~failed /\ saver # "opened" => file = kept

\* While nothing is being saved, contents equal to the watchdog's copy are in
\* the file, unless that save failed (the copy is made before it, so it is not
\* tried again) or the Mac wrote while it was made.
WatchdogSound ==
    phase = "running" /\ saver = "idle" /\ last_xpram = xpram /\ ~crossed /\ ~failed
        => file = xpram
=============================================================================

# A verification of Basilisk II for the PS Vita

Basilisk II emulates a 68k Macintosh: an interpreter executes 68k code, and
patched places in the Mac's ROM call C++ replacements of its drivers and
managers ("EmulOps"), which may call 68k code in turn (`Execute68k`). This
directory holds TLA+ models of the parts of it in which several threads, nested
calls or long sequences of calls make errors hard to find by testing, TLC
configurations that check them, and proofs for the TLA+ proof system.

Paths such as `timer.cpp` are relative to `src/` of the repository, `PSP2/` is
the Vita port. `PROJECT.json` relates every definition to source lines.

## The system

One emulation thread runs the 68k interpreter and everything it calls. Beside it
run the 60Hz thread (`PSP2/main_psp.cpp`) and two audio threads
(`PSP2/audio_psp.cpp`). They meet in `InterruptFlags`, `regs.spcflags` and a few
semaphores.

| Component | State | Operations | Hard because |
|---|---|---|---|
| Interrupt delivery (`PSP2/main_psp.cpp`, `uae_cpu/newcpu.cpp`, `uae_cpu/basilisk_glue.cpp`, `emul_op.cpp`) | `InterruptFlags`, `spcflags`, interrupt mask, chain of nested EmulOps and `Execute68k` calls | set/clear a flag, trigger, STOP, RTE, the interpreter's special-flag loop, the dispatcher | three threads; a two-step INT/DOINT protocol; handlers that run 68k code; flags cleared late |
| Audio (`audio.cpp`, `PSP2/audio_psp.cpp`) | two semaphores, `sound_status`, open count, mixer, sources | the two threads, `AudioInterrupt`, `AudioDispatch`, `AudioExit` | unbounded waits; quitting while a thread waits |
| Time Manager (`timer.cpp`, `PSP2/timer_psp.cpp`) | 64 descriptors, `TMTask` records in Mac memory | `InsTime`, `RmvTime`, `PrimeTime`, `TimerInterrupt` | the table changes under the walk; mixed 64/32-bit signed/unsigned time |
| ADB (`adb.cpp`, input in `PSP2/video_psp.cpp`) | mouse position and buttons with their old values, key ring, key matrix, registers 3 | `ADBMouseMoved/Down/Up`, `ADBKeyDown/Up`, `ADBSetRelMouseMode`, `ADBOp`, `ADBInterrupt` | ring without a full test; "old" copies; absolute and relative mode; early return |
| Touch, pad, keyboard and mouse (`PSP2/video_psp.cpp`, `PSP2/psp2_touch.cpp`) | tracked fingers, drag, simulated clicks, input map with "is down" flags, last HID reports | one frame of `VideoInterrupt`: `psp2PollTouch`, direct touch, `key_down`/`key_up`, `handle_keyboard`, the menu | five devices share the Mac's keys and buttons; clicks released by time; comparison with an earlier report |
| XPRAM (`xpram.cpp`, `PSP2/xpram_psp.cpp`) | 256 bytes, the watchdog's copy, a file | load, defaults, write, save once a minute, save on exit | saved by another thread, also beside the save on exit; truncated before it is written; errors ignored; the process may end at any time |
| Floppy, disk, CD-ROM (`sony.cpp`, `disk.cpp`, `cdrom.cpp`, `PSP2/sys_psp.cpp`) | handles, drive status, mount flags | Open, Control, Prime, 1Hz interrupt, the menu | state of a drive kept in four places; mounting from interrupts |
| Startup and shutdown (`main.cpp`, `PSP2/main_psp.cpp`) | | `main`, `InitAll`, `QuitEmulator`, `ExitAll` | starts that fail half way; a thread that is not joined |
| External file system (`extfs.cpp`, `PSP2/extfs_psp.cpp`) | list of `FSItem`s, next CNID, host tree, helper files | lookups, create, delete, rename, move, open | CNIDs exchanged on rename; helper files moved first, their errors ignored |
| SCSI Manager (`scsi.cpp`) | phase, status, transfer list | Arbitrate, Select, Command, Read, Write, Complete | no target on the Vita: Select fails |
| Serial, Ethernet | ports, protocol handlers | driver calls | unreachable on the Vita: opening fails |
| Video modes, preferences, patches, opcodes, dialogs | | | I/O, byte patterns, generated code |

Interaction: a thread or an input event sets a flag and triggers; the loop takes
a level 1 interrupt when the mask is open; the ROM's handler executes
`M68K_EMUL_OP_IRQ`; the dispatcher tests the flags in order. 60HZ runs
`TimerInterrupt` (which calls timer routines) and `VideoInterrupt` (which makes
ADB events), then the Mac's vertical blanking tasks; AUDIO runs
`AudioInterrupt`, which signals the streaming thread; ADB runs `ADBInterrupt`,
which calls the Mac's ADB handlers.

The menu inserts disk images from inside `VideoInterrupt`. The 60Hz thread saves
the XPRAM, `ExitAll` saves it once more.

What makes each part correct: a request is not forgotten and reaches its handler
(interrupts); a request for a block is answered, once, and quitting ends the
threads (audio); a routine is called once per `PrimeTime`, not early and not
after `RmvTime` (Time Manager); the Mac learns every key, button and motion once
and in order (ADB); nothing stays pressed without a device that will release it
(input devices); what the Mac sees of a drive is what is in it, and every
inserted image is announced (drives); the file holds what the Mac last wrote,
unless writing it failed (XPRAM); a CNID means one file for as long as it exists (ExtFS).

## Modules

| Module | Models |
|---|---|
| `Interrupts` | interrupt delivery |
| `Audio` | audio threads and component; flag updates as load and store |
| `TimerTime` | the time arithmetic, with word widths as constants |
| `TimerQueue` | abstract: what the Time Manager promises |
| `TimeManager` | descriptor table and walks; implements `TimerQueue` |
| `Adb` | ADB emulation |
| `Touch` | gestures of a touch panel |
| `Input` | one frame of `VideoInterrupt`, all input devices; extends `Touch` |
| `Drives` | the three disk drivers, image files, the menu's inserting |
| `Xpram` | parameter RAM and its file |
| `Session` | launches of the emulator; composes `Drives` and `Xpram` |
| `ExtFS` | external file system |
| `MC*` | instances for TLC; `MCTimerStale` adds a history variable |
| `*_proofs` | theorems |

`Input` and `Adb` meet at `ADBKeyDown/Up` and `ADBMouseDown/Up`: `Adb` takes any
sequence of these calls, `Input` says which ones the devices make. `Audio` relies
on `Interrupts` for the delivery of its flag (see Fairness).

### Interrupts

`stk` is the chain of activations on the emulation thread, the running one last:
the program, interrupt handlers, EmulOps (`op`, or `irq` for the dispatcher) and
68k routines called by EmulOps. Each activation remembers the mask that it gives
back: `Exception` pushes the SR and RTE restores it; `m68k_emulop` saves the SR
before the EmulOp and restores it after. `cpu` says where in
`m68k_do_execute`/`m68k_do_specialties` the thread is, one action per flag
test or update, so that a trigger by another thread falls between any two.
`asked` is a history variable: sources requested since their handler last began.

Two behaviours of the code deserve a note. An interrupt that is due on the
`M68K_EXEC_RETURN` opcode is taken, and its frame is then dropped because
`m68k_execute` ends: the handler never runs. This does no harm, since the flags
stay pending and `MakeFromSR` raises INT again. And a 60Hz or 1Hz tick that
arrives while its handler runs is lost, because the flag is cleared afterwards;
the next tick makes up for it. Audio and input requests are safe from this:
AUDIO is cleared first, and ADB events are made on the emulation thread only.

SERIAL, ETHER and NMI are tested by the dispatcher but nothing raises them on
the Vita. The mask is the only part of the SR that is kept; trace mode and the
JIT are left out. A read-modify-write of `InterruptFlags` or `spcflags` is one
step in this module.

### Audio

`fill`, `out`, `tick` and `cpu` are the program counters of the four threads.
`SetInterruptFlag` and `ClearInterruptFlag` are a load into `reg[t]` and a
store. With `Atomic` TRUE no other thread updates the word in between, which is
what the comment in `PSP2/main_psp.cpp` says of the platform. Semaphores are
external: a maximum of 1, and a wait on a deleted one returns. Sample data and
the choice between the two buffers are left out.

### Time Manager

A `TMTask` is kept as two bits of `qType`, whether `tmWakeUp` is zero, and
`tmCount`. `walk` is the stack of `TimerInterrupt` calls, each with its loop
index, its `now` and the task whose routine it is running; while a routine runs
every Time Manager call, and if `MaxNest` allows another `TimerInterrupt`, may
happen. The clock is monotone and may advance between any two steps. `TM_QUEUE`
is 0 in this build, so the Mac-side queue is not there. A program that reuses
the memory of an installed task without `RmvTime` is not modelled.

`TimerQueue` says what the Mac relies on: a set of installed tasks, a deadline
for each primed one, a stack of running routines. `Fire` needs a deadline that
has passed and uses it up. `TimeManager!Promise` is that specification under
`installed <- InstalledTasks, deadline <- Deadline, running <- Running`.

### ADB

Events happen while `cpu = "video"` (inside `VideoInterrupt`), in any order and
number; the model then follows the dispatcher to `ADBInterrupt`, the mouse
handler and one call of the keyboard handler per event. `ADBOp` may be called
whenever 68k code runs, the handlers included. `mac_x`, `mac_button` and
`mac_keys` are what the Mac's handlers have been told, `pending` and `owed` what
they should still be told. One axis stands for both. The dispatcher is not
re-entered, which is `Interrupts!DispatcherNotReentered`.
Keyboard LEDs, the enable bits of register 3 and Talk, which only reads, are
left out.

### Touch and Input

A frame goes through the stages of `VideoInterrupt`: START and SELECT, then the
on-screen keyboard, or the menu, or panel, screen, pad, mouse and keyboard in
this order. `down` is what the Mac has been told is pressed. Each device keeps
its own record of what it pressed (`held` lines of the map, `clicked` mouse
buttons, `mouseClickedTouch`, the drag, the clicks still to be released, the last
report), and `Held` collects these. `lost` is a history variable: keys and buttons
that the code is known to leave behind, in three places only: a map loaded over
a held line, a modifier on the right of the keyboard, a keyboard that can no
longer be read.

The panel reports a set of fingers, handled one by one in any order, new and
still ones before those that went up, as in `psp2PollTouch`. Times are ages
that stop counting at the longest wait. `Sessions` says which devices one
instance uses: any set of them is allowed, TLC is given four, and the
theorems hold for all.
Pointer motion is `Adb`'s subject. A HID code without a Mac key (255) is `NoKey`
and presses nothing. `mac_key` gives different keys to different codes and none
of the four modifiers, as the table in `PSP2/video_psp.cpp:812` does. Caps Lock has
three sources: the lamp bit of a report and a line of the map that starts with
it toggle `caps_lock`; its own HID code (0x39, key 57) and a line with it further
back press and release it like any key. The model has all three.

### Drives, Xpram and Session

A handle is the image open in it and `read_only`; `None` is the descriptor -1. What the
Mac knows of a drive is spread over the handle, `psp_*_inserted`, the
`DriveStatus` record and `drive_info`, and each has its variable. `mounted` is the
volume that the Mac has online. The menu acts between any two driver calls and
during the `PostEvent` of the first `accRun`, which is the only one made with
interrupts enabled: `AccRunPost` and `AccRunReturn` are two steps. One drive of each
kind stands for the list. `Sys_open` tells the kind of a handle from the extension of
the file's name, and the menu works on the last handle of each removable kind
(`floppy_fh`, `cdrom_fh`). `NamesAssumption` says that images are named for their
drives, so that these are the drives' handles; a hard disk image named `*.dsk`
would be the menu's floppy.

The contents of the XPRAM are one value. A save is a truncation and a write, on
the 60Hz thread with the watchdog's copy before; the open may fail, which leaves
the file as it is, and so may the write, which leaves it truncated. `failed` is a
history variable: the save that ended last did not get through. `QuitEmulator`
waits 100 ms for the 60Hz thread and does not join it, so `Tick` goes on beside
the save of `ExitAll` and until the process ends. `Dies` ends the process between
any two steps and `Relaunch` starts the next, which loads what the file holds; a
truncated file gives the defaults or any contents with a signature (`Loaded`). A
failed start goes through `ExitAll` like a clean exit. `Gui` is the settings screen
(the preference `nogui` is off).

### ExtFS

`cat.items` is the list of `FSItem`s, `at` where each host object is, `rsrc` the
resource forks in `.rsrc`. A call is one step: all come from the emulated CPU. A
path of several components is a chain of lookups, so an action names its object
by the CNID of a directory and a name. `told` remembers one CNID that the Mac was
given, and `told.ok` is false once a directory above the object has moved: the
items below keep the old item as their parent, and their CNIDs then name paths
that are gone. `Guest` cuts names to 31 bytes.

`extfs_rename` and `extfs_remove` are several host calls: the helper first, with
errors ignored, then the object, whose result the caller sees (`done`). The host
may refuse either at any call, beyond what it must refuse (`CanRename`,
`CanRemove`). A call of which one half was carried out parts the file from its
fork: the helper file is then `Loose`. It stays where it is, may be moved, removed
or overwritten by later calls, and is what a file that takes the name finds as its
fork. The helper of a directory is `Loose` from the start. `ForkStays` is about the
forks that have not been parted.

## Runs

| Run | Properties | Shows |
|---|---|---|
| `interrupts` | `TypeOK` `NoForgottenInterrupt` `RequestKept` `StreamWaitAnswered` `ProperNesting` `DispatcherNotReentered` | masks 0, 1 and 7, four activations: enough for an interrupt inside a routine called by an EmulOp of the program |
| `interrupts_live` | `EventuallyHandled` | Classic ROM, three activations, fairness |
| `audio` | `TypeOK` `RequestAnswered` `NoStaleAck` `MixerHasData` `AckArrives` `ExitTerminates` | indivisible flag updates |
| `audio_race` | `RequestAnswered` (violated) | divisible flag updates lose a request |
| `timer_table` | `TypeOK` `OneDescriptor` `ActiveInstalled` `ExpiredServed` `Promise` | two tasks, two descriptors, nested walks, fairness |
| `timer_stale` | `RelativeToLast` (violated) | a delay counts from another task's wakeup time |
| `adb` | `TypeOK` `KeysInOrder` `MatrixFollows` `CaughtUp` `MotionKept` | one key, two buttons, both mouse protocols |
| `adb_jump` | `PointerAtFinger` (violated) | a second touch at the same place does not move the pointer |
| `extfs` | `TypeOK` `UniqueIds` `ParentAgrees` `IdKept` `ForkStays` | a file, a directory, three names of which two are the same on the Mac, a host that refuses any half of a call |
| `session` | `TypeOK` `InDrive` `MountedStays` `WillBeAnnounced` `MenuFinds` `SavedAtQuit` `WatchdogSound` | three drives, any number of launches, saves that fail, an exit beside a late save |
| `xpram_quit` | `Preserved` (violated) | a failed start overwrites the parameter RAM |
| `input` | `TypeOK` `DragHeld` `FingersGone` `NothingStuck` `PressSeen` | four fingers of which three are tracked, two report slots, each device, Caps Lock from each of its sources |

Handlers that lower the mask, any depth of nesting and a descriptor table with
fewer entries than tasks are not in these runs: the theorems about `Interrupts`
and `TimeManager` cover them for all values.

Every property of a passing run has a mutant: an operator next to the modelled
one, changed like a plausible slip, under which TLC finds the property violated.

### Findings

The four violated runs are disagreements between the code and its own comments
or manual.

- `audio_race`. "Interrupt flags (must be handled atomically!)"
  (`PSP2/main_psp.cpp:441`), and they are not: `|=` and `&=` on a word shared by
  three threads. The justification, "PSP uses cooperative multitasking", was
  kept from the PSP port. A store of an old value erases AUDIO; since the
  streaming thread asks again only after an answer, sound stops until the
  emulator quits. A lost 60HZ or 1HZ is made up for by the next tick.
- `timer_stale`. `alloc_desc` leaves the previous user's wakeup time, so
  "relative to last scheduled time" (`timer.cpp:255`) may be relative to a time
  for which another task was scheduled.
- `adb_jump`. "Pointer jumps to finger" (`README.MD:264`) fails after relative
  motion if the finger comes back to exactly the last absolute position.
- `xpram_quit`. The XPRAM "is saved to disk to preserve the contents for the next
  time Basilisk is launched" (`TECH:322`), but a launch that fails before
  `XPRAMInit` (no ROM file, for example) still goes through `ExitAll`, which saves
  the array first (`main.cpp:218`): zeros, since nothing has been loaded.

Some behaviour that a reader should know of, which the models have and no run
states: an overdue task's remaining time is the
wrapped difference (`PSP2/timer_psp.cpp:186` tests an unsigned value for `< 0`,
although line 179 promises zero); with `nogui` the menu may replace the image
of a mounted volume; an image inserted during the first `PostEvent` has its flag
reset; a key that moves to an earlier slot of the keyboard report is pressed
there and then released with its old slot; renaming a directory orphans the
CNIDs below it; a write that the Mac takes back during a save is not written again until the
next change or exit, and neither are contents whose save failed, because the watchdog's copy
is made first; a late save of the 60Hz thread may truncate the file after `ExitAll` has written
it, and lose it if the process ends then; a rename that the host refuses after the helper file has
moved leaves the resource fork under the new name, where another file may find it as its own.

### Bounds

`MaxDepth` limits nesting (see the table). `MaxOpen` = 2 and `MaxSources` = 1
distinguish the first, a further and the last open, and some sources from none.
`MaxTime` and `MaxWakeup` of 1 or 2 give times before, at and after a deadline;
`NumDescs` = 2 reuses descriptors; `MaxNest` = 2 lets a walk interrupt a routine.
`HostWord` = 64, `MacWord` = 16 and `Milli` = 2 keep the relation of the widths
(the int wraps within the host word).
`KeyBufferSize` = 3 with `MaxPending` = 2 fills
the ring to its capacity and wraps it; `MaxPending < KeyBufferSize` is an
assumption that the code does not enforce (see the hazards). `MotionRange` = 1
makes motion overflow the short protocol and fit the extended one.
`MaxItems` = 4 bounds the list of `FSItem`s: the root, and three items, which is
what a rename of a file into a directory takes, with a name looked up before.
`MaxLoose` = 1 lets one helper file be without its file, which a later call on
the same name meets.
Two `Values` of the XPRAM let the Mac write, change and take back. Two CD-ROM
images, which are interchangeable (symmetry), show what an earlier image leaves
behind.
`MAX_TAP_TIME` = `SIMULATED_CLICK_DURATION` = 1 and `MaxDelay` = 2 give polls before, at
and after the end of a tap; in the code the two are 250 and 50 ms, and the proofs need
only that a click is not longer than a tap. `Slots` = 2 lets a key move between slots. Fingers
are interchangeable, so `input` uses symmetry; its one `PROPERTY` does not tell
fingers apart.

`audio` and `audio_race` switch off the deadlock check: after `AudioExit` and
the end of the threads the system has stopped.

### Fairness

- `Interrupts`: the host schedules each thread; EmulOps, handlers and the routines
  they call come to an end. The 68k program itself owes nothing: that it lets the loop poll with level 1
  open is the premise `[]<>Polls` of `EventuallyHandled`. Strong fairness is
  used where another interrupt may disable a step for a while, and for the one
  second counter, which the 60Hz thread reaches every 60 ticks.
- `Audio`: the host schedules each thread, the loop takes an interrupt that stays
  pending (`NoForgottenInterrupt` and `EventuallyHandled`), `QuitEmulator` runs
  to its end. Nothing obliges the Mac to open or close the component or to quit.
- `TimeManager`: the 60Hz interrupt keeps coming while no walk is under way, a
  walk goes on, routines return. A nested walk is never obliged to happen.

## Proofs

TLAPS checks seven modules, for all values of the constants that satisfy the
named assumptions.

- `Interrupts_proofs` (`InterruptsAssumption`: masks are 0..7, depth is any
  number): `TypeCorrect`, `NeverForgotten`, `AlwaysNested`, `RequestsKept`,
  `StreamAnswered`, `NotReentered`. The first inductive
  invariant joins types, nesting and `NoForgottenInterrupt`. The three need
  each other: the end of an EmulOp or of a handler takes its mask from the
  chain, so the chain's types and shape decide whether an interrupt becomes
  open; and the end of a routine under `Execute68k` cuts the chain, which
  stays linked only because at most one frame, whose handler has not begun, lies
  above the routine. `Chain` and its lemmas
  (pushing, replacing the top, prefixes) carry the sequence reasoning.
  `RInv` adds that a dispatcher above a pending ADB request has not yet passed
  ADB, and that the streaming thread's request is flagged, signalled or being
  served. `DInv` says that above an interrupt handler every mask to be given
  back is at least 1.
- `Audio_proofs` (`AudioAssumption`): `AudioTypeCorrect` and `MixerKeepsData`
  without further assumptions, `Answered` and `NoneLeftOver` if `Atomic`, which
  `audio_race` shows to be needed. `Alone` says that at most one thread is between load and
  store and that its word is still the one in memory; `OneToken` that there is
  exactly one request or one acknowledgement while `fillBuffer` waits, and none
  otherwise, until the semaphores are deleted.
- `TimeManager_proofs` (`TimerTimeAssumption`, `TimeManagerAssumption`: all times
  lie within the range of an int): `TypeCorrect`, `Unique`, `NoneLost`, `Implements`. `IInv` adds to the
  three invariants that only the innermost walk is between routines
  (`Suspended`), that a running routine's walk is inside the table (`InTable`)
  and that no walk compares with a time to come (`NotAhead`). The last one is why
  an outer walk that goes on with an old `now` calls nothing early. `Implements`
  maps each step: the table operations and `Fire` to their abstract
  counterparts, the other walk steps to stuttering. `CompareExact`, `DelayExact`
  and `RemainingExact` say for which arguments the time arithmetic is exact, for
  every word width.
- `Adb_proofs` (`AdbAssumption`): `AdbTypeCorrect`, `QueueKept`, `OldestFirst`,
  `NoMotionLost`, `MatrixAgrees`, `AllDelivered`. `Ring` says that the
  pending events lie between the pointers, and that the write pointer is their
  number ahead of the read pointer. It avoids `%` by saying where a pointer wraps.
  `OldestFirst` is the action property that follows: each handler call gets the
  oldest event. `MotionKept` is inductive by itself, given the types; its proof is
  arithmetic on remainders (`Congruent`, `DecodedCongruent`, `ReportedAll`: what
  the Mac decodes from the bits sent differs from what was owed by a multiple of
  the range). `Matrix` says of each key that the last of its events in the buffer, or the Mac if
  there is none, agrees with `key_states`. `AllDelivered` needs
  `Buttoned`: which copy of the buttons the Mac knows at each point of
  `ADBInterrupt`, and that the flag is set for as long as it runs.
- `Session_proofs` (`DriveAssumption`, `NamesAssumption`, `XpramAssumption`,
  `SessionAssumption`).
  `CopyIsSaved` needs nothing else: `CopySaved` says that the watchdog's copy
  starts as zeros, which the contents never are once they have been loaded, and
  that it is the array's contents while a save that the Mac did not cross is
  under way. `QuitSaves` needs no assumption on the
  scheduling either: whichever of the two saves writes last writes the same
  array, which the Mac no longer changes. `SessionTypeCorrect`,
  `StatusAgrees`, `NeverReplaced`, `StaysFlagged` and `MenuAlwaysFinds` assume `Gui`.
  Their invariant `PerDrive` adds that an image in a removable drive is known to
  the menu (`inserted`), which is what keeps the menu from replacing it, and that a
  drive whose driver is closed is empty for the Mac.
- `ExtFS_proofs` (`ConstAssumption`): `ExtFSTypeCorrect`, `IdsUnique`,
  `ParentsAgree`, `CnidKept`, `ForksStay`, for any files, names and length of the
  list. The invariant `FSInv` has four parts. `IsCat`: each item has an earlier one as
  parent and reports its CNID, CNIDs are distinct, below the next and given out in turn, and no two items
  have the same host name in the same directory; it survives a lookup, an
  appended item and an exchange. `IsHost`: no two objects have the same path, and every
  object's directory exists. `ForkInv`: a fork that is not loose lies beside its
  file. `KeptIn`: the item that has the CNID told leads to the
  object told.
  The recursive function of `Obj` is the solution `ObjFun` of its
  equation, with the host tree as a parameter. `ObjExists` shows
  that there is one, because parents come first in the list, by induction as the
  absence of a least counterexample (`Induct`, over a set, since an operator
  cannot be passed). From `ObjFacts` follow: no object is that of two items
  (`ObjInjective`), and items of objects outside a changed part of the tree lead where they did
  (`ObjKept`). `KeptSwap` puts these together for a rename or a move: the item of the new path
  now leads to the object and has its CNID, and nothing that is not below the object
  is affected. The function of `Inside` is not well-founded in every tree, so its
  equation is solved by a least fixpoint (`BelowSolved`). `ForksStay` makes no
  assumption on what the host refuses: the fork that a call treats belongs to
  the object of that call, if to any (`ForkOwner`, as no two objects have one path),
  and each outcome of the two halves leaves it beside the file or loose (`ForkStep`).
- `Input_proofs` (`TouchAssumption`, `InputAssumption`): `DragKeepsButton`,
  `PanelForgets`, `InputTypeCorrect`, `NeverStuck`, `PressesArrive`. `TouchInv`
  needs that tracked fingers are on the panel or about to be lifted (`Fingered`),
  and that the fingers down, all but one after a right click, came later than a click that
  is still to be released (`Younger`), so that fingers old enough to drag have
  outlived it.
  `StuckInv` gives each key and button that is down its holder; Caps Lock may have
  several, and a release through one of them takes it from the Mac. `CodeInv` says
  how far the comparison of the two reports has got.

Every invariant that a passing run checks is the subject of a theorem. Only
model-checked is liveness (`EventuallyHandled`, `AckArrives`, `ExitTerminates`,
`ExpiredServed`): fairness is outside the prover's reach. What the runs that
expect a violation refute is no theorem either.

## Plan

Done, in this order: `Interrupts`, `Audio`, `TimerTime`, `TimerQueue`,
`TimeManager`, `Adb`; then `Touch` and `Input`, `Xpram`, `Drives`, `Session`,
`ExtFS`; proofs about each of them.

Next: `Interrupts` with `spcflags` updates as load and store; `Adb` with
nested dispatchers; the position arithmetic of `Prime`.

## Not modelled

Serial and Ethernet cannot be opened on the Vita (`DSERDPort::open` returns
`openErr`; `ether_init` fails and the UDP thread is commented out), SCSI has no
targets, and the clipboard functions do nothing. Video modes and the preferences
are I/O and single-threaded bookkeeping; ROM and resource patches are byte
patterns. In the modelled parts: reads and writes of disk blocks and of forks,
CD audio, working directories and Finder info of ExtFS, keyboard LEDs, sample
data, trace mode and the JIT.

By lines the models cover a small part of the repository. It has some 280,000
lines of source, of which the opcode functions generated for two ports, the JIT
compiler with its code generators, the floating point emulations, slirp and the ports to
other systems, none of which this build runs except one copy of the opcodes,
make up nearly nine tenths. 68k code is taken as any sequence of the steps that matter
to a model, so opcodes are below every model's level.

-------------------------------- MODULE Audio --------------------------------
(***************************************************************************)
(* Sound output: the component that the Mac's Sound Manager calls          *)
(* (audio.cpp), the two host threads that play its blocks                  *)
(* (PSP2/audio_psp.cpp) and the words and semaphores between them.         *)
(*                                                                         *)
(* SetInterruptFlag and ClearInterruptFlag are plain "|=" and "&=" on a    *)
(* word that three threads share, so each is a load and a store here.      *)
(* Atomic = TRUE assumes what PSP2/main_psp.cpp says of the platform, that *)
(* no other thread runs in between; Atomic = FALSE does not.               *)
(*                                                                         *)
(* That the loop notices a pending flag is Interrupts!NoForgottenInterrupt *)
(* and is taken for granted: IrqTake is enabled while a flag is pending.   *)
(* The sample data, and which of the two buffers it goes to, are left out. *)
(***************************************************************************)
EXTENDS Integers, Sequences

CONSTANTS
  Atomic,       \* are read-modify-writes of InterruptFlags indivisible
  MaxOpen,      \* bound on open_count
  MaxSources    \* bound on num_sources

ASSUME AudioAssumption ==
  Atomic \in BOOLEAN /\ MaxOpen \in Nat /\ MaxSources \in Nat

Threads == {"cpu", "tick", "fill"}

Flags == {"60HZ", "AUDIO"}

VARIABLES
  InterruptFlags,
  reg,             \* what a thread has loaded of InterruptFlags
  cpu,             \* where the emulation thread is
  tick, fill, out, \* where the 60Hz, bufferFilling and audioOutput threads are
  bufferEmpty,     \* semaphore counts; Deleted once AudioExit is through
  irq_done,
  sound_status,    \* "run" or 0xDEADBEEF
  audio_data,      \* is the component's data area allocated
  open_count,
  mixer,           \* is the Apple Mixer open
  num_sources

threadVars == <<InterruptFlags, reg, tick, fill, out, bufferEmpty, irq_done,
                sound_status>>

componentVars == <<audio_data, open_count, mixer, num_sources>>

vars == <<InterruptFlags, reg, cpu, tick, fill, out, bufferEmpty, irq_done,
          sound_status, audio_data, open_count, mixer, num_sources>>

\* Stands for the count of a semaphore that has been deleted.
Deleted == -1

Dead == sound_status = "0xDEADBEEF"

\* State after AudioInit has started both threads.
Init ==
  /\ InterruptFlags = {}
  /\ reg = [t \in Threads |-> << >>]
  /\ cpu = "mac"
  /\ tick = "idle" /\ fill = "loop" /\ out = "loop"
  /\ bufferEmpty = 1 /\ irq_done = 0
  /\ sound_status = "run"
  /\ audio_data = FALSE /\ open_count = 0
  /\ mixer = FALSE /\ num_sources = 0

-----------------------------------------------------------------------------
(***************************************************************************)
(* Semaphores with a maximum of 1 (sceKernelSignalSema, sceKernelWaitSema).*)
(* A wait on a deleted semaphore returns an error, which the code ignores. *)
(***************************************************************************)
\* Mutant of Signalled: a semaphore created without its maximum of 1.
SignalledUnbounded(sem) == IF sem = Deleted THEN sem ELSE sem + 1

Signalled(sem) == IF sem = Deleted THEN sem ELSE 1

CanWait(sem) == sem \in {1, Deleted}

Waited(sem) == IF sem = 1 THEN 0 ELSE sem

(***************************************************************************)
(* Read-modify-write of InterruptFlags by thread t.                        *)
(***************************************************************************)
Undisturbed(t) == Atomic => \A u \in Threads \ {t} : reg[u] = << >>

Load(t) ==
  /\ Undisturbed(t)
  /\ reg' = [reg EXCEPT ![t] = << InterruptFlags >>]
  /\ UNCHANGED InterruptFlags

SetInterruptFlag(t, f) ==
  /\ InterruptFlags' = reg[t][1] \cup {f}
  /\ reg' = [reg EXCEPT ![t] = << >>]

\* Mutant of ClearInterruptFlag: the flag stays.
ClearNothing(t, f) ==
  /\ InterruptFlags' = reg[t][1]
  /\ reg' = [reg EXCEPT ![t] = << >>]

ClearInterruptFlag(t, f) ==
  /\ InterruptFlags' = reg[t][1] \ {f}
  /\ reg' = [reg EXCEPT ![t] = << >>]

-----------------------------------------------------------------------------
(***************************************************************************)
(* The 60Hz thread.                                                        *)
(***************************************************************************)
TickLoad ==
  /\ tick = "idle"
  /\ Load("tick")
  /\ tick' = "store"
  /\ UNCHANGED <<cpu, fill, out, bufferEmpty, irq_done, sound_status,
                 componentVars>>

TickStore ==
  /\ tick = "store"
  /\ SetInterruptFlag("tick", "60HZ")
  /\ tick' = "idle"
  /\ UNCHANGED <<cpu, fill, out, bufferEmpty, irq_done, sound_status,
                 componentVars>>

\* The thread sees tick_thread_cancel, which QuitEmulator sets.
TickCancelled ==
  /\ tick = "idle"
  /\ cpu \in {"cancelled", "stopped", "exited"}
  /\ tick' = "exited"
  /\ UNCHANGED <<InterruptFlags, reg, cpu, fill, out, bufferEmpty, irq_done,
                 sound_status, componentVars>>

-----------------------------------------------------------------------------
(***************************************************************************)
(* fillBuffer.                                                             *)
(***************************************************************************)
FillLoop ==
  /\ fill = "loop"
  /\ fill' = IF Dead THEN "exited" ELSE "wait"
  /\ UNCHANGED <<InterruptFlags, reg, cpu, tick, out, bufferEmpty, irq_done,
                 sound_status, componentVars>>

FillWait ==
  /\ fill = "wait"
  /\ CanWait(bufferEmpty)
  /\ bufferEmpty' = Waited(bufferEmpty)
  /\ fill' = "test"
  /\ UNCHANGED <<InterruptFlags, reg, cpu, tick, out, irq_done, sound_status,
                 componentVars>>

\* With no active source the buffer is filled with silence.
FillTest ==
  /\ fill = "test"
  /\ fill' = IF num_sources # 0 THEN "set" ELSE "loop"
  /\ UNCHANGED <<InterruptFlags, reg, cpu, tick, out, bufferEmpty, irq_done,
                 sound_status, componentVars>>

FillLoad ==
  /\ fill = "set"
  /\ Load("fill")
  /\ fill' = "store"
  /\ UNCHANGED <<cpu, tick, out, bufferEmpty, irq_done, sound_status,
                 componentVars>>

FillStore ==
  /\ fill = "store"
  /\ SetInterruptFlag("fill", "AUDIO")
  /\ fill' = "ack"
  /\ UNCHANGED <<cpu, tick, out, bufferEmpty, irq_done, sound_status,
                 componentVars>>

FillAck ==
  /\ fill = "ack"
  /\ CanWait(irq_done)
  /\ irq_done' = Waited(irq_done)
  /\ fill' = "copy"
  /\ UNCHANGED <<InterruptFlags, reg, cpu, tick, out, bufferEmpty,
                 sound_status, componentVars>>

\* The block, or silence, is copied to the buffer.
FillCopy ==
  /\ fill = "copy"
  /\ fill' = "loop"
  /\ UNCHANGED <<InterruptFlags, reg, cpu, tick, out, bufferEmpty, irq_done,
                 sound_status, componentVars>>

(***************************************************************************)
(* audioOutput: flip the buffers, ask for a new one, play.                 *)
(***************************************************************************)
OutLoop ==
  /\ out = "loop"
  /\ out' = IF Dead THEN "exited" ELSE "play"
  /\ bufferEmpty' = IF Dead THEN bufferEmpty ELSE Signalled(bufferEmpty)
  /\ UNCHANGED <<InterruptFlags, reg, cpu, tick, fill, irq_done,
                 sound_status, componentVars>>

\* sceAudioOutOutput returns.
OutPlayed ==
  /\ out = "play"
  /\ out' = "loop"
  /\ UNCHANGED <<InterruptFlags, reg, cpu, tick, fill, bufferEmpty, irq_done,
                 sound_status, componentVars>>

-----------------------------------------------------------------------------
(***************************************************************************)
(* The emulation thread: M68K_EMUL_OP_IRQ.                                 *)
(***************************************************************************)
IrqTake ==
  /\ cpu = "mac"
  /\ InterruptFlags # {}
  /\ cpu' = "irq60Hz"
  /\ UNCHANGED <<threadVars, componentVars>>

\* The 60Hz handler has run when its flag is cleared.
Irq60Hz ==
  /\ cpu = "irq60Hz"
  /\ IF "60HZ" \in InterruptFlags
     THEN Load("cpu") /\ cpu' = "clear60Hz"
     ELSE cpu' = "irqAudio" /\ UNCHANGED <<InterruptFlags, reg>>
  /\ UNCHANGED <<tick, fill, out, bufferEmpty, irq_done, sound_status,
                 componentVars>>

Clear60Hz ==
  /\ cpu = "clear60Hz"
  /\ ClearInterruptFlag("cpu", "60HZ")
  /\ cpu' = "irqAudio"
  /\ UNCHANGED <<tick, fill, out, bufferEmpty, irq_done, sound_status,
                 componentVars>>

IrqAudio ==
  /\ cpu = "irqAudio"
  /\ IF "AUDIO" \in InterruptFlags
     THEN Load("cpu") /\ cpu' = "clearAudio"
     ELSE cpu' = "mac" /\ UNCHANGED <<InterruptFlags, reg>>
  /\ UNCHANGED <<tick, fill, out, bufferEmpty, irq_done, sound_status,
                 componentVars>>

ClearAudio ==
  /\ cpu = "clearAudio"
  /\ ClearInterruptFlag("cpu", "AUDIO")
  /\ cpu' = "audioInterrupt"
  /\ UNCHANGED <<tick, fill, out, bufferEmpty, irq_done, sound_status,
                 componentVars>>

\* Mutant of AudioInterrupt: no mixer, no signal.
AudioInterruptIfMixer ==
  /\ cpu = "audioInterrupt"
  /\ irq_done' = IF mixer THEN Signalled(irq_done) ELSE irq_done
  /\ cpu' = "mac"
  /\ UNCHANGED <<InterruptFlags, reg, tick, fill, out, bufferEmpty,
                 sound_status, componentVars>>

\* With or without a mixer the stream is signalled.
AudioInterrupt ==
  /\ cpu = "audioInterrupt"
  /\ irq_done' = Signalled(irq_done)
  /\ cpu' = "mac"
  /\ UNCHANGED <<InterruptFlags, reg, tick, fill, out, bufferEmpty,
                 sound_status, componentVars>>

(***************************************************************************)
(* The emulation thread: AudioDispatch.  The Component Manager makes the   *)
(* other calls only on an open component, and the Sound Manager removes    *)
(* only sources that it has added.  M68K_EMUL_OP_RESET runs AudioReset     *)
(* once, before the component is opened: a second reset quits instead.     *)
(***************************************************************************)
\* NewPtrClear may fail: memFullErr, and the component is not open.
ComponentOpen ==
  /\ cpu = "mac"
  /\ open_count < MaxOpen
  /\ audio_data' = TRUE
  /\ open_count' = open_count + 1
  /\ UNCHANGED <<threadVars, cpu, mixer, num_sources>>

\* Mutant of ComponentClose: the data area goes although the mixer is open.
CloseDisposes ==
  /\ cpu = "mac"
  /\ open_count > 0
  /\ open_count' = open_count - 1
  /\ audio_data' = (open_count > 1 /\ audio_data)
  /\ UNCHANGED <<threadVars, cpu, mixer, num_sources>>

\* The last close closes the mixer and returns early, or else disposes of
\* the data area and forgets the sources.
ComponentClose ==
  /\ cpu = "mac"
  /\ open_count > 0
  /\ open_count' = open_count - 1
  /\ \/ /\ open_count > 1
        /\ UNCHANGED <<audio_data, mixer, num_sources>>
     \/ /\ open_count = 1 /\ audio_data /\ mixer
        /\ mixer' = FALSE
        /\ UNCHANGED <<audio_data, num_sources>>
     \/ /\ open_count = 1 /\ ~(audio_data /\ mixer)
        /\ audio_data' = FALSE
        /\ num_sources' = 0
        /\ UNCHANGED mixer
  /\ UNCHANGED <<threadVars, cpu>>

\* OpenMixer may fail and leave no mixer.
InitOutputDevice ==
  /\ cpu = "mac"
  /\ open_count > 0
  /\ mixer' \in {mixer, TRUE}
  /\ UNCHANGED <<threadVars, cpu, audio_data, open_count, num_sources>>

AddSource ==
  /\ cpu = "mac"
  /\ open_count > 0
  /\ num_sources < MaxSources
  /\ num_sources' = num_sources + 1
  /\ UNCHANGED <<threadVars, cpu, audio_data, open_count, mixer>>

RemoveSource ==
  /\ cpu = "mac"
  /\ open_count > 0
  /\ num_sources > 0
  /\ num_sources' = num_sources - 1
  /\ UNCHANGED <<threadVars, cpu, audio_data, open_count, mixer>>

(***************************************************************************)
(* The emulation thread: QuitEmulator and AudioExit.  Their delays of      *)
(* 100ms are no guarantee that the other threads have moved.               *)
(***************************************************************************)
QuitEmulator ==
  /\ cpu = "mac"
  /\ cpu' = "cancelled"
  /\ UNCHANGED <<threadVars, componentVars>>

AudioExitStop ==
  /\ cpu = "cancelled"
  /\ sound_status' = "0xDEADBEEF"
  /\ bufferEmpty' = Signalled(bufferEmpty)
  /\ cpu' = "stopped"
  /\ UNCHANGED <<InterruptFlags, reg, tick, fill, out, irq_done,
                 componentVars>>

\* Mutant of AudioExitDelete: one semaphore is forgotten.
AudioExitLeak ==
  /\ cpu = "stopped"
  /\ bufferEmpty' = Deleted
  /\ cpu' = "exited"
  /\ UNCHANGED <<InterruptFlags, reg, tick, fill, out, irq_done,
                 sound_status, componentVars>>

AudioExitDelete ==
  /\ cpu = "stopped"
  /\ bufferEmpty' = Deleted
  /\ irq_done' = Deleted
  /\ cpu' = "exited"
  /\ UNCHANGED <<InterruptFlags, reg, tick, fill, out, sound_status,
                 componentVars>>

-----------------------------------------------------------------------------
TickThread == TickLoad \/ TickStore \/ TickCancelled

FillThread == FillLoop \/ FillWait \/ FillTest \/ FillLoad \/ FillStore
              \/ FillAck \/ FillCopy

OutThread == OutLoop \/ OutPlayed

IrqStep == Irq60Hz \/ Clear60Hz \/ IrqAudio \/ ClearAudio \/ AudioInterrupt

Dispatch == ComponentOpen \/ ComponentClose \/ InitOutputDevice \/ AddSource
            \/ RemoveSource

Next ==
  \/ TickThread \/ FillThread \/ OutThread
  \/ IrqTake \/ IrqStep \/ Dispatch
  \/ QuitEmulator \/ AudioExitStop \/ AudioExitDelete

Spec == Init /\ [][Next]_vars

(***************************************************************************)
(* The host runs every thread; the Mac takes an interrupt that stays       *)
(* pending, and QuitEmulator runs to its end.                              *)
(***************************************************************************)
Fairness ==
  /\ SF_vars(TickStore) /\ SF_vars(TickCancelled)
  /\ SF_vars(FillThread) /\ WF_vars(OutThread)
  /\ SF_vars(IrqTake) /\ SF_vars(IrqStep)
  /\ WF_vars(AudioExitStop \/ AudioExitDelete)

FairSpec == Spec /\ Fairness

-----------------------------------------------------------------------------
\* Every variable has its type.
TypeOK ==
  /\ InterruptFlags \subseteq Flags
  /\ reg \in [Threads -> {<< >>} \cup {<< S >> : S \in SUBSET Flags}]
  /\ cpu \in {"mac", "irq60Hz", "clear60Hz", "irqAudio", "clearAudio",
              "audioInterrupt", "cancelled", "stopped", "exited"}
  /\ tick \in {"idle", "store", "exited"}
  /\ fill \in {"loop", "wait", "test", "set", "store", "ack", "copy", "exited"}
  /\ out \in {"loop", "play", "exited"}
  /\ bufferEmpty \in {0, 1, Deleted}
  /\ irq_done \in {0, 1, Deleted}
  /\ sound_status \in {"run", "0xDEADBEEF"}
  /\ audio_data \in BOOLEAN /\ mixer \in BOOLEAN
  /\ open_count \in 0..MaxOpen
  /\ num_sources \in 0..MaxSources

\* A streaming thread that has asked for a block is never left alone: its
\* AUDIO flag is pending, or AudioInterrupt is due or has signalled it, or
\* the emulator is quitting.
RequestAnswered ==
  fill = "ack" =>
    \/ "AUDIO" \in InterruptFlags
    \/ irq_done # 0
    \/ cpu \in {"audioInterrupt", "cancelled", "stopped", "exited"}

\* An acknowledgement is always for the block that was asked for last: none
\* is left over, so fillBuffer never copies a block before AudioInterrupt
\* has read it.
NoStaleAck ==
  fill \notin {"ack", "copy"} => irq_done # 1

\* While there is a mixer, the 68k routines that AudioDispatch and
\* AudioInterrupt use to call it are there.
MixerHasData == mixer => audio_data

\* A request for a block is eventually acknowledged.
AckArrives == (fill = "ack") ~> (fill # "ack")

\* Once AudioExit has been reached both audio threads come to an end,
\* whatever they were waiting for.
ExitTerminates == Dead ~> (fill = "exited" /\ out = "exited")

=============================================================================

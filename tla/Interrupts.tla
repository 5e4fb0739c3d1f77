----------------------------- MODULE Interrupts -----------------------------
(***************************************************************************)
(* Level 1 interrupts of the emulated 68k: how a request made by the 60Hz  *)
(* thread, by the audio streaming thread or by an input event reaches its  *)
(* handler.                                                                *)
(*                                                                         *)
(*  - PSP2/main_psp.cpp      SetInterruptFlag, ClearInterruptFlag, the     *)
(*                           60Hz thread (one_tick, one_second)            *)
(*  - uae_cpu/newcpu.cpp     m68k_reset, MakeFromSR, Interrupt,            *)
(*                           m68k_do_specialties, m68k_emulop              *)
(*  - uae_cpu/basilisk_glue.cpp  TriggerInterrupt, intlev, Execute68k      *)
(*  - emul_op.cpp            the M68K_EMUL_OP_IRQ dispatcher               *)
(*                                                                         *)
(* The 68k program and the C++ code that it calls run on one host thread   *)
(* and call each other: an EmulOp may run 68k code through Execute68k,     *)
(* whose interpreter loop may take an interrupt, whose handler is again an *)
(* EmulOp.  "stk" is that chain of activations, the running one last.      *)
(*                                                                         *)
(* Each read-modify-write of a flag word is one step here.  Audio.tla      *)
(* takes the accesses apart.                                               *)
(***************************************************************************)
EXTENDS Naturals, Sequences

CONSTANTS
  RomClassic,     \* ROMVersion == ROM_VERSION_CLASSIC
  IsrMayUnmask,   \* may 68k code lower the mask inside an interrupt handler
  ProgramMasks,   \* interrupt masks the 68k program uses
  MaxDepth        \* bound on the chain of activations

ASSUME InterruptsAssumption ==
  /\ RomClassic \in BOOLEAN
  /\ IsrMayUnmask \in BOOLEAN
  /\ ProgramMasks \subseteq 0..7
  /\ MaxDepth \in Nat

\* Sources in the order in which M68K_EMUL_OP_IRQ tests them.
IrqOrder == <<"60HZ", "1HZ", "SERIAL", "ETHER", "AUDIO", "ADB", "NMI">>

IrqFlags == {"60HZ", "1HZ", "SERIAL", "ETHER", "AUDIO", "ADB", "NMI"}

\* Mutant of ClearedFirst: every flag is cleared after its handler.
NoneClearedFirst == {}

\* The source whose flag is cleared before its handler runs; the others
\* are cleared after it.
ClearedFirst == {"AUDIO"}

Masks == 0..7

Code68k == {"app", "isr", "sub"}    \* activations that execute opcodes
HostCode == {"op", "irq"}           \* EmulOps in progress

(***************************************************************************)
(* An activation.  "mask" is the interrupt mask in the SR that it gives    *)
(* back when it ends.  For an EmulOp "irq", n is the source being examined *)
(* and ph how far it got; for an "isr", n counts its M68K_EMUL_OP_IRQ; for *)
(* a "sub", n = 1 once an opcode of the routine (its RTS or trap at the    *)
(* least) has been executed.                                               *)
(***************************************************************************)
Activation == [k : Code68k \cup HostCode, mask : Masks, n : 0..8,
               ph : {"none", "test", "run", "clear"}]

Act(k, m) == [k |-> k, mask |-> m, n |-> 0, ph |-> "none"]

IrqAct(m) == [k |-> "irq", mask |-> m, n |-> 1, ph |-> "test"]

\* Activation a, further on.
At(a, n, ph) == [k |-> a.k, mask |-> a.mask, n |-> n, ph |-> ph]

VARIABLES
  InterruptFlags,  \* pending sources
  spcflags,        \* special flags of the interpreter loop
  intmask,         \* regs.intmask
  quit_program,    \* the running m68k_execute() is to end
  cpu,             \* where the emulation thread is
  stk,             \* chain of activations
  started,         \* HasMacStarted()
  tick,            \* where the 60Hz thread is
  stream,          \* where the audio streaming thread is
  irq_done,        \* count of audio_irq_done_sem
  asked            \* sources requested since their handler last began

vars == <<InterruptFlags, spcflags, intmask, quit_program, cpu, stk,
          started, tick, stream, irq_done, asked>>

SpcFlags == {"STOP", "INT", "DOINT", "BRK"}

\* The places around and inside m68k_do_specialties.
SpcPlaces == {"spc", "stop", "stopInt", "doint", "dointLev", "int", "brk"}

CpuPlaces == {"boot", "exec", "host"} \cup SpcPlaces

Top == stk[Len(stk)]

Push(s, a) == Append(s, a)

Pop(s) == SubSeq(s, 1, Len(s) - 1)

ReplaceTop(s, a) == [s EXCEPT ![Len(s)] = a]

InIsr == \E j \in 1..Len(stk) : stk[j].k = "isr"

Init ==
  /\ InterruptFlags = {}
  /\ spcflags = {}
  /\ intmask = 0
  /\ quit_program = FALSE
  /\ cpu = "boot"
  /\ stk = << Act("app", 0) >>
  /\ started = FALSE
  /\ tick = "one_tick"
  /\ stream = "fill"
  /\ irq_done = 0
  /\ asked = {}

-----------------------------------------------------------------------------
(***************************************************************************)
(* Raising an interrupt: SetInterruptFlag(f), then TriggerInterrupt().     *)
(***************************************************************************)
SetInterruptFlag(f) ==
  /\ InterruptFlags' = InterruptFlags \cup {f}
  /\ asked' = asked \cup {f}

TriggerInterrupt == spcflags' = spcflags \cup {"INT"}

\* one_second(), entered when tick_counter has passed 60.
OneSecondSet ==
  /\ tick = "one_tick"
  /\ SetInterruptFlag("1HZ")
  /\ tick' = "trigger1Hz"
  /\ UNCHANGED <<spcflags, intmask, quit_program, cpu, stk, started, stream, irq_done>>

OneSecondTrigger ==
  /\ tick = "trigger1Hz"
  /\ TriggerInterrupt
  /\ tick' = "test60Hz"
  /\ UNCHANGED <<InterruptFlags, intmask, quit_program, cpu, stk, started,
                 stream, asked, irq_done>>

OneTickSet ==
  /\ tick \in {"one_tick", "test60Hz"}
  /\ ~RomClassic \/ started
  /\ SetInterruptFlag("60HZ")
  /\ tick' = "trigger60Hz"
  /\ UNCHANGED <<spcflags, intmask, quit_program, cpu, stk, started, stream, irq_done>>

OneTickSkip ==
  /\ tick = "test60Hz"
  /\ RomClassic /\ ~started
  /\ tick' = "one_tick"
  /\ UNCHANGED <<InterruptFlags, spcflags, intmask, quit_program, cpu, stk,
                 started, stream, asked, irq_done>>

OneTickTrigger ==
  /\ tick = "trigger60Hz"
  /\ TriggerInterrupt
  /\ tick' = "one_tick"
  /\ UNCHANGED <<InterruptFlags, intmask, quit_program, cpu, stk, started,
                 stream, asked, irq_done>>

\* fillBuffer() asks for a block when the Mac has an active sound source.
StreamSet ==
  /\ stream = "fill"
  /\ started
  /\ SetInterruptFlag("AUDIO")
  /\ stream' = "trigger"
  /\ UNCHANGED <<spcflags, intmask, quit_program, cpu, stk, started, tick, irq_done>>

StreamTrigger ==
  /\ stream = "trigger"
  /\ TriggerInterrupt
  /\ stream' = "wait"
  /\ UNCHANGED <<InterruptFlags, intmask, quit_program, cpu, stk, started,
                 tick, asked, irq_done>>

StreamWait ==
  /\ stream = "wait"
  /\ irq_done = 1
  /\ irq_done' = 0
  /\ stream' = "fill"
  /\ UNCHANGED <<InterruptFlags, spcflags, intmask, quit_program, cpu, stk,
                 started, tick, asked>>

-----------------------------------------------------------------------------
(***************************************************************************)
(* The 68k program: opcodes that matter to interrupts.  After every opcode *)
(* the loop looks at spcflags.                                             *)
(***************************************************************************)
m68k_reset ==
  /\ cpu = "boot"
  /\ spcflags' = {}
  /\ intmask' = 7
  /\ cpu' = "exec"
  /\ UNCHANGED <<InterruptFlags, quit_program, stk, started, tick, stream,
                 asked, irq_done>>

\* Mutant of MakeFromSR: the loop is not told to look again.
MakeFromSRQuiet(m) ==
  /\ intmask' = m
  /\ UNCHANGED spcflags

\* Mutant of MakeFromSR: the mask keeps the supervisor bit above it.
MakeFromSRWide(m) ==
  /\ intmask' = m + 32
  /\ spcflags' = spcflags \cup {"INT"}

\* The SR is rewritten with mask m.
MakeFromSR(m) ==
  /\ intmask' = m
  /\ spcflags' = spcflags \cup {"INT"}

\* The masks a 68k program may choose at this point.
MayMask(m) ==
  m >= 1 \/ ~InIsr \/ (IsrMayUnmask /\ Len(stk) < MaxDepth)

Opcode ==
  /\ cpu = "exec"
  /\ cpu' = "spc"
  /\ stk' = IF Top.k = "sub"
            THEN ReplaceTop(stk, At(Top, 1, "none"))
            ELSE stk
  /\ UNCHANGED <<InterruptFlags, spcflags, intmask, quit_program, started,
                 tick, stream, asked, irq_done>>

\* The system writes its warm start flag, which HasMacStarted() tests.
MacStarts ==
  /\ cpu = "exec"
  /\ Top.k = "app" /\ ~started
  /\ started' = TRUE
  /\ cpu' = "spc"
  /\ UNCHANGED <<InterruptFlags, spcflags, intmask, quit_program, stk, tick,
                 stream, asked, irq_done>>

MoveToSR(m) ==
  /\ cpu = "exec"
  /\ MayMask(m)
  /\ MakeFromSR(m)
  /\ cpu' = "spc"
  /\ UNCHANGED <<InterruptFlags, quit_program, stk, started, tick, stream,
                 asked, irq_done>>

\* STOP #sr.  A program that stops leaves level 1 open.
Stop ==
  /\ cpu = "exec"
  /\ MayMask(0)
  /\ intmask' = 0
  /\ spcflags' = spcflags \cup {"INT", "STOP"}
  /\ cpu' = "spc"
  /\ UNCHANGED <<InterruptFlags, quit_program, stk, started, tick, stream,
                 asked, irq_done>>

Rte ==
  /\ cpu = "exec"
  /\ Top.k = "isr" /\ Top.n = 1
  /\ stk' = Pop(stk)
  /\ MakeFromSR(Top.mask)
  /\ cpu' = "spc"
  /\ UNCHANGED <<InterruptFlags, quit_program, started, tick, stream, asked, irq_done>>

\* Any EmulOp other than M68K_EMUL_OP_IRQ.
EmulOpBegin ==
  /\ cpu = "exec"
  /\ Len(stk) < MaxDepth
  /\ stk' = Push(stk, Act("op", intmask))
  /\ cpu' = "host"
  /\ UNCHANGED <<InterruptFlags, spcflags, intmask, quit_program, started,
                 tick, stream, asked, irq_done>>

\* The level 1 handler reaches its M68K_EMUL_OP_IRQ.
EmulOpIrqBegin ==
  /\ cpu = "exec"
  /\ Top.k = "isr" /\ Top.n = 0
  /\ stk' = Push(ReplaceTop(stk, At(Top, 1, "none")), IrqAct(intmask))
  /\ cpu' = "host"
  /\ UNCHANGED <<InterruptFlags, spcflags, intmask, quit_program, started,
                 tick, stream, asked, irq_done>>

\* M68K_EXEC_RETURN ends the 68k routine that Execute68k runs.
m68k_emulop_return ==
  /\ cpu = "exec"
  /\ Top.k = "sub" /\ Top.n = 1
  /\ spcflags' = spcflags \cup {"BRK"}
  /\ quit_program' = TRUE
  /\ cpu' = "spc"
  /\ UNCHANGED <<InterruptFlags, intmask, stk, started, tick, stream, asked, irq_done>>

-----------------------------------------------------------------------------
(***************************************************************************)
(* m68k_do_specialties, statement by statement.                            *)
(***************************************************************************)
intlev == IF InterruptFlags # {} THEN 1 ELSE 0

\* Mutant of Interrupt: the mask is not raised.
InterruptUnmasked ==
  /\ stk' = Push(stk, Act("isr", intmask))
  /\ intmask' = intmask

\* Interrupt(1): stack an exception frame and raise the mask.
Interrupt ==
  /\ stk' = Push(stk, Act("isr", intmask))
  /\ intmask' = 1

SpcTest ==
  /\ cpu = "spc"
  /\ cpu' = IF spcflags = {} THEN "exec" ELSE "stop"
  /\ UNCHANGED <<InterruptFlags, spcflags, intmask, quit_program, stk,
                 started, tick, stream, asked, irq_done>>

NotStopped ==
  /\ cpu = "stop"
  /\ "STOP" \notin spcflags
  /\ cpu' = "doint"
  /\ UNCHANGED <<InterruptFlags, spcflags, intmask, quit_program, stk,
                 started, tick, stream, asked, irq_done>>

StopClear ==
  /\ cpu = "stop"
  /\ "STOP" \in spcflags
  /\ spcflags \cap {"INT", "DOINT"} # {}
  /\ spcflags' = spcflags \ {"INT", "DOINT"}
  /\ cpu' = "stopInt"
  /\ UNCHANGED <<InterruptFlags, intmask, quit_program, stk, started, tick,
                 stream, asked, irq_done>>

StopInterrupt ==
  /\ cpu = "stopInt"
  /\ cpu' = "stop"
  /\ \/ /\ intlev > intmask
        /\ Interrupt
        /\ spcflags' = (spcflags \cup {"INT"}) \ {"STOP"}
     \/ /\ ~(intlev > intmask)
        /\ UNCHANGED <<stk, intmask, spcflags>>
  /\ UNCHANGED <<InterruptFlags, quit_program, started, tick, stream, asked, irq_done>>

DoIntClear ==
  /\ cpu = "doint"
  /\ cpu' = IF "DOINT" \in spcflags THEN "dointLev" ELSE "int"
  /\ spcflags' = spcflags \ {"DOINT"}
  /\ UNCHANGED <<InterruptFlags, intmask, quit_program, stk, started, tick,
                 stream, asked, irq_done>>

\* Mutant of DoInterrupt: the level has to exceed the mask by more than 1.
DoInterruptOffByOne ==
  /\ cpu = "dointLev"
  /\ cpu' = "int"
  /\ \/ /\ intlev > intmask + 1
        /\ Interrupt
        /\ spcflags' = spcflags \cup {"INT"}
     \/ /\ ~(intlev > intmask + 1)
        /\ UNCHANGED <<stk, intmask, spcflags>>
  /\ UNCHANGED <<InterruptFlags, quit_program, started, tick, stream, asked, irq_done>>

DoInterrupt ==
  /\ cpu = "dointLev"
  /\ cpu' = "int"
  /\ \/ /\ intlev > intmask
        /\ Interrupt
        /\ spcflags' = spcflags \cup {"INT"}
     \/ /\ ~(intlev > intmask)
        /\ UNCHANGED <<stk, intmask, spcflags>>
  /\ UNCHANGED <<InterruptFlags, quit_program, started, tick, stream, asked, irq_done>>

\* A noticed interrupt is taken one opcode later.
IntToDoInt ==
  /\ cpu = "int"
  /\ cpu' = "brk"
  /\ spcflags' = IF "INT" \in spcflags
                 THEN (spcflags \ {"INT"}) \cup {"DOINT"}
                 ELSE spcflags
  /\ UNCHANGED <<InterruptFlags, intmask, quit_program, stk, started, tick,
                 stream, asked, irq_done>>

\* Mutant of NoBreak: the loop overlooks BRK.
NoBreakUnchecked ==
  /\ cpu = "brk"
  /\ cpu' = "exec"
  /\ UNCHANGED <<InterruptFlags, spcflags, intmask, quit_program, stk,
                 started, tick, stream, asked, irq_done>>

NoBreak ==
  /\ cpu = "brk"
  /\ "BRK" \notin spcflags
  /\ cpu' = "exec"
  /\ UNCHANGED <<InterruptFlags, spcflags, intmask, quit_program, stk,
                 started, tick, stream, asked, irq_done>>

\* The innermost 68k routine under Execute68k.
Subs == {j \in 1..Len(stk) : stk[j].k = "sub"}

LastSub == CHOOSE j \in Subs : \A i \in Subs : i <= j

\* m68k_do_execute and m68k_execute return and Execute68k goes on: whatever
\* was stacked above the routine is dropped with it.
Execute68kReturn ==
  /\ cpu = "brk"
  /\ "BRK" \in spcflags
  /\ spcflags' = spcflags \ {"BRK"}
  /\ quit_program
  /\ stk' = SubSeq(stk, 1, LastSub - 1)
  /\ cpu' = "host"
  /\ quit_program' = FALSE
  /\ UNCHANGED <<InterruptFlags, intmask, started, tick, stream, asked, irq_done>>

-----------------------------------------------------------------------------
(***************************************************************************)
(* EmulOps: C++ code on the emulation thread.                              *)
(***************************************************************************)
Source == IrqOrder[Top.n]

\* Handlers that only run once the Mac has started.
NeedsMac == {"60HZ", "1HZ", "ADB", "NMI"}

\* An EmulOp, or an interrupt handler it dispatches to, calls the Mac.
Execute68k ==
  /\ cpu = "host"
  /\ \/ Top.k = "op"
     \/ /\ Top.k = "irq" /\ Top.ph = "run"
        /\ Source \in NeedsMac => started
  /\ Len(stk) < MaxDepth
  /\ stk' = Push(stk, Act("sub", 0))
  /\ quit_program' = FALSE
  /\ cpu' = "exec"
  /\ UNCHANGED <<InterruptFlags, spcflags, intmask, started, tick, stream,
                 asked, irq_done>>

\* EmulOp() returns to m68k_emulop, which restores the SR.
m68k_emulop_end ==
  /\ cpu = "host"
  /\ Top.k = "op" \/ (Top.k = "irq" /\ Top.n > Len(IrqOrder))
  /\ stk' = Pop(stk)
  /\ MakeFromSR(Top.mask)
  /\ cpu' = "spc"
  /\ UNCHANGED <<InterruptFlags, quit_program, started, tick, stream, asked, irq_done>>

InIrq(ph) ==
  /\ cpu = "host"
  /\ Top.k = "irq" /\ Top.n <= Len(IrqOrder)
  /\ Top.ph = ph

\* Go on to phase ph of this source, or to the next source.
ToPhase(ph) == stk' = ReplaceTop(stk, At(Top, Top.n, ph))

ToNextSource == stk' = ReplaceTop(stk, At(Top, Top.n + 1, "test"))

IrqTest ==
  /\ InIrq("test")
  /\ IF Source \in InterruptFlags
     THEN IF Source \in ClearedFirst
          THEN ToPhase("clear") /\ UNCHANGED asked
          ELSE ToPhase("run") /\ asked' = asked \ {Source}
     ELSE ToNextSource /\ UNCHANGED asked
  /\ UNCHANGED <<InterruptFlags, spcflags, intmask, quit_program, cpu,
                 started, tick, stream, irq_done>>

ClearInterruptFlag ==
  /\ InIrq("clear")
  /\ InterruptFlags' = InterruptFlags \ {Source}
  /\ IF Source \in ClearedFirst
     THEN ToPhase("run") /\ asked' = asked \ {Source}
     ELSE ToNextSource /\ UNCHANGED asked
  /\ UNCHANGED <<spcflags, intmask, quit_program, cpu, started, tick, stream, irq_done>>

\* VideoInterrupt, inside the 60Hz handler, turns pad and touch input into
\* ADBKeyDown, ADBMouseMoved and so on; each raises INTFLAG_ADB.
InputEvent ==
  /\ InIrq("run") /\ Source = "60HZ" /\ started
  /\ SetInterruptFlag("ADB")
  /\ TriggerInterrupt
  /\ UNCHANGED <<intmask, quit_program, cpu, stk, started, tick, stream, irq_done>>

\* Mutant of IrqHandled: AudioInterrupt does not signal the stream.
IrqHandledSilent ==
  /\ InIrq("run")
  /\ IF Source \in ClearedFirst THEN ToNextSource ELSE ToPhase("clear")
  /\ UNCHANGED <<InterruptFlags, spcflags, intmask, quit_program, cpu,
                 started, tick, stream, irq_done, asked>>

\* The handler of Source returns.  AudioInterrupt ends by signalling
\* audio_irq_done_sem, whose maximum is 1.
IrqHandled ==
  /\ InIrq("run")
  /\ IF Source \in ClearedFirst THEN ToNextSource ELSE ToPhase("clear")
  /\ irq_done' = IF Source = "AUDIO" THEN 1 ELSE irq_done
  /\ UNCHANGED <<InterruptFlags, spcflags, intmask, quit_program, cpu,
                 started, tick, stream, asked>>

-----------------------------------------------------------------------------
TickThread == OneSecondSet \/ OneSecondTrigger \/ OneTickSet \/ OneTickSkip
              \/ OneTickTrigger

StreamThread == StreamSet \/ StreamTrigger \/ StreamWait

Program == Opcode \/ MacStarts \/ Stop \/ EmulOpBegin
           \/ \E m \in ProgramMasks : MoveToSR(m)

Specialties ==
  SpcTest \/ NotStopped \/ StopClear \/ StopInterrupt \/ DoIntClear
  \/ DoInterrupt \/ IntToDoInt \/ NoBreak \/ Execute68kReturn

Dispatch == IrqTest \/ ClearInterruptFlag \/ IrqHandled

Next ==
  \/ TickThread \/ StreamThread
  \/ m68k_reset \/ Program \/ Rte \/ EmulOpIrqBegin \/ m68k_emulop_return
  \/ Specialties
  \/ Execute68k \/ m68k_emulop_end \/ InputEvent \/ Dispatch

Spec == Init /\ [][Next]_vars

(***************************************************************************)
(* The host runs every thread; handlers, EmulOps and the routines they     *)
(* call come to an end.                                                    *)
(***************************************************************************)
RunsOn == Rte \/ EmulOpIrqBegin \/ m68k_emulop_return
          \/ (Top.k = "sub" /\ Top.n = 0 /\ Opcode)

Fairness ==
  /\ WF_vars(Specialties \/ m68k_reset)
  /\ WF_vars(TickThread) /\ SF_vars(OneSecondSet)
  /\ WF_vars(StreamTrigger \/ StreamWait)
  /\ SF_vars(RunsOn)
  /\ SF_vars(m68k_emulop_end \/ Dispatch)

FairSpec == Spec /\ Fairness

-----------------------------------------------------------------------------
(***************************************************************************)
(* Properties.                                                             *)
(***************************************************************************)

\* Every variable has its type.
TypeOK ==
  /\ InterruptFlags \subseteq IrqFlags
  /\ spcflags \subseteq SpcFlags
  /\ intmask \in Masks
  /\ quit_program \in BOOLEAN
  /\ cpu \in CpuPlaces
  /\ stk \in Seq(Activation) /\ stk # << >> /\ stk[1].k = "app"
  /\ started \in BOOLEAN
  /\ tick \in {"one_tick", "trigger1Hz", "test60Hz", "trigger60Hz"}
  /\ stream \in {"fill", "trigger", "wait"}
  /\ irq_done \in 0..1
  /\ asked \subseteq IrqFlags

\* A thread is between SetInterruptFlag and TriggerInterrupt.
TriggerDue == tick \in {"trigger1Hz", "trigger60Hz"} \/ stream = "trigger"

\* A pending interrupt that is not masked is never forgotten: the loop's
\* INT or DOINT flag is up, or it is about to be raised, or the loop has
\* just taken it down and is about to look at InterruptFlags.  It holds
\* although the flags are set by other threads in the middle of
\* m68k_do_specialties, m68k_reset wipes spcflags while the 60Hz thread
\* already runs, handlers clear their flags late, and an interrupt taken
\* on the opcode that ends an Execute68k is dropped with its frame.
NoForgottenInterrupt ==
  InterruptFlags # {} /\ intmask = 0 =>
    \/ spcflags \cap {"INT", "DOINT"} # {}
    \/ TriggerDue
    \/ cpu \in {"stopInt", "dointLev"}

\* An audio or input request made while handlers run is still pending until
\* the dispatcher calls its handler: no ClearInterruptFlag takes away a
\* request that has not been seen.  (The 60Hz and 1Hz flags are cleared
\* after their handlers and do lose a tick that comes in meanwhile.)
RequestKept == asked \cap {"AUDIO", "ADB"} \subseteq InterruptFlags

\* The streaming thread never waits in vain: while it waits for a block,
\* AUDIO is pending, or AudioInterrupt is running or has signalled it.
StreamWaitAnswered ==
  stream = "wait" =>
    \/ "AUDIO" \in InterruptFlags
    \/ irq_done = 1
    \/ \E j \in 1..Len(stk) :
          stk[j].k = "irq" /\ stk[j].n = 5 /\ stk[j].ph = "run"

\* A routine called by the host is exactly what follows host code.
Linked(s) ==
  \A j \in 2..Len(s) : s[j].k = "sub" <=> s[j - 1].k \in HostCode

\* C++ and 68k activations nest properly: host code runs exactly when an
\* EmulOp is on top, 68k routines are called by EmulOps only, and when a
\* routine executes M68K_EXEC_RETURN all that m68k_execute can drop with it
\* is an interrupt frame whose handler has not begun.
ProperNesting ==
  /\ cpu = "host" <=> Top.k \in HostCode
  /\ Linked(stk)
  /\ "BRK" \in spcflags =>
       /\ quit_program /\ cpu \in SpcPlaces
       /\ \/ Top.k = "sub"
          \/ /\ Len(stk) > 1 /\ stk[Len(stk) - 1].k = "sub"
             /\ Top.k = "isr" /\ Top.n = 0 /\ intmask > 0

\* The interpreter loop examines InterruptFlags with level 1 open, and not
\* on the opcode that ends an Execute68k.
Polls ==
  cpu \in {"stopInt", "dointLev"} /\ intmask = 0 /\ "BRK" \notin spcflags

\* Every request is eventually seen by its handler, provided the 68k
\* program lets the loop poll with level 1 open again and again.  (INT is
\* turned into DOINT first and taken an opcode later: a program that only
\* ever opens the mask for one opcode is never interrupted; and an
\* interrupt taken on M68K_EXEC_RETURN is dropped and has to be taken again.)
EventuallyHandled ==
  []<>Polls => \A f \in {"60HZ", "1HZ", "AUDIO", "ADB"} :
                 (f \in asked) ~> (f \notin asked)

\* While 68k code keeps the mask up inside interrupt handlers, the
\* dispatcher is never entered a second time before it is left, so
\* TimerInterrupt and the other handlers need not be reentrant.
DispatcherNotReentered ==
  ~IsrMayUnmask =>
    \A i, j \in 1..Len(stk) :
      stk[i].k = "irq" /\ stk[j].k = "irq" => i = j


=============================================================================

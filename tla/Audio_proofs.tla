---------------------------- MODULE Audio_proofs ----------------------------
(***************************************************************************)
(* Proofs about Audio, for any bounds on open components and on sources.   *)
(* The handshake is proved for indivisible updates of InterruptFlags.      *)
(***************************************************************************)
EXTENDS Audio, TLAPS

(***************************************************************************)
(* Types.  A thread has loaded the flags exactly between load and store.   *)
(***************************************************************************)
Words == {<< S >> : S \in SUBSET Flags}

Between ==
  /\ reg["tick"] \in Words <=> tick = "store"
  /\ reg["fill"] \in Words <=> fill = "store"
  /\ reg["cpu"] \in Words <=> cpu \in {"clear60Hz", "clearAudio"}

LEMMA WordFacts ==
  /\ << >> \notin Words
  /\ \A S \in SUBSET Flags : << S >> \in Words /\ << S >>[1] = S
  /\ \A w \in Words : w[1] \in SUBSET Flags /\ w = << w[1] >> /\ w # << >>
PROOF
  BY DEF Words

TInv == TypeOK /\ Between

\* What the three kinds of update do to flags and loaded words.
LEMMA LoadTypes ==
  ASSUME TypeOK, NEW t \in Threads, Load(t)
  PROVE  /\ InterruptFlags' = InterruptFlags
         /\ reg' \in [Threads -> {<< >>} \cup Words]
         /\ reg'[t] = << InterruptFlags >> /\ reg'[t] \in Words
         /\ \A u \in Threads \ {t} : reg'[u] = reg[u]
PROOF
  <1>1. InterruptFlags \in SUBSET Flags /\ << InterruptFlags >> \in Words
    BY WordFacts DEF TypeOK
  <1>2. reg \in [Threads -> {<< >>} \cup Words]
    BY DEF TypeOK, Words
  <1>3. reg' = [reg EXCEPT ![t] = << InterruptFlags >>]
    BY DEF Load
  <1> QED
    BY <1>1, <1>2, <1>3, Zenon DEF Load

LEMMA StoreTypes ==
  ASSUME TypeOK, NEW t \in Threads, reg[t] \in Words, NEW f \in Flags,
         SetInterruptFlag(t, f) \/ ClearInterruptFlag(t, f)
  PROVE  /\ InterruptFlags' \in SUBSET Flags
         /\ reg' \in [Threads -> {<< >>} \cup Words]
         /\ reg'[t] = << >> /\ reg'[t] \notin Words
         /\ \A u \in Threads \ {t} : reg'[u] = reg[u]
PROOF
  <1>1. reg[t][1] \in SUBSET Flags
    BY WordFacts
  <1>2. InterruptFlags' = reg[t][1] \cup {f} \/ InterruptFlags' = reg[t][1] \ {f}
    BY DEF SetInterruptFlag, ClearInterruptFlag
  <1>3. InterruptFlags' \in SUBSET Flags
    BY <1>1, <1>2
  <1>4. reg \in [Threads -> {<< >>} \cup Words]
    BY DEF TypeOK, Words
  <1>5. reg' = [reg EXCEPT ![t] = << >>]
    BY DEF SetInterruptFlag, ClearInterruptFlag
  <1> QED
    BY <1>3, <1>4, <1>5, WordFacts, Zenon

LEMMA TInit == Init => TInv
PROOF
  <1> SUFFICES ASSUME Init PROVE TInv
    OBVIOUS
  <1>1. \A t \in Threads : reg[t] = << >>
    BY DEF Init
  <1>2. reg \in [Threads -> {<< >>} \cup Words]
    BY DEF Init
  <1>3. TypeOK
    <2>1. 0 \in 0..MaxOpen /\ 0 \in 0..MaxSources
      BY AudioAssumption
    <2> QED
      BY <1>2, <2>1 DEF Init, TypeOK, Words
  <1>4. Between
    BY <1>1, WordFacts DEF Init, Between, Threads
  <1> QED
    BY <1>3, <1>4 DEF TInv

LEMMA TNext == TInv /\ [Next]_vars => TInv'
PROOF
  <1> SUFFICES ASSUME TInv, [Next]_vars PROVE TInv'
    OBVIOUS
  <1> USE DEF TInv
  <1>t. {"cpu", "tick", "fill"} = Threads /\ {"60HZ", "AUDIO"} = Flags
    BY DEF Threads, Flags
  <1>1. CASE TickLoad
    <2>1. Load("tick") /\ "tick" \in Threads
      BY <1>1, <1>t DEF TickLoad
    <2>2. reg'["tick"] \in Words /\ reg'["fill"] = reg["fill"] /\ reg'["cpu"] = reg["cpu"]
      BY <2>1, <1>t, LoadTypes
    <2>3. InterruptFlags' = InterruptFlags /\ reg' \in [Threads -> {<< >>} \cup Words]
      BY <2>1, LoadTypes
    <2>4. TypeOK'
      BY <1>1, <2>3 DEF TypeOK, TickLoad, componentVars, Words
    <2>5. Between'
      BY <1>1, <2>2 DEF Between, TickLoad
    <2> QED
      BY <2>4, <2>5
  <1>2. CASE TickStore
    <2>1. SetInterruptFlag("tick", "60HZ") /\ "tick" \in Threads /\ "60HZ" \in Flags
          /\ reg["tick"] \in Words
      BY <1>2, <1>t DEF TickStore, Between
    <2>2. reg'["tick"] \notin Words /\ reg'["fill"] = reg["fill"] /\ reg'["cpu"] = reg["cpu"]
      BY <2>1, <1>t, StoreTypes
    <2>3. InterruptFlags' \subseteq Flags /\ reg' \in [Threads -> {<< >>} \cup Words]
      BY <2>1, StoreTypes
    <2>4. TypeOK'
      BY <1>2, <2>3 DEF TypeOK, TickStore, componentVars, Words
    <2>5. Between'
      BY <1>2, <2>2 DEF Between, TickStore
    <2> QED
      BY <2>4, <2>5
  <1>3. CASE FillLoad
    <2>1. Load("fill") /\ "fill" \in Threads
      BY <1>3, <1>t DEF FillLoad
    <2>2. reg'["fill"] \in Words /\ reg'["tick"] = reg["tick"] /\ reg'["cpu"] = reg["cpu"]
      BY <2>1, <1>t, LoadTypes
    <2>3. InterruptFlags' = InterruptFlags /\ reg' \in [Threads -> {<< >>} \cup Words]
      BY <2>1, LoadTypes
    <2>4. TypeOK'
      BY <1>3, <2>3 DEF TypeOK, FillLoad, componentVars, Words
    <2>5. Between'
      BY <1>3, <2>2 DEF Between, FillLoad
    <2> QED
      BY <2>4, <2>5
  <1>4. CASE FillStore
    <2>1. SetInterruptFlag("fill", "AUDIO") /\ "fill" \in Threads /\ "AUDIO" \in Flags
          /\ reg["fill"] \in Words
      BY <1>4, <1>t DEF FillStore, Between
    <2>2. reg'["fill"] \notin Words /\ reg'["tick"] = reg["tick"] /\ reg'["cpu"] = reg["cpu"]
      BY <2>1, <1>t, StoreTypes
    <2>3. InterruptFlags' \subseteq Flags /\ reg' \in [Threads -> {<< >>} \cup Words]
      BY <2>1, StoreTypes
    <2>4. TypeOK'
      BY <1>4, <2>3 DEF TypeOK, FillStore, componentVars, Words
    <2>5. Between'
      BY <1>4, <2>2 DEF Between, FillStore
    <2> QED
      BY <2>4, <2>5
  <1>5. CASE Load("cpu") /\ cpu' \in {"clear60Hz", "clearAudio"}
             /\ UNCHANGED <<tick, fill, out, bufferEmpty, irq_done, sound_status, componentVars>>
    <2>1. "cpu" \in Threads
      BY <1>t
    <2>2. reg'["cpu"] \in Words /\ reg'["tick"] = reg["tick"] /\ reg'["fill"] = reg["fill"]
      BY <1>5, <2>1, <1>t, LoadTypes
    <2>3. InterruptFlags' = InterruptFlags /\ reg' \in [Threads -> {<< >>} \cup Words]
      BY <1>5, <2>1, LoadTypes
    <2>4. TypeOK'
      BY <1>5, <2>3 DEF TypeOK, componentVars, Words
    <2>5. Between'
      BY <1>5, <2>2 DEF Between
    <2> QED
      BY <2>4, <2>5
  <1>6. CASE Clear60Hz \/ ClearAudio
    <2>1. PICK f \in Flags : ClearInterruptFlag("cpu", f)
      BY <1>6, <1>t DEF Clear60Hz, ClearAudio
    <2>2. "cpu" \in Threads /\ reg["cpu"] \in Words
      BY <1>6, <1>t DEF Clear60Hz, ClearAudio, Between
    <2>3. reg'["cpu"] \notin Words /\ reg'["tick"] = reg["tick"] /\ reg'["fill"] = reg["fill"]
      BY <2>1, <2>2, <1>t, StoreTypes
    <2>4. InterruptFlags' \subseteq Flags /\ reg' \in [Threads -> {<< >>} \cup Words]
      BY <2>1, <2>2, StoreTypes
    <2>5. TypeOK'
      BY <1>6, <2>4 DEF TypeOK, Clear60Hz, ClearAudio, componentVars, Words
    <2>6. Between'
      BY <1>6, <2>3 DEF Between, Clear60Hz, ClearAudio
    <2> QED
      BY <2>5, <2>6
  <1>7. CASE FillLoop \/ FillWait \/ FillTest \/ FillAck \/ FillCopy \/ TickCancelled
             \/ OutLoop \/ OutPlayed
    <2>1. TypeOK'
      BY <1>7 DEF TypeOK, FillLoop, FillWait, FillTest, FillAck, FillCopy, TickCancelled,
                  OutLoop, OutPlayed, componentVars, Waited, Signalled
    <2>2. Between'
      BY <1>7 DEF Between, FillLoop, FillWait, FillTest, FillAck, FillCopy, TickCancelled,
                  OutLoop, OutPlayed
    <2> QED
      BY <2>1, <2>2
  <1>8. CASE IrqTake \/ QuitEmulator \/ AudioExitStop \/ AudioExitDelete \/ AudioInterrupt
             \/ (/\ cpu' \in {"irqAudio", "mac"} /\ cpu \in {"irq60Hz", "irqAudio"}
                 /\ UNCHANGED <<InterruptFlags, reg>>
                 /\ UNCHANGED <<tick, fill, out, bufferEmpty, irq_done, sound_status,
                                componentVars>>)
    <2>1. TypeOK'
      BY <1>8 DEF TypeOK, IrqTake, QuitEmulator, AudioExitStop, AudioExitDelete,
                  AudioInterrupt, threadVars, componentVars, Signalled
    <2>2. Between'
      BY <1>8 DEF Between, IrqTake, QuitEmulator, AudioExitStop, AudioExitDelete,
                  AudioInterrupt, threadVars
    <2> QED
      BY <2>1, <2>2
  <1>9. CASE Dispatch
    <2>a. MaxOpen \in Nat /\ MaxSources \in Nat /\ open_count \in 0..MaxOpen
          /\ num_sources \in 0..MaxSources
      BY AudioAssumption DEF TypeOK
    <2>b. open_count' \in 0..MaxOpen /\ num_sources' \in 0..MaxSources
      <3>1. CASE ComponentOpen
        BY <3>1, <2>a DEF ComponentOpen
      <3>2. CASE ComponentClose
        BY <3>2, <2>a DEF ComponentClose
      <3>3. CASE InitOutputDevice
        BY <3>3, <2>a DEF InitOutputDevice
      <3>4. CASE AddSource
        BY <3>4, <2>a DEF AddSource
      <3>5. CASE RemoveSource
        BY <3>5, <2>a DEF RemoveSource
      <3> QED
        BY <1>9, <3>1, <3>2, <3>3, <3>4, <3>5 DEF Dispatch
    <2>c. audio_data' \in BOOLEAN /\ mixer' \in BOOLEAN
      BY <1>9, Zenon DEF TypeOK, Dispatch, ComponentOpen, ComponentClose,
         InitOutputDevice, AddSource, RemoveSource
    <2>d. UNCHANGED <<InterruptFlags, reg, tick, fill, out, bufferEmpty, irq_done,
                      sound_status, cpu>>
      BY <1>9 DEF Dispatch, ComponentOpen, ComponentClose,
         InitOutputDevice, AddSource, RemoveSource, threadVars
    <2>1. TypeOK'
      BY <2>b, <2>c, <2>d DEF TypeOK
    <2>2. Between'
      BY <1>9 DEF Between, Dispatch, ComponentOpen, ComponentClose,
         InitOutputDevice, AddSource, RemoveSource, threadVars
    <2> QED
      BY <2>1, <2>2
  <1>10. CASE UNCHANGED vars
    BY <1>10 DEF vars, TypeOK, Between
  <1> QED
    <2>1. ASSUME Irq60Hz \/ IrqAudio PROVE TInv'
      BY <2>1, <1>5, <1>8 DEF Irq60Hz, IrqAudio
    <2> QED
      BY <2>1, <1>1, <1>2, <1>3, <1>4, <1>6, <1>7, <1>8, <1>9, <1>10
         DEF Next, TickThread, FillThread, OutThread, IrqStep

\* Every variable of the audio model keeps its type; a store always has a
\* loaded word (SetInterruptFlag and ClearInterruptFlag in
\* PSP2/main_psp.cpp).
THEOREM AudioTypeCorrect == Spec => []TypeOK
PROOF
  <1>1. TInv => TypeOK
    BY DEF TInv
  <1> QED
    BY <1>1, TInit, TNext, PTL DEF Spec

(***************************************************************************)
(* The component.  It does not depend on the threads.                      *)
(***************************************************************************)
OpenHasData == (open_count > 0 => audio_data) /\ MixerHasData

LEMMA ComponentNext == TypeOK /\ OpenHasData /\ [Next]_vars => OpenHasData'
PROOF
  <1> SUFFICES ASSUME TypeOK, OpenHasData, [Next]_vars PROVE OpenHasData'
    OBVIOUS
  <1>0. open_count \in Nat
    BY DEF TypeOK
  <1>1. CASE UNCHANGED componentVars
    BY <1>1 DEF componentVars, OpenHasData, MixerHasData
  <1>2. CASE ComponentOpen
    BY <1>2 DEF ComponentOpen, OpenHasData, MixerHasData
  <1>3. CASE ComponentClose
    <2>1. open_count > 0 /\ open_count' = open_count - 1 /\ audio_data
      BY <1>3 DEF ComponentClose, OpenHasData
    <2>2. CASE open_count > 1
      <3>1. open_count # 1
        BY <1>0, <2>2
      <3>2. audio_data' = audio_data
        BY <1>3, <3>1, Zenon DEF ComponentClose
      <3> QED
        BY <2>1, <3>2, Zenon DEF OpenHasData, MixerHasData
    <2>3. CASE open_count = 1
      <3>1. open_count' = 0
        BY <2>1, <2>3
      <3>2. ~(open_count > 1) /\ ~(open_count' > 0)
        BY <2>3, <3>1
      <3>3. ~mixer'
        BY <1>3, <2>1, <3>2, Zenon DEF ComponentClose
      <3> QED
        BY <3>2, <3>3, Zenon DEF OpenHasData, MixerHasData
    <2> QED
      BY <1>0, <2>1, <2>2, <2>3
  <1>4. CASE InitOutputDevice
    BY <1>4 DEF InitOutputDevice, OpenHasData, MixerHasData
  <1>5. CASE AddSource \/ RemoveSource
    BY <1>5 DEF AddSource, RemoveSource, OpenHasData, MixerHasData
  <1>6. ASSUME TickThread \/ FillThread \/ OutThread \/ IrqTake \/ IrqStep
               \/ QuitEmulator \/ AudioExitStop \/ AudioExitDelete \/ UNCHANGED vars
        PROVE  UNCHANGED componentVars
    BY <1>6 DEF TickThread, TickLoad, TickStore, TickCancelled, FillThread, FillLoop,
       FillWait, FillTest, FillLoad, FillStore, FillAck, FillCopy, OutThread, OutLoop,
       OutPlayed, IrqTake, IrqStep, Irq60Hz, Clear60Hz, IrqAudio, ClearAudio,
       AudioInterrupt, QuitEmulator, AudioExitStop, AudioExitDelete, vars, componentVars
  <1> QED
    BY <1>1, <1>2, <1>3, <1>4, <1>5, <1>6 DEF Next, Dispatch

\* While the Apple Mixer is open the data area with the routines that call it
\* is allocated, for any number of open instances, also when the last close
\* returns early and leaves the data area (AudioDispatch in audio.cpp).
THEOREM MixerKeepsData == Spec => []MixerHasData
PROOF
  <1>1. Init => OpenHasData
    <2> SUFFICES ASSUME Init PROVE OpenHasData
      OBVIOUS
    <2>1. open_count = 0 /\ mixer = FALSE
      BY DEF Init
    <2> QED
      BY <2>1 DEF OpenHasData, MixerHasData
  <1>2. OpenHasData => MixerHasData
    BY DEF OpenHasData
  <1> QED
    BY <1>1, <1>2, ComponentNext, AudioTypeCorrect, PTL DEF Spec

(***************************************************************************)
(* The handshake, with indivisible updates: at most one thread is between  *)
(* load and store, and the word it has loaded is still the word in memory. *)
(***************************************************************************)
Alone ==
  /\ \A t \in Threads : reg[t] \in Words => reg[t][1] = InterruptFlags
  /\ \A t, u \in Threads : reg[t] \in Words /\ reg[u] \in Words => t = u

\* A request that AudioInterrupt has not answered.
Open == "AUDIO" \in InterruptFlags \/ cpu = "audioInterrupt"

\* There is one request or one acknowledgement while fillBuffer waits for it,
\* and none otherwise.  The semaphore is deleted at the very end.
OneToken ==
  /\ irq_done = Deleted <=> cpu = "exited"
  /\ cpu = "clearAudio" => "AUDIO" \in InterruptFlags
  /\ cpu = "audioInterrupt" => "AUDIO" \notin InterruptFlags
  /\ irq_done # Deleted /\ Open => fill = "ack" /\ irq_done = 0
  /\ irq_done = 1 => fill = "ack"
  /\ fill = "ack" => Open \/ irq_done # 0

LEMMA LoadAlone ==
  ASSUME Atomic, TypeOK, Alone, NEW t \in Threads, Load(t)
  PROVE  Alone'
PROOF
  <1>1. /\ InterruptFlags' = InterruptFlags
        /\ reg'[t] = << InterruptFlags >>
        /\ \A u \in Threads \ {t} : reg'[u] = reg[u]
    BY LoadTypes
  <1>2. \A u \in Threads \ {t} : reg[u] = << >>
    BY DEF Load, Undisturbed
  <1>3. \A u \in Threads \ {t} : reg'[u] \notin Words
    BY <1>1, <1>2, WordFacts
  <1>4. InterruptFlags \in SUBSET Flags
    BY DEF TypeOK
  <1>5. reg'[t][1] = InterruptFlags
    BY <1>1, <1>4, WordFacts
  <1> QED
    BY <1>1, <1>3, <1>5 DEF Alone

LEMMA StoreAlone ==
  ASSUME TypeOK, Alone, NEW t \in Threads, reg[t] \in Words, NEW f \in Flags
  PROVE  /\ SetInterruptFlag(t, f) => Alone' /\ InterruptFlags' = InterruptFlags \cup {f}
         /\ ClearInterruptFlag(t, f) => Alone' /\ InterruptFlags' = InterruptFlags \ {f}
PROOF
  <1>1. reg[t][1] = InterruptFlags
    BY DEF Alone
  <1>2. ASSUME SetInterruptFlag(t, f) \/ ClearInterruptFlag(t, f) PROVE Alone'
    <2>1. reg'[t] \notin Words /\ \A u \in Threads \ {t} : reg'[u] = reg[u]
      BY <1>2, StoreTypes
    <2>2. \A u \in Threads : reg'[u] \notin Words
      BY <2>1 DEF Alone
    <2> QED
      BY <2>2 DEF Alone
  <1> QED
    BY <1>1, <1>2 DEF SetInterruptFlag, ClearInterruptFlag

HInv == TInv /\ Alone /\ OneToken

LEMMA HInit == Init => HInv
PROOF
  <1> SUFFICES ASSUME Init PROVE HInv
    OBVIOUS
  <1>1. \A t \in Threads : reg[t] \notin Words
    BY WordFacts DEF Init
  <1>2. Alone
    BY <1>1 DEF Alone
  <1>3. OneToken
    BY DEF Init, OneToken, Open, Deleted
  <1> QED
    BY <1>2, <1>3, TInit DEF HInv

LEMMA HNext == ASSUME Atomic PROVE HInv /\ [Next]_vars => HInv'
PROOF
  <1> SUFFICES ASSUME HInv, [Next]_vars PROVE HInv'
    OBVIOUS
  <1>0. TypeOK /\ Between /\ Alone /\ OneToken
    BY DEF HInv, TInv
  <1>a. TInv'
    BY TNext DEF HInv
  <1>d. irq_done \in {0, 1, Deleted} /\ Deleted # 0 /\ Deleted # 1
    BY <1>0 DEF TypeOK, Deleted
  <1>t. {"cpu", "tick", "fill"} = Threads /\ {"60HZ", "AUDIO"} = Flags
    BY DEF Threads, Flags
  <1> HIDE DEF Deleted
  <1> SUFFICES Alone' /\ OneToken'
    BY <1>a DEF HInv
  <1>s. ASSUME UNCHANGED <<InterruptFlags, reg>> PROVE Alone'
    BY <1>0, <1>s DEF Alone
  <1>1. CASE TickLoad
    <2>1. Alone' /\ InterruptFlags' = InterruptFlags
      BY <1>0, <1>1, <1>t, LoadAlone DEF TickLoad, Load
    <2> QED
      BY <1>0, <1>1, <2>1 DEF TickLoad, OneToken, Open
  <1>2. CASE TickStore
    <2>1. reg["tick"] \in Words /\ SetInterruptFlag("tick", "60HZ")
      BY <1>0, <1>2 DEF TickStore, Between
    <2>2. Alone' /\ InterruptFlags' = InterruptFlags \cup {"60HZ"}
      BY <1>0, <1>t, <2>1, StoreAlone
    <2>3. "AUDIO" \in InterruptFlags' <=> "AUDIO" \in InterruptFlags
      BY <2>2
    <2> QED
      BY <1>0, <1>2, <2>2, <2>3 DEF TickStore, OneToken, Open
  <1>3. CASE FillLoad
    <2>1. Alone' /\ InterruptFlags' = InterruptFlags
      BY <1>0, <1>3, <1>t, LoadAlone DEF FillLoad, Load
    <2> QED
      BY <1>0, <1>3, <2>1 DEF FillLoad, OneToken, Open
  <1>4. CASE FillStore
    <2>1. reg["fill"] \in Words /\ SetInterruptFlag("fill", "AUDIO")
      BY <1>0, <1>4 DEF FillStore, Between
    <2>2. Alone' /\ InterruptFlags' = InterruptFlags \cup {"AUDIO"}
      BY <1>0, <1>t, <2>1, StoreAlone
    <2>3. "AUDIO" \in InterruptFlags'
      BY <2>2
    <2>4. fill = "store" /\ fill' = "ack" /\ UNCHANGED <<cpu, irq_done>>
      BY <1>4 DEF FillStore
    <2>5. cpu # "audioInterrupt" /\ irq_done # 1
      BY <1>0, <1>d, <2>4 DEF OneToken, Open
    <2> QED
      BY <1>0, <1>d, <2>2, <2>3, <2>4, <2>5 DEF OneToken, Open
  <1>5. CASE Irq60Hz \/ IrqAudio
    <2>1. Alone' /\ InterruptFlags' = InterruptFlags
      BY <1>0, <1>5, <1>t, <1>s, LoadAlone DEF Irq60Hz, IrqAudio, Load
    <2> QED
      BY <1>0, <1>5, <2>1 DEF Irq60Hz, IrqAudio, OneToken, Open
  <1>6. CASE Clear60Hz
    <2>1. reg["cpu"] \in Words /\ ClearInterruptFlag("cpu", "60HZ")
      BY <1>0, <1>6 DEF Clear60Hz, Between
    <2>2. Alone' /\ InterruptFlags' = InterruptFlags \ {"60HZ"}
      BY <1>0, <1>t, <2>1, StoreAlone
    <2>3. "AUDIO" \in InterruptFlags' <=> "AUDIO" \in InterruptFlags
      BY <2>2
    <2> QED
      BY <1>0, <1>6, <2>2, <2>3 DEF Clear60Hz, OneToken, Open
  <1>7. CASE ClearAudio
    <2>1. reg["cpu"] \in Words /\ ClearInterruptFlag("cpu", "AUDIO")
      BY <1>0, <1>7 DEF ClearAudio, Between
    <2>2. Alone' /\ InterruptFlags' = InterruptFlags \ {"AUDIO"}
      BY <1>0, <1>t, <2>1, StoreAlone
    <2>3. "AUDIO" \notin InterruptFlags'
      BY <2>2
    <2> QED
      BY <1>0, <1>7, <2>2, <2>3 DEF ClearAudio, OneToken, Open
  <1>8. CASE AudioInterrupt
    BY <1>0, <1>d, <1>s, <1>8 DEF AudioInterrupt, OneToken, Open, Signalled
  <1>9. CASE FillAck
    BY <1>0, <1>d, <1>s, <1>9 DEF FillAck, OneToken, Open, CanWait, Waited
  <1>10. CASE FillLoop \/ FillWait \/ FillTest \/ FillCopy \/ TickCancelled \/ OutLoop \/ OutPlayed
    BY <1>0, <1>s, <1>10 DEF FillLoop, FillWait, FillTest, FillCopy, TickCancelled,
       OutLoop, OutPlayed, OneToken, Open
  <1>11. CASE IrqTake \/ QuitEmulator \/ AudioExitStop \/ AudioExitDelete
    BY <1>0, <1>d, <1>s, <1>11 DEF IrqTake, QuitEmulator, AudioExitStop, AudioExitDelete,
       threadVars, OneToken, Open
  <1>12. CASE Dispatch
    BY <1>0, <1>s, <1>12 DEF Dispatch, ComponentOpen, ComponentClose, InitOutputDevice,
       AddSource, RemoveSource, threadVars, OneToken, Open
  <1>13. CASE UNCHANGED vars
    BY <1>0, <1>s, <1>13 DEF vars, OneToken, Open
  <1> QED
    BY <1>1, <1>2, <1>3, <1>4, <1>5, <1>6, <1>7, <1>8, <1>9, <1>10, <1>11, <1>12, <1>13
       DEF Next, TickThread, FillThread, OutThread, IrqStep

\* With indivisible updates of InterruptFlags the streaming thread is never
\* left waiting for a block: its request is pending, being handled or
\* answered (fillBuffer and AudioInterrupt in PSP2/audio_psp.cpp).
THEOREM Answered == Atomic => (Spec => []RequestAnswered)
PROOF
  <1> SUFFICES ASSUME Atomic PROVE Spec => []RequestAnswered
    OBVIOUS
  <1>1. HInv => RequestAnswered
    BY DEF HInv, OneToken, Open, RequestAnswered
  <1>2. HInv /\ [Next]_vars => HInv'
    BY HNext
  <1> QED
    BY <1>1, <1>2, HInit, PTL DEF Spec

\* With indivisible updates no acknowledgement is left over on
\* audio_irq_done_sem: fillBuffer never takes one for a block that
\* AudioInterrupt has not read.
THEOREM NoneLeftOver == Atomic => (Spec => []NoStaleAck)
PROOF
  <1> SUFFICES ASSUME Atomic PROVE Spec => []NoStaleAck
    OBVIOUS
  <1>1. HInv => NoStaleAck
    BY DEF HInv, OneToken, NoStaleAck
  <1>2. HInv /\ [Next]_vars => HInv'
    BY HNext
  <1> QED
    BY <1>1, <1>2, HInit, PTL DEF Spec
=============================================================================

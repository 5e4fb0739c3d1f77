------------------------- MODULE Interrupts_proofs -------------------------
(***************************************************************************)
(* Proofs about Interrupts, for every ROM, every depth of nesting, every   *)
(* choice of masks and whether or not handlers open the mask.              *)
(***************************************************************************)
EXTENDS Interrupts, SequenceTheorems, TLAPS

\* A well-formed chain of activations.
Chain(s) ==
  /\ s \in Seq(Activation) /\ s # << >> /\ s[1].k = "app"
  /\ Linked(s)

\* A chain stays one when an activation is pushed that fits its top.
LEMMA PushChain ==
  ASSUME NEW s, Chain(s), NEW a \in Activation,
         a.k = "sub" <=> s[Len(s)].k \in HostCode
  PROVE  /\ Chain(Push(s, a))
         /\ Len(Push(s, a)) = Len(s) + 1
         /\ Push(s, a)[Len(s) + 1] = a
         /\ Push(s, a)[Len(s)] = s[Len(s)]
PROOF
  <1>1. s \in Seq(Activation) /\ Len(s) \in Nat \ {0}
    BY DEF Chain
  <1>2. /\ Push(s, a) \in Seq(Activation)
        /\ Len(Push(s, a)) = Len(s) + 1
        /\ Push(s, a)[Len(s) + 1] = a
        /\ \A j \in 1..Len(s) : Push(s, a)[j] = s[j]
    BY <1>1 DEF Push
  <1>3. Linked(Push(s, a))
    <2>1. ASSUME NEW j \in 2..(Len(s) + 1)
          PROVE  Push(s, a)[j].k = "sub" <=> Push(s, a)[j - 1].k \in HostCode
      <3>1. CASE j \in 2..Len(s)
        BY <1>1, <1>2, <3>1 DEF Linked, Chain
      <3>2. CASE j = Len(s) + 1
        BY <1>1, <1>2, <3>2
      <3>3. QED
        BY <1>1, <3>1, <3>2
    <2>2. QED
      BY <1>2, <2>1 DEF Linked
  <1>4. QED
    BY <1>1, <1>2, <1>3 DEF Chain

\* A chain stays one when its top is replaced by one of the same kind.
LEMMA ReplaceChain ==
  ASSUME NEW s, Chain(s), NEW a \in Activation, a.k = s[Len(s)].k
  PROVE  /\ Chain(ReplaceTop(s, a))
         /\ Len(ReplaceTop(s, a)) = Len(s)
         /\ ReplaceTop(s, a)[Len(s)] = a
         /\ \A j \in 1..(Len(s) - 1) : ReplaceTop(s, a)[j] = s[j]
PROOF
  <1>1. s \in Seq(Activation) /\ Len(s) \in Nat \ {0}
    BY DEF Chain
  <1>2. /\ ReplaceTop(s, a) \in Seq(Activation)
        /\ Len(ReplaceTop(s, a)) = Len(s)
        /\ ReplaceTop(s, a)[Len(s)] = a
        /\ \A j \in 1..(Len(s) - 1) : ReplaceTop(s, a)[j] = s[j]
    BY <1>1 DEF ReplaceTop
  <1>3. ASSUME NEW j \in 1..Len(s)
        PROVE  ReplaceTop(s, a)[j].k = s[j].k
    <2>1. CASE j = Len(s)
      BY <1>2, <2>1
    <2>2. CASE j # Len(s)
      <3>1. j \in 1..(Len(s) - 1)
        BY <1>1, <2>2
      <3>2. QED
        BY <1>2, <3>1
    <2>3. QED
      BY <2>1, <2>2
  <1>4. ASSUME NEW j \in 2..Len(s)
        PROVE  ReplaceTop(s, a)[j].k = "sub"
                 <=> ReplaceTop(s, a)[j - 1].k \in HostCode
    <2>1. j \in 1..Len(s) /\ j - 1 \in 1..Len(s)
      BY <1>1
    <2>2. /\ ReplaceTop(s, a)[j].k = s[j].k
          /\ ReplaceTop(s, a)[j - 1].k = s[j - 1].k
      BY <1>3, <2>1
    <2>3. s[j].k = "sub" <=> s[j - 1].k \in HostCode
      BY DEF Chain, Linked
    <2>4. QED
      BY <2>2, <2>3
  <1>5. Linked(ReplaceTop(s, a))
    BY <1>2, <1>4 DEF Linked
  <1>6. ReplaceTop(s, a)[1].k = "app" /\ ReplaceTop(s, a) # << >>
    BY <1>1, <1>2, <1>3 DEF Chain
  <1>7. QED
    BY <1>2, <1>5, <1>6 DEF Chain

\* Every nonempty prefix of a chain is a chain.
LEMMA PrefixChain ==
  ASSUME NEW s, Chain(s), NEW n \in 1..Len(s)
  PROVE  /\ Chain(SubSeq(s, 1, n))
         /\ Len(SubSeq(s, 1, n)) = n
         /\ SubSeq(s, 1, n)[n] = s[n]
PROOF
  <1>1. s \in Seq(Activation) /\ Len(s) \in Nat \ {0}
    BY DEF Chain
  <1>2. /\ SubSeq(s, 1, n) \in Seq(Activation)
        /\ Len(SubSeq(s, 1, n)) = n
        /\ \A j \in 1..n : SubSeq(s, 1, n)[j] = s[j]
    BY <1>1
  <1>3. Linked(SubSeq(s, 1, n))
    BY <1>1, <1>2 DEF Linked, Chain
  <1>4. QED
    BY <1>1, <1>2, <1>3 DEF Chain

\* Activations as the actions build and change them.
LEMMA ActivationTypes ==
  /\ \A k \in Code68k \cup HostCode, m \in Masks :
       Act(k, m) \in Activation /\ Act(k, m).k = k /\ Act(k, m).n = 0
  /\ \A m \in Masks : IrqAct(m) \in Activation /\ IrqAct(m).k = "irq"
  /\ \A a \in Activation, n \in 0..8, ph \in {"none", "test", "run", "clear"} :
       /\ At(a, n, ph) \in Activation
       /\ At(a, n, ph).k = a.k
PROOF
  BY DEF Act, IrqAct, At, Activation, HostCode

-----------------------------------------------------------------------------
(***************************************************************************)
(* The inductive invariant: types, proper nesting, and no interrupt        *)
(* forgotten.  Nesting is needed because the end of an EmulOp or of an     *)
(* interrupt takes its mask from the chain, and because the end of a       *)
(* routine under Execute68k cuts the chain.                                *)
(***************************************************************************)
IInv == TypeOK /\ ProperNesting /\ NoForgottenInterrupt

LEMMA InitIInv == Init => IInv
PROOF
  <1> SUFFICES ASSUME Init PROVE IInv
    OBVIOUS
  <1>1. /\ Act("app", 0) \in Activation
        /\ Act("app", 0).k = "app"
    BY ActivationTypes DEF Code68k, Masks
  <1>2. stk = << Act("app", 0) >>
    BY DEF Init
  <1>3. /\ stk \in Seq(Activation) /\ stk # << >>
        /\ Len(stk) = 1 /\ stk[1].k = "app"
    BY <1>1, <1>2
  <1>4. TypeOK
    <2>1. intmask \in Masks /\ irq_done \in 0..1 /\ cpu \in CpuPlaces
      BY DEF Init, Masks, CpuPlaces
    <2>2. QED
      BY <1>3, <2>1, Zenon DEF TypeOK, Init
  <1>5. ProperNesting
    BY <1>3 DEF ProperNesting, Linked, Top, Init, HostCode
  <1>6. NoForgottenInterrupt
    BY DEF NoForgottenInterrupt, Init
  <1>7. QED
    BY <1>4, <1>5, <1>6 DEF IInv

\* What the invariant says of the chain.
LEMMA ChainFacts ==
  ASSUME IInv
  PROVE  /\ Chain(stk)
         /\ Len(stk) \in Nat \ {0}
         /\ Top \in Activation
         /\ Top = stk[Len(stk)]
PROOF
  <1>1. stk \in Seq(Activation) /\ Len(stk) \in Nat \ {0}
    BY DEF IInv, TypeOK
  <1>2. QED
    BY <1>1 DEF IInv, TypeOK, ProperNesting, Chain, Top

\* Steps of the 60Hz thread and of the streaming thread.
LEMMA ThreadsStep ==
  ASSUME IInv, TickThread \/ StreamThread
  PROVE  IInv'
PROOF
  <1> USE DEF IInv, TypeOK, ProperNesting, NoForgottenInterrupt, TriggerDue,
              Top, SpcFlags, IrqFlags, SetInterruptFlag, TriggerInterrupt
  <1>1. CASE OneSecondSet
    BY <1>1 DEF OneSecondSet
  <1>2. CASE OneSecondTrigger
    BY <1>2 DEF OneSecondTrigger
  <1>3. CASE OneTickSet
    BY <1>3 DEF OneTickSet
  <1>4. CASE OneTickSkip
    BY <1>4 DEF OneTickSkip
  <1>5. CASE OneTickTrigger
    BY <1>5 DEF OneTickTrigger
  <1>6. CASE StreamSet
    BY <1>6 DEF StreamSet
  <1>7. CASE StreamTrigger
    BY <1>7 DEF StreamTrigger
  <1>8. CASE StreamWait
    BY <1>8 DEF StreamWait
  <1>9. QED
    BY <1>1, <1>2, <1>3, <1>4, <1>5, <1>6, <1>7, <1>8
    DEF TickThread, StreamThread

\* Opcodes.  A step that rewrites the SR raises INT, so that opening the
\* mask cannot hide a pending interrupt.
LEMMA ProgramStep ==
  ASSUME IInv,
         m68k_reset \/ Program \/ Rte \/ EmulOpIrqBegin \/ m68k_emulop_return
  PROVE  IInv'
PROOF
  <1> USE DEF SpcFlags, CpuPlaces, SpcPlaces
  <1>c. /\ Chain(stk) /\ Len(stk) \in Nat \ {0}
        /\ Top \in Activation /\ Top = stk[Len(stk)]
    BY ChainFacts
  <1>1. CASE m68k_reset
    BY <1>1 DEF m68k_reset, IInv, TypeOK, Masks, ProperNesting, Top,
                NoForgottenInterrupt
  <1>2. CASE Opcode
    <2>1. CASE Top.k = "sub"
      <3> DEFINE a == At(Top, 1, "none")
      <3>1. a \in Activation /\ a.k = Top.k
        BY <1>c, ActivationTypes
      <3>2. /\ Chain(ReplaceTop(stk, a))
            /\ Len(ReplaceTop(stk, a)) = Len(stk)
            /\ ReplaceTop(stk, a)[Len(stk)] = a
        BY <1>c, <3>1, ReplaceChain
      <3>3. stk' = ReplaceTop(stk, a)
        BY <1>2, <2>1 DEF Opcode
      <3>4. Chain(stk') /\ Top'.k = Top.k
        BY <3>1, <3>2, <3>3 DEF Top
      <3> HIDE DEF a
      <3>5. QED
        BY <1>2, <2>1, <3>4
        DEF Opcode, IInv, TypeOK, ProperNesting, NoForgottenInterrupt,
            TriggerDue, Chain, HostCode
    <2>2. CASE Top.k # "sub"
      BY <1>2, <2>2
      DEF Opcode, IInv, TypeOK, ProperNesting, NoForgottenInterrupt,
          TriggerDue, Top
    <2>3. QED
      BY <2>1, <2>2
  <1>3. CASE MacStarts
    BY <1>3 DEF MacStarts, IInv, TypeOK, ProperNesting, Top,
                NoForgottenInterrupt, TriggerDue
  <1>4. CASE Stop
    BY <1>4 DEF Stop, IInv, TypeOK, Masks, ProperNesting, Top,
                NoForgottenInterrupt
  <1>5. CASE EmulOpBegin
    <2> DEFINE a == Act("op", intmask)
    <2>1. a \in Activation /\ a.k = "op"
      BY ActivationTypes DEF IInv, TypeOK, HostCode
    <2>2. Top.k \notin HostCode
      BY <1>5 DEF EmulOpBegin, IInv, ProperNesting
    <2>3. stk' = Push(stk, a)
      BY <1>5 DEF EmulOpBegin
    <2>4. Chain(stk') /\ Top'.k = "op"
      BY <1>c, <2>1, <2>2, <2>3, PushChain DEF Top
    <2> HIDE DEF a
    <2>5. QED
      BY <1>5, <2>4 DEF EmulOpBegin, IInv, TypeOK, ProperNesting,
                        NoForgottenInterrupt, TriggerDue, Chain, HostCode
  <1>6. CASE \E m \in ProgramMasks : MoveToSR(m)
    BY <1>6, InterruptsAssumption
    DEF MoveToSR, MakeFromSR, IInv, TypeOK, Masks, ProperNesting, Top,
        NoForgottenInterrupt
  <1>7. CASE Rte
    <2>1. Len(stk) - 1 \in 1..Len(stk)
      BY <1>c, <1>7 DEF Rte, Chain
    <2>2. /\ Chain(stk')
          /\ Top' = stk[Len(stk) - 1]
      BY <1>c, <1>7, <2>1, PrefixChain DEF Rte, Pop, Top
    <2>3. Top'.k \notin HostCode
      BY <1>c, <1>7, <2>1, <2>2 DEF Rte, Chain, Linked
    <2>4. Top.mask \in Masks
      BY <1>c DEF Activation
    <2>5. QED
      BY <1>7, <2>2, <2>3, <2>4
      DEF Rte, MakeFromSR, IInv, TypeOK, ProperNesting,
          NoForgottenInterrupt, Chain
  <1>8. CASE EmulOpIrqBegin
    <2> DEFINE a == At(Top, 1, "none")
    <2> DEFINE b == IrqAct(intmask)
    <2> DEFINE s == ReplaceTop(stk, a)
    <2>1. a \in Activation /\ a.k = "isr" /\ b \in Activation /\ b.k = "irq"
      BY <1>c, <1>8, ActivationTypes DEF EmulOpIrqBegin, IInv, TypeOK
    <2>2. Chain(s) /\ Len(s) = Len(stk) /\ s[Len(s)] = a
      BY <1>c, <1>8, <2>1, ReplaceChain DEF EmulOpIrqBegin
    <2>3. stk' = Push(s, b)
      BY <1>8 DEF EmulOpIrqBegin
    <2> HIDE DEF a, b, s
    <2>4. Chain(stk') /\ Top'.k = "irq"
      BY <1>c, <2>1, <2>2, <2>3, PushChain DEF Top, HostCode
    <2>5. QED
      BY <1>8, <2>4 DEF EmulOpIrqBegin, IInv, TypeOK, ProperNesting,
                        NoForgottenInterrupt, TriggerDue, Chain, HostCode
  <1>9. CASE m68k_emulop_return
    BY <1>9 DEF m68k_emulop_return, IInv, TypeOK, ProperNesting, Top,
                NoForgottenInterrupt, TriggerDue
  <1>10. QED
    BY <1>1, <1>2, <1>3, <1>4, <1>5, <1>6, <1>7, <1>8, <1>9 DEF Program

\* Interrupt(1) on top of 68k code keeps the chain.
LEMMA InterruptChain ==
  ASSUME IInv, Interrupt, Top.k \notin HostCode
  PROVE  /\ Chain(stk')
         /\ Len(stk') = Len(stk) + 1
         /\ Top'.k = "isr" /\ Top'.n = 0
         /\ stk'[Len(stk') - 1] = Top
PROOF
  <1> DEFINE a == Act("isr", intmask)
  <1>1. /\ Chain(stk) /\ Len(stk) \in Nat \ {0}
        /\ Top = stk[Len(stk)]
    BY ChainFacts
  <1>2. a \in Activation /\ a.k = "isr" /\ a.n = 0
    BY ActivationTypes DEF IInv, TypeOK, Code68k
  <1>3. stk' = Push(stk, a)
    BY DEF Interrupt
  <1> HIDE DEF a
  <1>4. /\ Chain(stk') /\ Len(stk') = Len(stk) + 1
        /\ stk'[Len(stk) + 1] = a /\ stk'[Len(stk)] = Top
    BY <1>1, <1>2, <1>3, PushChain
  <1>5. QED
    BY <1>1, <1>2, <1>4 DEF Top

\* When BRK is up, the innermost routine is at the top of the chain or one
\* below it, and the host called it.
LEMMA BreakChain ==
  ASSUME IInv, "BRK" \in spcflags
  PROVE  /\ LastSub \in 2..Len(stk)
         /\ stk[LastSub].k = "sub"
         /\ stk[LastSub - 1].k \in HostCode
PROOF
  <1>1. /\ Chain(stk) /\ Len(stk) \in Nat \ {0}
        /\ Top = stk[Len(stk)]
    BY ChainFacts
  <1>2. PICK j \in 1..Len(stk) :
          /\ stk[j].k = "sub"
          /\ \A i \in 1..Len(stk) : i > j => stk[i].k # "sub"
    <2>1. CASE Top.k = "sub"
      BY <1>1, <2>1
    <2>2. CASE Top.k # "sub"
      <3>1. Len(stk) > 1 /\ stk[Len(stk) - 1].k = "sub"
        BY <2>2 DEF IInv, ProperNesting
      <3>2. /\ Len(stk) - 1 \in 1..Len(stk)
            /\ \A i \in 1..Len(stk) : i > Len(stk) - 1 => i = Len(stk)
        BY <1>1, <3>1
      <3>3. \A i \in 1..Len(stk) : i > Len(stk) - 1 => stk[i].k # "sub"
        BY <1>1, <2>2, <3>2
      <3>4. QED
        BY <3>1, <3>2, <3>3
    <2>3. QED
      BY <2>1, <2>2
  <1>3. j \in Subs /\ \A i \in Subs : i <= j
    BY <1>1, <1>2 DEF Subs
  <1>4. LastSub \in Subs /\ \A i \in Subs : i <= LastSub
    BY <1>3, Zenon DEF LastSub
  <1>5. LastSub \in 1..Len(stk) /\ stk[LastSub].k = "sub"
    BY <1>4 DEF Subs
  <1>6. LastSub \in 2..Len(stk)
    BY <1>1, <1>5 DEF Chain
  <1>7. stk[LastSub - 1].k \in HostCode
    BY <1>1, <1>5, <1>6 DEF Chain, Linked
  <1>8. QED
    BY <1>5, <1>6, <1>7

\* Level 1 is taken exactly when something is pending and the mask is 0.
LEMMA LevelOpen ==
  ASSUME IInv
  PROVE  intlev > intmask <=> (InterruptFlags # {} /\ intmask = 0)
PROOF
  <1>1. intmask \in 0..7
    BY DEF IInv, TypeOK, Masks
  <1>2. QED
    BY <1>1 DEF intlev

\* m68k_do_specialties.  INT or DOINT is only taken down on the way to
\* intlev(), and a dropped frame leaves the mask up.
LEMMA SpecialtiesStep ==
  ASSUME IInv, Specialties
  PROVE  IInv'
PROOF
  <1> USE DEF SpcFlags, CpuPlaces, SpcPlaces
  <1>c. /\ Chain(stk) /\ Len(stk) \in Nat \ {0}
        /\ Top \in Activation /\ Top = stk[Len(stk)]
    BY ChainFacts
  <1>1. CASE SpcTest
    BY <1>1 DEF SpcTest, IInv, TypeOK, ProperNesting, Top,
                NoForgottenInterrupt, TriggerDue
  <1>2. CASE NotStopped
    BY <1>2 DEF NotStopped, IInv, TypeOK, ProperNesting, Top,
                NoForgottenInterrupt, TriggerDue
  <1>3. CASE StopClear
    BY <1>3 DEF StopClear, IInv, TypeOK, ProperNesting, Top,
                NoForgottenInterrupt, TriggerDue
  <1>4. CASE StopInterrupt
    <2>1. CASE intlev > intmask
      <3>1. Interrupt /\ spcflags' = (spcflags \cup {"INT"}) \ {"STOP"}
        BY <1>4, <2>1 DEF StopInterrupt
      <3>2. Top.k \notin HostCode
        BY <1>4 DEF StopInterrupt, IInv, ProperNesting
      <3>3. /\ Chain(stk') /\ Len(stk') = Len(stk) + 1
            /\ Top'.k = "isr" /\ Top'.n = 0
            /\ stk'[Len(stk') - 1] = Top
        BY <3>1, <3>2, InterruptChain
      <3>4. "BRK" \in spcflags => Top.k = "sub"
        BY <2>1, LevelOpen DEF IInv, ProperNesting
      <3>5. QED
        BY <1>c, <1>4, <3>1, <3>3, <3>4
        DEF StopInterrupt, Interrupt, IInv, TypeOK, Masks, ProperNesting,
            NoForgottenInterrupt, Chain, HostCode
    <2>2. CASE ~(intlev > intmask)
      <3>1. UNCHANGED <<stk, intmask, spcflags>>
        BY <1>4, <2>2 DEF StopInterrupt
      <3>2. ~(InterruptFlags # {} /\ intmask = 0)
        BY <2>2, LevelOpen
      <3>3. QED
        BY <1>4, <3>1, <3>2
        DEF StopInterrupt, IInv, TypeOK, ProperNesting, Top,
            NoForgottenInterrupt
    <2>3. QED
      BY <2>1, <2>2
  <1>5. CASE DoIntClear
    <2>1. \/ cpu' = "dointLev"
          \/ cpu' = "int" /\ spcflags' = spcflags
      BY <1>5 DEF DoIntClear
    <2>2. QED
      BY <1>5, <2>1
      DEF DoIntClear, IInv, TypeOK, ProperNesting, Top,
          NoForgottenInterrupt, TriggerDue
  <1>6. CASE DoInterrupt
    <2>1. CASE intlev > intmask
      <3>1. Interrupt /\ spcflags' = spcflags \cup {"INT"}
        BY <1>6, <2>1 DEF DoInterrupt
      <3>2. Top.k \notin HostCode
        BY <1>6 DEF DoInterrupt, IInv, ProperNesting
      <3>3. /\ Chain(stk') /\ Len(stk') = Len(stk) + 1
            /\ Top'.k = "isr" /\ Top'.n = 0
            /\ stk'[Len(stk') - 1] = Top
        BY <3>1, <3>2, InterruptChain
      <3>4. "BRK" \in spcflags => Top.k = "sub"
        BY <2>1, LevelOpen DEF IInv, ProperNesting
      <3>5. QED
        BY <1>c, <1>6, <3>1, <3>3, <3>4
        DEF DoInterrupt, Interrupt, IInv, TypeOK, Masks, ProperNesting,
            NoForgottenInterrupt, Chain, HostCode
    <2>2. CASE ~(intlev > intmask)
      <3>1. UNCHANGED <<stk, intmask, spcflags>>
        BY <1>6, <2>2 DEF DoInterrupt
      <3>2. ~(InterruptFlags # {} /\ intmask = 0)
        BY <2>2, LevelOpen
      <3>3. QED
        BY <1>6, <3>1, <3>2
        DEF DoInterrupt, IInv, TypeOK, ProperNesting, Top,
            NoForgottenInterrupt
    <2>3. QED
      BY <2>1, <2>2
  <1>7. CASE IntToDoInt
    <2>1. /\ spcflags \cap {"INT", "DOINT"} # {} =>
               spcflags' \cap {"INT", "DOINT"} # {}
          /\ "BRK" \in spcflags' <=> "BRK" \in spcflags
          /\ spcflags' \subseteq SpcFlags
      BY <1>7 DEF IntToDoInt, IInv, TypeOK
    <2>2. QED
      BY <1>7, <2>1
      DEF IntToDoInt, IInv, TypeOK, ProperNesting, Top,
          NoForgottenInterrupt, TriggerDue
  <1>8. CASE NoBreak
    BY <1>8 DEF NoBreak, IInv, TypeOK, ProperNesting, Top,
                NoForgottenInterrupt, TriggerDue
  <1>9. CASE Execute68kReturn
    <2>1. /\ LastSub \in 2..Len(stk)
          /\ stk[LastSub - 1].k \in HostCode
      BY <1>9, BreakChain DEF Execute68kReturn
    <2>2. LastSub - 1 \in 1..Len(stk)
      BY <1>c, <2>1
    <2>3. Chain(stk') /\ Top' = stk[LastSub - 1]
      BY <1>c, <1>9, <2>2, PrefixChain DEF Execute68kReturn, Top
    <2>4. QED
      BY <1>9, <2>1, <2>3
      DEF Execute68kReturn, IInv, TypeOK, ProperNesting,
          NoForgottenInterrupt, TriggerDue, Chain
  <1>10. QED
    BY <1>1, <1>2, <1>3, <1>4, <1>5, <1>6, <1>7, <1>8, <1>9 DEF Specialties

\* Replacing the top EmulOp by a later point of it.
LEMMA DispatchChain ==
  ASSUME IInv, NEW n \in 0..8, NEW ph \in {"test", "run", "clear"},
         stk' = ReplaceTop(stk, At(Top, n, ph))
  PROVE  Chain(stk') /\ Top'.k = Top.k
PROOF
  <1> DEFINE a == At(Top, n, ph)
  <1>1. /\ Chain(stk) /\ Len(stk) \in Nat \ {0}
        /\ Top \in Activation /\ Top = stk[Len(stk)]
    BY ChainFacts
  <1>2. a \in Activation /\ a.k = Top.k
    BY <1>1, ActivationTypes
  <1>3. stk' = ReplaceTop(stk, a)
    OBVIOUS
  <1> HIDE DEF a
  <1>4. QED
    BY <1>1, <1>2, <1>3, ReplaceChain DEF Top

\* EmulOps.  A handler clears its own flag; the end of an EmulOp restores
\* the mask and raises INT.
LEMMA HostStep ==
  ASSUME IInv, Execute68k \/ m68k_emulop_end \/ InputEvent \/ Dispatch
  PROVE  IInv'
PROOF
  <1> USE DEF SpcFlags, CpuPlaces, SpcPlaces
  <1>c. /\ Chain(stk) /\ Len(stk) \in Nat \ {0}
        /\ Top \in Activation /\ Top = stk[Len(stk)]
    BY ChainFacts
  <1>n. Len(IrqOrder) = 7
    BY DEF IrqOrder
  <1>p. ASSUME Top.n <= 7, NEW ph \in {"test", "run", "clear"},
               ToPhase(ph) \/ ToNextSource
        PROVE  Chain(stk') /\ Top'.k = Top.k
    <2>1. Top.n \in 0..8 /\ Top.n + 1 \in 0..8
      BY <1>c, <1>p DEF Activation
    <2>2. QED
      BY <1>p, <2>1, DispatchChain DEF ToPhase, ToNextSource
  <1>1. CASE Execute68k
    <2> DEFINE a == Act("sub", 0)
    <2>1. a \in Activation /\ a.k = "sub"
      BY ActivationTypes DEF Code68k, Masks
    <2>2. Top.k \in HostCode
      BY <1>1 DEF Execute68k, IInv, ProperNesting
    <2>3. stk' = Push(stk, a)
      BY <1>1 DEF Execute68k
    <2> HIDE DEF a
    <2>4. Chain(stk') /\ Top'.k = "sub"
      BY <1>c, <2>1, <2>2, <2>3, PushChain DEF Top
    <2>5. QED
      BY <1>1, <2>4
      DEF Execute68k, IInv, TypeOK, ProperNesting, NoForgottenInterrupt,
          TriggerDue, Chain, HostCode
  <1>2. CASE m68k_emulop_end
    <2>1. Top.k \in HostCode /\ Top.k # "app"
      BY <1>2 DEF m68k_emulop_end, HostCode
    <2>2. Len(stk) - 1 \in 1..Len(stk) /\ Len(stk) \in 2..Len(stk)
      BY <1>c, <2>1 DEF Chain
    <2>3. Chain(stk') /\ Top' = stk[Len(stk) - 1]
      BY <1>c, <1>2, <2>2, PrefixChain DEF m68k_emulop_end, Pop, Top
    <2>4. Top'.k \notin HostCode
      BY <1>c, <2>1, <2>2, <2>3 DEF Chain, Linked, HostCode
    <2>5. Top.mask \in Masks
      BY <1>c DEF Activation
    <2>6. QED
      BY <1>2, <2>3, <2>4, <2>5
      DEF m68k_emulop_end, MakeFromSR, IInv, TypeOK, ProperNesting,
          NoForgottenInterrupt, Chain
  <1>3. CASE InputEvent
    BY <1>3
    DEF InputEvent, SetInterruptFlag, TriggerInterrupt, IInv, TypeOK,
        IrqFlags, ProperNesting, Top, NoForgottenInterrupt
  <1>4. CASE IrqTest
    <2>1. Chain(stk') /\ Top'.k = Top.k
      BY <1>4, <1>n, <1>p DEF IrqTest, InIrq
    <2>2. asked' \subseteq IrqFlags
      BY <1>4 DEF IrqTest, IInv, TypeOK
    <2>3. QED
      BY <1>4, <2>1, <2>2
      DEF IrqTest, InIrq, IInv, TypeOK, ProperNesting,
          NoForgottenInterrupt, TriggerDue, Chain
  <1>5. CASE ClearInterruptFlag
    <2>1. Chain(stk') /\ Top'.k = Top.k
      BY <1>5, <1>n, <1>p DEF ClearInterruptFlag, InIrq
    <2>2. /\ asked' \subseteq IrqFlags /\ InterruptFlags' \subseteq IrqFlags
          /\ InterruptFlags' # {} => InterruptFlags # {}
      BY <1>5 DEF ClearInterruptFlag, IInv, TypeOK
    <2>3. QED
      BY <1>5, <2>1, <2>2
      DEF ClearInterruptFlag, InIrq, IInv, TypeOK, ProperNesting,
          NoForgottenInterrupt, TriggerDue, Chain
  <1>6. CASE IrqHandled
    <2>1. Chain(stk') /\ Top'.k = Top.k
      BY <1>6, <1>n, <1>p DEF IrqHandled, InIrq
    <2>2. irq_done' \in 0..1
      BY <1>6 DEF IrqHandled, IInv, TypeOK
    <2>3. QED
      BY <1>6, <2>1, <2>2
      DEF IrqHandled, InIrq, IInv, TypeOK, ProperNesting,
          NoForgottenInterrupt, TriggerDue, Chain
  <1>7. QED
    BY <1>1, <1>2, <1>3, <1>4, <1>5, <1>6 DEF Dispatch

\* Every step keeps the invariant.
LEMMA StepIInv == IInv /\ [Next]_vars => IInv'
PROOF
  <1> SUFFICES ASSUME IInv, [Next]_vars PROVE IInv'
    OBVIOUS
  <1>1. CASE UNCHANGED vars
    BY <1>1 DEF vars, IInv, TypeOK, ProperNesting, NoForgottenInterrupt,
                TriggerDue, Top
  <1>2. CASE Next
    BY <1>2, ThreadsStep, ProgramStep, SpecialtiesStep, HostStep DEF Next
  <1>3. QED
    BY <1>1, <1>2

-----------------------------------------------------------------------------
\* The variables of the interrupt machinery keep their types in every
\* behaviour of the emulator, however deeply EmulOps, 68k routines and
\* interrupts nest.
THEOREM TypeCorrect == Spec => []TypeOK
PROOF
  <1>1. IInv => TypeOK
    BY DEF IInv
  <1>2. QED
    BY InitIInv, StepIInv, <1>1, PTL DEF Spec

\* m68k_do_specialties, MakeFromSR and TriggerInterrupt never lose an
\* unmasked pending interrupt.
THEOREM NeverForgotten == Spec => []NoForgottenInterrupt
PROOF
  <1>1. IInv => NoForgottenInterrupt
    BY DEF IInv
  <1>2. QED
    BY InitIInv, StepIInv, <1>1, PTL DEF Spec

\* Execute68k, m68k_emulop and Interrupt nest properly: the end of a
\* routine drops at most an interrupt that has not begun.
THEOREM AlwaysNested == Spec => []ProperNesting
PROOF
  <1>1. IInv => ProperNesting
    BY DEF IInv
  <1>2. QED
    BY InitIInv, StepIInv, <1>1, PTL DEF Spec

-----------------------------------------------------------------------------
(***************************************************************************)
(* Requests.  The flag of ADB is cleared after its handler, so a dispatcher*)
(* that has begun that handler may only go on to clear the flag if every   *)
(* ADB request made meanwhile (by the 60Hz handler of a dispatcher nested  *)
(* in it) is seen first, by that nested dispatcher.                        *)
(***************************************************************************)
Late(a) == a.k = "irq" /\ a.n = 6 /\ a.ph \in {"run", "clear"}

Early(a) == a.k = "irq" /\ (a.n < 6 \/ (a.n = 6 /\ a.ph = "test"))

Serves(a) == a.k = "irq" /\ a.n = 5 /\ a.ph = "run"

AdbSeenFirst(s) ==
  \A j \in 1..Len(s) :
    Late(s[j]) => \E i \in 1..Len(s) : i > j /\ Early(s[i])

Serving(s) == \E j \in 1..Len(s) : Serves(s[j])

\* A dispatcher looks at one of the sources, or at none any more.
Numbered(s) == \A j \in 1..Len(s) : s[j].k = "irq" => s[j].n >= 1

RInv ==
  /\ RequestKept
  /\ Numbered(stk)
  /\ "ADB" \in asked => AdbSeenFirst(stk)
  /\ stream \in {"trigger", "wait"} =>
       "AUDIO" \in InterruptFlags \/ irq_done = 1 \/ Serving(stk)

\* A step from chain s to chain t takes nothing away from either.
Keeps(s, t) ==
  /\ AdbSeenFirst(s) => AdbSeenFirst(t)
  /\ Serving(s) => Serving(t)
  /\ Numbered(s) => Numbered(t)

LEMMA PushKeeps ==
  ASSUME NEW s, Chain(s), NEW a \in Activation, ~Late(a),
         a.k = "irq" => a.n >= 1
  PROVE  Keeps(s, Push(s, a))
PROOF
  <1>1. s \in Seq(Activation) /\ Len(s) \in Nat \ {0}
    BY DEF Chain
  <1>2. /\ Len(Push(s, a)) = Len(s) + 1
        /\ Push(s, a)[Len(s) + 1] = a
        /\ \A j \in 1..Len(s) : Push(s, a)[j] = s[j]
    BY <1>1 DEF Push
  <1>3. \A j \in 1..(Len(s) + 1) : j \in 1..Len(s) \/ j = Len(s) + 1
    BY <1>1
  <1>4. \A j \in 1..Len(s) : j \in 1..(Len(s) + 1)
    BY <1>1
  <1>5. AdbSeenFirst(s) => AdbSeenFirst(Push(s, a))
    BY <1>2, <1>3, <1>4 DEF AdbSeenFirst
  <1>6. Serving(s) => Serving(Push(s, a))
    BY <1>2, <1>4 DEF Serving
  <1>7. Numbered(s) => Numbered(Push(s, a))
    BY <1>2, <1>3 DEF Numbered
  <1>8. QED
    BY <1>5, <1>6, <1>7 DEF Keeps

\* The top is replaced; neither the old nor the new one is a dispatcher.
LEMMA ReplaceKeeps ==
  ASSUME NEW s, Chain(s), NEW a \in Activation, a.k = s[Len(s)].k,
         a.k # "irq"
  PROVE  Keeps(s, ReplaceTop(s, a))
PROOF
  <1>1. s \in Seq(Activation) /\ Len(s) \in Nat \ {0}
    BY DEF Chain
  <1>2. /\ Len(ReplaceTop(s, a)) = Len(s)
        /\ ReplaceTop(s, a)[Len(s)] = a
        /\ \A j \in 1..Len(s) : j # Len(s) => ReplaceTop(s, a)[j] = s[j]
    BY <1>1 DEF ReplaceTop
  <1>3. \A j \in 1..Len(s) :
          /\ Late(ReplaceTop(s, a)[j]) <=> Late(s[j])
          /\ Early(ReplaceTop(s, a)[j]) <=> Early(s[j])
          /\ Serves(ReplaceTop(s, a)[j]) <=> Serves(s[j])
          /\ ReplaceTop(s, a)[j].k = "irq" => ReplaceTop(s, a)[j] = s[j]
    BY <1>2 DEF Late, Early, Serves
  <1>4. QED
    BY <1>2, <1>3 DEF Keeps, AdbSeenFirst, Serving, Numbered

\* The chain is cut; what is dropped has no request left to see.
LEMMA PrefixKeeps ==
  ASSUME NEW s, Chain(s), NEW n \in 1..Len(s),
         \A i \in 1..Len(s) : i > n => ~Early(s[i]) /\ ~Serves(s[i])
  PROVE  Keeps(s, SubSeq(s, 1, n))
PROOF
  <1>1. s \in Seq(Activation) /\ Len(s) \in Nat \ {0}
    BY DEF Chain
  <1>2. /\ Len(SubSeq(s, 1, n)) = n
        /\ \A j \in 1..n : SubSeq(s, 1, n)[j] = s[j]
    BY <1>1
  <1>3. /\ \A j \in 1..n : j \in 1..Len(s)
        /\ \A j \in 1..Len(s) : j > n \/ j \in 1..n
    BY <1>1
  <1>4. QED
    BY <1>2, <1>3 DEF Keeps, AdbSeenFirst, Serving, Numbered

\* A step that raises no request and clears none.
LEMMA QuietStep ==
  ASSUME RInv, Keeps(stk, stk'),
         asked' = asked, InterruptFlags' = InterruptFlags,
         stream' = stream, irq_done' = irq_done
  PROVE  RInv'
PROOF
  BY DEF RInv, Keeps, RequestKept

LEMMA SameKeeps == \A s : Keeps(s, s)
PROOF
  BY DEF Keeps

LEMMA InitRInv == Init => RInv
PROOF
  <1> SUFFICES ASSUME Init PROVE RInv
    OBVIOUS
  <1>1. Act("app", 0).k = "app"
    BY DEF Act
  <1>2. Len(stk) = 1 /\ stk[1].k = "app"
    BY <1>1 DEF Init
  <1>3. QED
    BY <1>2 DEF Init, RInv, RequestKept, Numbered

LEMMA ThreadsRInv ==
  ASSUME IInv, RInv, TickThread \/ StreamThread
  PROVE  RInv'
PROOF
  <1>1. CASE TickThread
    BY <1>1
    DEF TickThread, OneSecondSet, OneSecondTrigger, OneTickSet, OneTickSkip,
        OneTickTrigger, SetInterruptFlag, RInv, RequestKept
  <1>2. CASE StreamThread
    BY <1>2
    DEF StreamThread, StreamSet, StreamTrigger, StreamWait, SetInterruptFlag,
        RInv, RequestKept
  <1>3. QED
    BY <1>1, <1>2

LEMMA ProgramRInv ==
  ASSUME IInv, RInv,
         m68k_reset \/ Program \/ Rte \/ EmulOpIrqBegin \/ m68k_emulop_return
  PROVE  RInv'
PROOF
  <1>c. /\ Chain(stk) /\ Len(stk) \in Nat \ {0}
        /\ Top \in Activation /\ Top = stk[Len(stk)]
    BY ChainFacts
  <1>q. /\ asked' = asked /\ InterruptFlags' = InterruptFlags
        /\ stream' = stream /\ irq_done' = irq_done
    BY DEF m68k_reset, Program, Opcode, MacStarts, Stop, EmulOpBegin,
           MoveToSR, Rte, EmulOpIrqBegin, m68k_emulop_return
  <1>k. Keeps(stk, stk')
    <2>1. CASE Opcode
      <3> DEFINE a == At(Top, 1, "none")
      <3>1. CASE Top.k = "sub"
        <4>1. a \in Activation /\ a.k = Top.k
          BY <1>c, ActivationTypes
        <4>2. stk' = ReplaceTop(stk, a)
          BY <2>1, <3>1 DEF Opcode
        <4> HIDE DEF a
        <4>3. QED
          BY <1>c, <3>1, <4>1, <4>2, ReplaceKeeps
      <3>2. CASE Top.k # "sub"
        BY <2>1, <3>2, SameKeeps DEF Opcode
      <3>3. QED
        BY <3>1, <3>2
    <2>2. CASE EmulOpBegin
      <3> DEFINE a == Act("op", intmask)
      <3>1. a \in Activation /\ a.k = "op"
        BY ActivationTypes DEF IInv, TypeOK, HostCode
      <3>2. stk' = Push(stk, a)
        BY <2>2 DEF EmulOpBegin
      <3> HIDE DEF a
      <3>3. QED
        BY <1>c, <3>1, <3>2, PushKeeps DEF Late
    <2>3. CASE Rte
      <3>1. Top.k = "isr"
        BY <2>3 DEF Rte
      <3>2. Len(stk) - 1 \in 1..Len(stk)
        BY <1>c, <3>1 DEF Chain
      <3>3. \A i \in 1..Len(stk) : i > Len(stk) - 1 => i = Len(stk)
        BY <1>c
      <3>4. \A i \in 1..Len(stk) :
              i > Len(stk) - 1 => ~Early(stk[i]) /\ ~Serves(stk[i])
        BY <1>c, <3>1, <3>3 DEF Early, Serves
      <3>5. QED
        BY <1>c, <2>3, <3>2, <3>4, PrefixKeeps DEF Rte, Pop
    <2>4. CASE EmulOpIrqBegin
      <3> DEFINE a == At(Top, 1, "none")
      <3> DEFINE b == IrqAct(intmask)
      <3> DEFINE s == ReplaceTop(stk, a)
      <3>1. /\ a \in Activation /\ a.k = Top.k /\ a.k = "isr"
            /\ b \in Activation
        BY <1>c, <2>4, ActivationTypes DEF EmulOpIrqBegin, IInv, TypeOK
      <3>2. ~Late(b) /\ b.n = 1
        BY DEF Late, IrqAct
      <3>3. stk' = Push(s, b)
        BY <2>4 DEF EmulOpIrqBegin
      <3>4. Chain(s) /\ Keeps(stk, s)
        BY <1>c, <3>1, ReplaceKeeps, ReplaceChain
      <3> HIDE DEF a, b, s
      <3>5. Keeps(s, stk')
        BY <3>1, <3>2, <3>3, <3>4, PushKeeps
      <3>6. QED
        BY <3>4, <3>5 DEF Keeps
    <2>5. CASE ~(Opcode \/ EmulOpBegin \/ Rte \/ EmulOpIrqBegin)
      <3>1. stk' = stk
        BY <2>5 DEF m68k_reset, Program, MacStarts, Stop, MoveToSR,
                    m68k_emulop_return
      <3>2. QED
        BY <3>1, SameKeeps
    <2>6. QED
      BY <2>1, <2>2, <2>3, <2>4, <2>5
  <1>1. QED
    BY <1>q, <1>k, QuietStep

\* What Execute68kReturn drops is the routine and at most an interrupt frame.
LEMMA BreakDrops ==
  ASSUME IInv, "BRK" \in spcflags
  PROVE  \A i \in 1..Len(stk) : i > LastSub - 1 => stk[i].k # "irq"
PROOF
  <1>1. /\ Chain(stk) /\ Len(stk) \in Nat \ {0}
        /\ Top = stk[Len(stk)]
    BY ChainFacts
  <1>2. LastSub \in 2..Len(stk) /\ stk[LastSub].k = "sub"
    BY BreakChain
  <1>3. Top.k # "irq" /\ (Top.k = "sub" \/ stk[Len(stk) - 1].k = "sub")
    BY DEF IInv, ProperNesting
  <1>4. \A i \in Subs : i <= LastSub
    <2>1. PICK j \in Subs : \A i \in Subs : i <= j
      <3>1. CASE Top.k = "sub"
        BY <1>1, <3>1 DEF Subs
      <3>2. CASE Top.k # "sub"
        <4>1. Len(stk) - 1 \in 1..Len(stk) /\ stk[Len(stk) - 1].k = "sub"
          BY <1>1, <1>2, <1>3, <3>2
        <4>2. \A i \in 1..Len(stk) : i <= Len(stk) - 1 \/ i = Len(stk)
          BY <1>1
        <4>3. Len(stk) - 1 \in Subs /\ \A i \in Subs : i <= Len(stk) - 1
          BY <1>1, <3>2, <4>1, <4>2 DEF Subs
        <4>4. QED
          BY <4>3
      <3>3. QED
        BY <3>1, <3>2
    <2>2. QED
      BY <2>1, Zenon DEF LastSub
  <1>5. LastSub >= Len(stk) - 1
    <2>1. CASE Top.k = "sub"
      BY <1>1, <1>2, <1>4, <2>1 DEF Subs
    <2>2. CASE Top.k # "sub"
      <3>1. Len(stk) - 1 \in 1..Len(stk) /\ stk[Len(stk) - 1].k = "sub"
        BY <1>1, <1>2, <1>3, <2>2
      <3>2. QED
        BY <1>4, <3>1 DEF Subs
    <2>3. QED
      BY <2>1, <2>2
  <1>6. \A i \in 1..Len(stk) : i > LastSub - 1 => i = LastSub \/ i = Len(stk)
    BY <1>1, <1>2, <1>5
  <1>7. QED
    BY <1>1, <1>2, <1>3, <1>6

LEMMA SpecialtiesRInv ==
  ASSUME IInv, RInv, Specialties
  PROVE  RInv'
PROOF
  <1>c. /\ Chain(stk) /\ Len(stk) \in Nat \ {0}
        /\ Top \in Activation /\ Top = stk[Len(stk)]
    BY ChainFacts
  <1>q. /\ asked' = asked /\ InterruptFlags' = InterruptFlags
        /\ stream' = stream /\ irq_done' = irq_done
    BY DEF Specialties, SpcTest, NotStopped, StopClear, StopInterrupt,
           DoIntClear, DoInterrupt, IntToDoInt, NoBreak, Execute68kReturn
  <1>k. Keeps(stk, stk')
    <2>1. CASE Interrupt
      <3> DEFINE a == Act("isr", intmask)
      <3>1. a \in Activation /\ a.k = "isr"
        BY ActivationTypes DEF IInv, TypeOK, Code68k
      <3>2. stk' = Push(stk, a)
        BY <2>1 DEF Interrupt
      <3> HIDE DEF a
      <3>3. QED
        BY <1>c, <3>1, <3>2, PushKeeps DEF Late
    <2>2. CASE Execute68kReturn
      <3>1. /\ LastSub \in 2..Len(stk)
            /\ \A i \in 1..Len(stk) : i > LastSub - 1 => stk[i].k # "irq"
        BY <2>2, BreakChain, BreakDrops DEF Execute68kReturn
      <3>2. LastSub - 1 \in 1..Len(stk)
        BY <1>c, <3>1
      <3>3. \A i \in 1..Len(stk) :
              i > LastSub - 1 => ~Early(stk[i]) /\ ~Serves(stk[i])
        BY <3>1 DEF Early, Serves
      <3>4. QED
        BY <1>c, <2>2, <3>2, <3>3, PrefixKeeps DEF Execute68kReturn
    <2>3. CASE ~(Interrupt \/ Execute68kReturn)
      <3>1. stk' = stk
        BY <2>3 DEF Specialties, SpcTest, NotStopped, StopClear,
                    StopInterrupt, DoIntClear, DoInterrupt, IntToDoInt, NoBreak
      <3>2. QED
        BY <3>1, SameKeeps
    <2>4. QED
      BY <2>1, <2>2, <2>3
  <1>1. QED
    BY <1>q, <1>k, QuietStep

\* The sources, by their place in IrqOrder.
LEMMA Sources ==
  ASSUME NEW n \in 1..7
  PROVE  /\ IrqOrder[n] = "60HZ" <=> n = 1
         /\ IrqOrder[n] = "AUDIO" <=> n = 5
         /\ IrqOrder[n] = "ADB" <=> n = 6
PROOF
  BY DEF IrqOrder

\* The running dispatcher goes from one source or phase to another: where
\* it is after the step decides, for the chains below it stay as they were.
LEMMA MoveKeeps ==
  ASSUME NEW s, Chain(s), NEW a \in Activation, a.k = s[Len(s)].k
  PROVE  /\ Numbered(s) /\ a.n >= 1 => Numbered(ReplaceTop(s, a))
         /\ AdbSeenFirst(s) /\ (Early(s[Len(s)]) => Early(a)) /\ ~Late(a)
              => AdbSeenFirst(ReplaceTop(s, a))
         /\ Serving(s) /\ (Serves(s[Len(s)]) => Serves(a))
              => Serving(ReplaceTop(s, a))
         /\ Serves(a) => Serving(ReplaceTop(s, a))
PROOF
  <1>1. s \in Seq(Activation) /\ Len(s) \in Nat \ {0}
    BY DEF Chain
  <1>2. /\ Len(ReplaceTop(s, a)) = Len(s)
        /\ ReplaceTop(s, a)[Len(s)] = a
        /\ \A j \in 1..Len(s) : j # Len(s) => ReplaceTop(s, a)[j] = s[j]
        /\ Len(s) \in 1..Len(s)
    BY <1>1 DEF ReplaceTop
  <1>3. ASSUME AdbSeenFirst(s), Early(s[Len(s)]) => Early(a), ~Late(a)
        PROVE  AdbSeenFirst(ReplaceTop(s, a))
    <2>1. \A j \in 1..Len(s) : Late(ReplaceTop(s, a)[j]) => Late(s[j])
      BY <1>2, <1>3
    <2>2. \A j \in 1..Len(s) : Early(s[j]) => Early(ReplaceTop(s, a)[j])
      BY <1>2, <1>3
    <2>3. QED
      BY <1>2, <1>3, <2>1, <2>2 DEF AdbSeenFirst
  <1>4. ASSUME Serving(s), Serves(s[Len(s)]) => Serves(a)
        PROVE  Serving(ReplaceTop(s, a))
    <2>1. \A j \in 1..Len(s) : Serves(s[j]) => Serves(ReplaceTop(s, a)[j])
      BY <1>2, <1>4
    <2>2. QED
      BY <1>2, <1>4, <2>1 DEF Serving
  <1>5. Serves(a) => Serving(ReplaceTop(s, a))
    BY <1>2 DEF Serving
  <1>6. Numbered(s) /\ a.n >= 1 => Numbered(ReplaceTop(s, a))
    BY <1>2 DEF Numbered
  <1>7. QED
    BY <1>3, <1>4, <1>5, <1>6

\* A dispatcher that runs the 60Hz handler is still to look at ADB.
LEMMA EarlyTop ==
  ASSUME NEW s, Chain(s), Early(s[Len(s)])
  PROVE  AdbSeenFirst(s)
PROOF
  <1>1. s \in Seq(Activation) /\ Len(s) \in Nat \ {0}
    BY DEF Chain
  <1>2. Len(s) \in 1..Len(s) /\ \A j \in 1..Len(s) : Len(s) > j \/ j = Len(s)
    BY <1>1
  <1>3. s[Len(s)] \in Activation
    BY <1>1
  <1>4. ~Late(s[Len(s)])
    BY <1>3 DEF Early, Late, Activation
  <1>5. QED
    BY <1>2, <1>4 DEF AdbSeenFirst

LEMMA HostRInv ==
  ASSUME IInv, RInv, Execute68k \/ m68k_emulop_end \/ InputEvent \/ Dispatch
  PROVE  RInv'
PROOF
  <1>c. /\ Chain(stk) /\ Len(stk) \in Nat \ {0}
        /\ Top \in Activation /\ Top = stk[Len(stk)]
    BY ChainFacts
  <1>n. Len(IrqOrder) = 7
    BY DEF IrqOrder
  <1>t. Top.n \in 0..8 /\ Top.ph \in {"none", "test", "run", "clear"}
    BY <1>c DEF Activation
  <1>1. CASE Execute68k
    <2> DEFINE a == Act("sub", 0)
    <2>1. a \in Activation /\ a.k = "sub"
      BY ActivationTypes DEF Code68k, Masks
    <2>2. stk' = Push(stk, a)
      BY <1>1 DEF Execute68k
    <2> HIDE DEF a
    <2>3. Keeps(stk, stk')
      BY <1>c, <2>1, <2>2, PushKeeps DEF Late
    <2>4. QED
      BY <1>1, <2>3, QuietStep DEF Execute68k
  <1>2. CASE m68k_emulop_end
    <2>1. Top.k \in HostCode /\ ~Early(Top) /\ ~Serves(Top)
      BY <1>2, <1>n, <1>t DEF m68k_emulop_end, HostCode, Early, Serves
    <2>2. Len(stk) - 1 \in 1..Len(stk)
      BY <1>c, <2>1 DEF Chain, HostCode
    <2>3. \A i \in 1..Len(stk) : i > Len(stk) - 1 => i = Len(stk)
      BY <1>c
    <2>4. \A i \in 1..Len(stk) :
            i > Len(stk) - 1 => ~Early(stk[i]) /\ ~Serves(stk[i])
      BY <1>c, <2>1, <2>3
    <2>5. Keeps(stk, stk')
      BY <1>c, <1>2, <2>2, <2>4, PrefixKeeps DEF m68k_emulop_end, Pop
    <2>6. QED
      BY <1>2, <2>5, QuietStep DEF m68k_emulop_end
  <1>3. CASE InputEvent
    <2>1. Top.k = "irq" /\ Top.n <= 7 /\ Source = "60HZ"
      BY <1>3, <1>n DEF InputEvent, InIrq
    <2>2. Top.n < 6
      <3>1. CASE Top.n = 0
        BY <3>1
      <3>2. CASE Top.n \in 1..7
        BY <2>1, <3>2, Sources DEF Source
      <3>3. QED
        BY <1>t, <2>1, <3>1, <3>2
    <2>3. AdbSeenFirst(stk)
      BY <1>c, <2>1, <2>2, EarlyTop DEF Early
    <2>4. QED
      BY <1>3, <2>3 DEF InputEvent, SetInterruptFlag, RInv, RequestKept
  <1>4. ASSUME Dispatch
        PROVE  RInv'
    <2>1. Top.k = "irq" /\ Top.n \in 1..7
      <3>1. Top.k = "irq" /\ Top.n <= 7
        BY <1>4, <1>n DEF Dispatch, IrqTest, ClearInterruptFlag, IrqHandled,
                          InIrq
      <3>2. Top.n >= 1
        BY <1>c, <3>1 DEF RInv, Numbered
      <3>3. QED
        BY <1>t, <3>1, <3>2
    <2>2. /\ Source = "AUDIO" <=> Top.n = 5
          /\ Source = "ADB" <=> Top.n = 6
      BY <2>1, Sources DEF Source
    <2>3. Late(Top) => "ADB" \notin asked
      BY <1>c DEF RInv, AdbSeenFirst
    <2>m. ASSUME NEW n \in 1..8, NEW ph \in {"test", "run", "clear"},
                 stk' = ReplaceTop(stk, At(Top, n, ph))
          PROVE  /\ Numbered(stk')
                 /\ AdbSeenFirst(stk) /\ ~(n = 6 /\ ph \in {"run", "clear"})
                      /\ (Early(Top) => n < 6 \/ (n = 6 /\ ph = "test"))
                      => AdbSeenFirst(stk')
                 /\ Serving(stk) /\ ~Serves(Top) => Serving(stk')
                 /\ n = 5 /\ ph = "run" => Serving(stk')
      <3> DEFINE a == At(Top, n, ph)
      <3>0. n \in 0..8 /\ ph \in {"none", "test", "run", "clear"}
        OBVIOUS
      <3>1. /\ a \in Activation /\ a.k = Top.k
            /\ a.n = n /\ a.ph = ph
        <4>1. a \in Activation /\ a.k = Top.k
          BY <1>c, <3>0, ActivationTypes
        <4>2. a.n = n /\ a.ph = ph
          BY DEF At
        <4>3. QED
          BY <4>1, <4>2
      <3>2. stk' = ReplaceTop(stk, a)
        BY <2>m
      <3> HIDE DEF a
      <3>3. QED
        BY <1>c, <2>1, <3>1, <3>2, MoveKeeps DEF RInv, Late, Early, Serves
    <2>4. CASE IrqTest
      <3>1. Top.ph = "test"
        BY <2>4 DEF IrqTest, InIrq
      <3>2. CASE Source \in InterruptFlags /\ Source \in ClearedFirst
        <4>1. /\ stk' = ReplaceTop(stk, At(Top, Top.n, "clear"))
              /\ asked' = asked /\ Top.n = 5
          BY <2>2, <2>4, <3>2 DEF IrqTest, ToPhase, ClearedFirst
        <4>2. Numbered(stk') /\ (AdbSeenFirst(stk) => AdbSeenFirst(stk'))
              /\ (Serving(stk) => Serving(stk'))
          BY <2>1, <2>m, <3>1, <4>1 DEF Serves
        <4>3. QED
          BY <2>4, <4>1, <4>2 DEF IrqTest, RInv, RequestKept
      <3>3. CASE Source \in InterruptFlags /\ Source \notin ClearedFirst
        <4>1. /\ stk' = ReplaceTop(stk, At(Top, Top.n, "run"))
              /\ asked' = asked \ {Source} /\ Top.n # 5
          BY <2>2, <2>4, <3>3 DEF IrqTest, ToPhase, ClearedFirst
        <4>2. Numbered(stk') /\ (Serving(stk) => Serving(stk'))
              /\ (AdbSeenFirst(stk) /\ Top.n # 6 => AdbSeenFirst(stk'))
          BY <2>1, <2>m, <3>1, <4>1 DEF Serves, Early
        <4>3. QED
          BY <2>2, <2>4, <4>1, <4>2 DEF IrqTest, RInv, RequestKept
      <3>4. CASE Source \notin InterruptFlags
        <4>1. /\ stk' = ReplaceTop(stk, At(Top, Top.n + 1, "test"))
              /\ asked' = asked /\ Top.n + 1 \in 1..8
          BY <2>1, <2>4, <3>4 DEF IrqTest, ToNextSource
        <4>2. Numbered(stk') /\ (Serving(stk) => Serving(stk'))
              /\ (AdbSeenFirst(stk) /\ Top.n # 6 => AdbSeenFirst(stk'))
          BY <2>1, <2>m, <3>1, <4>1 DEF Serves, Early
        <4>3. QED
          BY <2>2, <2>4, <3>4, <4>1, <4>2 DEF IrqTest, RInv, RequestKept
      <3>5. QED
        BY <3>2, <3>3, <3>4
    <2>5. CASE ClearInterruptFlag
      <3>1. Top.ph = "clear"
        BY <2>5 DEF ClearInterruptFlag, InIrq
      <3>2. CASE Top.n = 5
        <4>1. /\ stk' = ReplaceTop(stk, At(Top, Top.n, "run"))
              /\ asked' = asked \ {Source}
          BY <2>2, <2>5, <3>2 DEF ClearInterruptFlag, ToPhase, ClearedFirst
        <4>2. Numbered(stk') /\ Serving(stk')
              /\ (AdbSeenFirst(stk) => AdbSeenFirst(stk'))
          BY <2>1, <2>m, <3>2, <4>1
        <4>3. QED
          BY <2>2, <2>5, <3>2, <4>1, <4>2
          DEF ClearInterruptFlag, RInv, RequestKept
      <3>3. CASE Top.n # 5
        <4>1. /\ stk' = ReplaceTop(stk, At(Top, Top.n + 1, "test"))
              /\ asked' = asked /\ Top.n + 1 \in 1..8
          BY <2>1, <2>2, <2>5, <3>3
          DEF ClearInterruptFlag, ToNextSource, ClearedFirst
        <4>2. Numbered(stk') /\ (Serving(stk) => Serving(stk'))
              /\ (AdbSeenFirst(stk) /\ Top.n # 6 => AdbSeenFirst(stk'))
          BY <2>1, <2>m, <3>1, <4>1 DEF Serves, Early
        <4>3. Top.n = 6 => "ADB" \notin asked
          BY <2>1, <2>3, <3>1 DEF Late
        <4>4. QED
          BY <2>2, <2>5, <3>3, <4>1, <4>2, <4>3
          DEF ClearInterruptFlag, RInv, RequestKept
      <3>4. QED
        BY <3>2, <3>3
    <2>6. CASE IrqHandled
      <3>1. Top.ph = "run"
        BY <2>6 DEF IrqHandled, InIrq
      <3>2. CASE Top.n = 5
        <4>1. stk' = ReplaceTop(stk, At(Top, 6, "test")) /\ irq_done' = 1
          BY <2>2, <2>6, <3>2 DEF IrqHandled, ToNextSource, ClearedFirst
        <4>2. Numbered(stk') /\ (AdbSeenFirst(stk) => AdbSeenFirst(stk'))
          BY <2>m, <4>1
        <4>3. QED
          BY <2>6, <4>1, <4>2 DEF IrqHandled, RInv, RequestKept
      <3>3. CASE Top.n # 5
        <4>1. /\ stk' = ReplaceTop(stk, At(Top, Top.n, "clear"))
              /\ irq_done' = irq_done
          BY <2>2, <2>6, <3>3 DEF IrqHandled, ToPhase, ClearedFirst
        <4>2. Numbered(stk') /\ (Serving(stk) => Serving(stk'))
              /\ (AdbSeenFirst(stk) /\ Top.n # 6 => AdbSeenFirst(stk'))
          BY <2>1, <2>m, <3>3, <4>1 DEF Serves, Early
        <4>3. Top.n = 6 => "ADB" \notin asked
          BY <2>1, <2>3, <3>1 DEF Late
        <4>4. QED
          BY <2>6, <4>1, <4>2, <4>3 DEF IrqHandled, RInv, RequestKept
      <3>4. QED
        BY <3>2, <3>3
    <2>7. QED
      BY <1>4, <2>4, <2>5, <2>6 DEF Dispatch
  <1>5. QED
    BY <1>1, <1>2, <1>3, <1>4

LEMMA StepRInv == IInv /\ RInv /\ [Next]_vars => RInv'
PROOF
  <1> SUFFICES ASSUME IInv, RInv, [Next]_vars PROVE RInv'
    OBVIOUS
  <1>1. CASE UNCHANGED vars
    BY <1>1 DEF vars, RInv, RequestKept
  <1>2. CASE Next
    BY <1>2, ThreadsRInv, ProgramRInv, SpecialtiesRInv, HostRInv DEF Next
  <1>3. QED
    BY <1>1, <1>2

\* No ClearInterruptFlag of the dispatcher takes away an audio or input
\* request that its handler has not seen, however dispatchers nest.
THEOREM RequestsKept == Spec => []RequestKept
PROOF
  <1>1. RInv => RequestKept
    BY DEF RInv
  <1>2. QED
    BY InitIInv, StepIInv, InitRInv, StepRInv, <1>1, PTL DEF Spec

\* fillBuffer never waits for a block that nobody will signal.
THEOREM StreamAnswered == Spec => []StreamWaitAnswered
PROOF
  <1>1. RInv => StreamWaitAnswered
    BY DEF RInv, StreamWaitAnswered, Serving, Serves
  <1>2. QED
    BY InitIInv, StepIInv, InitRInv, StepRInv, <1>1, PTL DEF Spec

-----------------------------------------------------------------------------
(***************************************************************************)
(* Reentrance.  While handlers keep the mask up, an interrupt is only      *)
(* taken when none is being handled: the mask is up as long as an "isr" is *)
(* on the chain, and so is every mask that an EmulOp above it gives back.  *)
(***************************************************************************)
Guarded(s, m) ==
  /\ \A j \in 1..Len(s) : s[j].k = "irq" => j > 1 /\ s[j - 1].k = "isr"
  /\ \A i, j \in 1..Len(s) : s[i].k = "isr" /\ s[j].k = "isr" => i = j
  /\ \A i \in 1..Len(s) : s[i].k = "isr" => m >= 1
  /\ \A i, j \in 1..Len(s) :
       s[i].k = "isr" /\ s[j].k \in HostCode /\ i < j => s[j].mask >= 1

DInv == ~IsrMayUnmask => Guarded(stk, intmask)

\* No interrupt is being handled on chain s.
Quiet(s) == \A i \in 1..Len(s) : s[i].k # "isr"

LEMMA GuardedPush ==
  ASSUME NEW s, Chain(s), NEW m \in Masks, Guarded(s, m),
         NEW a \in Activation, NEW b \in Masks,
         a.k = "irq" => s[Len(s)].k = "isr",
         a.k = "isr" => Quiet(s) /\ b >= 1,
         a.k # "isr" => b = m,
         a.k \in HostCode => a.mask = m
  PROVE  Guarded(Push(s, a), b)
PROOF
  <1>1. s \in Seq(Activation) /\ Len(s) \in Nat \ {0}
    BY DEF Chain
  <1> DEFINE t == Push(s, a)
  <1>2. /\ Len(t) = Len(s) + 1
        /\ t[Len(s) + 1] = a
        /\ \A j \in 1..Len(s) : t[j] = s[j]
    BY <1>1 DEF Push
  <1>3. \A j \in 1..Len(t) : j \in 1..Len(s) \/ j = Len(s) + 1
    BY <1>1, <1>2
  <1>h. m \in 0..7 /\ b \in 0..7
    BY DEF Masks
  <1> HIDE DEF t
  <1>4. ASSUME NEW j \in 1..Len(t), t[j].k = "irq"
        PROVE  j > 1 /\ t[j - 1].k = "isr"
    <2>1. CASE j \in 1..Len(s)
      <3>1. j > 1 /\ s[j - 1].k = "isr"
        BY <1>2, <1>4, <2>1 DEF Guarded
      <3>2. j - 1 \in 1..Len(s)
        BY <1>1, <2>1, <3>1
      <3>3. QED
        BY <1>2, <3>1, <3>2
    <2>2. CASE j = Len(s) + 1
      <3>1. Len(s) \in 1..Len(s) /\ j - 1 = Len(s) /\ j > 1
        BY <1>1, <2>2
      <3>2. QED
        BY <1>2, <1>4, <2>2, <3>1
    <2>3. QED
      BY <1>3, <2>1, <2>2
  <1>5. \A i, j \in 1..Len(t) : t[i].k = "isr" /\ t[j].k = "isr" => i = j
    BY <1>2, <1>3 DEF Guarded, Quiet
  <1>6. \A i \in 1..Len(t) : t[i].k = "isr" => b >= 1
    BY <1>2, <1>3 DEF Guarded, Quiet
  <1>7. ASSUME NEW i \in 1..Len(t), NEW j \in 1..Len(t),
               t[i].k = "isr", t[j].k \in HostCode, i < j
        PROVE  t[j].mask >= 1
    <2>1. i \in 1..Len(s)
      BY <1>1, <1>2, <1>7
    <2>2. CASE j \in 1..Len(s)
      BY <1>2, <1>7, <2>1, <2>2 DEF Guarded
    <2>3. CASE j = Len(s) + 1
      BY <1>2, <1>7, <2>1, <2>3 DEF Guarded
    <2>4. QED
      BY <1>3, <2>2, <2>3
  <1>8. QED
    BY <1>4, <1>5, <1>6, <1>7 DEF Guarded, t

\* A new top of the same kind and with the same mask changes nothing.
LEMMA GuardedReplace ==
  ASSUME NEW s, Chain(s), NEW m, Guarded(s, m),
         NEW a \in Activation, a.k = s[Len(s)].k, a.mask = s[Len(s)].mask
  PROVE  Guarded(ReplaceTop(s, a), m)
PROOF
  <1>1. s \in Seq(Activation) /\ Len(s) \in Nat \ {0}
    BY DEF Chain
  <1> DEFINE t == ReplaceTop(s, a)
  <1>2. Len(t) = Len(s) /\ \A j \in 1..Len(s) : j # Len(s) => t[j] = s[j]
    BY <1>1 DEF ReplaceTop
  <1>3. t[Len(s)] = a
    BY <1>1 DEF ReplaceTop
  <1>4. \A j \in 1..Len(s) : t[j].k = s[j].k /\ t[j].mask = s[j].mask
    BY <1>2, <1>3
  <1> HIDE DEF t
  <1>5. \A j \in 1..Len(s) : j > 1 => j - 1 \in 1..Len(s)
    BY <1>1
  <1>6. Guarded(t, m)
    BY <1>2, <1>4, <1>5 DEF Guarded
  <1>7. QED
    BY <1>6 DEF t

\* A part of the chain is guarded if the mask is up as long as an "isr" is
\* left on it.
LEMMA GuardedPrefix ==
  ASSUME NEW s, Chain(s), NEW m, Guarded(s, m), NEW n \in 1..Len(s), NEW b,
         \A i \in 1..n : s[i].k = "isr" => b >= 1
  PROVE  Guarded(SubSeq(s, 1, n), b)
PROOF
  <1>1. s \in Seq(Activation) /\ Len(s) \in Nat \ {0}
    BY DEF Chain
  <1> DEFINE t == SubSeq(s, 1, n)
  <1>2. Len(t) = n /\ \A j \in 1..n : t[j] = s[j]
    BY <1>1
  <1>3. \A j \in 1..n : j \in 1..Len(s) /\ (j > 1 => j - 1 \in 1..n)
    BY <1>1
  <1> HIDE DEF t
  <1>4. Guarded(t, b)
    BY <1>2, <1>3 DEF Guarded
  <1>5. QED
    BY <1>4 DEF t

\* The activations as pushed, with the mask they give back.
LEMMA ActivationMasks ==
  /\ \A k, m : Act(k, m).mask = m
  /\ \A m : IrqAct(m).mask = m
  /\ \A a, n, ph : At(a, n, ph).mask = a.mask
PROOF
  BY DEF Act, IrqAct, At

LEMMA InitDInv == Init => DInv
PROOF
  <1> SUFFICES ASSUME Init PROVE DInv
    OBVIOUS
  <1>1. Act("app", 0).k = "app"
    BY DEF Act
  <1>2. Len(stk) = 1 /\ stk[1].k = "app"
    BY <1>1 DEF Init
  <1>3. QED
    BY <1>2 DEF DInv, Guarded, HostCode

LEMMA StepDInv == IInv /\ DInv /\ [Next]_vars => DInv'
PROOF
  <1> SUFFICES ASSUME IInv, DInv, [Next]_vars, ~IsrMayUnmask
               PROVE  Guarded(stk', intmask')
    BY DEF DInv
  <1>c. /\ Chain(stk) /\ Len(stk) \in Nat \ {0}
        /\ Top \in Activation /\ Top = stk[Len(stk)]
        /\ intmask \in Masks
    BY ChainFacts DEF IInv, TypeOK
  <1>g. Guarded(stk, intmask)
    BY DEF DInv
  <1>r. ASSUME NEW n \in 0..8, NEW ph \in {"none", "test", "run", "clear"}
        PROVE  /\ Guarded(ReplaceTop(stk, At(Top, n, ph)), intmask)
               /\ Chain(ReplaceTop(stk, At(Top, n, ph)))
               /\ Len(ReplaceTop(stk, At(Top, n, ph))) = Len(stk)
               /\ ReplaceTop(stk, At(Top, n, ph))[Len(stk)].k = Top.k
    <2> DEFINE a == At(Top, n, ph)
    <2>1. a \in Activation /\ a.k = Top.k /\ a.mask = Top.mask
      BY <1>c, ActivationTypes, ActivationMasks
    <2> HIDE DEF a
    <2>2. /\ Guarded(ReplaceTop(stk, a), intmask)
          /\ Chain(ReplaceTop(stk, a))
          /\ Len(ReplaceTop(stk, a)) = Len(stk)
          /\ ReplaceTop(stk, a)[Len(stk)] = a
      BY <1>c, <1>g, <2>1, GuardedReplace, ReplaceChain
    <2>3. QED
      BY <2>1, <2>2 DEF a
  <1>m. ASSUME stk' = stk, intmask' >= 1 \/ ~InIsr
        PROVE  Guarded(stk', intmask')
    BY <1>g, <1>m DEF Guarded, InIsr
  <1>1. CASE stk' = stk /\ intmask' = intmask
    BY <1>1, <1>g
  <1>2. CASE m68k_reset
    BY <1>2, <1>m DEF m68k_reset
  <1>3. CASE Stop \/ \E m \in ProgramMasks : MoveToSR(m)
    BY <1>3, <1>m, InterruptsAssumption
    DEF Stop, MoveToSR, MakeFromSR, MayMask
  <1>4. CASE Opcode
    BY <1>4, <1>r, <1>g DEF Opcode
  <1>5. CASE Rte
    <2>1. Top.k = "isr"
      BY <1>5 DEF Rte
    <2>2. Len(stk) - 1 \in 1..Len(stk) /\ Len(stk) \in 1..Len(stk)
      BY <1>c, <2>1 DEF Chain
    <2>3. \A i \in 1..(Len(stk) - 1) : i \in 1..Len(stk) /\ i # Len(stk)
      BY <1>c
    <2>4. \A i \in 1..(Len(stk) - 1) : stk[i].k = "isr" => Top.mask >= 1
      BY <1>c, <1>g, <2>1, <2>2, <2>3 DEF Guarded
    <2>5. QED
      BY <1>c, <1>5, <1>g, <2>2, <2>4, GuardedPrefix
      DEF Rte, Pop, MakeFromSR
  <1>6. CASE EmulOpBegin
    <2> DEFINE a == Act("op", intmask)
    <2>1. a \in Activation /\ a.k = "op" /\ a.mask = intmask
      <3>1. a \in Activation /\ a.k = "op"
        BY <1>c, ActivationTypes DEF HostCode
      <3>2. a.mask = intmask
        BY DEF Act
      <3>3. QED
        BY <3>1, <3>2
    <2>2. stk' = Push(stk, a) /\ intmask' = intmask
      BY <1>6 DEF EmulOpBegin
    <2> HIDE DEF a
    <2>3. QED
      BY <1>c, <1>g, <2>1, <2>2, GuardedPush
  <1>7. CASE EmulOpIrqBegin
    <2> DEFINE s == ReplaceTop(stk, At(Top, 1, "none"))
    <2> DEFINE b == IrqAct(intmask)
    <2>1. b \in Activation /\ b.k = "irq" /\ b.mask = intmask
      BY <1>c, ActivationTypes, ActivationMasks
    <2>2. stk' = Push(s, b) /\ intmask' = intmask /\ Top.k = "isr"
      BY <1>7 DEF EmulOpIrqBegin
    <2>3. Guarded(s, intmask) /\ Chain(s) /\ s[Len(s)].k = Top.k
      BY <1>r
    <2> HIDE DEF s, b
    <2>4. QED
      BY <1>c, <2>1, <2>2, <2>3, GuardedPush
  <1>8. CASE Interrupt /\ intlev > intmask
    <2> DEFINE a == Act("isr", intmask)
    <2>1. a \in Activation /\ a.k = "isr"
      BY <1>c, ActivationTypes DEF Code68k
    <2>2. stk' = Push(stk, a) /\ intmask' = 1
      BY <1>8 DEF Interrupt
    <2>3. intmask = 0
      BY <1>8, LevelOpen
    <2>4. Quiet(stk)
      BY <1>g, <2>3 DEF Guarded, Quiet
    <2> HIDE DEF a
    <2>5. 1 \in Masks /\ 1 >= 1
      BY DEF Masks
    <2>6. QED
      BY <1>c, <1>g, <2>1, <2>2, <2>4, <2>5, GuardedPush DEF HostCode
  <1>9. CASE Execute68kReturn
    <2>1. LastSub \in 2..Len(stk)
      BY <1>9, BreakChain DEF Execute68kReturn
    <2>2. /\ LastSub - 1 \in 1..Len(stk)
          /\ \A i \in 1..(LastSub - 1) : i \in 1..Len(stk)
      BY <1>c, <2>1
    <2>3. stk' = SubSeq(stk, 1, LastSub - 1) /\ intmask' = intmask
      BY <1>9 DEF Execute68kReturn
    <2>4. \A i \in 1..(LastSub - 1) : stk[i].k = "isr" => intmask >= 1
      BY <1>g, <2>2 DEF Guarded
    <2> DEFINE n == LastSub - 1
    <2>5. n \in 1..Len(stk) /\ \A i \in 1..n : stk[i].k = "isr" => intmask >= 1
      BY <2>2, <2>4
    <2> HIDE DEF n
    <2>6. Guarded(SubSeq(stk, 1, n), intmask)
      BY <1>c, <1>g, <2>5, GuardedPrefix
    <2>7. QED
      BY <2>3, <2>6 DEF n
  <1>10. CASE Execute68k
    <2> DEFINE a == Act("sub", 0)
    <2>1. a \in Activation /\ a.k = "sub"
      BY ActivationTypes DEF Code68k, Masks
    <2>2. stk' = Push(stk, a) /\ intmask' = intmask
      BY <1>10 DEF Execute68k
    <2> HIDE DEF a
    <2>3. QED
      BY <1>c, <1>g, <2>1, <2>2, GuardedPush DEF HostCode
  <1>11. CASE m68k_emulop_end
    <2>1. Top.k \in HostCode
      BY <1>11 DEF m68k_emulop_end, HostCode
    <2>2. Len(stk) - 1 \in 1..Len(stk) /\ Len(stk) \in 1..Len(stk)
      BY <1>c, <2>1 DEF Chain, HostCode
    <2>3. \A i \in 1..(Len(stk) - 1) : i \in 1..Len(stk) /\ i < Len(stk)
      BY <1>c
    <2>4. \A i \in 1..(Len(stk) - 1) : stk[i].k = "isr" => Top.mask >= 1
      BY <1>c, <1>g, <2>1, <2>2, <2>3 DEF Guarded
    <2>5. QED
      BY <1>c, <1>11, <1>g, <2>2, <2>4, GuardedPrefix
      DEF m68k_emulop_end, Pop, MakeFromSR
  <1>12. CASE Dispatch
    <2>1. Top.n \in 0..8 /\ Top.n <= 7
      BY <1>12, <1>c
      DEF Dispatch, IrqTest, ClearInterruptFlag, IrqHandled, InIrq,
          IrqOrder, Activation
    <2>2. Top.n + 1 \in 0..8
      BY <2>1
    <2>3. intmask' = intmask
      BY <1>12 DEF Dispatch, IrqTest, ClearInterruptFlag, IrqHandled
    <2>4. \/ \E ph \in {"run", "clear"} : ToPhase(ph)
          \/ ToNextSource
      BY <1>12 DEF Dispatch, IrqTest, ClearInterruptFlag, IrqHandled
    <2>5. QED
      BY <1>r, <2>1, <2>2, <2>3, <2>4 DEF ToPhase, ToNextSource
  <1>13. QED
    <2>1. CASE UNCHANGED vars
      BY <1>1, <2>1 DEF vars
    <2>2. CASE TickThread \/ StreamThread
      BY <1>1, <2>2
      DEF TickThread, OneSecondSet, OneSecondTrigger, OneTickSet, OneTickSkip,
          OneTickTrigger, StreamThread, StreamSet, StreamTrigger, StreamWait
    <2>3. CASE Program
      BY <1>1, <1>3, <1>4, <1>6, <2>3 DEF Program, MacStarts
    <2>4. CASE m68k_emulop_return \/ InputEvent
      BY <1>1, <2>4 DEF m68k_emulop_return, InputEvent
    <2>5. CASE Specialties
      BY <1>1, <1>8, <1>9, <2>5
      DEF Specialties, SpcTest, NotStopped, StopClear, StopInterrupt,
          DoIntClear, DoInterrupt, IntToDoInt, NoBreak
    <2>6. QED
      BY <1>2, <1>5, <1>7, <1>10, <1>11, <1>12,
         <2>1, <2>2, <2>3, <2>4, <2>5 DEF Next

\* As long as 68k code keeps the mask up inside interrupt handlers, the
\* handlers of M68K_EMUL_OP_IRQ are never entered a second time before they
\* are left.
THEOREM NotReentered == Spec => []DispatcherNotReentered
PROOF
  <1>1. IInv /\ DInv => DispatcherNotReentered
    <2> SUFFICES ASSUME IInv, Guarded(stk, intmask)
                 PROVE  \A i, j \in 1..Len(stk) :
                          stk[i].k = "irq" /\ stk[j].k = "irq" => i = j
      BY DEF DInv, DispatcherNotReentered
    <2>1. Len(stk) \in Nat
      BY ChainFacts
    <2>2. ASSUME NEW i \in 1..Len(stk), NEW j \in 1..Len(stk),
                 stk[i].k = "irq", stk[j].k = "irq"
          PROVE  i = j
      <3>1. /\ i > 1 /\ stk[i - 1].k = "isr"
            /\ j > 1 /\ stk[j - 1].k = "isr"
        BY <2>2 DEF Guarded
      <3>2. i - 1 \in 1..Len(stk) /\ j - 1 \in 1..Len(stk)
        BY <2>1, <3>1
      <3>3. i - 1 = j - 1
        BY <3>1, <3>2 DEF Guarded
      <3>4. QED
        BY <2>1, <3>3
    <2>3. QED
      BY <2>2
  <1>2. QED
    BY InitIInv, StepIInv, InitDInv, StepDInv, <1>1, PTL DEF Spec

=============================================================================

------------------------- MODULE TimeManager_proofs -------------------------
(***************************************************************************)
(* Proofs about the Time Manager: types, one descriptor per task, and that *)
(* it implements TimerQueue, for every number of tasks and descriptors and *)
(* any depth of nested walks.                                              *)
(***************************************************************************)
EXTENDS TimeManager, TLAPS

\* The three widths as natural numbers.
LEMMA Widths ==
  /\ MaxInt32 \in Nat /\ MacWord = 2 * MaxInt32 + 2
  /\ HostWord \in Nat /\ MacWord \in Nat
  /\ MacWord > 0 /\ HostWord > 0
  /\ MaxInt32 < HostWord /\ MaxInt32 < MacWord
PROOF
  <1>1. MacWord \div 2 \in Nat /\ 2 * (MacWord \div 2) = MacWord
    BY TimerTimeAssumption
  <1>2. QED
    BY <1>1, TimerTimeAssumption DEF MaxInt32

\* A remainder is below its divisor, and is its dividend when that is.
LEMMA Remainder ==
  ASSUME NEW n \in Nat, n > 0
  PROVE  /\ \A x \in Int : x % n \in 0..(n - 1)
         /\ \A x \in 0..(n - 1) : x % n = x
PROOF
  <1>1. ASSUME NEW x \in Int PROVE x % n \in 0..(n - 1)
    OBVIOUS
  <1>2. ASSUME NEW x \in 0..(n - 1) PROVE x % n = x
    OBVIOUS
  <1>3. QED
    BY <1>1, <1>2

LEMMA ToHostType == \A x \in Int : ToHost(x) \in HostTimes
PROOF
  BY Widths, Remainder DEF ToHost, HostTimes

LEMMA ToInt32Type == \A x \in Int : ToInt32(x) \in MacTimes
PROOF
  <1>1. SUFFICES ASSUME NEW x \in Int PROVE ToInt32(x) \in MacTimes
    OBVIOUS
  <1>2. x % MacWord \in 0..(MacWord - 1)
    BY Widths, Remainder
  <1>3. QED
    BY <1>2, Widths DEF ToInt32, MacTimes

\* What RmvTime writes to tmCount is an int32, right or wrong.
LEMMA CountType ==
  ASSUME NEW a \in Nat, NEW b \in Nat
  PROVE  timer_host2mac_time(timer_sub_time(a, b)) \in MacTimes
PROOF
  <1>1. timer_sub_time(a, b) \in HostTimes
    BY ToHostType DEF timer_sub_time
  <1>2. PICK h \in HostTimes : h = timer_sub_time(a, b)
    BY <1>1
  <1>3. h \in Nat
    BY <1>2, Widths DEF HostTimes
  <1>4. CASE h > MaxInt32
    <2>1. h \div Milli \in Int
      BY <1>3, TimerTimeAssumption
    <2>2. QED
      BY <1>2, <1>4, <2>1, ToInt32Type DEF timer_host2mac_time
  <1>5. CASE ~(h > MaxInt32)
    BY <1>2, <1>3, <1>5, Widths DEF timer_host2mac_time, MacTimes
  <1>6. QED
    BY <1>4, <1>5

\* Within the range of an int, timer_cmp_time is only negative when its
\* first argument is the earlier one.
LEMMA CompareSound ==
  ASSUME NEW a \in 0..MaxInt32, NEW b \in 0..MaxInt32,
         timer_cmp_time(a, b) < 0
  PROVE  a < b
PROOF
  <1>1. SUFFICES ASSUME a >= b PROVE FALSE
    BY Widths
  <1>2. a - b \in 0..MaxInt32
    BY <1>1, Widths
  <1>3. (a - b) % HostWord = a - b
    BY <1>2, Widths, Remainder
  <1>4. (a - b) % MacWord = a - b
    BY <1>2, Widths, Remainder
  <1>5. timer_cmp_time(a, b) = a - b
    BY <1>2, <1>3, <1>4, Widths DEF timer_cmp_time, ToHost, ToInt32
  <1>6. QED
    BY <1>2, <1>5, Widths

-----------------------------------------------------------------------------
(***************************************************************************)
(* The inductive invariant: only the innermost walk is looking at a        *)
(* descriptor, the others are inside the routine of a task.                *)
(***************************************************************************)
Suspended == \A k \in 1..Len(walk) : k < Len(walk) => walk[k].tm # NoTask

\* A routine runs while its walk is at a descriptor.
InTable == \A k \in 1..Len(walk) : walk[k].tm # NoTask => walk[k].i <= NumDescs

\* No walk compares with a time that is still to come.
NotAhead == \A k \in 1..Len(walk) : walk[k].now <= clock

IInv == /\ TypeOK /\ OneDescriptor /\ ActiveInstalled
        /\ Suspended /\ InTable /\ NotAhead

LEMMA InitIInv == Init => IInv
PROOF
  <1>1. SUFFICES ASSUME Init PROVE IInv
    OBVIOUS
  <1>2. 0 \in MacTimes /\ 0 \in 0..MaxWakeup /\ 0 \in 0..MaxTime
    BY Widths, TimeManagerAssumption DEF MacTimes
  <1>3. PICK t \in Tasks :
          desc = [i \in Descs |-> [task |-> t, wakeup |-> 0, in_use |-> FALSE]]
    BY <1>1 DEF Init
  <1>4. desc \in [Descs -> TMDesc] /\ OneDescriptor
    BY <1>2, <1>3 DEF TMDesc, OneDescriptor
  <1>5. walk = << >> /\ walk \in Seq(Walk)
    BY <1>1 DEF Init
  <1>6. TypeOK
    BY <1>1, <1>2, <1>4, <1>5 DEF Init, TypeOK
  <1>7. ActiveInstalled /\ Suspended /\ InTable /\ NotAhead
    BY <1>1, <1>5 DEF Init, ActiveInstalled, Suspended, InTable, NotAhead
  <1>8. QED
    BY <1>4, <1>6, <1>7 DEF IInv

\* All but the last element of a sequence.
LEMMA Front ==
  ASSUME NEW S, NEW s \in Seq(S), s # << >>
  PROVE  /\ SubSeq(s, 1, Len(s) - 1) \in Seq(S)
         /\ Len(SubSeq(s, 1, Len(s) - 1)) = Len(s) - 1
         /\ \A k \in 1..(Len(s) - 1) : SubSeq(s, 1, Len(s) - 1)[k] = s[k]
PROOF
  <1>1. Len(s) \in Nat \ {0}
    OBVIOUS
  <1>2. Len(s) - 1 \in 0..Len(s)
    BY <1>1
  <1>3. ASSUME NEW n \in 0..Len(s)
        PROVE  /\ SubSeq(s, 1, n) \in Seq(S) /\ Len(SubSeq(s, 1, n)) = n
               /\ \A k \in 1..n : SubSeq(s, 1, n)[k] = s[k]
    BY <1>1
  <1>4. QED
    BY <1>2, <1>3

\* What Append, a new top and removal of the top do to the walks.
LEMMA TopFacts ==
  ASSUME TypeOK, walk # << >>
  PROVE  /\ Len(walk) \in Nat \ {0} /\ Top \in Walk
         /\ Top.i \in 1..(NumDescs + 1) /\ Top.now \in 0..MaxTime
PROOF
  <1>1. walk \in Seq(Walk)
    BY DEF TypeOK
  <1>2. Len(walk) \in Nat \ {0} /\ Top \in Walk
    BY <1>1 DEF Top
  <1>3. QED
    BY <1>2 DEF Walk

\* The top changes to a walk w that is at a descriptor if it is in a routine.
LEMMA SetTopWalks ==
  ASSUME IInv, walk # << >>, NEW w \in Walk, SetTop(w), UNCHANGED clock,
         w.tm # NoTask => w.i <= NumDescs, w.now = Top.now
  PROVE  /\ walk' \in Seq(Walk) /\ Suspended' /\ InTable' /\ NotAhead'
         /\ Len(walk') = Len(walk) /\ walk'[Len(walk)] = w
         /\ \A k \in 1..(Len(walk) - 1) : walk'[k] = walk[k]
PROOF
  <1>1. walk \in Seq(Walk) /\ Len(walk) \in Nat \ {0}
    BY DEF IInv, TypeOK
  <1>2. /\ walk' \in Seq(Walk)
        /\ Len(walk') = Len(walk) /\ walk'[Len(walk)] = w
        /\ \A k \in 1..(Len(walk) - 1) : walk'[k] = walk[k]
    BY <1>1 DEF SetTop
  <1>3. Suspended'
    BY <1>1, <1>2 DEF Suspended, IInv
  <1>4. InTable'
    <2>1. ASSUME NEW k \in 1..Len(walk'), walk'[k].tm # NoTask
          PROVE  walk'[k].i <= NumDescs
      <3>1. CASE k = Len(walk)
        BY <1>2, <2>1, <3>1
      <3>2. CASE k # Len(walk)
        BY <1>1, <1>2, <2>1, <3>2 DEF IInv, InTable
      <3>3. QED
        BY <3>1, <3>2
    <2>2. QED
      BY <2>1 DEF InTable
  <1>5. NotAhead'
    <2>1. ASSUME NEW k \in 1..Len(walk') PROVE walk'[k].now = walk[k].now
      <3>1. CASE k = Len(walk)
        BY <1>2, <3>1 DEF Top
      <3>2. CASE k # Len(walk)
        BY <1>1, <1>2, <3>2
      <3>3. QED
        BY <3>1, <3>2
    <2>2. QED
      BY <1>2, <2>1 DEF NotAhead, IInv
  <1>6. QED
    BY <1>2, <1>3, <1>4, <1>5

LEMMA PushWalks ==
  ASSUME IInv, TimerInterrupt
  PROVE  /\ walk' \in Seq(Walk) /\ Suspended' /\ InTable' /\ NotAhead'
         /\ Len(walk') = Len(walk) + 1 /\ walk'[Len(walk) + 1].tm = NoTask
         /\ \A k \in 1..Len(walk) : walk'[k] = walk[k]
PROOF
  <1>1. walk \in Seq(Walk) /\ Len(walk) \in Nat
    BY DEF IInv, TypeOK
  <1>2. Locals(1, clock, NoTask) \in Walk
    BY TimeManagerAssumption DEF Locals, Walk, IInv, TypeOK
  <1>3. /\ walk' \in Seq(Walk)
        /\ Len(walk') = Len(walk) + 1
        /\ walk'[Len(walk) + 1] = Locals(1, clock, NoTask)
        /\ \A k \in 1..Len(walk) : walk'[k] = walk[k]
    BY <1>1, <1>2 DEF TimerInterrupt
  <1>4. Locals(1, clock, NoTask).tm = NoTask
    BY DEF Locals
  <1>5. walk # << >> => walk[Len(walk)].tm # NoTask
    BY DEF TimerInterrupt, MacRuns, Top
  <1>6. Suspended'
    <2>1. ASSUME NEW k \in 1..Len(walk'), k < Len(walk')
          PROVE  walk'[k].tm # NoTask
      <3>1. k \in 1..Len(walk) /\ walk'[k] = walk[k]
        BY <1>1, <1>3, <2>1
      <3>2. CASE k = Len(walk)
        BY <1>1, <1>5, <3>1, <3>2
      <3>3. CASE k # Len(walk)
        BY <1>1, <3>1, <3>3 DEF Suspended, IInv
      <3>4. QED
        BY <3>2, <3>3
    <2>2. QED
      BY <2>1 DEF Suspended
  <1>7. InTable'
    <2>1. ASSUME NEW k \in 1..Len(walk'), walk'[k].tm # NoTask
          PROVE  k \in 1..Len(walk)
      BY <1>1, <1>3, <1>4, <2>1
    <2>2. QED
      BY <1>3, <2>1 DEF InTable, IInv
  <1>8. NotAhead'
    <2>1. Locals(1, clock, NoTask).now = clock /\ clock' = clock /\ clock <= clock
      BY TimeManagerAssumption DEF Locals, TimerInterrupt, IInv, TypeOK
    <2>2. ASSUME NEW k \in 1..Len(walk') PROVE walk'[k].now <= clock
      <3>1. CASE k = Len(walk) + 1
        BY <1>3, <2>1, <3>1
      <3>2. CASE k # Len(walk) + 1
        BY <1>1, <1>3, <3>2 DEF NotAhead, IInv
      <3>3. QED
        BY <3>1, <3>2
    <2>3. QED
      BY <2>1, <2>2 DEF NotAhead
  <1>9. QED
    BY <1>3, <1>4, <1>6, <1>7, <1>8

LEMMA PopWalks ==
  ASSUME IInv, WalkEnds
  PROVE  /\ walk' \in Seq(Walk) /\ Suspended' /\ InTable' /\ NotAhead'
         /\ Len(walk) \in Nat \ {0} /\ Len(walk') = Len(walk) - 1
         /\ \A k \in 1..(Len(walk) - 1) : walk'[k] = walk[k]
PROOF
  <1>1. walk \in Seq(Walk) /\ Len(walk) \in Nat \ {0} /\ walk # << >>
    BY DEF IInv, TypeOK, WalkEnds, Walking
  <1>2. /\ walk' \in Seq(Walk)
        /\ Len(walk') = Len(walk) - 1
        /\ \A k \in 1..(Len(walk) - 1) : walk'[k] = walk[k]
    BY <1>1, Front DEF WalkEnds, Walking
  <1>3. Suspended'
    BY <1>1, <1>2 DEF Suspended, IInv
  <1>4. InTable'
    BY <1>1, <1>2 DEF InTable, IInv
  <1>5. NotAhead'
    BY <1>1, <1>2 DEF NotAhead, IInv, WalkEnds
  <1>6. QED
    BY <1>1, <1>2, <1>3, <1>4, <1>5

-----------------------------------------------------------------------------
\* The wakeup time that PrimeTime stores.
LEMMA PrimeWakeup ==
  ASSUME IInv, NEW t \in Tasks, NEW d \in Delays, NEW i \in Descs
  PROVE  timer_add_time(DelayStart(i, t), timer_mac2host_time(d)) \in Nat
PROOF
  <1>1. DelayStart(i, t) \in Int
    <2>1. desc[i].wakeup \in 0..MaxWakeup /\ clock \in 0..MaxTime
      BY DEF IInv, TypeOK, TMDesc
    <2>2. QED
      BY <2>1, TimeManagerAssumption DEF DelayStart
  <1>2. d \in Int
    BY TimeManagerAssumption, Widths DEF MacTimes
  <1>3. d * Milli \in Int /\ -d \in Int
    BY <1>2, TimerTimeAssumption
  <1>4. ToInt32(d * Milli) \in MacTimes /\ ToInt32(-d) \in MacTimes
    BY <1>3, ToInt32Type
  <1>5. MacTimes \subseteq Int /\ HostTimes \subseteq Nat
    BY Widths DEF MacTimes, HostTimes
  <1>6. ASSUME NEW y \in Int PROVE ToHost(y) \in Nat
    <2>1. ToHost(y) \in HostTimes
      BY ToHostType
    <2>2. QED
      BY <1>5, <2>1
  <1>7. ToHost(ToInt32(d * Milli)) \in Nat /\ ToHost(ToInt32(-d)) \in Nat
    BY <1>4, <1>5, <1>6, Zenon
  <1>8. timer_mac2host_time(d) \in Int
    BY <1>7 DEF timer_mac2host_time
  <1>9. DelayStart(i, t) + timer_mac2host_time(d) \in Int
    BY <1>1, <1>8
  <1>10. QED
    BY <1>6, <1>9 DEF timer_add_time

\* InsTime keeps the table in order: a descriptor is taken only if the task
\* has none.
LEMMA InsTimeStep ==
  ASSUME IInv, NEW t \in Tasks, NEW x \in BOOLEAN, InsTime(t, x)
  PROVE  IInv'
PROOF
  <1>1. active' \in [Tasks -> BOOLEAN] /\ extended' \in [Tasks -> BOOLEAN]
    BY DEF IInv, TypeOK, InsTime
  <1>2. /\ desc' \in [Descs -> TMDesc] /\ OneDescriptor'
        /\ \A u \in Tasks : Installed(u) => Installed(u)'
    <2>1. CASE desc' = desc
      BY <2>1 DEF IInv, TypeOK, OneDescriptor, Installed, Holds
    <2>2. CASE desc' # desc
      <3>1. PICK i \in Descs :
              /\ ~Installed(t) /\ FirstFree(i)
              /\ desc' = [desc EXCEPT ![i].task = t, ![i].in_use = TRUE]
        BY <2>2 DEF InsTime
      <3>2. desc \in [Descs -> TMDesc]
        BY DEF IInv, TypeOK
      <3>3. /\ desc' \in [Descs -> TMDesc]
            /\ desc'[i].task = t /\ desc'[i].in_use
            /\ \A j \in Descs : j # i => desc'[j] = desc[j]
        BY <3>1, <3>2 DEF TMDesc
      <3>4. \A j \in Descs : ~(desc[j].in_use /\ desc[j].task = t)
        BY <3>1 DEF Installed, Holds
      <3>5. OneDescriptor'
        BY <3>3, <3>4 DEF OneDescriptor, IInv
      <3>6. ~desc[i].in_use
        BY <3>1 DEF FirstFree
      <3>7. \A u \in Tasks : Installed(u) => Installed(u)'
        BY <3>3, <3>6 DEF Installed, Holds
      <3>8. QED
        BY <3>3, <3>5, <3>7
    <2>3. QED
      BY <2>1, <2>2
  <1>3. ActiveInstalled'
    BY <1>2 DEF InsTime, ActiveInstalled, IInv, TypeOK
  <1>4. UNCHANGED <<tmWakeUp, tmCount, walk, clock>>
    BY DEF InsTime
  <1>5. TypeOK'
    BY <1>1, <1>2, <1>4 DEF IInv, TypeOK
  <1>6. Suspended' /\ InTable' /\ NotAhead'
    BY <1>4 DEF IInv, Suspended, InTable, NotAhead
  <1>7. QED
    BY <1>2, <1>3, <1>5, <1>6 DEF IInv

LEMMA RmvTimeStep ==
  ASSUME IInv, NEW t \in Tasks, RmvTime(t)
  PROVE  IInv'
PROOF
  <1>1. PICK i \in Descs :
          /\ Holds(i, t)
          /\ tmCount' = [tmCount EXCEPT ![t] =
               IF active[t]
               THEN timer_host2mac_time(timer_sub_time(desc[i].wakeup, clock))
               ELSE 0]
          /\ desc' = [desc EXCEPT ![i].in_use = FALSE]
    BY DEF RmvTime
  <1>2. desc \in [Descs -> TMDesc] /\ desc[i].wakeup \in Nat /\ clock \in Nat
    BY TimeManagerAssumption DEF IInv, TypeOK, TMDesc
  <1>3. timer_host2mac_time(timer_sub_time(desc[i].wakeup, clock)) \in MacTimes
    BY <1>2, CountType
  <1>4. 0 \in MacTimes
    BY Widths DEF MacTimes
  <1>5. tmCount' \in [Tasks -> MacTimes]
    BY <1>1, <1>3, <1>4 DEF IInv, TypeOK
  <1>6. /\ desc' \in [Descs -> TMDesc] /\ ~desc'[i].in_use
        /\ \A j \in Descs : j # i => desc'[j] = desc[j]
    BY <1>1, <1>2 DEF TMDesc
  <1>7. active' \in [Tasks -> BOOLEAN]
    BY DEF RmvTime, IInv, TypeOK
  <1>8. UNCHANGED <<extended, tmWakeUp, walk, clock>>
    BY DEF RmvTime
  <1>9. TypeOK'
    BY <1>5, <1>6, <1>7, <1>8 DEF IInv, TypeOK
  <1>10. OneDescriptor'
    BY <1>6 DEF OneDescriptor, IInv
  <1>11. ActiveInstalled'
    <2>1. ASSUME NEW u \in Tasks, active'[u]
          PROVE  Installed(u)'
      <3>1. u # t /\ active[u]
        BY <2>1 DEF RmvTime, IInv, TypeOK
      <3>2. PICK j \in Descs : Holds(j, u)
        BY <3>1 DEF IInv, ActiveInstalled, Installed
      <3>3. j # i
        BY <1>1, <3>1, <3>2 DEF Holds
      <3>4. QED
        BY <1>6, <3>2, <3>3 DEF Installed, Holds
    <2>2. QED
      BY <2>1 DEF ActiveInstalled
  <1>12. Suspended' /\ InTable' /\ NotAhead'
    BY <1>8 DEF IInv, Suspended, InTable, NotAhead
  <1>13. QED
    BY <1>9, <1>10, <1>11, <1>12 DEF IInv

LEMMA PrimeTimeStep ==
  ASSUME IInv, NEW t \in Tasks, NEW d \in Delays, PrimeTime(t, d)
  PROVE  IInv'
PROOF
  <1>1. PICK i \in Descs, w \in Nat :
          /\ Holds(i, t) /\ w <= MaxWakeup
          /\ desc' = [desc EXCEPT ![i].wakeup = w]
    BY PrimeWakeup DEF PrimeTime
  <1>2. w \in 0..MaxWakeup
    BY <1>1, TimeManagerAssumption
  <1>3. desc \in [Descs -> TMDesc]
    BY DEF IInv, TypeOK
  <1>4. /\ desc' \in [Descs -> TMDesc]
        /\ \A j \in Descs : /\ desc'[j].in_use = desc[j].in_use
                             /\ desc'[j].task = desc[j].task
    BY <1>1, <1>2, <1>3 DEF TMDesc
  <1>5. /\ active' \in [Tasks -> BOOLEAN] /\ tmWakeUp' \in [Tasks -> BOOLEAN]
        /\ \A u \in Tasks : active'[u] => active[u] \/ u = t
    BY DEF PrimeTime, IInv, TypeOK
  <1>6. UNCHANGED <<extended, tmCount, walk, clock>>
    BY DEF PrimeTime
  <1>7. TypeOK'
    BY <1>4, <1>5, <1>6 DEF IInv, TypeOK
  <1>8. OneDescriptor'
    BY <1>4 DEF OneDescriptor, IInv
  <1>9. ActiveInstalled'
    BY <1>1, <1>4, <1>5 DEF ActiveInstalled, Installed, Holds, IInv
  <1>10. Suspended' /\ InTable' /\ NotAhead'
    BY <1>6 DEF IInv, Suspended, InTable, NotAhead
  <1>11. QED
    BY <1>7, <1>8, <1>9, <1>10 DEF IInv

\* The steps that change neither descriptors nor task records.
LEMMA WalkOnly ==
  ASSUME IInv, UNCHANGED <<desc, recordVars, clock>>,
         walk' \in Seq(Walk) /\ Suspended' /\ InTable' /\ NotAhead'
  PROVE  IInv'
PROOF
  <1>1. TypeOK'
    BY DEF IInv, TypeOK, recordVars
  <1>2. OneDescriptor' /\ ActiveInstalled'
    BY DEF IInv, OneDescriptor, ActiveInstalled, Installed, Holds, recordVars
  <1>3. QED
    BY <1>1, <1>2 DEF IInv

\* The walk goes on to the next descriptor.
LEMMA NextLocals ==
  ASSUME TypeOK, walk # << >>, Top.i <= NumDescs
  PROVE  /\ Locals(Top.i + 1, Top.now, NoTask) \in Walk
         /\ Locals(Top.i + 1, Top.now, NoTask).tm = NoTask
         /\ Locals(Top.i + 1, Top.now, NoTask).now = Top.now
PROOF
  <1>1. Top.i + 1 \in 1..(NumDescs + 1) /\ Top.now \in 0..MaxTime
    BY TopFacts, TimeManagerAssumption
  <1>2. QED
    BY <1>1 DEF Locals, Walk

LEMMA WalkStepIInv ==
  ASSUME IInv, NotExpired \/ RoutineReturns
  PROVE  /\ IInv' /\ walk # << >>
         /\ Len(walk') = Len(walk) /\ walk'[Len(walk)].tm = NoTask
         /\ \A k \in 1..(Len(walk) - 1) : walk'[k] = walk[k]
PROOF
  <1>1. walk # << >> /\ TypeOK
    BY DEF IInv, NotExpired, RoutineReturns, Walking
  <1>2. Top.i <= NumDescs
    BY <1>1, TopFacts DEF IInv, InTable, NotExpired, RoutineReturns, Top
  <1>3. SetTop(Locals(Top.i + 1, Top.now, NoTask))
    BY DEF NotExpired, RoutineReturns
  <1>4. UNCHANGED <<desc, recordVars, clock>>
    BY DEF NotExpired, RoutineReturns
  <1>5. QED
    BY <1>1, <1>2, <1>3, <1>4, NextLocals, SetTopWalks, WalkOnly

LEMMA FireStep ==
  ASSUME IInv, NEW t \in Tasks, Fire(t)
  PROVE  /\ IInv' /\ walk # << >> /\ Top.tm = NoTask
         /\ Len(walk') = Len(walk) /\ walk'[Len(walk)].tm \in {t, NoTask}
         /\ \A k \in 1..(Len(walk) - 1) : walk'[k] = walk[k]
PROOF
  <1>1. /\ walk # << >> /\ TypeOK /\ Top.i <= NumDescs /\ Top.tm = NoTask
    BY DEF IInv, Fire, Walking
  <1>2. PICK w \in Walk : /\ SetTop(w) /\ w.tm \in {t, NoTask}
                          /\ w.tm # NoTask => w.i <= NumDescs
                          /\ w.now = Top.now
    <2>1. CASE SetTop(Locals(Top.i, Top.now, t))
      <3>1. /\ Locals(Top.i, Top.now, t) \in Walk
            /\ Locals(Top.i, Top.now, t).tm = t
            /\ Locals(Top.i, Top.now, t).i = Top.i
            /\ Locals(Top.i, Top.now, t).now = Top.now
        BY <1>1, TopFacts DEF Locals, Walk
      <3>2. QED
        BY <1>1, <2>1, <3>1
    <2>2. CASE SetTop(Locals(Top.i + 1, Top.now, NoTask))
      BY <1>1, <2>2, NextLocals
    <2>3. QED
      BY <2>1, <2>2 DEF Fire
  <1>3. /\ walk' \in Seq(Walk) /\ Suspended' /\ InTable' /\ NotAhead'
        /\ Len(walk') = Len(walk) /\ walk'[Len(walk)] = w
        /\ \A k \in 1..(Len(walk) - 1) : walk'[k] = walk[k]
    BY <1>1, <1>2, SetTopWalks DEF Fire
  <1>4. /\ active' \in [Tasks -> BOOLEAN]
        /\ \A u \in Tasks : active'[u] => active[u]
    BY DEF Fire, IInv, TypeOK
  <1>5. UNCHANGED <<desc, extended, tmWakeUp, tmCount, clock>>
    BY DEF Fire
  <1>6. TypeOK'
    BY <1>3, <1>4, <1>5 DEF IInv, TypeOK
  <1>7. OneDescriptor' /\ ActiveInstalled'
    BY <1>4, <1>5 DEF IInv, OneDescriptor, ActiveInstalled, Installed, Holds
  <1>8. QED
    BY <1>1, <1>2, <1>3, <1>6, <1>7 DEF IInv

\* Every step keeps the invariant.
LEMMA StepIInv == IInv /\ [Next]_vars => IInv'
PROOF
  <1>1. SUFFICES ASSUME IInv, [Next]_vars PROVE IInv'
    OBVIOUS
  <1>2. ASSUME NEW t \in Tasks, ResetWakeUp(t) PROVE IInv'
    <2>1. /\ tmWakeUp' \in [Tasks -> BOOLEAN]
          /\ UNCHANGED <<desc, extended, active, tmCount, walk, clock>>
      BY <1>1, <1>2 DEF ResetWakeUp, IInv, TypeOK
    <2>2. TypeOK'
      BY <1>1, <2>1 DEF IInv, TypeOK
    <2>3. OneDescriptor' /\ ActiveInstalled' /\ Suspended' /\ InTable' /\ NotAhead'
      BY <1>1, <2>1 DEF IInv, OneDescriptor, ActiveInstalled, Installed,
                        Holds, Suspended, InTable, NotAhead
    <2>4. QED
      BY <2>2, <2>3 DEF IInv
  <1>3. CASE TimerInterrupt
    BY <1>1, <1>3, PushWalks, WalkOnly DEF TimerInterrupt
  <1>4. CASE WalkEnds
    BY <1>1, <1>4, PopWalks, WalkOnly DEF WalkEnds
  <1>5. CASE Tick
    <2>1. clock' \in 0..MaxTime /\ UNCHANGED <<desc, recordVars, walk>>
      BY <1>1, <1>5, TimeManagerAssumption DEF Tick, IInv, TypeOK
    <2>2. TypeOK'
      BY <1>1, <2>1 DEF IInv, TypeOK, recordVars
    <2>3. OneDescriptor' /\ ActiveInstalled' /\ Suspended' /\ InTable'
      BY <1>1, <2>1 DEF IInv, OneDescriptor, ActiveInstalled, Installed,
                        Holds, Suspended, InTable, recordVars
    <2>4. NotAhead'
      <3>1. SUFFICES ASSUME NEW k \in 1..Len(walk)
                     PROVE  walk[k].now <= clock'
        BY <2>1 DEF NotAhead
      <3>2. walk[k].now <= clock /\ walk[k] \in Walk /\ clock \in 0..MaxTime
        BY <1>1 DEF IInv, NotAhead, TypeOK
      <3>3. walk[k].now \in Nat /\ clock \in Nat
        BY <3>2, TimeManagerAssumption DEF Walk
      <3>4. QED
        BY <1>5, <3>2, <3>3 DEF Tick
    <2>5. QED
      BY <2>2, <2>3, <2>4 DEF IInv
  <1>6. CASE UNCHANGED vars
    BY <1>1, <1>6 DEF IInv, TypeOK, OneDescriptor, ActiveInstalled,
                      Installed, Holds, Suspended, InTable, NotAhead, vars
  <1>7. QED
    BY <1>1, <1>2, <1>3, <1>4, <1>5, <1>6, InsTimeStep, RmvTimeStep,
       PrimeTimeStep, WalkStepIInv, FireStep DEF Next, Others, WalkStep

\* The inductive invariant holds of every behaviour.
THEOREM AlwaysIInv == Spec => []IInv
PROOF
  BY InitIInv, StepIInv, PTL DEF Spec

\* All values of the Time Manager's variables have their types, whatever
\* the calls and interrupts.
THEOREM TypeCorrect == Spec => []TypeOK
PROOF
  <1>1. IInv => TypeOK
    BY DEF IInv
  <1>2. QED
    BY <1>1, AlwaysIInv, PTL

\* A task never has two descriptors, for any size of the table.
THEOREM Unique == Spec => []OneDescriptor
PROOF
  <1>1. IInv => OneDescriptor
    BY DEF IInv
  <1>2. QED
    BY <1>1, AlwaysIInv, PTL

\* An active task can always be found by TimerInterrupt.
THEOREM NoneLost == Spec => []ActiveInstalled
PROOF
  <1>1. IInv => ActiveInstalled
    BY DEF IInv
  <1>2. QED
    BY <1>1, AlwaysIInv, PTL

-----------------------------------------------------------------------------
(***************************************************************************)
(* Implementation of TimerQueue.                                           *)
(***************************************************************************)

\* In a table d with one descriptor per task, the descriptor found for t is
\* the one that holds it.
LEMMA WakeupFound ==
  ASSUME NEW d, NEW t, NEW i \in Descs, d[i].in_use, d[i].task = t,
         \A j, k \in Descs :
           d[j].in_use /\ d[k].in_use /\ d[j].task = d[k].task => j = k
  PROVE  (CHOOSE j \in Descs : d[j].in_use /\ d[j].task = t) = i
PROOF
  OBVIOUS

\* The deadline of an active task is in the descriptor that holds it.
LEMMA DeadlineHeld ==
  ASSUME IInv, NEW t \in Tasks, NEW i \in Descs, Holds(i, t)
  PROVE  /\ Installed(t) /\ WakeupOf(t) = desc[i].wakeup
         /\ Deadline[t] = IF active[t] THEN desc[i].wakeup ELSE -1
PROOF
  <1>1. Installed(t)
    BY DEF Installed
  <1>2. WakeupOf(t) = desc[i].wakeup
    BY WakeupFound DEF WakeupOf, Holds, IInv, OneDescriptor
  <1>3. QED
    BY <1>1, <1>2 DEF Deadline

\* The same one step later.
LEMMA DeadlineHeldNext ==
  ASSUME IInv', NEW t \in Tasks, NEW i \in Descs, Holds(i, t)'
  PROVE  Deadline'[t] = IF active'[t] THEN desc'[i].wakeup ELSE -1
PROOF
  <1>1. Installed(t)'
    BY DEF Installed
  <1>2. WakeupOf(t)' = desc'[i].wakeup
    BY WakeupFound DEF WakeupOf, Holds, IInv, OneDescriptor
  <1>3. QED
    BY <1>1, <1>2 DEF Deadline

\* A task that is not active has no deadline.
LEMMA DeadlineNone ==
  /\ \A t \in Tasks : ~active[t] => Deadline[t] = -1
  /\ \A t \in Tasks : ~active'[t] => Deadline'[t] = -1
PROOF
  BY DEF Deadline

\* A task keeps its deadline when it stays active and keeps its descriptor.
LEMMA DeadlineKept ==
  ASSUME IInv, IInv', NEW u \in Tasks, active'[u] = active[u],
         \A i \in Descs : Holds(i, u) =>
           Holds(i, u)' /\ desc'[i].wakeup = desc[i].wakeup
  PROVE  Deadline'[u] = Deadline[u]
PROOF
  <1>1. CASE ~active[u]
    BY <1>1, DeadlineNone
  <1>2. CASE active[u]
    <2>1. PICK i \in Descs : Holds(i, u)
      BY <1>2 DEF IInv, ActiveInstalled, Installed
    <2>2. QED
      BY <1>2, <2>1, DeadlineHeld, DeadlineHeldNext
  <1>3. QED
    BY <1>1, <1>2

\* Deadline is a function on Tasks, so it is determined task by task.
LEMMA DeadlineExcept ==
  ASSUME NEW t \in Tasks,
         \A u \in Tasks : u # t => Deadline'[u] = Deadline[u]
  PROVE  Deadline' = [Deadline EXCEPT ![t] = Deadline'[t]]
PROOF
  <1>1. /\ Deadline = [u \in Tasks |-> Deadline[u]]
        /\ Deadline' = [u \in Tasks |-> Deadline'[u]]
    BY DEF Deadline
  <1>2. QED
    BY <1>1

\* The table and the active bits are left alone.
LEMMA SameTable ==
  ASSUME UNCHANGED <<desc, active>>
  PROVE  InstalledTasks' = InstalledTasks /\ Deadline' = Deadline
PROOF
  BY DEF InstalledTasks, Installed, Holds, Deadline, WakeupOf

LEMMA SameWalk ==
  ASSUME UNCHANGED walk PROVE Running' = Running
PROOF
  BY DEF Running, Walking, Top

LEMMA InitQueue == Init => Queue!Init
PROOF
  <1>1. SUFFICES ASSUME Init PROVE Queue!Init
    OBVIOUS
  <1>2. \A t \in Tasks : ~Installed(t) /\ ~active[t]
    BY <1>1 DEF Init, Installed, Holds
  <1>3. InstalledTasks = {} /\ Deadline = [t \in Tasks |-> -1]
    BY <1>2 DEF InstalledTasks, Deadline
  <1>4. Running = << >>
    BY <1>1 DEF Init, Running, Walking
  <1>5. QED
    BY <1>1, <1>3, <1>4 DEF Init, Queue!Init, Queue!None

LEMMA InsTimeQueue ==
  ASSUME IInv, IInv', NEW t \in Tasks, NEW x \in BOOLEAN, InsTime(t, x)
  PROVE  Queue!Install(t) \/ UNCHANGED Queue!vars
PROOF
  <1>1. /\ active' = [active EXCEPT ![t] = FALSE]
        /\ UNCHANGED <<walk, clock>> /\ active \in [Tasks -> BOOLEAN]
    BY DEF InsTime, IInv, TypeOK
  <1>2. Running' = Running
    BY <1>1, SameWalk
  <1>3. Deadline'[t] = -1
    BY <1>1, DeadlineNone
  <1>4. ASSUME NEW u \in Tasks, u # t
        PROVE  /\ active'[u] = active[u]
               /\ \A i \in Descs : /\ Holds(i, u)' <=> Holds(i, u)
                                   /\ Holds(i, u) =>
                                        desc'[i].wakeup = desc[i].wakeup
    <2>1. CASE desc' = desc
      BY <1>1, <1>4, <2>1 DEF Holds
    <2>2. CASE desc' # desc
      <3>1. PICK i \in Descs :
              /\ FirstFree(i)
              /\ desc' = [desc EXCEPT ![i].task = t, ![i].in_use = TRUE]
        BY <2>2 DEF InsTime
      <3>2. ~desc[i].in_use /\ desc \in [Descs -> TMDesc]
        BY <3>1 DEF FirstFree, IInv, TypeOK
      <3>3. /\ desc'[i].task = t
            /\ \A j \in Descs : j # i => desc'[j] = desc[j]
        BY <3>1, <3>2 DEF TMDesc
      <3>4. QED
        BY <1>1, <1>4, <3>2, <3>3 DEF Holds
    <2>3. QED
      BY <2>1, <2>2
  <1>5. Deadline' = [Deadline EXCEPT ![t] = -1]
    <2>1. \A u \in Tasks : u # t => Deadline'[u] = Deadline[u]
      BY <1>4, DeadlineKept
    <2>2. QED
      BY <1>3, <2>1, DeadlineExcept
  <1>6. \A u \in Tasks : u # t => (Installed(u)' <=> Installed(u))
    BY <1>4 DEF Installed
  <1>7. CASE Installed(t)'
    <2>1. InstalledTasks' = InstalledTasks \cup {t}
      BY <1>6, <1>7 DEF InstalledTasks
    <2>2. QED
      BY <1>1, <1>2, <1>5, <2>1 DEF Queue!Install, Queue!None
  <1>8. CASE ~Installed(t)'
    <2>1. desc' = desc
      <3>1. ASSUME desc' # desc PROVE FALSE
        <4>1. PICK i \in Descs :
                desc' = [desc EXCEPT ![i].task = t, ![i].in_use = TRUE]
          BY <3>1 DEF InsTime
        <4>2. desc'[i].task = t /\ desc'[i].in_use
          BY <4>1 DEF IInv, TypeOK, TMDesc
        <4>3. QED
          BY <1>8, <4>2 DEF Installed, Holds
      <3>2. QED
        BY <3>1
    <2>2. ~Installed(t) /\ ~active[t]
      BY <1>8, <2>1 DEF Installed, Holds, IInv, ActiveInstalled
    <2>3. active' = active
      BY <1>1, <2>2
    <2>4. QED
      BY <1>1, <1>2, <2>1, <2>3, SameTable DEF Queue!vars
  <1>9. QED
    BY <1>7, <1>8

LEMMA RmvTimeQueue ==
  ASSUME IInv, IInv', NEW t \in Tasks, RmvTime(t)
  PROVE  Queue!Remove(t)
PROOF
  <1>1. /\ active' = [active EXCEPT ![t] = FALSE]
        /\ UNCHANGED <<walk, clock>> /\ active \in [Tasks -> BOOLEAN]
    BY DEF RmvTime, IInv, TypeOK
  <1>2. PICK i \in Descs :
          Holds(i, t) /\ desc' = [desc EXCEPT ![i].in_use = FALSE]
    BY DEF RmvTime
  <1>3. /\ ~desc'[i].in_use
        /\ \A j \in Descs : j # i => desc'[j] = desc[j]
    BY <1>2 DEF IInv, TypeOK, TMDesc
  <1>4. ASSUME NEW u \in Tasks, u # t
        PROVE  \A j \in Descs : /\ Holds(j, u)' <=> Holds(j, u)
                                /\ Holds(j, u) =>
                                     desc'[j].wakeup = desc[j].wakeup
    BY <1>2, <1>3, <1>4 DEF Holds
  <1>5. \A j \in Descs : ~Holds(j, t)'
    BY <1>2, <1>3 DEF Holds, IInv, OneDescriptor
  <1>6. InstalledTasks' = InstalledTasks \ {t}
    BY <1>4, <1>5 DEF InstalledTasks, Installed
  <1>7. \A u \in Tasks : u # t => Deadline'[u] = Deadline[u]
    BY <1>1, <1>4, DeadlineKept
  <1>8. Deadline'[t] = -1
    BY <1>1, DeadlineNone
  <1>9. Deadline' = [Deadline EXCEPT ![t] = -1]
    BY <1>7, <1>8, DeadlineExcept
  <1>10. QED
    BY <1>1, <1>6, <1>9, SameWalk DEF Queue!Remove, Queue!None

LEMMA PrimeTimeQueue ==
  ASSUME IInv, IInv', NEW t \in Tasks, NEW d \in Delays, PrimeTime(t, d)
  PROVE  Queue!Prime(t)
PROOF
  <1>1. /\ active' = [active EXCEPT ![t] = TRUE]
        /\ UNCHANGED <<walk, clock>> /\ active \in [Tasks -> BOOLEAN]
    BY DEF PrimeTime, IInv, TypeOK
  <1>2. PICK i \in Descs, w \in Nat :
          Holds(i, t) /\ desc' = [desc EXCEPT ![i].wakeup = w]
    BY PrimeWakeup DEF PrimeTime
  <1>3. /\ desc'[i].wakeup = w
        /\ desc'[i].task = desc[i].task
        /\ desc'[i].in_use <=> desc[i].in_use
        /\ \A j \in Descs : j # i => desc'[j] = desc[j]
    BY <1>2 DEF IInv, TypeOK, TMDesc
  <1>4. \A u \in Tasks, j \in Descs : Holds(j, u)' <=> Holds(j, u)
    <2>1. SUFFICES ASSUME NEW u \in Tasks, NEW j \in Descs
                   PROVE  Holds(j, u)' <=> Holds(j, u)
      OBVIOUS
    <2>2. CASE j = i
      BY <1>3, <2>2 DEF Holds
    <2>3. CASE j # i
      BY <1>3, <2>3 DEF Holds
    <2>4. QED
      BY <2>2, <2>3
  <1>5. InstalledTasks' = InstalledTasks /\ t \in InstalledTasks
    BY <1>2, <1>4 DEF InstalledTasks, Installed
  <1>6. Deadline'[t] = w
    BY <1>1, <1>2, <1>3, <1>4, DeadlineHeldNext
  <1>7. ASSUME NEW u \in Tasks, u # t PROVE Deadline'[u] = Deadline[u]
    <2>1. \A j \in Descs : Holds(j, u) => j # i
      BY <1>2, <1>7 DEF Holds
    <2>2. active'[u] = active[u]
      BY <1>1, <1>7
    <2>3. \A j \in Descs : Holds(j, u) =>
            Holds(j, u)' /\ desc'[j].wakeup = desc[j].wakeup
      <3>1. SUFFICES ASSUME NEW j \in Descs, Holds(j, u)
                     PROVE  Holds(j, u)' /\ desc'[j].wakeup = desc[j].wakeup
        OBVIOUS
      <3>2. desc'[j] = desc[j]
        BY <1>3, <2>1, <3>1
      <3>3. QED
        BY <1>4, <1>7, <3>1, <3>2
    <2>4. QED
      BY <1>7, <2>2, <2>3, DeadlineKept
  <1>8. Deadline' = [Deadline EXCEPT ![t] = Deadline'[t]]
    BY <1>7, DeadlineExcept
  <1>9. QED
    BY <1>1, <1>2, <1>5, <1>6, <1>8, SameWalk DEF Queue!Prime

\* The tasks of the first n walks of w.
Calls(w, n) == [k \in 1..n |-> w[k].tm]

LEMMA CallsSeq ==
  ASSUME NEW w, NEW n \in Nat, NEW S, \A k \in 1..n : w[k].tm \in S
  PROVE  Calls(w, n) \in Seq(S) /\ Len(Calls(w, n)) = n
PROOF
  BY DEF Calls

LEMMA CallsAppend ==
  ASSUME NEW v, NEW w, NEW n \in Nat, NEW S,
         \A k \in 1..n : w[k].tm \in S, \A k \in 1..n : v[k] = w[k]
  PROVE  Calls(v, n + 1) = Append(Calls(w, n), v[n + 1].tm)
PROOF
  <1>1. Calls(w, n) \in Seq(S) /\ Len(Calls(w, n)) = n
    BY CallsSeq
  <1>2. Append(Calls(w, n), v[n + 1].tm) =
          [k \in 1..(n + 1) |->
             IF k <= n THEN Calls(w, n)[k] ELSE v[n + 1].tm]
    BY <1>1
  <1>3. ASSUME NEW k \in 1..(n + 1)
        PROVE  v[k].tm = IF k <= n THEN Calls(w, n)[k] ELSE v[n + 1].tm
    BY <1>3 DEF Calls
  <1>4. QED
    BY <1>2, <1>3 DEF Calls

LEMMA CallsFront ==
  ASSUME NEW v, NEW w, NEW n \in Nat, NEW S,
         \A k \in 1..(n + 1) : w[k].tm \in S, \A k \in 1..n : v[k] = w[k]
  PROVE  Calls(v, n) = SubSeq(Calls(w, n + 1), 1, n)
PROOF
  <1>0. n + 1 \in Nat
    OBVIOUS
  <1>1. Calls(w, n + 1) \in Seq(S) /\ Len(Calls(w, n + 1)) = n + 1
    BY <1>0, CallsSeq, Zenon
  <1>2. SubSeq(Calls(w, n + 1), 1, n) = [k \in 1..n |-> Calls(w, n + 1)[k]]
    BY <1>1
  <1>3. \A k \in 1..n : v[k].tm = Calls(w, n + 1)[k]
    BY DEF Calls
  <1>4. QED
    BY <1>2, <1>3 DEF Calls

\* What of the walks the Mac sees, before and after a step.
LEMMA RunningIs ==
  /\ Walking => Running = Calls(walk, Len(walk) - 1)
  /\ ~Walking => Running = Calls(walk, Len(walk))
  /\ Walking' => Running' = Calls(walk', Len(walk') - 1)
  /\ ~Walking' => Running' = Calls(walk', Len(walk'))
PROOF
  BY DEF Running, Calls

LEMMA SameCalls ==
  ASSUME NEW v, NEW w, NEW n, \A k \in 1..n : v[k] = w[k]
  PROVE  Calls(v, n) = Calls(w, n)
PROOF
  BY DEF Calls

\* The walks are a sequence whose calls are tasks.
LEMMA WalkTasks ==
  ASSUME IInv, walk # << >>
  PROVE  /\ Len(walk) \in Nat \ {0}
         /\ \A k \in 1..(Len(walk) - 1) : walk[k].tm \in Tasks
         /\ Top.tm # NoTask => \A k \in 1..Len(walk) : walk[k].tm \in Tasks
PROOF
  <1>1. /\ walk \in Seq(Walk) /\ Len(walk) \in Nat \ {0}
        /\ \A k \in 1..Len(walk) : walk[k] \in Walk
    BY DEF IInv, TypeOK
  <1>2. \A k \in 1..Len(walk) : walk[k].tm \in Tasks \cup {NoTask}
    BY <1>1 DEF Walk
  <1>3. \A k \in 1..(Len(walk) - 1) : walk[k].tm # NoTask
    BY <1>1 DEF IInv, Suspended
  <1>4. QED
    BY <1>1, <1>2, <1>3 DEF Top

\* The steps of a walk that call no routine are invisible.
LEMMA SilentWalk ==
  ASSUME IInv, TimerInterrupt \/ NotExpired \/ WalkEnds
  PROVE  UNCHANGED Queue!vars
PROOF
  <1>1. UNCHANGED <<desc, active, clock>>
    BY DEF TimerInterrupt, NotExpired, WalkEnds, recordVars
  <1>2. Running' = Running
    <2>1. CASE TimerInterrupt
      <3>1. Len(walk') = Len(walk) + 1 /\ Len(walk) \in Nat
        BY <2>1, PushWalks DEF IInv, TypeOK
      <3>2. Walking' /\ ~Walking
        BY <2>1, <3>1, PushWalks
           DEF TimerInterrupt, Walking, MacRuns, Top, IInv, TypeOK
      <3>3. Calls(walk', Len(walk)) = Calls(walk, Len(walk))
        BY <2>1, PushWalks, SameCalls
      <3>4. Len(walk') - 1 = Len(walk)
        BY <3>1
      <3>5. QED
        BY <3>2, <3>3, <3>4, RunningIs
    <2>2. CASE NotExpired
      <3>1. /\ walk # << >> /\ Len(walk') = Len(walk)
            /\ walk'[Len(walk)].tm = NoTask
            /\ \A k \in 1..(Len(walk) - 1) : walk'[k] = walk[k]
        BY <2>2, WalkStepIInv
      <3>2. Len(walk) \in Nat \ {0} /\ walk' # << >>
        BY <3>1, WalkTasks
      <3>3. Walking' /\ Walking
        BY <2>2, <3>1, <3>2 DEF NotExpired, Walking, Top
      <3>4. Calls(walk', Len(walk) - 1) = Calls(walk, Len(walk) - 1)
        BY <3>1, SameCalls
      <3>5. QED
        BY <3>1, <3>3, <3>4, RunningIs
    <2>3. CASE WalkEnds
      <3>1. /\ Len(walk) \in Nat \ {0} /\ Len(walk') = Len(walk) - 1
            /\ walk' \in Seq(Walk)
            /\ \A k \in 1..(Len(walk) - 1) : walk'[k] = walk[k]
        BY <2>3, PopWalks
      <3>2. Walking
        BY <2>3 DEF WalkEnds
      <3>3. ~Walking'
        <4>1. SUFFICES ASSUME walk' # << >>
                       PROVE  walk'[Len(walk')].tm # NoTask
          BY DEF Walking, Top
        <4>2. Len(walk') \in 1..(Len(walk) - 1)
          BY <3>1, <4>1
        <4>3. walk[Len(walk')].tm # NoTask
          BY <3>1, <4>2 DEF IInv, Suspended
        <4>4. QED
          BY <3>1, <4>2, <4>3
      <3>4. Calls(walk', Len(walk) - 1) = Calls(walk, Len(walk) - 1)
        BY <3>1, SameCalls
      <3>5. QED
        BY <3>1, <3>2, <3>3, <3>4, RunningIs
    <2>4. QED
      BY <2>1, <2>2, <2>3
  <1>3. QED
    BY <1>1, <1>2, SameTable DEF Queue!vars

LEMMA ReturnQueue ==
  ASSUME IInv, RoutineReturns
  PROVE  Queue!Return
PROOF
  <1>1. /\ walk # << >> /\ Len(walk') = Len(walk)
        /\ walk'[Len(walk)].tm = NoTask
        /\ \A k \in 1..(Len(walk) - 1) : walk'[k] = walk[k]
    BY WalkStepIInv
  <1>2. Top.tm # NoTask /\ UNCHANGED <<desc, active, clock>>
    BY DEF RoutineReturns, recordVars
  <1>3. /\ Len(walk) \in Nat \ {0}
        /\ \A k \in 1..Len(walk) : walk[k].tm \in Tasks
    BY <1>1, <1>2, WalkTasks
  <1>4. Walking' /\ ~Walking
    <2>1. walk' # << >>
      BY <1>1, <1>3
    <2>2. QED
      BY <1>1, <1>2, <2>1 DEF Walking, Top
  <1>5. PICK n \in Nat : Len(walk) = n + 1 /\ Len(walk) - 1 = n
    BY <1>3
  <1>6. Calls(walk', n) = SubSeq(Calls(walk, n + 1), 1, n)
    <2>1. /\ \A k \in 1..(n + 1) : walk[k].tm \in Tasks
          /\ \A k \in 1..n : walk'[k] = walk[k]
      BY <1>1, <1>3, <1>5
    <2>2. QED
      BY <2>1, CallsFront
  <1>7. Running = Calls(walk, n + 1) /\ Running' = Calls(walk', n)
    BY <1>1, <1>4, <1>5, RunningIs
  <1>8. Running \in Seq(Tasks) /\ Len(Running) = n + 1
    BY <1>3, <1>5, <1>7, CallsSeq
  <1>9. Running # << >> /\ Len(Running) - 1 = n
    BY <1>8
  <1>10. QED
    BY <1>2, <1>6, <1>7, <1>9, SameTable DEF Queue!Return

LEMMA FireQueue ==
  ASSUME IInv, NEW t \in Tasks, Fire(t)
  PROVE  Queue!Fire(t)
PROOF
  <1>1. /\ IInv' /\ walk # << >> /\ Top.tm = NoTask
        /\ Len(walk') = Len(walk) /\ walk'[Len(walk)].tm \in {t, NoTask}
        /\ \A k \in 1..(Len(walk) - 1) : walk'[k] = walk[k]
    BY FireStep
  <1>2. /\ Len(walk) \in Nat \ {0} /\ walk' # << >>
        /\ \A k \in 1..(Len(walk) - 1) : walk[k].tm \in Tasks
    BY <1>1, WalkTasks
  <1>3. PICK n \in Nat : Len(walk) = n + 1 /\ Len(walk) - 1 = n
    <2>1. Len(walk) - 1 \in Nat /\ Len(walk) = (Len(walk) - 1) + 1
      BY <1>2
    <2>2. QED
      BY <2>1, Zenon
  <1>4. Running = Calls(walk, n) /\ Calls(walk', n) = Calls(walk, n)
    BY <1>1, <1>3, RunningIs, SameCalls DEF Walking
  <1>5. Running' \in {Running, Append(Running, t)}
    <2>1. CASE walk'[Len(walk)].tm = NoTask
      <3>1. Walking'
        BY <1>1, <1>2, <2>1 DEF Walking, Top
      <3>2. QED
        BY <1>1, <1>3, <1>4, <3>1, RunningIs
    <2>2. CASE walk'[Len(walk)].tm = t
      <3>1. ~Walking'
        BY <1>1, <2>2, TimeManagerAssumption DEF Walking, Top
      <3>2. Calls(walk', n + 1) = Append(Calls(walk, n), walk'[n + 1].tm)
        <4>1. /\ \A k \in 1..n : walk[k].tm \in Tasks
              /\ \A k \in 1..n : walk'[k] = walk[k]
          BY <1>1, <1>2, <1>3
        <4>2. QED
          BY <4>1, CallsAppend
      <3>3. QED
        BY <1>1, <1>3, <1>4, <2>2, <3>1, <3>2, RunningIs
    <2>3. QED
      BY <1>1, <2>1, <2>2
  <1>6. /\ active' = [active EXCEPT ![t] = FALSE]
        /\ UNCHANGED <<desc, clock>> /\ active \in [Tasks -> BOOLEAN]
    BY DEF Fire, IInv, TypeOK
  <1>7. PICK i \in Descs :
          Holds(i, t) /\ active[t] /\ timer_cmp_time(desc[i].wakeup, Top.now) < 0
    <2>1. Top.i \in Descs
      BY <1>1, TopFacts, TimeManagerAssumption DEF Fire, Descs, IInv
    <2>2. QED
      BY <2>1 DEF Fire, Expired, Holds
  <1>8. t \in InstalledTasks /\ Deadline[t] = desc[i].wakeup
    BY <1>7, DeadlineHeld DEF InstalledTasks
  <1>9. Deadline[t] # -1 /\ Deadline[t] < clock
    <2>1. desc[i].wakeup \in 0..MaxInt32 /\ Top.now \in 0..MaxInt32
      BY <1>1, TopFacts, TimeManagerAssumption, Widths DEF IInv, TypeOK, TMDesc
    <2>2. desc[i].wakeup < Top.now
      BY <1>7, <2>1, CompareSound
    <2>3. Top.now <= clock /\ clock \in Nat
      BY <1>2, TimeManagerAssumption DEF IInv, NotAhead, Top, TypeOK
    <2>4. QED
      BY <1>8, <2>1, <2>2, <2>3, Widths
  <1>10. InstalledTasks' = InstalledTasks
    BY <1>6 DEF InstalledTasks, Installed, Holds
  <1>11. Deadline' = [Deadline EXCEPT ![t] = -1]
    <2>1. \A u \in Tasks : u # t => Deadline'[u] = Deadline[u]
      BY <1>6 DEF Deadline, Installed, Holds, WakeupOf
    <2>2. Deadline'[t] = -1
      BY <1>6, DeadlineNone
    <2>3. QED
      BY <2>1, <2>2, DeadlineExcept
  <1>12. QED
    BY <1>5, <1>6, <1>8, <1>9, <1>10, <1>11 DEF Queue!Fire, Queue!None

\* Every step of the Time Manager is one of TimerQueue or invisible in it.
LEMMA StepQueue == IInv /\ IInv' /\ [Next]_vars => [Queue!Next]_(Queue!vars)
PROOF
  <1>1. SUFFICES ASSUME IInv, IInv', [Next]_vars
                 PROVE  Queue!Next \/ UNCHANGED Queue!vars
    OBVIOUS
  <1>2. ASSUME NEW t \in Tasks, ResetWakeUp(t) PROVE UNCHANGED Queue!vars
    BY <1>2, SameTable, SameWalk DEF ResetWakeUp, Queue!vars
  <1>3. CASE Tick
    BY <1>3, SameTable, SameWalk DEF Tick, recordVars, Queue!Next, Queue!Tick
  <1>4. CASE UNCHANGED vars
    BY <1>4, SameTable, SameWalk DEF vars, Queue!vars
  <1>5. CASE RoutineReturns
    BY <1>1, <1>5, ReturnQueue DEF Queue!Next
  <1>6. ASSUME NEW t \in Tasks, NEW x \in BOOLEAN, InsTime(t, x)
        PROVE  Queue!Next \/ UNCHANGED Queue!vars
    BY <1>1, <1>6, InsTimeQueue DEF Queue!Next
  <1>7. ASSUME NEW t \in Tasks, RmvTime(t) PROVE Queue!Next
    BY <1>1, <1>7, RmvTimeQueue DEF Queue!Next
  <1>8. ASSUME NEW t \in Tasks, NEW d \in Delays, PrimeTime(t, d)
        PROVE  Queue!Next
    BY <1>1, <1>8, PrimeTimeQueue DEF Queue!Next
  <1>9. ASSUME NEW t \in Tasks, Fire(t) PROVE Queue!Next
    BY <1>1, <1>9, FireQueue DEF Queue!Next
  <1>10. QED
    BY <1>1, <1>2, <1>3, <1>4, <1>5, <1>6, <1>7, <1>8, <1>9, SilentWalk
       DEF Next, Others, WalkStep

\* The Time Manager implements TimerQueue: no routine early, twice or after
\* removal, for any tasks, any table and any nesting of walks, as long as
\* all times are within 2^31 microseconds of each other.
THEOREM Implements == Spec => Promise
PROOF
  BY InitQueue, StepQueue, AlwaysIInv, PTL DEF Spec, Promise, Queue!Spec

-----------------------------------------------------------------------------
(* The time arithmetic, for every width of the words. *)

\* A whole number of words does not change a remainder.
LEMMA WordsDropped ==
  ASSUME NEW n \in Nat, n > 0, NEW q \in Int, NEW r \in 0..(n - 1)
  PROVE  (q * n + r) % n = r
PROOF
  <1> DEFINE x == q * n + r
  <1>1. x \in Int /\ x % n \in 0..(n - 1)
    OBVIOUS
  <1>2. x = n * (x \div n) + (x % n) /\ x \div n \in Int
    OBVIOUS
  <1>3. PICK p \in Int : p = q - (x \div n)
    BY <1>2
  <1>4. n * p = (x % n) - r
    BY <1>1, <1>2, <1>3
  <1>5. p = 0
    BY <1>1, <1>4
  <1>6. QED
    BY <1>1, <1>4, <1>5

\* A delay below 2^31 microseconds (35 minutes) reaches the host unchanged,
\* for every width of the words: timer_mac2host_time is exact there although
\* its product and its negation are computed as an int.
THEOREM DelayExact ==
  ASSUME NEW m \in MacTimes, Microseconds(m) <= MaxInt32
  PROVE  timer_mac2host_time(m) = Microseconds(m)
PROOF
  <1>1. Microseconds(m) \in 0..MaxInt32
    <2>1. CASE m > 0
      <3>1. m * Milli \in Nat
        BY <2>1, TimerTimeAssumption, Widths DEF MacTimes
      <3>2. QED
        BY <2>1, <3>1, Widths DEF Microseconds
    <2>2. CASE ~(m > 0)
      BY <2>2, Widths DEF Microseconds, MacTimes
    <2>3. QED
      BY <2>1, <2>2
  <1>2. ASSUME NEW x \in 0..MaxInt32 PROVE ToHost(ToInt32(x)) = x
    <2>1. x \in 0..(MacWord - 1) /\ x \in 0..(HostWord - 1)
      BY Widths
    <2>2. x % MacWord = x /\ x % HostWord = x
      BY <2>1, Widths, Remainder
    <2>3. QED
      BY <2>2, Widths DEF ToInt32, ToHost
  <1>3. timer_mac2host_time(m) = ToHost(ToInt32(Microseconds(m)))
    BY DEF timer_mac2host_time, Microseconds
  <1>4. QED
    BY <1>1, <1>2, <1>3

\* A remaining time that fits in 32 bits is reported in microseconds, to the
\* microsecond: a task that RmvTime removes and that is primed again with its
\* tmCount wakes up when it was going to.
THEOREM RemainingExact ==
  ASSUME NEW h \in 0..MaxInt32
  PROVE  timer_mac2host_time(timer_host2mac_time(h)) = h
PROOF
  <1>1. timer_host2mac_time(h) = -h
    BY Widths DEF timer_host2mac_time
  <1>2. -h \in MacTimes /\ Microseconds(-h) = h
    BY Widths DEF MacTimes, Microseconds
  <1>3. QED
    BY <1>1, <1>2, DelayExact

\* TimerInterrupt's test is right while wakeup time and current time are at
\* most 2^31 - 1 microseconds apart, wherever in the 64-bit range they are.
THEOREM CompareExact ==
  ASSUME NEW a \in HostTimes, NEW b \in HostTimes,
         a - b \in (-MaxInt32)..MaxInt32
  PROVE  timer_cmp_time(a, b) < 0 <=> a < b
PROOF
  <1>0. a \in Int /\ b \in Int /\ a < HostWord /\ b < HostWord /\ a >= 0 /\ b >= 0
    BY Widths DEF HostTimes
  <1>1. CASE a >= b
    <2>1. a - b \in 0..(HostWord - 1) /\ a - b \in 0..(MacWord - 1)
      BY <1>0, <1>1, Widths
    <2>2. ToHost(a - b) = a - b /\ (a - b) % MacWord = a - b
      BY <2>1, Widths, Remainder DEF ToHost
    <2>3. QED
      BY <1>0, <1>1, <2>2, Widths DEF timer_cmp_time, ToInt32
  <1>2. CASE a < b
    <2> DEFINE d == a - b
    <2>1. /\ d \in Int /\ d < 0 /\ d >= -MaxInt32
          /\ d + HostWord \in 0..(HostWord - 1)
          /\ d + MacWord \in 0..(MacWord - 1) /\ d + MacWord > MaxInt32
      BY <1>0, <1>2, Widths
    <2> HIDE DEF d
    <2>2. ToHost(d) = d + HostWord
      <3>1. ((-1) * HostWord + (d + HostWord)) % HostWord = d + HostWord
        BY <2>1, Widths, WordsDropped
      <3>2. (-1) * HostWord + (d + HostWord) = d
        BY <2>1, Widths
      <3>3. QED
        BY <3>1, <3>2 DEF ToHost
    <2>3. PICK k \in Int : HostWord = k * MacWord
      <3> DEFINE q == HostWord \div MacWord
      <3>1. HostWord = MacWord * q + (HostWord % MacWord) /\ q \in Int
        BY Widths
      <3> HIDE DEF q
      <3>2. HostWord % MacWord = 0
        BY TimerTimeAssumption
      <3>3. HostWord = q * MacWord
        BY <3>1, <3>2, Widths
      <3>4. QED
        BY <3>1, <3>3
    <2>4. (d + HostWord) % MacWord = d + MacWord
      <3>1. ((k - 1) * MacWord + (d + MacWord)) % MacWord = d + MacWord
        BY <2>1, Widths, WordsDropped
      <3>2. (k - 1) * MacWord + (d + MacWord) = d + HostWord
        BY <2>1, <2>3, Widths
      <3>3. QED
        BY <3>1, <3>2
    <2>5. ToInt32(d + HostWord) = d
      BY <2>1, <2>4, Widths DEF ToInt32
    <2>6. timer_cmp_time(a, b) = d
      BY <2>2, <2>5 DEF timer_cmp_time, d
    <2>7. QED
      BY <1>2, <2>1, <2>6
  <1>3. QED
    BY <1>0, <1>1, <1>2

=============================================================================

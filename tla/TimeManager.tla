----------------------------- MODULE TimeManager -----------------------------
(***************************************************************************)
(* The replacement of the Mac's Time Manager (timer.cpp).  InsTime,        *)
(* RmvTime and PrimeTime are EmulOps called by 68k code; TimerInterrupt    *)
(* runs in the 60Hz handler, walks the descriptors and calls the routines  *)
(* of expired tasks through Execute68k.  A routine may itself install,     *)
(* remove and prime tasks while the walk is under way, and, if it lowers   *)
(* the interrupt mask, be interrupted by another walk.                     *)
(*                                                                         *)
(* Of a TMTask record in Mac memory the model keeps the two qType bits,    *)
(* whether tmWakeUp is set, and tmCount.                                   *)
(***************************************************************************)
EXTENDS TimerTime, Sequences

CONSTANTS
  Tasks,       \* addresses of TMTask records
  NoTask,      \* no such address
  NumDescs,    \* NUM_DESCS
  Delays,      \* Mac times given to PrimeTime
  MaxTime,     \* bound on the host clock
  MaxWakeup,   \* bound on wakeup times
  MaxNest      \* bound on nested walks

Descs == 1..NumDescs

(***************************************************************************)
(* All times of a behaviour lie within 2^31 microseconds (35 minutes) of   *)
(* each other: the range of timer_cmp_time.                                *)
(***************************************************************************)
ASSUME TimeManagerAssumption ==
  /\ NoTask \notin Tasks
  /\ NumDescs \in Nat /\ MaxNest \in Nat
  /\ Delays \subseteq MacTimes
  /\ MaxTime \in Nat /\ MaxTime <= MaxInt32
  /\ MaxWakeup \in Nat /\ MaxWakeup <= MaxInt32

VARIABLES
  desc,        \* the descriptors
  extended,    \* qType & 0x4000 of each task
  active,      \* qType & 0x8000
  tmWakeUp,    \* tmWakeUp is not 0
  tmCount,     \* tmCount
  walk,        \* TimerInterrupt calls in progress, the innermost one last
  clock        \* host time

recordVars == <<extended, active, tmWakeUp, tmCount>>

vars == <<desc, extended, active, tmWakeUp, tmCount, walk, clock>>

TMDesc == [task : Tasks, wakeup : 0..MaxWakeup, in_use : BOOLEAN]

\* The locals of TimerInterrupt: i is the descriptor being looked at, now
\* the time read at the start and tm the task whose routine is being run.
Walk == [i : 1..(NumDescs + 1), now : 0..MaxTime, tm : Tasks \cup {NoTask}]

Locals(i, now, tm) == [i |-> i, now |-> now, tm |-> tm]

\* The descriptors are static: zero until they are used.
Init ==
  /\ \E t \in Tasks :
       desc = [i \in Descs |-> [task |-> t, wakeup |-> 0, in_use |-> FALSE]]
  /\ extended = [t \in Tasks |-> FALSE]
  /\ active = [t \in Tasks |-> FALSE]
  /\ tmWakeUp = [t \in Tasks |-> FALSE]
  /\ tmCount = [t \in Tasks |-> 0]
  /\ walk = << >>
  /\ clock = 0

-----------------------------------------------------------------------------
\* Descriptor i is the one of task t.
Holds(i, t) == desc[i].in_use /\ desc[i].task = t

Installed(t) == \E i \in Descs : Holds(i, t)

\* The first free descriptor.
FirstFree(i) ==
  /\ ~desc[i].in_use
  /\ \A j \in Descs : j < i => desc[j].in_use

Top == walk[Len(walk)]

\* 68k code is running: the program or the routine of a task.
MacRuns == walk # << >> => Top.tm # NoTask

SetTop(w) == walk' = [walk EXCEPT ![Len(walk)] = w]

-----------------------------------------------------------------------------
\* Mutant of InsTime: no look at the descriptors in use.
InsTimeAgain(t, x) ==
  /\ MacRuns
  /\ extended' = [extended EXCEPT ![t] = x]
  /\ active' = [active EXCEPT ![t] = FALSE]
  /\ \/ /\ \A i \in Descs : desc[i].in_use
        /\ UNCHANGED desc
     \/ \E i \in Descs :
          /\ FirstFree(i)
          /\ desc' = [desc EXCEPT ![i].task = t, ![i].in_use = TRUE]
  /\ UNCHANGED <<tmWakeUp, tmCount, walk, clock>>

(***************************************************************************)
(* InsTime(t, trap), x saying whether it is InsXTime.  alloc_desc leaves   *)
(* the wakeup time of the descriptor's last user, and with no descriptor   *)
(* left the call succeeds without installing the task.                     *)
(***************************************************************************)
InsTime(t, x) ==
  /\ MacRuns
  /\ extended' = [extended EXCEPT ![t] = x]
  /\ active' = [active EXCEPT ![t] = FALSE]
  /\ \/ /\ Installed(t) \/ \A i \in Descs : desc[i].in_use
        /\ UNCHANGED desc
     \/ /\ ~Installed(t)
        /\ \E i \in Descs :
             /\ FirstFree(i)
             /\ desc' = [desc EXCEPT ![i].task = t, ![i].in_use = TRUE]
  /\ UNCHANGED <<tmWakeUp, tmCount, walk, clock>>

\* Mutant of RmvTime: the task stays active.
RmvTimeActive(t) ==
  /\ MacRuns
  /\ \E i \in Descs :
       /\ Holds(i, t)
       /\ tmCount' = [tmCount EXCEPT ![t] = 0]
       /\ desc' = [desc EXCEPT ![i].in_use = FALSE]
  /\ UNCHANGED <<extended, active, tmWakeUp, walk, clock>>

\* RmvTime.  A task without a descriptor is only reported.
RmvTime(t) ==
  /\ MacRuns
  /\ \E i \in Descs :
       /\ Holds(i, t)
       /\ tmCount' = [tmCount EXCEPT ![t] =
            IF active[t]
            THEN timer_host2mac_time(timer_sub_time(desc[i].wakeup, clock))
            ELSE 0]
       /\ desc' = [desc EXCEPT ![i].in_use = FALSE]
  /\ active' = [active EXCEPT ![t] = FALSE]
  /\ UNCHANGED <<extended, tmWakeUp, walk, clock>>

\* The time a delay of task t counts from: an extended task that has been
\* scheduled before goes on from its last wakeup time.
DelayStart(i, t) ==
  IF extended[t] /\ tmWakeUp[t] THEN desc[i].wakeup ELSE clock

\* PrimeTime.  A task without a descriptor is only reported.
PrimeTime(t, d) ==
  /\ MacRuns
  /\ \E i \in Descs :
       /\ Holds(i, t)
       /\ LET w == timer_add_time(DelayStart(i, t), timer_mac2host_time(d))
          IN /\ w <= MaxWakeup
             /\ desc' = [desc EXCEPT ![i].wakeup = w]
  /\ tmWakeUp' = [tmWakeUp EXCEPT ![t] = @ \/ extended[t]]
  /\ active' = [active EXCEPT ![t] = TRUE]
  /\ UNCHANGED <<extended, tmCount, walk, clock>>

\* The program writes 0 to tmWakeUp.
ResetWakeUp(t) ==
  /\ MacRuns
  /\ tmWakeUp[t]
  /\ tmWakeUp' = [tmWakeUp EXCEPT ![t] = FALSE]
  /\ UNCHANGED <<desc, extended, active, tmCount, walk, clock>>

-----------------------------------------------------------------------------
(***************************************************************************)
(* TimerInterrupt.                                                         *)
(***************************************************************************)
TimerInterrupt ==
  /\ MacRuns
  /\ Len(walk) < MaxNest
  /\ walk' = Append(walk, Locals(1, clock, NoTask))
  /\ UNCHANGED <<desc, recordVars, clock>>

Walking == walk # << >> /\ Top.tm = NoTask

\* Mutant of Expired: a freed descriptor is not passed over.
ExpiredFreed(i) ==
  /\ active[desc[i].task]
  /\ timer_cmp_time(desc[i].wakeup, Top.now) < 0

\* Descriptor i is in use by an active task whose time has come.
Expired(i) ==
  /\ desc[i].in_use
  /\ active[desc[i].task]
  /\ timer_cmp_time(desc[i].wakeup, Top.now) < 0

NotExpired ==
  /\ Walking /\ Top.i <= NumDescs
  /\ ~Expired(Top.i)
  /\ SetTop(Locals(Top.i + 1, Top.now, NoTask))
  /\ UNCHANGED <<desc, recordVars, clock>>

\* Mutant of Fire: the task is marked inactive after its routine only.
FireActive(t) ==
  /\ Walking /\ Top.i <= NumDescs
  /\ Expired(Top.i) /\ t = desc[Top.i].task
  /\ SetTop(Locals(Top.i, Top.now, t))
  /\ UNCHANGED <<desc, recordVars, clock>>

\* The task is marked inactive; its routine, if tmAddr is not 0, begins.
Fire(t) ==
  /\ Walking /\ Top.i <= NumDescs
  /\ Expired(Top.i) /\ t = desc[Top.i].task
  /\ active' = [active EXCEPT ![t] = FALSE]
  /\ \/ SetTop(Locals(Top.i, Top.now, t))
     \/ SetTop(Locals(Top.i + 1, Top.now, NoTask))
  /\ UNCHANGED <<desc, extended, tmWakeUp, tmCount, clock>>

RoutineReturns ==
  /\ walk # << >> /\ Top.tm # NoTask
  /\ SetTop(Locals(Top.i + 1, Top.now, NoTask))
  /\ UNCHANGED <<desc, recordVars, clock>>

\* Mutant of WalkEnds: the last descriptor may be passed over.
WalkEndsEarly ==
  /\ Walking /\ Top.i >= NumDescs
  /\ walk' = SubSeq(walk, 1, Len(walk) - 1)
  /\ UNCHANGED <<desc, recordVars, clock>>

WalkEnds ==
  /\ Walking /\ Top.i > NumDescs
  /\ walk' = SubSeq(walk, 1, Len(walk) - 1)
  /\ UNCHANGED <<desc, recordVars, clock>>

\* The host clock goes on at any time.
Tick ==
  /\ clock < MaxTime
  /\ clock' = clock + 1
  /\ UNCHANGED <<desc, recordVars, walk>>

-----------------------------------------------------------------------------
WalkStep ==
  NotExpired \/ RoutineReturns \/ WalkEnds \/ \E t \in Tasks : Fire(t)

Others ==
  \/ \E t \in Tasks :
       \/ \E x \in BOOLEAN : InsTime(t, x)
       \/ RmvTime(t)
       \/ ResetWakeUp(t)
  \/ TimerInterrupt \/ WalkStep \/ Tick

Next == Others \/ \E t \in Tasks, d \in Delays : PrimeTime(t, d)

Spec == Init /\ [][Next]_vars

(***************************************************************************)
(* The 60Hz interrupt keeps coming while no walk is under way, walks go on *)
(* and the routines of tasks come to an end.                               *)
(***************************************************************************)
Fairness ==
  /\ WF_vars(walk = << >> /\ TimerInterrupt)
  /\ SF_vars(RoutineReturns)
  /\ WF_vars(NotExpired \/ WalkEnds \/ \E t \in Tasks : Fire(t))

FairSpec == Spec /\ Fairness

-----------------------------------------------------------------------------
\* Every variable has its type.
TypeOK ==
  /\ desc \in [Descs -> TMDesc]
  /\ extended \in [Tasks -> BOOLEAN]
  /\ active \in [Tasks -> BOOLEAN]
  /\ tmWakeUp \in [Tasks -> BOOLEAN]
  /\ tmCount \in [Tasks -> MacTimes]
  /\ walk \in Seq(Walk)
  /\ clock \in 0..MaxTime

\* A task has at most one descriptor, however often it is installed and
\* removed and whatever routines do to the table during a walk.
OneDescriptor ==
  \A i, j \in Descs :
    desc[i].in_use /\ desc[j].in_use /\ desc[i].task = desc[j].task => i = j

\* An active task has a descriptor: PrimeTime and RmvTime never leave a task
\* active that TimerInterrupt cannot find.
ActiveInstalled == \A t \in Tasks : active[t] => Installed(t)

(***************************************************************************)
(* What the Mac sees of the descriptors and the task records.              *)
(***************************************************************************)
InstalledTasks == {t \in Tasks : Installed(t)}

WakeupOf(t) == desc[CHOOSE i \in Descs : Holds(i, t)].wakeup

Deadline ==
  [t \in Tasks |-> IF active[t] /\ Installed(t) THEN WakeupOf(t) ELSE -1]

Running ==
  [k \in 1..(IF Walking THEN Len(walk) - 1 ELSE Len(walk)) |-> walk[k].tm]

Queue == INSTANCE TimerQueue WITH
  installed <- InstalledTasks, deadline <- Deadline, running <- Running

\* The descriptors, bits and walks implement the promise of TimerQueue: no
\* routine is called early, twice for one PrimeTime, or after RmvTime, even
\* when other routines change the table under a walk or a walk interrupts
\* another.
Promise == Queue!Spec

\* An expired task is served, removed or primed anew: no walk passes it
\* over for ever.
ExpiredServed ==
  \A t \in Tasks :
    (Deadline[t] \in 0..(clock - 1)) ~> ~(Deadline[t] \in 0..(clock - 1))

=============================================================================

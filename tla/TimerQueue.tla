----------------------------- MODULE TimerQueue -----------------------------
(***************************************************************************)
(* What the Time Manager promises to the Mac: tasks are installed and      *)
(* removed, a primed task has one deadline, and its routine is called at   *)
(* most once for it, after the deadline and not after the removal.         *)
(***************************************************************************)
EXTENDS Integers, Sequences

CONSTANT Tasks

VARIABLES
  installed,   \* set of installed tasks
  deadline,    \* deadline of each task, or None
  running,     \* tasks whose routines run, each interrupting the one before
  clock        \* host time

vars == <<installed, deadline, running, clock>>

\* No deadline: the task is not primed.
None == -1

Init ==
  /\ installed = {}
  /\ deadline = [t \in Tasks |-> None]
  /\ running = << >>
  /\ clock = 0

\* A task that is installed again is no longer primed.
Install(t) ==
  /\ installed' = installed \cup {t}
  /\ deadline' = [deadline EXCEPT ![t] = None]
  /\ UNCHANGED <<running, clock>>

Remove(t) ==
  /\ installed' = installed \ {t}
  /\ deadline' = [deadline EXCEPT ![t] = None]
  /\ UNCHANGED <<running, clock>>

Prime(t) ==
  /\ t \in installed
  /\ deadline'[t] \in Nat
  /\ deadline' = [deadline EXCEPT ![t] = deadline'[t]]
  /\ UNCHANGED <<installed, running, clock>>

\* A deadline that has passed is used up; the task may have no routine.
Fire(t) ==
  /\ t \in installed
  /\ deadline[t] # None /\ deadline[t] < clock
  /\ deadline' = [deadline EXCEPT ![t] = None]
  /\ running' \in {running, Append(running, t)}
  /\ UNCHANGED <<installed, clock>>

Return ==
  /\ running # << >>
  /\ running' = SubSeq(running, 1, Len(running) - 1)
  /\ UNCHANGED <<installed, deadline, clock>>

Tick ==
  /\ clock' = clock + 1
  /\ UNCHANGED <<installed, deadline, running>>

Next ==
  \/ \E t \in Tasks : Install(t) \/ Remove(t) \/ Prime(t) \/ Fire(t)
  \/ Return \/ Tick

Spec == Init /\ [][Next]_vars

=============================================================================

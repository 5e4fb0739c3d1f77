---- MODULE MCTimerStale ----
(* Time Manager with a history of the wakeup times given to each task. *)
EXTENDS TimeManager

VARIABLE sched    \* wakeup time of each task, as PrimeTime last set it

MCDelays == {0, 1}

HInit == Init /\ sched = [t \in Tasks |-> 0]

HPrime(t, d) ==
  /\ PrimeTime(t, d)
  /\ sched' = [sched EXCEPT ![t] = WakeupOf(t)']

HNext ==
  \/ \E t \in Tasks, d \in Delays : HPrime(t, d)
  \/ Others /\ UNCHANGED sched

HSpec == HInit /\ [][HNext]_<<vars, sched>>

\* What the comment in PrimeTime says: the delay of an extended task whose
\* tmWakeUp is set counts from the time that task was last scheduled for.
RelativeToLast ==
  \A t \in Tasks :
    Installed(t) /\ extended[t] /\ tmWakeUp[t] => WakeupOf(t) = sched[t]

====

------------------------------ MODULE TimerTime ------------------------------
(***************************************************************************)
(* Time arithmetic of the Time Manager (PSP2/timer_psp.cpp).               *)
(*                                                                         *)
(* tm_time_t is an unsigned 64-bit count of microseconds and a Mac time an *)
(* int32: milliseconds if positive, negated microseconds if not.  The      *)
(* widths and the 1000 are constants, so that TLC can enumerate both types.*)
(***************************************************************************)
EXTENDS Integers

CONSTANTS
  HostWord,    \* 2^64, number of values of a tm_time_t
  MacWord,     \* 2^32, number of values of an int32
  Milli        \* 1000, microseconds in a millisecond

ASSUME TimerTimeAssumption ==
  /\ HostWord \in Nat /\ MacWord \in Nat /\ Milli \in Nat
  /\ Milli > 1
  /\ MacWord > 2 /\ MacWord % 2 = 0
  /\ HostWord >= MacWord /\ HostWord % MacWord = 0

MaxInt32 == MacWord \div 2 - 1

HostTimes == 0..(HostWord - 1)

MacTimes == (-MaxInt32 - 1)..MaxInt32

\* Conversion of an integer to tm_time_t and to int32 (int).
ToHost(x) == x % HostWord

ToInt32(x) ==
  LET r == x % MacWord IN IF r > MaxInt32 THEN r - MacWord ELSE r

timer_add_time(a, b) == ToHost(a + b)

timer_sub_time(a, b) == ToHost(a - b)

\* The difference of two tm_time_t, returned as an int.
timer_cmp_time(a, b) == ToInt32(ToHost(a - b))

\* Both the product and the negation are computed as an int.
timer_mac2host_time(m) ==
  IF m > 0 THEN ToHost(ToInt32(m * Milli)) ELSE ToHost(ToInt32(-m))

\* Mutant of timer_host2mac_time: the result is wider than an int32.
timer_host2mac_wide(h) == IF h > MaxInt32 THEN h \div Milli ELSE -h

\* The test "hosttime < 0" of an unsigned value is always false.
timer_host2mac_time(h) ==
  IF h > MaxInt32 THEN ToInt32(h \div Milli) ELSE -h

\* The microseconds that a Mac time stands for.
Microseconds(m) == IF m > 0 THEN m * Milli ELSE -m

=============================================================================

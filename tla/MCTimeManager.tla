---- MODULE MCTimeManager ----
(* Time Manager with delays of nothing and of one microsecond. *)
EXTENDS TimeManager

MCDelays == {-1, 0}

====

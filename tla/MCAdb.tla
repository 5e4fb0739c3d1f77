---- MODULE MCAdb ----
(* ADB emulation with motions to either side. *)
EXTENDS Adb

MCMoves == {-1, 1}

====

------------------------------ MODULE MCExtFS ------------------------------
(***************************************************************************)
(* ExtFS for TLC: the host name "long" is cut to the Mac name "a".         *)
(***************************************************************************)
EXTENDS ExtFS

MCGuest == [n \in Names |-> IF n = "long" THEN "a" ELSE n]
=============================================================================

----------------------------- MODULE MCSession -----------------------------
(***************************************************************************)
(* Session with two CD-ROM images that differ in nothing, so a state and   *)
(* the one with the two exchanged are explored once.                       *)
(***************************************************************************)
EXTENDS Session, TLC

MCExt == [i \in Images |-> IF i = HardDisk THEN "hfv"
                           ELSE IF i \in FloppyImages THEN "dsk" ELSE "other"]

Symmetry == Permutations(CDImages)
=============================================================================

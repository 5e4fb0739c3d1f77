------------------------------ MODULE MCInput ------------------------------
(***************************************************************************)
(* Input for TLC: maps of one line, which presses the mouse button, then   *)
(* Command and Caps Lock, or is Caps Lock.  One of the two codes of the    *)
(* keyboard is its own Caps Lock key.                                      *)
(***************************************************************************)
EXTENDS Input, TLC

MCKeys == {"cmd", "opt", "ctrl", "shift", "caps", "a"}
MCmac_key == [c \in Hid \cup {NoCode} |-> CASE c = "a" -> "a" [] c = "lock" -> "caps" [] OTHER -> NoKey]
MCMaps == {<<{"left", "cmd", "caps"}>>, <<{"caps"}>>}
MCSessions == {{"panel"}, {"mouse", "screen", "osk"}, {"keyboard", "cmd"}, {"keyboard", "ctrl"}}
Symmetric == Permutations(Fingers)
=============================================================================

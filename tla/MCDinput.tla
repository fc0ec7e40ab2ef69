------------------------------ MODULE MCDinput ------------------------------
(* Instances of Dinput for TLC: a port of two pins, the second one active  *)
(* at the low level as in the demo programs.                               *)
EXTENDS Dinput

MCAct == [p \in Pin |-> p = 0]
MCEdges == {{"rising"}, {"falling", "rising"}}
MCBoth == {{"falling", "rising"}}
=============================================================================

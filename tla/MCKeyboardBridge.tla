-------------------------- MODULE MCKeyboardBridge --------------------------
(* Two producers for one slot, each with the two Shift keys, which reach the *)
(* guest as one; a queue of two, drained at most two commands an iteration.  *)
EXTENDS KeyboardBridge

CONSTANTS s1, s2

MCSources == {s1, s2}
TwoKeys == {"LeftShift", "RightShift"}
TwoFrontend == [k \in TwoKeys |-> k]

=============================================================================

--------------------------- MODULE MCPassthrough ---------------------------
(***************************************************************************)
(* Two small machines.  One keyboard with three keys and two slots, so     *)
(* that the third key rolls over; the keys are interchangeable.  A mouse   *)
(* with a button, whose motion is larger than a report can carry, and a    *)
(* keyboard with one modifier, which alone is the mode-toggle chord.  The  *)
(* evdev buffer holds one frame for a keyboard and two for the mouse.      *)
(***************************************************************************)
EXTENDS Passthrough, TLC

CONSTANTS kb, ms, ctrl, a, b, c, left

KeyboardSwitches == {<<kb, a>>, <<kb, b>>, <<kb, c>>}
MouseSwitches == {<<ms, left>>, <<kb, ctrl>>}
MCMaxQueue == [d \in Devices |-> IF d = ms THEN 4 ELSE 2]
NoChord == <<>>
CtrlChord == <<ctrl>>
KeySymmetry == Permutations({a, b, c})
=============================================================================

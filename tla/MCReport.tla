------------------------------ MODULE MCReport ------------------------------
(***************************************************************************)
(* One trigger with burst, clockwork or jittered (a short cycle, a skipped *)
(* one, then the nominal cadence), over a few milliseconds.  The ring      *)
(* holds fewer samples than the run can produce and more than the window   *)
(* of one mouse, as 256 samples do at 1 kHz for windows below 256 ms.      *)
(***************************************************************************)
EXTENDS Report

CONSTANTS r2, lup, m1, m2

MCPatterns == {<<>>, <<<<2, 1>>, <<1, 0>>>>}
=============================================================================

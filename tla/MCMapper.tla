------------------------------ MODULE MCMapper ------------------------------
(***************************************************************************)
(* A key on each of two keyboards; a table that binds both keys to one     *)
(* action and one that moves the first and leaves the second unmapped; a   *)
(* chord across the keyboards, in two orders, so that a bit kept across a  *)
(* reload would mean another key.  The evdev buffer of one keyboard        *)
(* overflows on the third event, that of the other on the second.          *)
(***************************************************************************)
EXTENDS Mapper

CONSTANTS kb1, kb2, keyW, keyE, cross, r2

MCSwitches == {<<kb1, keyW>>, <<kb2, keyE>>}
MCMaxQueue == [d \in Devices |-> IF d = kb1 THEN 2 ELSE 1]
Table(forW, forE) == [k \in Keys |-> IF k = keyW THEN forW ELSE forE]
Config(table, chord) == [action |-> table, chord |-> chord]
MCConfigs == {Config(Table(cross, cross), <<keyW, keyE>>),
              Config(Table(r2, None), <<keyE, keyW>>)}
=============================================================================

---------------------------- MODULE LatestReport ----------------------------
(***************************************************************************)
(* What the report path of dualsense-ffsd promises the USB host: a channel *)
(* that holds only the latest value.  A value that was not yet taken may   *)
(* be overwritten by a newer one and a value in flight may be dropped, but *)
(* the host never reads a value twice, never reads an older value after a  *)
(* newer one, and never reads a value nobody put.                          *)
(***************************************************************************)
EXTENDS Naturals

VARIABLES
  newest,     \* last value put
  slot,       \* value put and not taken, 0 when there is none
  flying,     \* value taken and not yet read by the host, 0 when none
  received    \* last value the host read

vars == <<newest, slot, flying, received>>

Init == newest = 0 /\ slot = 0 /\ flying = 0 /\ received = 0

Put ==
  /\ newest' = newest + 1
  /\ slot' = newest'
  /\ UNCHANGED <<flying, received>>

Take ==
  /\ slot # 0 /\ flying = 0
  /\ flying' = slot
  /\ slot' = 0
  /\ UNCHANGED <<newest, received>>

Deliver ==
  /\ flying # 0
  /\ received' = flying
  /\ flying' = 0
  /\ UNCHANGED <<newest, slot>>

Drop ==
  /\ flying # 0
  /\ flying' = 0
  /\ UNCHANGED <<newest, slot, received>>

Next == Put \/ Take \/ Deliver \/ Drop

Spec == Init /\ [][Next]_vars
=============================================================================

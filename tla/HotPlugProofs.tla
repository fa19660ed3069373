---------------------------- MODULE HotPlugProofs ----------------------------
(***************************************************************************)
(* Proofs about the slot table: the types, that no device is open twice,   *)
(* and that once everything is handled the open devices are the present    *)
(* ones, for every set of names, table size and queue length.              *)
(***************************************************************************)
EXTENDS HotPlug, WellFoundedInduction, TLAPS

In(p, s) == \E k \in 1 .. Len(s) : s[k] = p

\* The sets the variables range over.
DataOK ==
  /\ node \in [Paths -> {"none", "input", "other"}]
  /\ owed \subseteq Paths /\ excused \subseteq Paths /\ toscan \subseteq Paths
  /\ watched \in BOOLEAN /\ pc \in {"scan", "watch", "run"}
  /\ notes \in Seq(Paths) /\ Len(notes) <= MaxNotes /\ buf \in Seq(Paths)

\* The slots.
TableOK ==
  /\ slots \in [InputSlots -> [path : Paths, alive : BOOLEAN] \cup {FreeSlot}]
  /\ \A i, j \in InputSlots : slots[i].alive /\ slots[i] = slots[j] => i = j
  /\ \A i \in InputSlots : slots[i].alive => node[slots[i].path] = "input"

\* What each stage of the start has left behind.
StageInv ==
  /\ pc # "scan" => toscan = {}
  /\ watched => pc = "run"
  /\ pc # "run" => notes = <<>> /\ buf = <<>>

\* The directory names each device once.
ScanInv == \A i \in InputSlots : slots[i].path \notin toscan

\* A device that is not open is still to come, announced, or excused.
NoticedInv ==
  \A p \in Paths :
    node[p] = "input" => \/ IsOpen(p) \/ p \in excused \/ p \in toscan
                         \/ In(p, notes) \/ In(p, buf)

HotPlugInv == DataOK /\ TableOK /\ StageInv /\ ScanInv /\ NoticedInv
-----------------------------------------------------------------------------
(* Sequences and numbers. *)
LEMMA InAppend ==
  ASSUME NEW s \in Seq(Paths), NEW q \in Paths
  PROVE  /\ In(q, Append(s, q))
         /\ \A p : In(p, s) => In(p, Append(s, q))
  BY DEF In

LEMMA InTail ==
  ASSUME NEW s \in Seq(Paths), s # <<>>
  PROVE  \A p : In(p, s) => p = Head(s) \/ In(p, Tail(s))
<1> TAKE p
<1> HAVE In(p, s)
<1>1. PICK k \in 1 .. Len(s) : s[k] = p
  BY DEF In
<1>2. CASE k = 1
  BY <1>1, <1>2
<1>3. CASE k # 1
  <2>1. k - 1 \in 1 .. Len(Tail(s)) /\ Tail(s)[k - 1] = p
    BY <1>1, <1>3
  <2> QED
    BY <2>1 DEF In
<1> QED
  BY <1>2, <1>3

LEMMA InEmpty == \A p : ~In(p, <<>>)
  BY DEF In

\* The loop of input_slots_add finds a slot if there is one.
LEMMA LowestExists == ASSUME NEW S \in SUBSET Nat, S # {} PROVE Lowest(S) \in S
<1> DEFINE R == OpToRel(<, Nat)
<1>1. IsWellFoundedOn(R, Nat)
  BY NatLessThanWellFounded
<1>2. \A x, y \in Nat : y < x => <<y, x>> \in R
  BY DEF OpToRel
<1> HIDE DEF R
<1>3. PICK x \in S : \A y \in S : <<y, x>> \notin R
  BY <1>1, WFMin
<1>4. \A y \in S : ~(y < x)
  BY <1>2, <1>3
<1>5. \A y \in S : x <= y
  BY <1>4
<1> QED
  BY <1>5 DEF Lowest
-----------------------------------------------------------------------------
LEMMA NotifyType ==
  ASSUME DataOK, NEW p \in Paths, Notify(p), Len(notes) < MaxNotes
  PROVE  notes' \in Seq(Paths) /\ Len(notes') <= MaxNotes
<1>1. notes \in Seq(Paths) /\ Len(notes) <= MaxNotes
  BY DEF DataOK
<1>2. CASE notes' = notes
  BY <1>1, <1>2
<1>3. CASE notes' = Append(notes, p)
  BY <1>1, <1>3, InputsAssumption
<1> QED
  BY <1>2, <1>3 DEF Notify

LEMMA FreeIsDead == ~FreeSlot.alive
  BY DEF FreeSlot

LEMMA AliveSlot ==
  ASSUME TableOK, NEW i \in InputSlots, slots[i].alive
  PROVE  slots[i].path \in Paths /\ node[slots[i].path] = "input"
<1>1. slots[i] # FreeSlot
  BY FreeIsDead
<1>2. slots[i] \in [path : Paths, alive : BOOLEAN]
  BY <1>1 DEF TableOK
<1> QED
  BY <1>2 DEF TableOK

(* What classify_and_open_input and input_slots_add do to the table. *)
LEMMA OpeningInput ==
  ASSUME DataOK, TableOK, NEW p \in Paths, OpenAndAdd(p),
         \A i \in InputSlots : slots[i].path # p, UNCHANGED node
  PROVE  /\ TableOK'
         /\ excused' \subseteq Paths
         /\ \A i \in InputSlots : slots'[i].path \in {slots[i].path, p}
         /\ \A q \in Paths : IsOpen(q) => IsOpen(q)'
         /\ \A q \in Paths : q \in excused => q \in excused' \/ IsOpen(q)'
         /\ node[p] = "input" => IsOpen(p)' \/ p \in excused'
<1>1. CASE node[p] # "input"
  <2>1. UNCHANGED <<slots, excused>>
    BY <1>1 DEF OpenAndAdd
  <2> QED
    BY <1>1, <2>1 DEF TableOK, DataOK, IsOpen
<1>2. CASE node[p] = "input" /\ excused' = excused \cup {p} /\ UNCHANGED slots
  BY <1>2 DEF TableOK, DataOK, IsOpen
<1>3. CASE /\ node[p] = "input" /\ FreeInputs # {}
           /\ slots' = [slots EXCEPT ![Lowest(FreeInputs)] = [path |-> p, alive |-> TRUE]]
           /\ excused' = excused \ {p}
  <2> DEFINE k == Lowest(FreeInputs)
  <2>1. k \in FreeInputs
    <3>1. FreeInputs \in SUBSET Nat
      BY InputsAssumption DEF FreeInputs, InputSlots
    <3> QED
      BY <1>3, <3>1, LowestExists
  <2> HIDE DEF k
  <2>2. k \in InputSlots /\ slots[k] = FreeSlot
    BY <2>1 DEF FreeInputs, Used
  <2>3. /\ slots' = [slots EXCEPT ![k] = [path |-> p, alive |-> TRUE]]
        /\ excused' = excused \ {p}
    BY <1>3 DEF k
  <2>4. /\ slots'[k] = [path |-> p, alive |-> TRUE]
        /\ \A i \in InputSlots \ {k} : slots'[i] = slots[i]
    BY <2>2, <2>3 DEF TableOK
  <2>5. slots' \in [InputSlots -> [path : Paths, alive : BOOLEAN] \cup {FreeSlot}]
    BY <2>3 DEF TableOK
  <2>6. \A i, j \in InputSlots : slots'[i].alive /\ slots'[i] = slots'[j] => i = j
    <3> SUFFICES ASSUME NEW i \in InputSlots, NEW j \in InputSlots, slots'[i].alive,
                        slots'[i] = slots'[j]
                 PROVE  i = j
      OBVIOUS
    <3>1. i = k <=> j = k
      BY <2>4
    <3> QED
      BY <2>4, <3>1 DEF TableOK
  <2>7. \A i \in InputSlots : slots'[i].alive => node'[slots'[i].path] = "input"
    BY <1>3, <2>4 DEF TableOK
  <2>8. IsOpen(p)'
    BY <2>2, <2>4 DEF IsOpen, InputSlots
  <2>9. \A q \in Paths : IsOpen(q) => IsOpen(q)'
    <3> SUFFICES ASSUME NEW q \in Paths, IsOpen(q) PROVE IsOpen(q)'
      OBVIOUS
    <3>1. PICK i \in InputSlots : slots[i] = [path |-> q, alive |-> TRUE]
      BY DEF IsOpen
    <3>2. i # k
      <4>1. slots[i].alive /\ ~slots[k].alive
        BY <2>2, <3>1, FreeIsDead
      <4> QED
        BY <4>1
    <3>3. i \in InputSlots' /\ slots'[i] = [path |-> q, alive |-> TRUE]
      BY <2>4, <3>1, <3>2 DEF InputSlots
    <3> QED
      BY <3>3 DEF IsOpen
  <2> QED
    BY <2>2, <2>3, <2>4, <2>5, <2>6, <2>7, <2>8, <2>9 DEF TableOK, DataOK
<1> QED
  BY <1>1, <1>2, <1>3 DEF OpenAndAdd
-----------------------------------------------------------------------------
(* Each action keeps the invariant. *)
LEMMA InitHotPlugInv == HotPlugInit => HotPlugInv
<1> SUFFICES ASSUME HotPlugInit PROVE HotPlugInv
  OBVIOUS
<1>1. DataOK
  <2>1. <<>> \in Seq(Paths) /\ Len(<<>>) <= MaxNotes
    BY InputsAssumption
  <2>2. toscan \subseteq Paths
    BY DEF HotPlugInit
  <2> QED
    BY <2>1, <2>2 DEF HotPlugInit, DataOK
<1>2. TableOK
  BY DEF HotPlugInit, TableOK, FreeSlot
<1>3. StageInv /\ NoticedInv
  BY DEF HotPlugInit, StageInv, NoticedInv
<1>4. ScanInv
  BY PathsAssumption DEF HotPlugInit, ScanInv, FreeSlot
<1> QED
  BY <1>1, <1>2, <1>3, <1>4 DEF HotPlugInv

LEMMA CreateStep ==
  ASSUME HotPlugInv, NEW p \in Paths, NEW kind \in {"input", "other"}, Create(p, kind)
  PROVE  HotPlugInv'
<1> USE DEF Create, kernelVars
<1>1. DataOK'
  <2>1. notes' \in Seq(Paths) /\ Len(notes') <= MaxNotes
    BY NotifyType DEF HotPlugInv
  <2> QED
    BY <2>1 DEF HotPlugInv, DataOK
<1>2. TableOK'
  BY DEF HotPlugInv, DataOK, TableOK, InputSlots
<1>3. StageInv' /\ ScanInv'
  BY DEF HotPlugInv, StageInv, ScanInv, Notify, InputSlots
<1>4. NoticedInv'
  <2> SUFFICES ASSUME NEW q \in Paths, node'[q] = "input"
               PROVE  \/ IsOpen(q)' \/ q \in excused' \/ q \in toscan'
                      \/ In(q, notes') \/ In(q, buf')
    BY DEF NoticedInv, In
  <2>1. notes \in Seq(Paths)
    BY DEF HotPlugInv, DataOK
  <2>2. CASE q # p
    <3>1. node[q] = "input"
      BY <2>2 DEF HotPlugInv, DataOK
    <3>2. IsOpen(q) => IsOpen(q)'
      BY DEF IsOpen, InputSlots
    <3>3. In(q, notes) => In(q, notes')
      BY <2>1, InAppend DEF Notify
    <3>4. q \in excused => q \in excused'
      OBVIOUS
    <3> QED
      BY <3>1, <3>2, <3>3, <3>4 DEF HotPlugInv, NoticedInv
  <2>3. CASE q = p /\ ~watched
    <3> kind = "input"
      BY <2>3 DEF HotPlugInv, DataOK
    <3> QED
      BY <2>3
  <2>4. CASE q = p /\ watched
    <3> notes' = Append(notes, p)
      BY <2>4 DEF Notify
    <3> QED
      BY <2>1, <2>4, InAppend
  <2> QED
    BY <2>2, <2>3, <2>4
<1> QED
  BY <1>1, <1>2, <1>3, <1>4 DEF HotPlugInv

LEMMA AttribStep ==
  ASSUME HotPlugInv, NEW p \in Paths, Attrib(p)
  PROVE  HotPlugInv'
<1> USE DEF Attrib
<1>1. DataOK'
  <2>1. notes' \in Seq(Paths) /\ Len(notes') <= MaxNotes
    BY NotifyType DEF HotPlugInv
  <2> QED
    BY <2>1 DEF HotPlugInv, DataOK
<1>2. TableOK'
  BY DEF HotPlugInv, TableOK, InputSlots
<1>3. StageInv' /\ ScanInv'
  BY DEF HotPlugInv, StageInv, ScanInv, Notify, InputSlots
<1>4. NoticedInv'
  <2> SUFFICES ASSUME NEW q \in Paths, In(q, notes) PROVE In(q, notes')
    BY DEF HotPlugInv, NoticedInv, IsOpen, InputSlots, In
  <2> QED
    BY InAppend DEF HotPlugInv, DataOK, Notify
<1> QED
  BY <1>1, <1>2, <1>3, <1>4 DEF HotPlugInv

LEMMA UnplugStep ==
  ASSUME HotPlugInv, NEW p \in Paths, Unplug(p)
  PROVE  HotPlugInv'
<1> USE DEF Unplug
<1>1. DataOK'
  BY DEF HotPlugInv, DataOK
<1>2. \A i \in InputSlots :
        /\ slots[i].path = p => slots'[i] = [path |-> p, alive |-> FALSE]
        /\ slots[i].path # p => slots'[i] = slots[i]
  BY DEF HotPlugInv, TableOK
<1>3. TableOK'
  <2>1. slots' \in [InputSlots -> [path : Paths, alive : BOOLEAN] \cup {FreeSlot}]
    BY DEF HotPlugInv, TableOK
  <2>2. \A i, j \in InputSlots : slots'[i].alive /\ slots'[i] = slots'[j] => i = j
    <3> SUFFICES ASSUME NEW i \in InputSlots, NEW j \in InputSlots, slots'[i].alive,
                        slots'[i] = slots'[j]
                 PROVE  i = j
      OBVIOUS
    <3>1. slots'[i] = slots[i] /\ slots'[j] = slots[j]
      BY <1>2
    <3> QED
      BY <3>1 DEF HotPlugInv, TableOK
  <2>3. \A i \in InputSlots : slots'[i].alive => node'[slots'[i].path] = "input"
    <3> SUFFICES ASSUME NEW i \in InputSlots, slots'[i].alive
                 PROVE  node'[slots'[i].path] = "input"
      OBVIOUS
    <3>1. slots'[i] = slots[i] /\ slots[i].path # p
      BY <1>2
    <3>2. slots[i].path \in Paths /\ node[slots[i].path] = "input"
      BY <3>1, AliveSlot DEF HotPlugInv
    <3> QED
      BY <3>1, <3>2 DEF HotPlugInv, DataOK
  <2> QED
    BY <2>1, <2>2, <2>3 DEF TableOK, InputSlots, FreeSlot
<1>4. StageInv' /\ ScanInv'
  BY <1>2 DEF HotPlugInv, StageInv, ScanInv, InputSlots
<1>5. NoticedInv'
  <2> SUFFICES ASSUME NEW q \in Paths, node'[q] = "input"
               PROVE  \/ IsOpen(q)' \/ q \in excused' \/ q \in toscan'
                      \/ In(q, notes') \/ In(q, buf')
    BY DEF NoticedInv, In
  <2>1. q # p /\ node[q] = "input"
    BY DEF HotPlugInv, DataOK
  <2>2. IsOpen(q) => IsOpen(q)'
    <3> SUFFICES ASSUME IsOpen(q) PROVE IsOpen(q)'
      OBVIOUS
    <3>1. PICK i \in InputSlots : slots[i] = [path |-> q, alive |-> TRUE]
      BY DEF IsOpen
    <3>2. i \in InputSlots' /\ slots'[i] = [path |-> q, alive |-> TRUE]
      BY <1>2, <2>1, <3>1 DEF InputSlots
    <3> QED
      BY <3>2 DEF IsOpen
  <2>3. q \in excused => q \in excused'
    BY <2>1
  <2> QED
    BY <2>1, <2>2, <2>3 DEF HotPlugInv, NoticedInv
<1> QED
  BY <1>1, <1>3, <1>4, <1>5 DEF HotPlugInv

LEMMA ScanOneStep ==
  ASSUME HotPlugInv, NEW p \in Paths, ScanOne(p)
  PROVE  HotPlugInv'
<1> USE DEF ScanOne, kernelVars
<1>1. \A i \in InputSlots : slots[i].path # p
  BY DEF HotPlugInv, ScanInv
<1>2. /\ TableOK'
      /\ excused' \subseteq Paths
      /\ \A i \in InputSlots : slots'[i].path \in {slots[i].path, p}
      /\ \A q \in Paths : IsOpen(q) => IsOpen(q)'
      /\ \A q \in Paths : q \in excused => q \in excused' \/ IsOpen(q)'
      /\ node[p] = "input" => IsOpen(p)' \/ p \in excused'
  BY <1>1, OpeningInput DEF HotPlugInv
<1>3. DataOK'
  BY <1>2 DEF HotPlugInv, DataOK
<1>4. StageInv'
  BY DEF HotPlugInv, StageInv
<1>5. ScanInv'
  BY <1>2 DEF HotPlugInv, ScanInv, InputSlots
<1>6. NoticedInv'
  <2> SUFFICES ASSUME NEW q \in Paths, node'[q] = "input"
               PROVE  \/ IsOpen(q)' \/ q \in excused' \/ q \in toscan'
                      \/ In(q, notes') \/ In(q, buf')
    BY DEF NoticedInv, In
  <2> QED
    BY <1>2 DEF HotPlugInv, NoticedInv
<1> QED
  BY <1>2, <1>3, <1>4, <1>5, <1>6 DEF HotPlugInv

LEMMA ScanEndStep == HotPlugInv /\ ScanEnd => HotPlugInv'
<1> SUFFICES ASSUME HotPlugInv, ScanEnd PROVE HotPlugInv'
  OBVIOUS
<1> USE DEF ScanEnd, kernelVars
<1>1. DataOK' /\ StageInv' /\ ScanInv'
  BY DEF HotPlugInv, DataOK, StageInv, ScanInv
<1>2. TableOK'
  BY DEF HotPlugInv, TableOK, InputSlots
<1>3. NoticedInv'
  <2> SUFFICES ASSUME NEW q \in Paths, node[q] = "input", q \in toscan
               PROVE  q \in excused'
    BY DEF HotPlugInv, NoticedInv, IsOpen, InputSlots, In
  <2> QED
    OBVIOUS
<1> QED
  BY <1>1, <1>2, <1>3 DEF HotPlugInv

LEMMA HandleNoteStep == HotPlugInv /\ HandleNote => HotPlugInv'
<1> SUFFICES ASSUME HotPlugInv, HandleNote PROVE HotPlugInv'
  OBVIOUS
<1>0. PICK p : p = Head(buf)
  OBVIOUS
<1>1. /\ p \in Paths /\ buf' \in Seq(Paths) /\ buf # <<>>
      /\ UNCHANGED <<node, owed, watched, notes, pc, toscan>>
  BY <1>0 DEF HotPlugInv, DataOK, HandleNote, kernelVars
<1>2. \A q : In(q, buf) => q = p \/ In(q, buf')
  BY <1>0, <1>1, InTail DEF HotPlugInv, DataOK, HandleNote
<1>3. pc = "run" /\ toscan = {}
  BY <1>1 DEF HotPlugInv, StageInv
<1>4. StageInv'
  BY <1>1, <1>3 DEF HotPlugInv, StageInv
<1>5. ScanInv'
  BY <1>1, <1>3 DEF ScanInv
<1>6. /\ TableOK'
      /\ excused' \subseteq Paths
      /\ \A q \in Paths : IsOpen(q) => IsOpen(q)'
      /\ \A q \in Paths : q \in excused => q \in excused' \/ IsOpen(q)'
      /\ node[p] = "input" => IsOpen(p)' \/ p \in excused'
  <2>1. CASE FindPath(p)
    <3>1. /\ UNCHANGED slots
          /\ excused' = IF node[p] = "input" /\ ~IsOpen(p)
                           THEN excused \cup {p} ELSE excused
      BY <1>0, <2>1 DEF HandleNote
    <3>2. TableOK'
      BY <1>1, <3>1 DEF HotPlugInv, TableOK, InputSlots, FreeSlot
    <3>3. \A q : IsOpen(q) <=> IsOpen(q)'
      BY <3>1 DEF IsOpen, InputSlots
    <3>4. excused \subseteq Paths
      BY DEF HotPlugInv, DataOK
    <3> QED
      BY <1>1, <3>1, <3>2, <3>3, <3>4
  <2>2. CASE ~FindPath(p)
    <3>1. OpenAndAdd(p) /\ UNCHANGED node
      BY <1>0, <1>1, <2>2 DEF HandleNote
    <3>2. ASSUME NEW i \in InputSlots PROVE slots[i].path # p
      <4>1. FreeSlot.path # p
        BY <1>1, PathsAssumption DEF FreeSlot
      <4> QED
        BY <2>2, <4>1 DEF FindPath, Used
    <3>3. DataOK /\ TableOK /\ p \in Paths
      BY <1>1 DEF HotPlugInv
    <3> QED
      BY <3>1, <3>2, <3>3, OpeningInput
  <2> QED
    BY <2>1, <2>2
<1>7. DataOK'
  BY <1>1, <1>6 DEF HotPlugInv, DataOK
<1>8. NoticedInv'
  <2> SUFFICES ASSUME NEW q \in Paths, node'[q] = "input"
               PROVE  \/ IsOpen(q)' \/ q \in excused' \/ q \in toscan'
                      \/ In(q, notes') \/ In(q, buf')
    BY DEF NoticedInv, In
  <2>1. \/ IsOpen(q) \/ q \in excused \/ q \in toscan
        \/ In(q, notes) \/ In(q, buf)
    BY <1>1 DEF HotPlugInv, NoticedInv
  <2> QED
    BY <1>1, <1>2, <1>3, <1>6, <2>1
<1> QED
  BY <1>4, <1>5, <1>6, <1>7, <1>8 DEF HotPlugInv

LEMMA ReapStep ==
  ASSUME HotPlugInv, NEW k \in InputSlots, Reap(k)
  PROVE  HotPlugInv'
<1> USE DEF Reap, kernelVars
<1>1. slots'[k] = FreeSlot /\ \A i \in InputSlots \ {k} : slots'[i] = slots[i]
  BY DEF HotPlugInv, TableOK
<1>2. DataOK' /\ StageInv'
  BY DEF HotPlugInv, DataOK, StageInv
<1>3. TableOK'
  <2>1. slots' \in [InputSlots -> [path : Paths, alive : BOOLEAN] \cup {FreeSlot}]
    BY DEF HotPlugInv, TableOK
  <2>2. \A i \in InputSlots : slots'[i].alive => i # k
    <3>1. ~slots'[k].alive
      BY <1>1, FreeIsDead
    <3> QED
      BY <3>1
  <2>3. \A i, j \in InputSlots : slots'[i].alive /\ slots'[i] = slots'[j] => i = j
    BY <1>1, <2>2 DEF HotPlugInv, TableOK
  <2>4. \A i \in InputSlots : slots'[i].alive => node'[slots'[i].path] = "input"
    BY <1>1, <2>2 DEF HotPlugInv, TableOK
  <2> QED
    BY <2>1, <2>3, <2>4 DEF TableOK, InputSlots, FreeSlot
<1>4. ScanInv'
  BY DEF HotPlugInv, StageInv, ScanInv
<1>5. NoticedInv'
  <2> SUFFICES ASSUME NEW q \in Paths, IsOpen(q) PROVE IsOpen(q)'
    BY DEF HotPlugInv, NoticedInv, In
  <2>1. PICK i \in InputSlots : slots[i] = [path |-> q, alive |-> TRUE]
    BY DEF IsOpen
  <2>2. i \in InputSlots' /\ slots'[i] = [path |-> q, alive |-> TRUE]
    BY <1>1, <2>1 DEF InputSlots
  <2> QED
    BY <2>2 DEF IsOpen
<1> QED
  BY <1>2, <1>3, <1>4, <1>5 DEF HotPlugInv
-----------------------------------------------------------------------------
(* The theorems. *)
LEMMA NextHotPlugInv == HotPlugInv /\ [HotPlugNext]_hotplugVars => HotPlugInv'
<1> SUFFICES ASSUME HotPlugInv, [HotPlugNext]_hotplugVars PROVE HotPlugInv'
  OBVIOUS
<1>1. CASE World
  <2>1. ASSUME NEW p \in Paths, NEW kind \in {"input", "other"}, Create(p, kind)
        PROVE  HotPlugInv'
    BY <2>1, CreateStep
  <2>2. ASSUME NEW p \in Paths, Attrib(p) \/ Unplug(p) PROVE HotPlugInv'
    BY <2>2, AttribStep, UnplugStep
  <2> QED
    BY <1>1, <2>1, <2>2 DEF World
<1>2. CASE \E p \in Paths : ScanOne(p)
  BY <1>2, ScanOneStep
<1>3. CASE ScanEnd
  BY <1>3, ScanEndStep
<1>4. CASE Watch
  <2> USE <1>4 DEF Watch
  <2>1. DataOK' /\ ScanInv'
    BY DEF HotPlugInv, DataOK, ScanInv, InputSlots
  <2>2. TableOK'
    BY DEF HotPlugInv, TableOK, InputSlots, FreeSlot
  <2>3. StageInv'
    BY DEF HotPlugInv, StageInv
  <2>4. NoticedInv'
    BY DEF HotPlugInv, NoticedInv, IsOpen, InputSlots, In
  <2> QED
    BY <2>1, <2>2, <2>3, <2>4 DEF HotPlugInv
<1>5. CASE ReadNotes
  <2> USE <1>5 DEF ReadNotes
  <2>1. DataOK'
    <3> <<>> \in Seq(Paths) /\ Len(<<>>) <= MaxNotes
      BY InputsAssumption
    <3> QED
      BY DEF HotPlugInv, DataOK
  <2>2. TableOK'
    BY DEF HotPlugInv, TableOK, InputSlots, FreeSlot
  <2>3. StageInv' /\ ScanInv'
    BY DEF HotPlugInv, StageInv, ScanInv, InputSlots
  <2>4. NoticedInv'
    <3>1. \A q : ~In(q, buf)
      BY InEmpty
    <3> QED
      BY <3>1 DEF HotPlugInv, NoticedInv, IsOpen, InputSlots, In
  <2> QED
    BY <2>1, <2>2, <2>3, <2>4 DEF HotPlugInv
<1>6. CASE HandleNote
  BY <1>6, HandleNoteStep
<1>7. CASE \E i \in InputSlots : Reap(i)
  BY <1>7, ReapStep
<1>8. CASE UNCHANGED hotplugVars
  <2> USE <1>8 DEF hotplugVars, kernelVars
  <2>1. DataOK' /\ TableOK'
    BY DEF HotPlugInv, DataOK, TableOK, InputSlots, FreeSlot
  <2>2. StageInv' /\ ScanInv' /\ NoticedInv'
    BY DEF HotPlugInv, StageInv, ScanInv, NoticedInv, IsOpen, InputSlots, In
  <2> QED
    BY <2>1, <2>2 DEF HotPlugInv
<1> QED
  BY <1>1, <1>2, <1>3, <1>4, <1>5, <1>6, <1>7, <1>8 DEF HotPlugNext, StartUp, Loop

(***************************************************************************)
(* The inductive invariant: tables and queues are well formed, the stages  *)
(* of the start leave nothing behind, and a device that is present is      *)
(* open, still to come, announced or excused.                              *)
(***************************************************************************)
THEOREM HotPlugInvariance == HotPlugSafeSpec => []HotPlugInv
  BY InitHotPlugInv, NextHotPlugInv, PTL DEF HotPlugSafeSpec

(***************************************************************************)
(* Every variable keeps its type, no device is open twice, and a slot that *)
(* answers is that of a device that is there.                              *)
(***************************************************************************)
THEOREM OneSlotEach == HotPlugSpec => []HotPlugTypeOK
<1>1. HotPlugInv => HotPlugTypeOK
  BY DEF HotPlugInv, DataOK, TableOK, HotPlugTypeOK
<1> QED
  BY <1>1, HotPlugInvariance, PTL DEF HotPlugSpec

(***************************************************************************)
(* Once everything is handled the open devices are the present keyboards   *)
(* and mice, but for the four accidents.                                   *)
(***************************************************************************)
THEOREM OpenArePresent == HotPlugSpec => []OpenIsPresent
<1>1. HotPlugInv => OpenIsPresent
  <2> SUFFICES ASSUME HotPlugInv, pc = "run", notes = <<>>, buf = <<>>,
                      NEW p \in Paths \ excused
               PROVE  IsOpen(p) <=> node[p] = "input"
    BY DEF OpenIsPresent
  <2>1. IsOpen(p) => node[p] = "input"
    BY DEF HotPlugInv, TableOK, IsOpen
  <2>2. node[p] = "input" => IsOpen(p)
    BY InEmpty DEF HotPlugInv, StageInv, NoticedInv
  <2> QED
    BY <2>1, <2>2
<1> QED
  BY <1>1, HotPlugInvariance, PTL DEF HotPlugSpec
=============================================================================

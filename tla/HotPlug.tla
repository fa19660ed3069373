------------------------------ MODULE HotPlug ------------------------------
(***************************************************************************)
(* Which input devices the daemons have open: the scan at start, the       *)
(* inotify watch on /dev/input and the slot table, in                      *)
(* kbm-mapper-ff/files/main.c and line for line again in                   *)
(* kbm-passthrough/files/main.c.                                           *)
(*                                                                         *)
(* The kernel makes a node when a device is plugged and udev sets its      *)
(* attributes later; each is one inotify event.  When a device leaves, its *)
(* node is gone at once and the descriptor that was open on it answers     *)
(* ENODEV from then on, but its slot is held until the loop reads it; the  *)
(* next device may get the same name before that.                          *)
(***************************************************************************)
EXTENDS Naturals, Sequences

CONSTANTS
  Paths,       \* names under /dev/input
  MaxInputs,   \* MAX_INPUTS
  MaxNotes     \* bound: inotify events not yet read

ASSUME InputsAssumption == MaxInputs \in Nat \ {0} /\ MaxNotes \in Nat \ {0}
ASSUME PathsAssumption == "" \notin Paths

VARIABLES
  node,      \* per name: nothing, a keyboard or mouse, some other device
  owed,      \* nodes udev has not got to yet
  watched,   \* /dev/input is watched
  notes,     \* names in the inotify queue
  pc,        \* scan, watch, run
  toscan,    \* names readdir has still to return
  buf,       \* names read from inotify and not handled yet
  slots,     \* input_slots: the name and whether the device still answers
  excused    \* history: devices the daemon may have failed to notice

kernelVars == <<node, owed, watched, notes>>
hotplugVars == <<kernelVars, pc, toscan, buf, slots, excused>>

InputSlots == 1 .. MaxInputs
FreeSlot == [path |-> "", alive |-> FALSE]

\* readdir returns the names there are, and any of those made while it runs.
HotPlugInit ==
  /\ node \in [Paths -> {"none", "input", "other"}] /\ owed \in SUBSET Paths
  /\ watched = FALSE /\ notes = <<>>
  /\ pc = "scan" /\ buf = <<>>
  /\ toscan \in {S \in SUBSET Paths : \A p \in Paths \ S : node[p] = "none"}
  /\ slots = [i \in InputSlots |-> FreeSlot]
  /\ excused = {}
-----------------------------------------------------------------------------
(* Kernel and udev.                                                        *)

Notify(p) == notes' = IF watched THEN Append(notes, p) ELSE notes

\* A device is plugged.
Create(p, kind) ==
  /\ node[p] = "none" /\ Len(notes) < MaxNotes
  /\ node' = [node EXCEPT ![p] = kind]
  /\ owed' = owed \cup {p}
  /\ Notify(p)
  /\ excused' = IF kind = "input" /\ ~watched THEN excused \cup {p} ELSE excused
  /\ UNCHANGED <<watched, pc, toscan, buf, slots>>

\* udev sets owner and mode.
Attrib(p) ==
  /\ node[p] # "none" /\ p \in owed /\ Len(notes) < MaxNotes
  /\ owed' = owed \ {p}
  /\ Notify(p)
  /\ UNCHANGED <<node, watched, pc, toscan, buf, slots, excused>>

Unplug(p) ==
  /\ node[p] # "none"
  /\ node' = [node EXCEPT ![p] = "none"]
  /\ owed' = owed \ {p}
  /\ slots' = [i \in InputSlots |-> IF slots[i].path = p THEN [path |-> p, alive |-> FALSE]
                               ELSE slots[i]]
  /\ excused' = excused \ {p}
  /\ UNCHANGED <<watched, notes, pc, toscan, buf>>
-----------------------------------------------------------------------------
(* The daemon.                                                             *)

Used(i) == slots[i] # FreeSlot
FreeInputs == {i \in InputSlots : ~Used(i)}
Lowest(S) == CHOOSE i \in S : \A j \in S : i <= j

IsOpen(p) == \E i \in InputSlots : slots[i] = [path |-> p, alive |-> TRUE]

\* input_slots_find_path: a slot counts until it is freed.
FindPath(p) == \E i \in InputSlots : Used(i) /\ slots[i].path = p

\* Variant of OpenAndAdd: with the table full the first slot is taken over.
OpenAndEvict(p) ==
  LET i == IF FreeInputs = {} THEN 1 ELSE Lowest(FreeInputs) IN
  IF node[p] # "input" THEN UNCHANGED <<slots, excused>>
  ELSE /\ slots' = [slots EXCEPT ![i] = [path |-> p, alive |-> TRUE]]
       /\ excused' = excused \ {p}

\* classify_and_open_input and input_slots_add: open may fail, and then the next
\* event of the same name is the next attempt; a full table loses the device.
OpenAndAdd(p) ==
  IF node[p] # "input" THEN UNCHANGED <<slots, excused>>
  ELSE \/ excused' = excused \cup {p} /\ UNCHANGED slots
       \/ /\ FreeInputs # {}
          /\ slots' = [slots EXCEPT ![Lowest(FreeInputs)] = [path |-> p, alive |-> TRUE]]
          /\ excused' = excused \ {p}

\* scan_inputs: one turn of the readdir loop, in the order of the directory.
ScanOne(p) ==
  /\ pc = "scan" /\ p \in toscan /\ FreeInputs # {}
  /\ toscan' = toscan \ {p}
  /\ OpenAndAdd(p)
  /\ UNCHANGED <<kernelVars, pc, buf>>

\* The loop ends with the directory, or with the table full.
ScanEnd ==
  /\ pc = "scan"
  /\ toscan = {} \/ FreeInputs = {}
  /\ pc' = "watch" /\ toscan' = {}
  /\ excused' = excused \cup {p \in toscan : node[p] = "input"}
  /\ UNCHANGED <<kernelVars, buf, slots>>

\* open_inotify, which may fail: the daemon runs on without it.
Watch ==
  /\ pc = "watch"
  /\ pc' = "run" /\ watched' \in BOOLEAN
  /\ UNCHANGED <<node, owed, notes, toscan, buf, slots, excused>>

\* The inotify descriptor is readable: all events that fit are read at once.
ReadNotes ==
  /\ pc = "run" /\ buf = <<>> /\ notes # <<>>
  /\ buf' = notes /\ notes' = <<>>
  /\ UNCHANGED <<node, owed, watched, pc, toscan, slots, excused>>

\* Variant of HandleNote: a name that is in the table is not stepped over.
HandleNoteStuck ==
  /\ buf # <<>>
  /\ ~FindPath(Head(buf))
  /\ buf' = Tail(buf)
  /\ OpenAndAdd(Head(buf))
  /\ UNCHANGED <<kernelVars, pc, toscan>>

\* One event: a name that is in the table already is left alone.
HandleNote ==
  /\ buf # <<>>
  /\ buf' = Tail(buf)
  /\ LET p == Head(buf) IN
       IF FindPath(p)
         THEN /\ excused' = IF node[p] = "input" /\ ~IsOpen(p)
                              THEN excused \cup {p} ELSE excused
              /\ UNCHANGED slots
         ELSE OpenAndAdd(p)
  /\ UNCHANGED <<kernelVars, pc, toscan>>

\* The input branch of the loop finds ENODEV: the slot is freed.
Reap(i) ==
  /\ pc = "run" /\ buf = <<>>
  /\ Used(i) /\ ~slots[i].alive
  /\ slots' = [slots EXCEPT ![i] = FreeSlot]
  /\ UNCHANGED <<kernelVars, pc, toscan, buf, excused>>

World  == \E p \in Paths : \/ \E kind \in {"input", "other"} : Create(p, kind)
                           \/ Attrib(p) \/ Unplug(p)
StartUp == (\E p \in Paths : ScanOne(p)) \/ ScanEnd \/ Watch
Loop   == ReadNotes \/ HandleNote \/ (\E i \in InputSlots : Reap(i))

HotPlugNext == World \/ StartUp \/ Loop

\* epoll_wait returns as long as a descriptor is ready, and the loop goes on
\* with what it returned: nothing is asked about the order.
HotPlugFairness == WF_hotplugVars(StartUp \/ Loop)

HotPlugSafeSpec == HotPlugInit /\ [][HotPlugNext]_hotplugVars
HotPlugSpec == HotPlugSafeSpec /\ HotPlugFairness
-----------------------------------------------------------------------------
(* Properties.                                                             *)

\* Type invariant.  No device is in two slots, which would read each event
\* once and deliver half of them to each, and a slot that still answers is that
\* of a device that is there.
HotPlugTypeOK ==
  /\ node \in [Paths -> {"none", "input", "other"}]
  /\ owed \subseteq Paths /\ excused \subseteq Paths /\ toscan \subseteq Paths
  /\ watched \in BOOLEAN /\ pc \in {"scan", "watch", "run"}
  /\ notes \in Seq(Paths) /\ Len(notes) <= MaxNotes /\ buf \in Seq(Paths)
  /\ slots \in [InputSlots -> [path : Paths, alive : BOOLEAN] \cup {FreeSlot}]
  /\ \A i, j \in InputSlots : slots[i].alive /\ slots[i] = slots[j] => i = j
  /\ \A i \in InputSlots : slots[i].alive => node[slots[i].path] = "input"

\* Once the daemon has nothing left to do, the open devices are the present
\* keyboards and mice, but for four accidents: plugged while /dev/input was not
\* watched, which is while the daemon starts or for ever; plugged under the name
\* of one whose slot was not freed yet; plugged when the table was full; and not
\* openable at the last event that named it.
OpenIsPresent ==
  pc = "run" /\ notes = <<>> /\ buf = <<>> =>
    \A p \in Paths \ excused : IsOpen(p) <=> node[p] = "input"

\* No device stays plugged for ever without being open, unless it met one of
\* the accidents: what is plugged is opened in the end, or it leaves again.
PluggedIsOpened ==
  \A p \in Paths : []<>(node[p] = "input" => IsOpen(p) \/ p \in excused)
=============================================================================

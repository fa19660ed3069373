---------------------------- MODULE Passthrough ----------------------------
(***************************************************************************)
(* kbm-passthrough: evdev events out again as boot keyboard and mouse      *)
(* reports (kbm-passthrough/files/main.c).                                 *)
(*                                                                         *)
(* One thread drains the evdev buffers, keeps the state of one keyboard    *)
(* (modifiers and KBD_KEYS_MAX key slots) and one mouse (buttons and       *)
(* motion not yet sent), and writes reports to two hidg devices opened     *)
(* O_NONBLOCK.  A hidg device holds one report until the host polls it: a  *)
(* write that finds it occupied, or the gadget not configured, fails and   *)
(* the report is gone.  An all-zero report is sent at start and at exit.   *)
(*                                                                         *)
(* The history variables record what was read and what was thrown away;    *)
(* nothing else reads them.  The drain loop also feeds the mode-toggle     *)
(* chord, module Hotkey.                                                   *)
(***************************************************************************)
EXTENDS Hotkey, Functions

CONSTANTS
  Devices,       \* keyboards and mice
  Modifiers,     \* key codes with a modifier bit
  Usages,        \* key codes with a HID usage
  Buttons,       \* the three mouse buttons of the report
  Switches,      \* which code is on which device
  Chord,         \* hotkey.codes, loaded once at start
  KeysMax,       \* KBD_KEYS_MAX
  Deltas,        \* amounts of motion (one axis stands for three)
  Idle,          \* a hidg device that holds no report
  Clamp,         \* largest motion of a report, 127
  MaxQueue,      \* bound: the size of the evdev client buffer of each device
  MaxMotion      \* bound: motion in one run

Codes == Modifiers \cup Usages \cup Buttons

\* A code is looked up as a modifier, then as a key, then as a button.
ASSUME CodesAssumption ==
  /\ Modifiers \cap Usages = {} /\ Buttons \cap (Modifiers \cup Usages) = {}
  /\ "empty" \notin Usages /\ "nobody" \notin Devices /\ IsFiniteSet(Devices)
ASSUME IdleAssumption ==
  /\ Idle \notin [mods : SUBSET Modifiers, keys : [1 .. KeysMax -> Usages \cup {"empty"}]]
  /\ Idle \notin [buttons : SUBSET Buttons, motion : Nat]
ASSUME SwitchesAssumption == Switches \subseteq Devices \X Codes
ASSUME ChordAssumption == Chord \in Seq(Codes)
ASSUME BoundsAssumption ==
  /\ KeysMax \in Nat \ {0} /\ Clamp \in Nat \ {0} /\ MaxMotion \in Nat
  /\ Deltas \subseteq Nat \ {0}
  /\ MaxQueue \in [Devices -> Nat \ {0}]

VARIABLES
  held,        \* switches under a finger
  status,      \* per device: plugged, gone (the daemon still has it), absent
  queue,       \* events in the evdev buffer of each device
  moved,       \* history: motion made so far
  pc,          \* start, run, exit
  draining,    \* the device being drained, or none
  dirty,       \* kbd_dirty
  mods,        \* kbd.modifiers
  slots,       \* kbd.keys
  buttons,     \* mouse.buttons
  pending,     \* mouse.pending_dx and its kin
  configured,  \* the host has configured the gadget
  kbdBusy,     \* report held by hidg0, if any
  mouseBusy,   \* report held by hidg1, if any
  host,        \* what the host makes of the reports: keys, buttons, motion
  kbdLate,     \* history: the host missed a keyboard report it has not made up
  mouseLate,   \* history: the same for the mouse
  lost,        \* history: motion read and never to be delivered
  readDown,    \* history: codes whose last event read was a press
  rolled       \* history: those of them that found no free slot

fingerVars == <<held, status, queue, moved>>
loopVars   == <<pc, draining, dirty>>
kbdVars    == <<mods, slots>>
mouseVars  == <<buttons, pending>>
kbdOut     == <<kbdBusy, kbdLate>>
mouseOut   == <<mouseBusy, mouseLate>>
usbVars    == <<configured, host, lost>>
history    == <<readDown, rolled>>
vars == <<fingerVars, loopVars, kbdVars, mouseVars, kbdOut, mouseOut, usbVars,
          history, hotkeyVars>>

Empty == "empty"
Nobody == "nobody"

Slots == 1 .. KeysMax
NoKeys == [mods |-> {}, keys |-> [i \in Slots |-> Empty]]
Keyboard == [mods |-> mods, keys |-> slots]

\* Fingers may rest on keys whose press came before the devices were opened:
\* those of the chord that switched to this mode.
Init ==
  /\ held \in SUBSET Switches /\ readDown = {} /\ rolled = {}
  /\ status = [d \in Devices |-> "plugged"]
  /\ queue = [d \in Devices |-> <<>>] /\ moved = 0
  /\ pc = "start" /\ draining = Nobody /\ dirty = FALSE
  /\ mods = {} /\ slots = NoKeys.keys
  /\ buttons = {} /\ pending = 0
  /\ configured \in BOOLEAN /\ kbdBusy = Idle /\ mouseBusy = Idle
  /\ host = [kbd |-> NoKeys, buttons |-> {}, motion |-> 0] /\ lost = 0
  /\ kbdLate = FALSE /\ mouseLate = FALSE
  /\ HotkeyInit
-----------------------------------------------------------------------------
(* Fingers and kernel.                                                     *)

Key(c, v) == [type |-> "key", code |-> c, value |-> v]
Rel(n)    == [type |-> "rel", value |-> n]
Syn       == [type |-> "syn"]

\* A full buffer is thrown away but for the newest event; the SYN_DROPPED put
\* before it is not a SYN_REPORT and goes unnoticed.
Push(d, q, e) == IF Len(q) = MaxQueue[d] THEN <<e>> ELSE Append(q, e)
PushFrame(d, e) == Push(d, Push(d, queue[d], e), Syn)

\* Motion in a buffer.
Motion(q) ==
  FoldFunctionOnSet(+, 0, [i \in DOMAIN q |-> IF q[i].type = "rel" THEN q[i].value ELSE 0],
                    DOMAIN q)

KeyEvent(s, v) ==
  LET d == s[1] q == PushFrame(d, Key(s[2], v)) IN
  /\ pc = "run" /\ status[d] = "plugged"
  /\ held' = IF v = 0 THEN held \ {s} ELSE held \cup {s}
  /\ queue' = [queue EXCEPT ![d] = q]
  /\ lost' = lost + Motion(queue[d]) - Motion(q)
  /\ UNCHANGED <<status, moved, loopVars, kbdVars, mouseVars, kbdOut, mouseOut,
                 configured, host, history, hotkeyVars>>

Press(s)   == s \notin held /\ KeyEvent(s, 1)
Release(s) == s \in held /\ KeyEvent(s, 0)
Repeat(s)  == s \in held /\ s[2] \notin Buttons /\ KeyEvent(s, 2)

Move(d, n) ==
  LET q == PushFrame(d, Rel(n)) IN
  /\ pc = "run" /\ status[d] = "plugged"
  /\ moved + n <= MaxMotion
  /\ moved' = moved + n
  /\ queue' = [queue EXCEPT ![d] = q]
  /\ lost' = lost + n + Motion(queue[d]) - Motion(q)
  /\ UNCHANGED <<held, status, loopVars, kbdVars, mouseVars, kbdOut, mouseOut,
                 configured, host, history, hotkeyVars>>

\* What was queued is lost, and the releases of the keys that were down.
Unplug(d) ==
  /\ pc = "run" /\ status[d] = "plugged"
  /\ status' = [status EXCEPT ![d] = "gone"]
  /\ queue' = [queue EXCEPT ![d] = <<>>]
  /\ held' = {s \in held : s[1] # d}
  /\ lost' = lost + Motion(queue[d])
  /\ UNCHANGED <<moved, loopVars, kbdVars, mouseVars, kbdOut, mouseOut,
                 configured, host, history, hotkeyVars>>

Plug(d) ==
  /\ pc = "run" /\ status[d] = "absent"
  /\ status' = [status EXCEPT ![d] = "plugged"]
  /\ UNCHANGED <<held, queue, moved, loopVars, kbdVars, mouseVars, kbdOut,
                 mouseOut, usbVars, history, hotkeyVars>>

Clock ==
  /\ SecondPasses
  /\ UNCHANGED <<fingerVars, loopVars, kbdVars, mouseVars, kbdOut, mouseOut,
                 usbVars, history>>
-----------------------------------------------------------------------------
(* Writes to hidg.                                                         *)

\* kbd_write_report: EAGAIN and the rest are ignored.
WriteKbd(r) ==
  IF configured /\ kbdBusy = Idle
    THEN kbdBusy' = r /\ kbdLate' = FALSE
    ELSE kbdBusy' = kbdBusy /\ kbdLate' = TRUE

WriteMouse(r) ==
  IF configured /\ mouseBusy = Idle
    THEN mouseBusy' = r /\ mouseLate' = FALSE
    ELSE mouseBusy' = mouseBusy /\ mouseLate' = TRUE

\* Variant of Flush: the motion is kept when the report finds no room.
FlushRetry(b) ==
  LET x == Min({pending, Clamp}) IN
  /\ WriteMouse([buttons |-> b, motion |-> x])
  /\ pending' = IF configured /\ mouseBusy = Idle THEN 0 ELSE pending
  /\ lost' = lost + pending - (IF configured /\ mouseBusy = Idle THEN x ELSE 0)

\* mouse_flush: what does not fit the report, or finds no room at all, is
\* dropped.
Flush(b) ==
  LET x == Min({pending, Clamp}) IN
  /\ WriteMouse([buttons |-> b, motion |-> x])
  /\ pending' = 0
  /\ lost' = lost + pending - (IF configured /\ mouseBusy = Idle THEN x ELSE 0)
-----------------------------------------------------------------------------
(* The daemon.                                                             *)

\* Clean baseline, then the devices are opened.
Start ==
  /\ pc = "start" /\ pc' = "run"
  /\ WriteKbd(NoKeys)
  /\ WriteMouse([buttons |-> {}, motion |-> 0])
  /\ UNCHANGED <<fingerVars, draining, dirty, kbdVars, mouseVars,
                 usbVars, history, hotkeyVars>>

StartDrain(d) ==
  /\ pc = "run" /\ draining = Nobody
  /\ queue[d] # <<>> \/ status[d] = "gone"
  /\ draining' = d /\ dirty' = FALSE
  /\ UNCHANGED <<fingerVars, pc, kbdVars, mouseVars, kbdOut, mouseOut,
                 usbVars, history, hotkeyVars>>

Free == {i \in Slots : slots[i] = Empty}
At(u) == {i \in Slots : slots[i] = u}

\* Variant of KbdPress: a usage that is down already takes a second slot.
KbdPressTwice(u) ==
  slots' = IF Free # {} THEN [slots EXCEPT ![Min(Free)] = u] ELSE slots

\* kbd_press: nothing happens when all slots are taken (roll-over).
KbdPress(u) ==
  slots' = IF At(u) = {} /\ Free # {} THEN [slots EXCEPT ![Min(Free)] = u]
           ELSE slots

\* Variant of KbdRelease: the slots from this one on are emptied.
KbdReleaseFrom(u) ==
  slots' = [i \in Slots |-> IF \E j \in At(u) : j <= i THEN Empty ELSE slots[i]]

\* kbd_release
KbdRelease(u) ==
  slots' = IF At(u) = {} THEN slots ELSE [slots EXCEPT ![Min(At(u))] = Empty]

SetBit(bits, c, down) == IF down THEN bits \cup {c} ELSE bits \ {c}

\* Keys other than mouse buttons only mark the keyboard dirty: the report is
\* written once, when the buffer is empty.
ModifierEvent(c, down) ==
  /\ c \in Modifiers
  /\ mods' = SetBit(mods, c, down) /\ dirty' = TRUE
  /\ UNCHANGED <<slots, mouseVars, mouseOut, lost>>

\* Variant of UsageEvent: a release alone does not mark the keyboard dirty.
UsageReleaseQuiet(c, down) ==
  /\ c \in Usages
  /\ IF down THEN KbdPress(c) ELSE KbdRelease(c)
  /\ dirty' = (dirty \/ down)
  /\ UNCHANGED <<mods, mouseVars, mouseOut, lost>>

UsageEvent(c, down) ==
  /\ c \in Usages
  /\ IF down THEN KbdPress(c) ELSE KbdRelease(c)
  /\ dirty' = TRUE
  /\ UNCHANGED <<mods, mouseVars, mouseOut, lost>>

\* Variant of ButtonEvent: a click waits for the next motion.
ButtonQuiet(c, down) ==
  /\ c \in Buttons
  /\ buttons' = SetBit(buttons, c, down)
  /\ UNCHANGED <<pending, mouseOut, lost, kbdVars, dirty>>

ButtonEvent(c, down) ==
  /\ c \in Buttons
  /\ buttons' = SetBit(buttons, c, down)
  /\ Flush(buttons')
  /\ UNCHANGED <<kbdVars, dirty>>

\* EV_KEY: autorepeat reaches the chord only.
ReadKey(c, v) ==
  /\ HotkeyUpdate(Chord, c, v # 0)
  /\ IF v = 2
       THEN UNCHANGED <<kbdVars, dirty, mouseVars, mouseOut, lost, history>>
       ELSE /\ \/ ModifierEvent(c, v = 1)
               \/ UsageEvent(c, v = 1)
               \/ ButtonEvent(c, v = 1)
            /\ readDown' = SetBit(readDown, c, v = 1)
            /\ rolled' = SetBit(rolled, c, /\ v = 1 /\ c \in Usages
                                          /\ At(c) \cup Free = {})

ReadRel(n) ==
  /\ pending' = pending + n
  /\ UNCHANGED <<kbdVars, dirty, buttons, mouseOut, lost, history, hotkeyVars>>

ReadSyn ==
  /\ IF pending # 0 THEN Flush(buttons) ELSE UNCHANGED <<pending, mouseOut, lost>>
  /\ UNCHANGED <<kbdVars, dirty, buttons, history, hotkeyVars>>

\* One turn of the drain loop.
ReadEvent ==
  /\ draining # Nobody
  /\ queue[draining] # <<>>
  /\ queue' = [queue EXCEPT ![draining] = Tail(@)]
  /\ LET e == Head(queue[draining]) IN
       \/ e.type = "key" /\ ReadKey(e.code, e.value)
       \/ e.type = "rel" /\ ReadRel(e.value)
       \/ e.type = "syn" /\ ReadSyn
  /\ UNCHANGED <<held, status, moved, pc, draining, kbdOut, configured,
                 host>>

\* read() has nothing more to give: the keyboard report is written if a key
\* changed, the chord is polled, and a device that answered ENODEV is removed
\* with its keys left as they are.
EndDrain ==
  /\ draining # Nobody
  /\ queue[draining] = <<>>
  /\ IF dirty THEN WriteKbd(Keyboard) ELSE UNCHANGED kbdOut
  /\ HotkeyPoll
  /\ draining' = Nobody /\ dirty' = FALSE
  /\ status' = IF status[draining] = "gone"
                 THEN [status EXCEPT ![draining] = "absent"] ELSE status
  /\ UNCHANGED <<held, queue, moved, pc, kbdVars, mouseVars, mouseOut,
                 usbVars, history>>

\* A signal has set stopped: the loop ends between two batches, a last all-zero
\* report is written, and everything is closed.
Shutdown ==
  /\ pc = "run" /\ draining = Nobody
  /\ pc' = "exit"
  /\ WriteKbd(NoKeys)
  /\ WriteMouse([buttons |-> {}, motion |-> 0])
  /\ UNCHANGED <<fingerVars, draining, dirty, kbdVars, mouseVars,
                 usbVars, history, hotkeyVars>>
-----------------------------------------------------------------------------
(* The host.                                                               *)

PollKbd ==
  /\ kbdBusy # Idle
  /\ host' = [host EXCEPT !.kbd = kbdBusy]
  /\ kbdBusy' = Idle
  /\ UNCHANGED <<fingerVars, loopVars, kbdVars, mouseVars, kbdLate, mouseOut,
                 configured, lost, history, hotkeyVars>>

PollMouse ==
  /\ mouseBusy # Idle
  /\ host' = [host EXCEPT !.buttons = mouseBusy.buttons,
                          !.motion = @ + mouseBusy.motion]
  /\ mouseBusy' = Idle
  /\ UNCHANGED <<fingerVars, loopVars, kbdVars, mouseVars, kbdOut, mouseLate,
                 configured, lost, history, hotkeyVars>>

Configure ==
  /\ ~configured
  /\ configured' = TRUE
  /\ UNCHANGED <<fingerVars, loopVars, kbdVars, mouseVars, kbdOut, mouseOut,
                 host, lost, history, hotkeyVars>>

\* Reset or cable pulled: reports in the devices are gone, and the host holds
\* nothing down.
Disconnect ==
  /\ configured
  /\ configured' = FALSE
  /\ kbdBusy' = Idle /\ mouseBusy' = Idle
  /\ kbdLate' = TRUE /\ mouseLate' = TRUE
  /\ host' = [host EXCEPT !.kbd = NoKeys, !.buttons = {}]
  /\ lost' = lost + IF mouseBusy = Idle THEN 0 ELSE mouseBusy.motion
  /\ UNCHANGED <<fingerVars, loopVars, kbdVars, mouseVars, history, hotkeyVars>>

Fingers == \E s \in Switches : Press(s) \/ Release(s) \/ Repeat(s)
Mice    == \E d \in Devices, n \in Deltas : Move(d, n)
HotPlug == \E d \in Devices : Unplug(d) \/ Plug(d)
Drain   == (\E d \in Devices : StartDrain(d)) \/ ReadEvent \/ EndDrain
Host    == PollKbd \/ PollMouse \/ Configure \/ Disconnect

Next ==
  \/ Fingers
  \/ Mice
  \/ HotPlug
  \/ Start
  \/ Drain
  \/ Shutdown
  \/ Clock
  \/ Host

Spec == Init /\ [][Next]_vars
-----------------------------------------------------------------------------
(* Properties.                                                             *)

Reports == [mods : SUBSET Modifiers, keys : [Slots -> Usages \cup {Empty}]]

\* Type invariant.  A usage never takes two slots of the report: kbd_release
\* would free only the first and leave the key down for good.
TypeOK ==
  /\ held \subseteq Switches /\ readDown \subseteq Codes /\ rolled \subseteq readDown
  /\ status \in [Devices -> {"plugged", "gone", "absent"}]
  /\ \A d \in Devices : Len(queue[d]) <= MaxQueue[d]
  /\ pc \in {"start", "run", "exit"} /\ draining \in Devices \cup {Nobody}
  /\ Keyboard \in Reports /\ kbdBusy \in Reports \cup {Idle}
  /\ \A u \in Usages : Cardinality(At(u)) <= 1
  /\ buttons \subseteq Buttons /\ pending \in 0 .. MaxMotion
  /\ HotkeyTypeOK(Chord)

\* What is forwarded is what was read: a key or button is down exactly when
\* its last event was a press and, for a key, the press found a slot.  A key
\* that rolled over stays up until it is pressed again.
DownFollowsEvents ==
  mods \cup {slots[i] : i \in Slots \ Free} \cup buttons = readDown \ rolled

\* The host's keyboard is the daemon's.  Between two drains, the report on its
\* way, or else the last one the host read, is the state the daemon has, and
\* after the exit it is empty, unless the last write was refused or the bus
\* was reset after it.  In particular no change goes unreported.
HostFollowsKeyboard ==
  pc # "start" /\ draining = Nobody /\ ~kbdLate =>
    (IF kbdBusy = Idle THEN host.kbd ELSE kbdBusy)
      = (IF pc = "exit" THEN NoKeys ELSE Keyboard)

\* The same for the mouse buttons, at any time.
HostFollowsButtons ==
  pc # "start" /\ ~mouseLate =>
    (IF mouseBusy = Idle THEN host.buttons ELSE mouseBusy.buttons)
      = (IF pc = "exit" THEN {} ELSE buttons)

Unread == FoldFunctionOnSet(+, 0, [d \in Devices |-> Motion(queue[d])], Devices)

\* Motion is delivered at most once: what the mice moved is what the host got,
\* what is on its way, in the buffers or pending, and what was thrown away.
MotionAccounted ==
  moved = host.motion + lost + pending + Unread
            + (IF mouseBusy = Idle THEN 0 ELSE mouseBusy.motion)

\* main.c, shutdown: "Send a final all-release before tearing down so the LAST
\* report Windows sees from this gadget instance is unambiguously 'no keys
\* held'."
LastReportClear ==
  pc = "exit" /\ kbdBusy = Idle => host.kbd = NoKeys
=============================================================================

------------------------------- MODULE Mapper -------------------------------
(***************************************************************************)
(* From key events to pressed actions in dualsense-ffsd: the event half of *)
(* mapper.c and the input branch of the main loop of                       *)
(* kbm-mapper-ff/files/main.c.                                             *)
(*                                                                         *)
(* Fingers press switches (a key of a device); the kernel queues one event *)
(* per change in the evdev buffer of the device; the daemon drains the     *)
(* buffer event by event, looks each key code up in the configuration and  *)
(* sets or clears one bit per controller action.  The configuration may be *)
(* rewritten at any time and is re-read in place; devices come and go.     *)
(*                                                                         *)
(* The bitmap keeps no count and no origin.  "excused" is a history        *)
(* variable that names the actions whose bit may disagree with the fingers *)
(* and nothing else reads it; "orphans" does the same for the chord.       *)
(*                                                                         *)
(* The drain loop also feeds the mode-toggle chord, module Hotkey, and the *)
(* key-capture sockets, whose clients share no state with this and are     *)
(* left out.                                                               *)
(***************************************************************************)
EXTENDS Hotkey

CONSTANTS
  Devices,      \* keyboards and mice
  Keys,         \* key and button codes
  Switches,     \* which key is on which device
  Actions,      \* controller actions (enum ds_action without DS_ACT_NONE)
  None,         \* DS_ACT_NONE
  Configs,      \* what the file may hold: the key_action/btn_action table
                \* and the codes of the mode-toggle chord
  MaxQueue      \* bound: the size of the evdev client buffer of each device

ASSUME SwitchesAssumption == Switches \subseteq Devices \X Keys
ASSUME NoneAssumption == None \notin Actions
ASSUME ConfigsAssumption ==
  /\ Configs # {}
  /\ \A c \in Configs : /\ c.action \in [Keys -> Actions \cup {None}]
                        /\ c.chord \in Seq(Keys)
ASSUME MaxQueueAssumption == MaxQueue \in [Devices -> Nat \ {0}]

VARIABLES
  held,       \* switches under a finger
  status,     \* per device: plugged, gone (the daemon still has it), absent
  queue,      \* events in the evdev buffer of each device
  file,       \* the contents of /etc/kbm-mapper.conf
  notified,   \* inotify has reported the file and the daemon has not read it
  cfg,        \* the configuration the daemon uses
  draining,   \* device whose buffer is being drained, None otherwise
  pressed,    \* pressed_lo/pressed_hi
  seen,       \* history: switches whose last event the daemon read was "down"
  missed,     \* history: switches whose last event was overwritten unread
  excused,    \* history: actions whose bit may disagree with the fingers
  orphans     \* history: keys of the chord whose release can never be read

fingerVars == <<held, status, queue>>
fileVars   == <<file, notified>>
mapVars    == <<cfg, draining, pressed>>
history    == <<seen, missed, excused, orphans>>
vars == <<fingerVars, fileVars, mapVars, history, hotkeyVars>>

Values == {0, 1, 2}     \* up, down, autorepeat
Events == [key : Keys, value : Values]

Init ==
  /\ held = {} /\ seen = {} /\ missed = {}
  /\ excused = {} /\ orphans = {}
  /\ status = [d \in Devices |-> "plugged"]
  /\ queue = [d \in Devices |-> <<>>]
  /\ file \in Configs /\ cfg = file /\ notified = FALSE
  /\ draining = None /\ pressed = {}
  /\ HotkeyInit

On(d, S) == {s \in S : s[1] = d}
Bound(a, S) == {s \in S : cfg.action[s[2]] = a}
-----------------------------------------------------------------------------
(* Fingers and kernel.                                                     *)

InQueue(d, q) == {<<d, q[i].key>> : i \in DOMAIN q}

\* When the buffer is full the kernel throws it away and keeps the newest
\* event, which may be the key event or the SYN_REPORT after it, behind a
\* SYN_DROPPED that mapper_handle_event does not tell from a SYN_REPORT.
AfterAppend(d, q, e) ==
  IF Len(q) = MaxQueue[d] THEN {<<e>>, <<>>} ELSE {Append(q, e)}

KeyEvent(s, v) ==
  LET d == s[1] e == [key |-> s[2], value |-> v] IN
  /\ status[d] = "plugged"
  /\ held' = IF v = 0 THEN held \ {s} ELSE held \cup {s}
  /\ \E q \in AfterAppend(d, queue[d], e) :
       LET lost == (InQueue(d, queue[d]) \cup {s}) \ InQueue(d, q)
       IN /\ queue' = [queue EXCEPT ![d] = q]
          /\ missed' = missed \cup {t \in lost : (t \in held') # (t \in seen)}
  /\ excused' = excused \cup
                  ({cfg.action[t[2]] : t \in missed' \ missed} \ {None})
  /\ UNCHANGED <<status, fileVars, mapVars, seen, orphans, hotkeyVars>>

Press(s)   == s \notin held /\ KeyEvent(s, 1)
Release(s) == s \in held /\ KeyEvent(s, 0)
Repeat(s)  == s \in held /\ KeyEvent(s, 2)

\* Once the device is gone read() answers ENODEV: what was queued is lost, and
\* the releases of its keys with it.
Unplug(d) ==
  /\ status[d] = "plugged"
  /\ status' = [status EXCEPT ![d] = "gone"]
  /\ queue' = [queue EXCEPT ![d] = <<>>]
  /\ held' = held \ On(d, held)
  /\ seen' = seen \ On(d, seen)
  /\ missed' = missed \ On(d, missed)
  /\ excused' = excused \cup
                  ({cfg.action[t[2]] : t \in On(d, seen \cup missed)} \ {None})
  /\ orphans' = orphans \cup
                  {t[2] : t \in {s \in On(d, seen) : Positions(cfg.chord, s[2]) # {}}}
  /\ UNCHANGED <<fileVars, mapVars, hotkeyVars>>

Plug(d) ==
  /\ status[d] = "absent"
  /\ status' = [status EXCEPT ![d] = "plugged"]
  /\ UNCHANGED <<held, queue, fileVars, mapVars, history, hotkeyVars>>

\* Somebody saves the configuration.
WriteConfig(c) ==
  /\ file' = c
  /\ notified' = TRUE
  /\ UNCHANGED <<fingerVars, mapVars, history, hotkeyVars>>
-----------------------------------------------------------------------------
(* The daemon.                                                             *)

StartDrain(d) ==
  /\ draining = None
  /\ queue[d] # <<>> \/ status[d] = "gone"
  /\ draining' = d
  /\ UNCHANGED <<fingerVars, fileVars, cfg, pressed, history, hotkeyVars>>

\* 1 = down, 2 = autorepeat, treated as down.
Down(e) == e.value # 0

\* Variant of SetAction: DS_ACT_NONE has a bit of its own.
SetNone(a, down) ==
  pressed' = IF down THEN pressed \cup {a} ELSE pressed \ {a}

\* Variant of SetAction: pressing sets the bit, releasing forgets to clear it.
SetOnly(a, down) ==
  pressed' = IF a # None /\ down THEN pressed \cup {a} ELSE pressed

\* set_action
SetAction(a, down) ==
  pressed' = IF a = None THEN pressed
             ELSE IF down THEN pressed \cup {a} ELSE pressed \ {a}

\* Another switch bound to the action of s that the daemon believes down, or
\* whose last event it never got.
Sharers(s, a) == Bound(a, seen \cup missed) \ {s}

\* One turn of the drain loop: hotkey_update and mapper_handle_event on an
\* EV_KEY event.
ReadEvent ==
  /\ draining # None
  /\ queue[draining] # <<>>
  /\ LET d == draining
         e == Head(queue[d])
         s == <<d, e.key>>
         a == cfg.action[e.key]
         down == Down(e)
     IN /\ queue' = [queue EXCEPT ![d] = Tail(@)]
        /\ HotkeyUpdate(cfg.chord, e.key, down)
        /\ SetAction(a, down)
        /\ seen' = IF down THEN seen \cup {s} ELSE seen \ {s}
        /\ missed' = missed \ {s}
        /\ excused' = IF ~down /\ Sharers(s, a) # {}
                        THEN excused \cup ({a} \ {None})
                        ELSE excused \ {a}
        /\ orphans' = orphans \ {e.key}
  /\ UNCHANGED <<held, status, fileVars, cfg, draining>>

\* read() has nothing more to give: the chord is polled, and only here.  If it
\* answered ENODEV the slot is freed; the bitmap is left as it is.
EndDrain ==
  /\ draining # None
  /\ queue[draining] = <<>>
  /\ draining' = None
  /\ HotkeyPoll
  /\ status' = IF status[draining] = "gone"
                 THEN [status EXCEPT ![draining] = "absent"] ELSE status
  /\ UNCHANGED <<held, queue, fileVars, cfg, pressed, history>>

\* inotify: config_load re-parses the file in place and the chord starts over;
\* the bitmap is left as it is.  A switch that is down and changes its action leaves the old action set
\* and the new one clear.
Reload ==
  /\ draining = None
  /\ notified
  /\ notified' = FALSE
  /\ cfg' = file
  /\ LET moved == {s \in seen \cup missed : cfg.action[s[2]] # file.action[s[2]]}
     IN excused' = excused \cup
          (({cfg.action[s[2]] : s \in moved} \cup {file.action[s[2]] : s \in moved}) \ {None})
  /\ orphans' = {}
  /\ HotkeyReset
  /\ UNCHANGED <<fingerVars, file, draining, pressed, seen, missed>>

Clock ==
  /\ SecondPasses
  /\ UNCHANGED <<fingerVars, fileVars, mapVars, history>>

Fingers == \E s \in Switches : Press(s) \/ Release(s) \/ Repeat(s)
HotPlug == \E d \in Devices : Unplug(d) \/ Plug(d)
Drain   == (\E d \in Devices : StartDrain(d)) \/ ReadEvent \/ EndDrain

Next ==
  \/ Fingers
  \/ HotPlug
  \/ \E c \in Configs : WriteConfig(c)
  \/ Drain
  \/ Reload
  \/ Clock

Spec == Init /\ [][Next]_vars

\* The drain loop runs while there is something to read, and time passes.  No
\* finger and no other event of the environment is owed.
FairSpec == Spec /\ WF_vars(Drain) /\ WF_vars(Clock)
-----------------------------------------------------------------------------
(* Properties.                                                             *)

\* Type invariant, with the one relation the types carry: a gone or absent
\* device has nothing queued and no key down.
TypeOK ==
  /\ held \subseteq Switches /\ seen \subseteq Switches /\ missed \subseteq Switches
  /\ status \in [Devices -> {"plugged", "gone", "absent"}]
  /\ queue \in [Devices -> Seq(Events)]
  /\ \A d \in Devices :
       /\ Len(queue[d]) <= MaxQueue[d]
       /\ status[d] # "plugged" => queue[d] = <<>> /\ On(d, held) = {}
  /\ file \in Configs /\ cfg \in Configs /\ notified \in BOOLEAN
  /\ draining \in Devices \cup {None}
  /\ pressed \subseteq Actions /\ excused \subseteq Actions
  /\ orphans \subseteq Keys
  /\ HotkeyTypeOK(cfg.chord)

Quiet == \A d \in Devices : queue[d] = <<>>

\* The bitmap follows the fingers.  Once every buffer is drained an action is
\* pressed exactly when a switch bound to it is down, except for the actions
\* of four kinds of accident: the configuration moved a key that was down, a
\* device left with a key down, two switches share the action and one of them
\* was released, or the kernel buffer overflowed.  mapper.c has no other way to
\* leave a button stuck or dead.
FollowsFingers ==
  Quiet =>
    \A a \in Actions \ excused : a \in pressed <=> Bound(a, held) # {}

\* The code is under a finger, or the daemon cannot know that it is not: the
\* event that says so is unread or was overwritten.
MaybeHeld(code) ==
  \E s \in Switches :
    s[2] = code /\ (s \in held \cup missed \/ s \in InQueue(s[1], queue[s[1]]))

\* The toggle fires only on a chord that is held: when the poll fires, every
\* key of the chord is down as far as the daemon can know, unless a device left
\* with it down.
FiresOnHeldChord ==
  [][fired' /\ ~fired =>
       \A i \in DOMAIN cfg.chord :
         cfg.chord[i] \in orphans \/ MaybeHeld(cfg.chord[i])]_vars

\* main.c, mode-switch hotkey: "All keys in the chord must be held
\* simultaneously for >=1 s for the toggle to fire."
FiresOnlyWhenHeld ==
  [][fired' /\ ~fired =>
       \A i \in DOMAIN cfg.chord : MaybeHeld(cfg.chord[i])]_vars

ChordFull == cfg.chord # <<>> /\ chordDown = DOMAIN cfg.chord

\* A hold ends in the toggle: once every key of the chord has been read as
\* down the toggle fires, unless one of them is released or the configuration
\* replaced.  The hold is polled at the end of a drain and nowhere else, so
\* this needs drains that end again and again: input must go on arriving (the
\* autorepeat of the chord will do) and the loop keep up with it.  No event
\* that arrives meanwhile may start the second over.
HoldFires == []<><<EndDrain>>_vars => (ChordFull ~> (fired \/ ~ChordFull))
=============================================================================

------------------------------ MODULE MCBoard ------------------------------
(* Leds, Settings, Control, Capture, Modes and HotPlug share no state: a   *)
(* behaviour is one of one of them, focus, while the others rest.          *)
EXTENDS Leds, Settings, Control, Capture, Modes, HotPlug

VARIABLE focus

boardVars == <<focus, ledsVars, settingsVars, controlVars, captureVars,
               modesVars, hotplugVars>>

MCOrder == <<"ESC", "ESC #", "LEFT", "LEFTCTRL", "LEFTMETA", "W", "w">>
MCNames == ToSet(MCOrder)
MCUpper == [n \in MCNames |-> IF n = "w" THEN "W" ELSE n]
MCBare  == [n \in MCNames |-> IF n = "ESC #" THEN "ESC" ELSE n]

MCMapperCodes == [key |-> {"ESC", "LEFT", "LEFTCTRL", "W"}, mouse |-> {"LEFT"}]
MCPassNames   == {"ESC", "LEFT", "LEFTCTRL", "LEFTMETA", "W"}
MCActions     == {"lstick_up", "r2", "cross"}

Noted(l) == [l EXCEPT !.noted = TRUE]
Loose(l) == [l EXCEPT !.tight = FALSE]
Crlf(l)  == [l EXCEPT !.cr = TRUE]

\* Lines that may meet in one file: at most two of a group.
LineGroups ==
  {{Number("ads.sens_scale", 500), Number("ads.sens_scale", 0)},
   {Number("recoil.x", -150), Noted(Number("recoil.x", 20)),
    Word("recoil.action", "", "huh")},
   {Number("burst.hz", 1000), Number("burst.jitter", 150)},
   {Word("key", "w", "cross"), Word("key", "W", "r2"),
    Word("mouse", "LEFT", "huh")},
   {Chord(<<"LEFTMETA", "ESC">>), Chord(<<"w", "LEFTCTRL">>),
    Chord(<<"LEFTCTRL", "ESC #">>), Loose(Chord(<<"LEFT">>))}}

MCHandFiles ==
  {<<>>} \cup UNION {{<<a>> : a \in g} \cup g \X g : g \in LineGroups}
MCDrafts ==
  {<<Crlf(Chord(<<"w", "ESC">>))>>, <<Number("recoil.x", 50), Word("key", "w", "r2")>>}

AsEdit(l) == [key |-> l.key, of |-> l.of, num |-> l.num, words |-> l.words]
\* An empty chord, and a scale of zero, come from clients of /api/config only.
MCEdits ==
  {AsEdit(l) : l \in
    {Number("burst.hz", 0), Number("recoil.x", 30),
     Number("fire.sens_scale", 0), Word("recoil.action", "", "cross"),
     Word("key", "W", "cross"), Chord(<<"LEFTMETA", "W">>), Chord(<<>>)}}

Asks(dir, type, req, value, id, len) ==
  [dir |-> dir, type |-> type, req |-> req, value |-> value, id |-> id,
   len |-> len]
MCRequests ==
  {Asks("in", "standard", "GET_DESCRIPTOR", "report", "", 273),
   Asks("in", "standard", "GET_DESCRIPTOR", "hid", "", 255),
   Asks("in", "class", "GET_REPORT", "input", "", 64),
   Asks("in", "class", "GET_REPORT", "feature", "i05", 64),
   Asks("in", "class", "GET_REPORT", "feature", "i20", 64),
   Asks("in", "class", "GET_REPORT", "feature", "i82", 9),
   Asks("in", "class", "GET_REPORT", "feature", "unknown", 64),
   Asks("out", "class", "SET_REPORT", "output", "", 48),
   Asks("out", "class", "SET_IDLE", "", "", 0),
   Asks("in", "class", "SET_IDLE", "", "", 1),
   Asks("in", "class", "GET_IDLE", "", "", 1),
   Asks("out", "vendor", "other", "", "", 0)}

LedsRest     == LedsStart("failed") /\ ~\E s \in Conditions : board[s]
SettingsRest == SettingsInit /\ file = <<>>

\* The daemon is up and watches an empty /dev/input.
HotPlugRest ==
  /\ node = [path \in Paths |-> "none"] /\ owed = {} /\ watched = TRUE /\ notes = <<>>
  /\ pc = "run" /\ toscan = {} /\ buf = <<>>
  /\ slots = [i \in InputSlots |-> FreeSlot] /\ excused = {}

BoardInit ==
  /\ focus \in {"leds", "settings", "control", "capture", "modes", "hotplug"}
  /\ IF focus = "leds" THEN LedsInit ELSE LedsRest
  /\ IF focus = "settings" THEN SettingsInit ELSE SettingsRest
  /\ ControlInit /\ CaptureInit
  /\ IF focus = "modes" THEN ModesInit ELSE ModesStart("off")
  /\ IF focus = "hotplug" THEN HotPlugInit ELSE HotPlugRest

BoardNext ==
  /\ UNCHANGED focus
  /\ \/ /\ focus = "leds" /\ LedsNext
        /\ UNCHANGED <<settingsVars, controlVars, captureVars, modesVars, hotplugVars>>
     \/ /\ focus = "settings" /\ SettingsNext
        /\ UNCHANGED <<ledsVars, controlVars, captureVars, modesVars, hotplugVars>>
     \/ /\ focus = "control" /\ ControlNext
        /\ UNCHANGED <<ledsVars, settingsVars, captureVars, modesVars, hotplugVars>>
     \/ /\ focus = "capture" /\ CaptureNext
        /\ UNCHANGED <<ledsVars, settingsVars, controlVars, modesVars, hotplugVars>>
     \/ /\ focus = "modes" /\ ModesNext
        /\ UNCHANGED <<ledsVars, settingsVars, controlVars, captureVars, hotplugVars>>
     \/ /\ focus = "hotplug" /\ HotPlugNext
        /\ UNCHANGED <<ledsVars, settingsVars, controlVars, captureVars, modesVars>>

BoardSpec ==
  /\ BoardInit /\ [][BoardNext]_boardVars
  /\ LedsFairness /\ ControlFairness /\ ModesFairness /\ HotPlugFairness

\* What is in the variables is of the kind that the code keeps there, and
\* within its array and clamping limits.
BoardTypeOK ==
  /\ LedsTypeOK /\ SettingsTypeOK /\ ControlTypeOK /\ CaptureTypeOK /\ ModesTypeOK
  /\ HotPlugTypeOK
=============================================================================

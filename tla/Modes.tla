-------------------------------- MODULE Modes --------------------------------
(***************************************************************************)
(* Switching modes: the web interface (handleMode, switchTo, handleRestart *)
(* in kbm-web/files/main.go, a goroutine per request), the chord of the    *)
(* two daemons, and the four units they start and stop, of which two set   *)
(* up a USB gadget and one binds it.  There is one UDC.                    *)
(*                                                                         *)
(* systemd: a start brings the units required, and stops those in conflict *)
(* (Conflicts= without an order: side by side); a stop brings the units    *)
(* that require it; a restart is a stop and a start of both.  Of two jobs  *)
(* for one unit the newer replaces the older.                              *)
(***************************************************************************)
EXTENDS Naturals, Sequences

CONSTANTS
  MaxSwitches, \* bound: mode switches and restarts
  MaxCrashes   \* bound: crashes of a daemon

VARIABLES
  unit,     \* state of each unit
  job,      \* its job: "none", "start", "stop" or "restart"
  udc,      \* the gadget bound to the UDC
  calls,    \* per switch, the systemctl calls left of its goroutine
  blocked,  \* the call it is in: at most one, <<verb, unit>>
  switches, \* switches so far
  crashes,  \* crashes so far
  wanted,   \* the mode asked for last
  alone     \* history: all had come to rest in some mode when it was

systemd   == <<unit, job>>
goroutine == <<calls, blocked>>
history   == <<switches, crashes, wanted, alone>>
modesVars == <<systemd, udc, goroutine, history>>

ASSUME SwitchesAssumption == MaxSwitches \in Nat /\ MaxCrashes \in Nat

Units    == {"ffs", "ffsd", "setup", "pt"}
Modes    == {"emulation", "passthrough", "off"}
Switches == 1 .. MaxSwitches
Requires == [ffs |-> {}, ffsd |-> {"ffs"}, setup |-> {}, pt |-> {"setup"}]
Side(u)  == IF u \in {"ffs", "ffsd"} THEN {"ffs", "ffsd"} ELSE {"setup", "pt"}
DependOn(u) == {v \in Units : u \in Requires[v]}

\* ffsd is "started" until it has bound the UDC; setup has "torn" down every
\* gadget before it binds its own; a daemon that failed waits for "restart".
Resting(m) ==
  /\ unit = [u \in Units |->
               CASE m = "emulation" /\ u = "ffs" -> "active"
                 [] m = "emulation" /\ u = "ffsd" -> "active"
                 [] m = "passthrough" /\ u \in Side("pt") -> "active"
                 [] OTHER -> "inactive"]
  /\ udc = CASE m = "emulation" -> "dualsense"
             [] m = "passthrough" -> "kbm"
             [] OTHER -> "none"

Settled ==
  /\ \A u \in Units : job[u] = "none" /\ unit[u] \in {"inactive", "active"}
  /\ \A s \in Switches : calls[s] = <<>> /\ blocked[s] = {}

ModesStart(m) ==
  /\ wanted = m /\ Resting(m)
  /\ job = [u \in Units |-> "none"]
  /\ calls = [s \in Switches |-> <<>>] /\ blocked = [s \in Switches |-> {}]
  /\ switches = 0 /\ crashes = 0 /\ alone = TRUE

\* The enabled units are those of emulation.
Boots ==
  /\ wanted = "emulation" /\ udc = "none"
  /\ unit = [u \in Units |-> "inactive"]
  /\ job = [u \in Units |-> IF u \in Side("ffsd") THEN "start" ELSE "none"]
  /\ calls = [s \in Switches |-> <<>>] /\ blocked = [s \in Switches |-> {}]
  /\ switches = 0 /\ crashes = 0 /\ alone = TRUE

ModesInit == Boots \/ \E m \in Modes : ModesStart(m)
-----------------------------------------------------------------------------
(* Jobs.                                                                   *)

Up(v)       == IF unit[v] \in {"active", "started"} THEN "none" ELSE "start"
Aside(u, v) == IF v \in Side(u) THEN job[v]
               ELSE IF unit[v] = "inactive" THEN "none" ELSE "stop"

Starts(u) ==
  [v \in Units |-> IF v \in {u} \cup Requires[u] THEN Up(v) ELSE Aside(u, v)]

Restarts(u) ==
  [v \in Units |->
     CASE v \in {u} \cup DependOn(u) /\ unit[v] # "inactive" -> "restart"
       [] v \in {u} \cup Requires[u] -> Up(v)
       [] OTHER -> Aside(u, v)]

Stops(u) ==
  [v \in Units |->
     IF v \in {u} \cup DependOn(u)
       THEN IF unit[v] = "inactive" THEN "none" ELSE "stop"
     ELSE job[v]]

Jobs(verb, u) ==
  CASE verb = "start" -> Starts(u) [] verb = "stop" -> Stops(u)
    [] verb = "restart" -> Restarts(u)

\* What is left of a job when the unit has stopped.
JobLeft(u) == IF job[u] = "restart" THEN "start" ELSE "none"

Becomes(u, s) == unit' = [unit EXCEPT ![u] = s]
Done(u)       == job' = [job EXCEPT ![u] = "none"]

Ready(u) ==
  job[u] = "start" /\ \A v \in Requires[u] : job[v] = "none"

\* What is required did not start: the job fails.
DependencyFails(u) ==
  /\ Ready(u) /\ \E v \in Requires[u] : unit[v] # "active"
  /\ Done(u) /\ Becomes(u, "inactive")
  /\ UNCHANGED <<udc, goroutine, history>>

\* Forked is started; a script has to end well for that.
UnitStarts(u) ==
  /\ Ready(u) /\ \A v \in Requires[u] : unit[v] = "active"
  /\ unit[u] \in {"inactive", "restart"}
  /\ Becomes(u, CASE u = "ffsd" -> "started" [] u = "pt" -> "active"
                  [] OTHER -> "script")
  /\ IF u \in {"ffsd", "pt"} THEN Done(u) ELSE UNCHANGED job
  /\ UNCHANGED <<udc, goroutine, history>>

\* dualsense-ffs.sh: what is left of its gadget is torn down, a new one made.
FfsScript ==
  /\ unit["ffs"] = "script" /\ job["ffs"] = "start"
  /\ udc' = IF udc = "dualsense" THEN "none" ELSE udc
  /\ Becomes("ffs", "active") /\ Done("ffs")
  /\ UNCHANGED <<goroutine, history>>

\* kbm-passthrough-setup.sh: every gadget is torn down, ...
SetupTearsDown ==
  /\ unit["setup"] = "script" /\ job["setup"] = "start"
  /\ udc' = "none"
  /\ Becomes("setup", "torn")
  /\ UNCHANGED <<job, goroutine, history>>

\* ... its own is made and bound; the script fails if somebody was faster.
SetupBinds ==
  /\ unit["setup"] = "torn" /\ job["setup"] = "start"
  /\ udc' = IF udc = "none" THEN "kbm" ELSE udc
  /\ Becomes("setup", IF udc = "none" THEN "active" ELSE "inactive")
  /\ Done("setup")
  /\ UNCHANGED <<goroutine, history>>

\* A daemon that failed is started again, unless it is to be stopped.
Failed(u) ==
  /\ Becomes(u, IF job[u] = "none" THEN "restart" ELSE "inactive")
  /\ job' = [job EXCEPT ![u] = JobLeft(u)]

\* Variant of FfsdBinds: the daemon does not notice that the UDC is taken.
FfsdBindsUnchecked ==
  /\ unit["ffsd"] = "started"
  /\ udc' = IF udc = "none" THEN "dualsense" ELSE udc
  /\ Becomes("ffsd", "active")
  /\ UNCHANGED <<job, goroutine, history>>

\* bind_udc of dualsense-ffsd: with the UDC taken main returns 1.  A SIGTERM
\* before that is noticed after it.
FfsdBinds ==
  /\ unit["ffsd"] = "started"
  /\ IF udc = "none"
       THEN udc' = "dualsense" /\ Becomes("ffsd", "active") /\ UNCHANGED job
       ELSE UNCHANGED udc /\ Failed("ffsd")
  /\ UNCHANGED <<goroutine, history>>

\* The end of dualsense-ffsd, and ExecStopPost of the setup, release the UDC.
Released(u) ==
  CASE u = "ffsd" /\ udc = "dualsense" -> "none"
    [] u = "setup" /\ udc = "kbm" -> "none"
    [] OTHER -> udc

UnitStops(u) ==
  /\ job[u] \in {"stop", "restart"} /\ unit[u] # "started"
  /\ \A v \in DependOn(u) : job[v] \notin {"stop", "restart"}
  /\ Becomes(u, "inactive") /\ job' = [job EXCEPT ![u] = JobLeft(u)]
  /\ udc' = Released(u)
  /\ UNCHANGED <<goroutine, history>>

\* Restart=on-failure, RestartSec=2.
UnitRestarts(u) ==
  /\ unit[u] = "restart" /\ job[u] = "none"
  /\ job' = Starts(u)
  /\ UNCHANGED <<unit, udc, goroutine, history>>

\* The kernel unbinds a gadget whose daemon died.
Crash(u) ==
  /\ u \in {"ffsd", "pt"} /\ unit[u] = "active"
  /\ crashes < MaxCrashes /\ crashes' = crashes + 1
  /\ Failed(u) /\ udc' = IF u = "ffsd" THEN Released(u) ELSE udc
  /\ UNCHANGED <<goroutine, switches, wanted, alone>>

UnitStep(u) ==
  \/ DependencyFails(u) \/ UnitStarts(u) \/ UnitStops(u) \/ UnitRestarts(u)
  \/ u = "ffs" /\ FfsScript
  \/ u = "setup" /\ (SetupTearsDown \/ SetupBinds)
  \/ u = "ffsd" /\ FfsdBinds
-----------------------------------------------------------------------------
(* Switches.                                                               *)

\* handleMode.
CallsFor(m) ==
  CASE m = "emulation" ->
         <<<<"stop", "pt">>, <<"stop", "setup">>, <<"start", "ffsd">>>>
    [] m = "passthrough" ->
         <<<<"stop", "ffsd">>, <<"stop", "ffs">>, <<"start", "pt">>>>
    [] m = "off" ->
         <<<<"stop", "ffsd">>, <<"stop", "ffs">>, <<"stop", "pt">>,
           <<"stop", "setup">>>>

Quiet == Settled /\ \E n \in Modes : Resting(n)

Asked(m, undisturbed) ==
  /\ switches < MaxSwitches /\ switches' = switches + 1
  /\ wanted' = m /\ alone' = undisturbed
  /\ UNCHANGED crashes

WebSwitches(m) ==
  /\ Asked(m, Quiet)
  /\ calls' = [calls EXCEPT ![switches'] = CallsFor(m)]
  /\ UNCHANGED <<systemd, udc, blocked>>

\* handleRestart: nothing of the other side is stopped first.
WebRestarts(u) ==
  /\ Asked(IF u \in Side("ffsd") THEN "emulation" ELSE "passthrough",
           Quiet /\ unit[u] = "active")
  /\ calls' = [calls EXCEPT ![switches'] = <<<<"restart", u>>>>]
  /\ UNCHANGED <<systemd, udc, blocked>>

\* The chord: one systemctl start of the other daemon.
ChordSwitches(u) ==
  /\ u \in {"ffsd", "pt"} /\ unit[u] = "active"
  /\ Asked(IF u = "ffsd" THEN "passthrough" ELSE "emulation", Quiet)
  /\ job' = Starts(IF u = "ffsd" THEN "pt" ELSE "ffsd")
  /\ UNCHANGED <<unit, udc, goroutine>>

SystemctlCall(s) ==
  /\ calls[s] # <<>> /\ blocked[s] = {}
  /\ job' = Jobs(Head(calls[s])[1], Head(calls[s])[2])
  /\ calls' = [calls EXCEPT ![s] = Tail(@)]
  /\ blocked' = [blocked EXCEPT ![s] = {Head(calls[s])}]
  /\ UNCHANGED <<unit, udc, history>>

\* The job is done, or was replaced.
SystemctlReturns(s) ==
  /\ \E c \in blocked[s] :
       job[c[2]] \notin {c[1]} \cup (IF c[1] = "restart" THEN {"start"} ELSE {})
  /\ blocked' = [blocked EXCEPT ![s] = {}]
  /\ UNCHANGED <<systemd, udc, calls, history>>

Goroutine(s) == SystemctlCall(s) \/ SystemctlReturns(s)

ModesNext ==
  \/ \E u \in Units :
       UnitStep(u) \/ Crash(u) \/ ChordSwitches(u) \/ WebRestarts(u)
  \/ \E m \in Modes : WebSwitches(m)
  \/ \E s \in Switches : Goroutine(s)

\* systemd works off its jobs, each unit's by itself, and calls return.
ModesFairness ==
  /\ \A u \in Units : WF_modesVars(UnitStep(u))
  /\ \A s \in Switches : WF_modesVars(Goroutine(s))

ModesSpec == ModesInit /\ [][ModesNext]_modesVars /\ ModesFairness
-----------------------------------------------------------------------------
(* Properties.                                                             *)

ModesTypeOK ==
  /\ \A u \in Units :
       /\ job[u] \in {"none", "start", "stop", "restart"}
       /\ unit[u] \in {"inactive", "active", "started", "script", "torn",
                       "restart"}
  /\ udc \in {"none", "dualsense", "kbm"}
  /\ unit["pt"] = "active" => unit["setup"] = "active"

\* A switch made when all was at rest in some mode, the restart of a unit that
\* runs then, and the boot, end in the mode asked for, with the right gadget on
\* the UDC and nothing else running, although the chord's switch starts one
\* side while it stops the other, and although a daemon may crash.  The rest
\* comes to an end too, but not always in a mode: an active dualsense-ffsd
\* whose UDC was taken does not bind it again.
ModeReached == <>[](Settled /\ (alone => Resting(wanted)))
=============================================================================

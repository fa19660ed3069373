-------------------------------- MODULE Leds --------------------------------
(***************************************************************************)
(* The status LEDs (kbm-leds/files/main.c).                                *)
(*                                                                         *)
(* A thread asks once a second which pattern the board's state calls for:  *)
(* two services and the UDC, one after the other, unless a force file      *)
(* names a pattern.  It hands the pattern, and a deadline for the          *)
(* acknowledgement that precedes a new one, to the main thread through two *)
(* atomic variables.  The main thread renders at 1 kHz.                    *)
(*                                                                         *)
(* Time is kept in seconds: what is left of the acknowledgement and of the *)
(* thread's sleep.  What a pattern looks like is left out.                 *)
(***************************************************************************)
EXTENDS Naturals

CONSTANTS
  MaxChanges,  \* bound: changes of the board's state, failed queries included
  Forced       \* bound: what the force file may hold

VARIABLES
  board,     \* which services are active, whether the host configured us, and
             \* whether a service that should be active has failed
  force,     \* /run/kbm-leds/force
  changes,   \* changes so far
  poll,      \* where the poll is, or the sleep after it
  seen,      \* what the poll read
  np,        \* np of state_thread
  last,      \* last of state_thread
  current,   \* current_pattern
  ack,       \* seconds to crossfade_until_ms
  main,      \* where the main thread is
  p,         \* p of the render loop
  lit,       \* what the LEDs show
  idle,      \* no pass of the render loop was completed in this second
  quit       \* stopped

world    == <<board, force, changes>>
thread   == <<poll, seen, np, last>>
renderer == <<main, p, lit, idle>>
shared   == <<current, ack>>
ledsVars == <<world, thread, renderer, shared, quit>>

CrossfadeSeconds == 2
LedInputs  == {"emu", "pt", "host"}
Conditions == LedInputs \cup {"failed"}
Patterns == {"calm_focus", "alert_ready", "heart_searching", "idle_drift",
             "cold_tide", "crossfade"}

ASSUME ChangesAssumption == MaxChanges \in Nat
ASSUME ForcedAssumption == Patterns \cap Forced # {}

\* Conflicts= keeps the two services from being active together, and where the
\* expected one has failed neither is.
Exclusive(b) == /\ ~(b["emu"] /\ b["pt"])
                /\ b["failed"] => ~b["emu"] /\ ~b["pt"]

LedsStart(m) ==
  /\ board \in {b \in [Conditions -> BOOLEAN] : Exclusive(b)}
  /\ force = "none" /\ changes = 0
  /\ poll = "emu" /\ seen = [s \in LedInputs |-> FALSE]
  /\ np = "idle_drift" /\ last = "idle_drift"
  /\ current = "idle_drift" /\ ack = 0
  /\ main = m /\ p = "idle_drift" /\ lit = "dark" /\ idle = TRUE
  /\ quit = FALSE

LedsInit == LedsStart("claim")
-----------------------------------------------------------------------------
(* The board.                                                              *)

Change ==
  /\ changes < MaxChanges
  /\ changes' = changes + 1

BoardChanges ==
  /\ Change
  /\ \E s \in Conditions : board' = [board EXCEPT ![s] = ~@]
  /\ Exclusive(board')
  /\ UNCHANGED <<force, thread, renderer, shared, quit>>

ForceChanges ==
  /\ Change
  /\ force' \in (Forced \cup {"none"}) \ {force}
  /\ UNCHANGED <<board, thread, renderer, shared, quit>>

LedsOnSignal ==
  /\ ~quit
  /\ quit' = TRUE
  /\ UNCHANGED <<world, thread, renderer, shared>>
-----------------------------------------------------------------------------
(* The poll: by the main thread once, then by the state thread.            *)

Polling == main \notin {"claim", "failed"}
After == [emu |-> "pt", pt |-> "host", host |-> "select"]

\* service_active, udc_configured.
Query(s) ==
  /\ Polling /\ poll = s
  /\ seen' = [seen EXCEPT ![s] = board[s]]
  /\ poll' = After[s]
  /\ UNCHANGED <<world, np, last, renderer, shared, quit>>

\* fork, waitpid or opendir fails: the answer is no.
QueryFails(s) ==
  /\ Polling /\ poll = s /\ board[s]
  /\ Change
  /\ seen' = [seen EXCEPT ![s] = FALSE]
  /\ poll' = After[s]
  /\ UNCHANGED <<board, force, np, last, renderer, shared, quit>>

\* Variant of SelectPattern: the host is not looked at.
SelectService(b) ==
  CASE b["emu"] /\ b["pt"] -> "cold_tide"
    [] ~b["emu"] /\ ~b["pt"] -> "idle_drift"
    [] b["emu"] /\ ~b["pt"] -> "calm_focus"
    [] OTHER -> "alert_ready"

SelectPattern(b) ==
  CASE b["emu"] /\ b["pt"] -> "cold_tide"
    [] ~b["emu"] /\ ~b["pt"] -> "idle_drift"
    [] b["emu"] # b["pt"] /\ ~b["host"] -> "heart_searching"
    [] b["emu"] /\ ~b["pt"] /\ b["host"] -> "calm_focus"
    [] OTHER -> "alert_ready"

\* The initial poll is published before there is a thread, and is the thread's
\* first idea of the last pattern.
InitialPattern ==
  /\ main = "poll" /\ poll = "select"
  /\ current' = SelectPattern(seen) /\ last' = current'
  /\ main' = "test" /\ poll' = "test"
  /\ UNCHANGED <<world, seen, np, ack, p, lit, idle, quit>>

\* There is no thread to be had: the program ends, and systemd restarts it.
ThreadFails ==
  /\ main = "poll" /\ poll = "select"
  /\ current' = SelectPattern(seen)
  /\ main' = "failed"
  /\ UNCHANGED <<world, thread, ack, p, lit, idle, quit>>

ThreadTests ==
  /\ poll = "test"
  /\ poll' = IF quit THEN "done" ELSE "force"
  /\ UNCHANGED <<world, seen, np, last, renderer, shared, quit>>

\* A force file that names a pattern settles it; anything else is ignored.
ReadForce ==
  /\ poll = "force"
  /\ IF force \in Patterns THEN np' = force /\ poll' = "publish"
                           ELSE poll' = "emu" /\ UNCHANGED np
  /\ UNCHANGED <<world, seen, last, renderer, shared, quit>>

ThreadSelects ==
  /\ main \notin {"poll", "failed"} /\ poll = "select"
  /\ np' = SelectPattern(seen)
  /\ poll' = "publish"
  /\ UNCHANGED <<world, seen, last, renderer, shared, quit>>

\* A new pattern: the deadline of its acknowledgement comes first.
Acknowledge ==
  /\ poll = "publish"
  /\ ack' = IF np # last THEN CrossfadeSeconds ELSE ack
  /\ last' = np
  /\ poll' = "store"
  /\ UNCHANGED <<world, seen, np, renderer, current, quit>>

Store ==
  /\ poll = "store"
  /\ current' = np
  /\ poll' = "sleep"
  /\ UNCHANGED <<world, seen, np, last, renderer, ack, quit>>

\* Variants of Acknowledge and Store, in the other order: the pattern is
\* published, and then the deadline of its acknowledgement.
PublishFirst ==
  /\ poll = "publish"
  /\ current' = np
  /\ poll' = "store"
  /\ UNCHANGED <<world, seen, np, last, renderer, ack, quit>>

AcknowledgeLate ==
  /\ poll = "store"
  /\ ack' = IF np # last THEN CrossfadeSeconds ELSE ack
  /\ last' = np
  /\ poll' = "sleep"
  /\ UNCHANGED <<world, seen, np, renderer, current, quit>>

StateThreadSwapped ==
  \/ ThreadTests
  \/ ReadForce
  \/ ThreadSelects
  \/ PublishFirst
  \/ AcknowledgeLate

StateThread ==
  \/ ThreadTests
  \/ ReadForce
  \/ ThreadSelects
  \/ Acknowledge
  \/ Store
-----------------------------------------------------------------------------
(* The main thread.                                                        *)

\* Another holder of the GPIO lines ends the program: systemd restarts it.
ClaimLines ==
  /\ main = "claim"
  /\ main' \in {"poll", "failed"}
  /\ UNCHANGED <<world, thread, p, lit, idle, shared, quit>>

RenderTests ==
  /\ main = "test"
  /\ main' = IF quit THEN "join" ELSE "load"
  /\ UNCHANGED <<world, thread, p, lit, idle, shared, quit>>

LoadPattern ==
  /\ main = "load"
  /\ p' = current
  /\ main' = "overlay"
  /\ UNCHANGED <<world, thread, lit, idle, shared, quit>>

Overlay ==
  /\ main = "overlay"
  /\ lit' = IF ack > 0 THEN "crossfade" ELSE p
  /\ idle' = FALSE
  /\ main' = "test"
  /\ UNCHANGED <<world, thread, p, shared, quit>>

\* Variant of JoinThread: the lines are left as they are.
JoinOnly ==
  /\ main = "join" /\ poll = "done"
  /\ main' = "exit"
  /\ UNCHANGED <<world, thread, p, lit, idle, shared, quit>>

\* The thread is joined and the LEDs are switched off.
JoinThread ==
  /\ main = "join" /\ poll = "done"
  /\ lit' = "dark"
  /\ main' = "exit"
  /\ UNCHANGED <<world, thread, p, idle, shared, quit>>

Renderer == RenderTests \/ LoadPattern \/ Overlay \/ JoinThread

\* A second passes: not between two neighbouring atomic operations of a
\* thread, and not before the 1 kHz loop has come round.
SecondPasses ==
  /\ main \in {"test", "join"} /\ poll # "store"
  /\ main = "test" => ~idle
  /\ ack > 0 \/ poll = "sleep"
  /\ ack' = IF ack > 0 THEN ack - 1 ELSE 0
  /\ poll' = IF poll = "sleep" THEN "test" ELSE poll
  /\ idle' = TRUE
  /\ UNCHANGED <<world, seen, np, last, main, p, lit, current, quit>>

Ended == main \in {"exit", "failed"} /\ UNCHANGED ledsVars

LedsNext ==
  \/ BoardChanges \/ ForceChanges \/ LedsOnSignal
  \/ \E s \in LedInputs : Query(s) \/ QueryFails(s)
  \/ InitialPattern \/ ThreadFails \/ StateThread
  \/ ClaimLines \/ Renderer \/ SecondPasses \/ Ended

\* Both threads run, a query returns, and time passes.
LedsFairness ==
  /\ \A s \in LedInputs : WF_ledsVars(Query(s))
  /\ WF_ledsVars(InitialPattern \/ ThreadFails) /\ WF_ledsVars(StateThread)
  /\ WF_ledsVars(ClaimLines) /\ WF_ledsVars(Renderer)
  /\ SF_ledsVars(SecondPasses)

LedsSpec == LedsInit /\ [][LedsNext]_ledsVars /\ LedsFairness
-----------------------------------------------------------------------------
(* Properties.                                                             *)

LedsTypeOK ==
  /\ board \in [Conditions -> BOOLEAN] /\ seen \in [LedInputs -> BOOLEAN]
  /\ {np, last, current, p} \subseteq Patterns
  /\ lit \in Patterns \cup {"dark"}
  /\ ack \in 0 .. CrossfadeSeconds
  /\ poll = "done" => quit
  /\ main = "exit" => lit = "dark"

\* The pattern of a new state is never shown before its acknowledgement: the
\* LEDs do not go from one pattern to another without the crossfade between
\* them, whatever the two threads are doing when the state changes.
Acknowledged ==
  [][lit # lit' => {"crossfade", "dark"} \cap {lit, lit'} # {}]_ledsVars

\* What the LEDs are to show, by the lines of the header of main.c that the
\* code keeps to.  The rest of the header is in Promised.
Called ==
  IF force \in Patterns THEN force
  ELSE IF ~board["emu"] /\ ~board["pt"] THEN "idle_drift"
  ELSE IF ~board["host"] THEN "heart_searching"
  ELSE IF board["emu"] THEN "calm_focus" ELSE "alert_ready"

\* Once the board has come to rest the LEDs show its pattern and keep showing
\* it, unless the program ends.
LedsSettle == <>[](lit = Called \/ quit \/ main = "failed")

\* What the whole header promises for a board at rest: cold_tide also where an
\* expected service is failed, and where a mode has been on for 30 s without a
\* host, which is where a rest without one ends.
Promised ==
  IF force \in Patterns THEN force
  ELSE IF board["failed"] THEN "cold_tide"
  ELSE IF (board["emu"] \/ board["pt"]) /\ ~board["host"] THEN "cold_tide"
  ELSE Called

\* The claim of the header: "Error: an expected service is failed, both modes
\* are accidentally active, or no UDC for >30 s while a mode is on."
\* select_pattern asks for neither failures nor durations.
HeaderHolds == <>[](lit = Promised \/ quit \/ main = "failed")

\* SIGTERM ends the program with the LEDs off: the thread notices within a
\* second that it has to stop, and is joined before the last write.
LedsGoDark == <>[](quit => lit = "dark")
=============================================================================

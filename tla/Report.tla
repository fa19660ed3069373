------------------------------- MODULE Report -------------------------------
(***************************************************************************)
(* The 1 kHz half of mapper.c: what mapper_build_report makes of the       *)
(* pressed bitmap and of the mouse motion read so far.                     *)
(*                                                                         *)
(* Two mechanisms depend on time.  Burst-on-hold gates a held button with  *)
(* an oscillator whose phase starts at pressed_since_ns; burst_tick        *)
(* maintains that time by comparing the bitmap from one report to the      *)
(* next.  The right stick sums the mouse counts of a sliding window over a *)
(* ring of samples, newest first, stopping at the first sample that is too *)
(* old.  Time is counted in milliseconds; reports come at most one per     *)
(* millisecond and may be late.                                            *)
(***************************************************************************)
EXTENDS Integers, Sequences, FiniteSets, FiniteSetsExt

CONSTANTS
  Buttons,     \* actions gated by burst (buttons and triggers)
  Directions,  \* left stick and d-pad actions, never gated
  Mice,        \* devices that report motion
  Patterns,    \* jittered cadences: sequences of <<cycle width, on time>>;
               \* <<>> is the clockwork cadence, an on time of 0 a skipped cycle
  Period,      \* base_cycle_ns, in ms
  OnTime,      \* base_cycle_ns * duty, in ms
  Window,      \* window_ms
  RingCap,     \* KBM_SAMPLE_RING_CAP
  MaxTime      \* bound: the length of a run

ASSUME CadenceAssumption == Period \in Nat \ {0} /\ OnTime \in 1 .. Period
ASSUME WindowAssumption == Window \in Nat /\ RingCap \in Nat \ {0}
ASSUME TimeAssumption == MaxTime \in Nat \ {0}
\* A cycle is never empty, and the duty of one never above 95%.
ASSUME PatternsAssumption ==
  \A p \in Patterns :
    /\ p \in Seq(Nat \X Nat)
    /\ \A i \in DOMAIN p : p[i][1] > 0 /\ p[i][2] <= p[i][1]

Actions == Buttons \cup Directions

VARIABLES
  now,       \* CLOCK_MONOTONIC; also the kernel's event timestamps
  pressed,   \* pressed_lo/pressed_hi
  since,     \* pressed_since_ns, 0 when released
  burst,     \* actions with burst_hz > 0
  pattern,   \* the cadence the jitter options select
  frames,    \* per mouse: timestamps of motion frames not yet read
  ring,      \* timestamps of the samples in the ring
  head,      \* ring_head
  count,     \* ring_count
  report,    \* last report: active actions and counts in the window
  log,       \* history: time and bitmap behind every report
  risen,     \* history: actions pressed anew since the last report
  motion     \* history: motion frames the daemon has read

keyVars    == <<pressed, risen>>
burstVars  == <<burst, pattern>>
ringVars   == <<frames, ring, head, count, motion>>
reportVars == <<since, report, log>>
vars == <<now, keyVars, burstVars, ringVars, reportVars>>

Init ==
  /\ now = 1
  /\ pressed = {} /\ risen = {}
  /\ since = [a \in Actions |-> 0]
  /\ burst \in SUBSET Buttons /\ pattern \in Patterns
  /\ frames = [m \in Mice |-> <<>>]
  /\ ring = [i \in 0 .. RingCap - 1 |-> 0] /\ head = 0 /\ count = 0
  /\ motion = {}
  /\ report = [active |-> {}, counts |-> 0] /\ log = <<>>
-----------------------------------------------------------------------------
(* Time, fingers and mice.                                                 *)

Advance ==
  /\ now < MaxTime
  /\ now' = now + 1
  /\ UNCHANGED <<keyVars, burstVars, ringVars, reportVars>>

\* The drain loop sets or clears the bit of an action.
SetAction(a) ==
  /\ IF a \in pressed
       THEN pressed' = pressed \ {a} /\ risen' = risen
       ELSE pressed' = pressed \cup {a} /\ risen' = risen \cup {a}
  /\ UNCHANGED <<now, burstVars, ringVars, reportVars>>

\* A mouse sends at most one frame per millisecond.
Move(m) ==
  /\ \A i \in DOMAIN frames[m] : frames[m][i] # now
  /\ <<m, now>> \notin motion
  /\ frames' = [frames EXCEPT ![m] = Append(@, now)]
  /\ UNCHANGED <<now, keyVars, burstVars, ring, head, count, motion, reportVars>>

\* Variant of ReadFrame: the write index is compared with the capacity too late.
ReadFramePastEnd(m) ==
  /\ frames[m] # <<>>
  /\ frames' = [frames EXCEPT ![m] = Tail(@)]
  /\ ring' = [ring EXCEPT ![head] = Head(frames[m])]
  /\ head' = IF head < RingCap THEN head + 1 ELSE 0
  /\ count' = IF count < RingCap THEN count + 1 ELSE count
  /\ motion' = motion \cup {<<m, Head(frames[m])>>}
  /\ UNCHANGED <<now, keyVars, burstVars, reportVars>>

\* EV_SYN: the frame goes into the ring with its own timestamp, over the
\* oldest sample when the ring is full.
ReadFrame(m) ==
  /\ frames[m] # <<>>
  /\ frames' = [frames EXCEPT ![m] = Tail(@)]
  /\ ring' = [ring EXCEPT ![head] = Head(frames[m])]
  /\ head' = (head + 1) % RingCap
  /\ count' = IF count < RingCap THEN count + 1 ELSE count
  /\ motion' = motion \cup {<<m, Head(frames[m])>>}
  /\ UNCHANGED <<now, keyVars, burstVars, reportVars>>

\* Hot reload of the burst options.
Reload(B, p) ==
  /\ <<B, p>> # <<burst, pattern>>
  /\ burst' = B /\ pattern' = p
  /\ UNCHANGED <<now, keyVars, ringVars, reportVars>>
-----------------------------------------------------------------------------
(* burst_tick and is_active.                                               *)

\* Variant of SinceAt: the timestamp of a released action is left in place.
SinceKept(a) ==
  IF a \in pressed /\ since[a] = 0 THEN now ELSE since[a]

\* burst_tick: stamp what is pressed and was not, clear what is released.
SinceAt(a) ==
  IF a \notin pressed THEN 0
  ELSE IF since[a] = 0 THEN now ELSE since[a]

\* Start of the i-th jittered cycle.
CycleStart(i) == MapThenSumSet(LAMBDA j : pattern[j][1], 1 .. i - 1)

\* Variant of OnPhase: the oscillator starts with its low half.
LowFirst(age) == age % Period >= Period - OnTime

\* The high part of the cycle that age falls in; past the last jittered cycle
\* the nominal phase.
OnPhase(age) ==
  LET cycle == {i \in DOMAIN pattern :
                  CycleStart(i) <= age /\ age < CycleStart(i + 1)}
  IN IF cycle = {} THEN age % Period < OnTime
     ELSE \E i \in cycle : age - CycleStart(i) < pattern[i][2]

IsActive(a, start) ==
  /\ a \in pressed
  /\ a \in burst => OnPhase(now - start)
-----------------------------------------------------------------------------
(* window_sum.                                                             *)

Cutoff == now - Window

\* Variant of Sample: the walk starts at the next write slot.
SampleOff(i) == ring[(head - i + RingCap) % RingCap]

\* The i-th newest sample.
Sample(i) == ring[(head - 1 - i + RingCap) % RingCap]

WindowSum ==
  Cardinality({i \in 0 .. count - 1 : \A j \in 0 .. i : Sample(j) >= Cutoff})

BuildReport ==
  /\ \A i \in DOMAIN log : log[i].t < now
  /\ since' = [a \in Actions |-> SinceAt(a)]
  /\ report' = [active |-> {a \in Buttons : IsActive(a, since'[a])}
                             \cup (pressed \cap Directions),
                counts |-> WindowSum]
  /\ log' = Append(log, [t |-> now, pressed |-> pressed])
  /\ risen' = {}
  /\ UNCHANGED <<now, pressed, burstVars, ringVars>>

Next ==
  \/ Advance
  \/ \E a \in Actions : SetAction(a)
  \/ \E m \in Mice : Move(m) \/ ReadFrame(m)
  \/ \E B \in SUBSET Buttons, p \in Patterns : Reload(B, p)
  \/ BuildReport

Spec == Init /\ [][Next]_vars
-----------------------------------------------------------------------------
(* Properties.                                                             *)

\* Type invariant, with the bounds the ring arithmetic relies on.
TypeOK ==
  /\ now \in 1 .. MaxTime
  /\ pressed \subseteq Actions /\ risen \subseteq Actions
  /\ since \in [Actions -> 0 .. now]
  /\ burst \subseteq Buttons /\ pattern \in Patterns
  /\ head \in 0 .. RingCap - 1 /\ count \in 0 .. RingCap
  /\ ring \in [0 .. RingCap - 1 -> 0 .. now]
  /\ report.active \subseteq Actions /\ report.counts \in 0 .. RingCap

Last == log[Len(log)]

\* First report of the run of reports, up to the last one, that found the
\* action pressed.
RunStart(a) ==
  Min({i \in DOMAIN log : \A j \in i .. Len(log) : a \in log[j].pressed})

\* Burst phase starts with the hold: after every report, the timestamp of an
\* action is the time of the first report of the unbroken run that found it
\* pressed, and is clear when the last report found it released.  The history
\* of reports is the reference; burst_tick only compares neighbours.
PhaseFromRun ==
  log # <<>> =>
    \A a \in Actions :
      since[a] = IF a \in Last.pressed THEN log[RunStart(a)].t ELSE 0

\* A hold is never swallowed by its own oscillator: the report that first
\* finds an action pressed shows it, burst or no burst, unless the cadence
\* skips its first cycle (jitter may).
EveryPressShows ==
  [][\A a \in pressed :
       /\ log' # log
       /\ log = <<>> \/ a \notin Last.pressed
       /\ pattern # <<>> => pattern[1][2] > 0
       => a \in report'.active]_vars

\* window_sum, "Sum mouse counts within the velocity window ending at now_ns":
\* the walk that stops at the first old sample sees every frame read so far
\* whose timestamp lies in the window.
WindowComplete ==
  WindowSum = Cardinality({f \in motion : f[2] >= Cutoff})

\* mapper.h, pressed_since_ns: "timestamp of the most recent not-pressed ->
\* pressed transition".  An action pressed anew since the previous report, and
\* still pressed, restarts its phase with this one.
PhaseFromLatestPress ==
  [][log' # log => \A a \in risen \cap pressed : since'[a] = now]_vars
=============================================================================

----------------------------- MODULE BoardProofs ----------------------------
(***************************************************************************)
(* The smaller parts of the board, each by itself: the status LEDs, the    *)
(* control transfers, key capture and the mode switch, for any number of   *)
(* changes, transfers, browsers, switches and crashes; and what MCBoard    *)
(* runs, which is all of them, the settings and the slot table.            *)
(***************************************************************************)
EXTENDS MCBoard, SettingsProofs, HotPlugProofs, SequenceTheorems, FiniteSetTheorems,
        WellFoundedInduction, TLAPS
-----------------------------------------------------------------------------
(* The status LEDs.                                                        *)

Before    == {"claim", "poll", "failed"}
Rendering == {"test", "load", "overlay"}

\* What a renderer that has not been told of a new pattern shows.
Plain == lit \notin {"crossfade", "dark"}

\* Until the first poll is published there is no state thread and no frame.
Starting ==
  /\ main \in Before =>
       poll \in {"emu", "pt", "host", "select"} /\ ack = 0 /\ lit = "dark"
  /\ main = "claim" => poll = "emu"

\* While there are two threads they agree on the pattern, except between the two
\* stores of the state thread, and there the deadline is already set.
Announced ==
  /\ poll # "store" /\ main # "failed" => last = current
  /\ poll = "store" => last = np /\ (np # current => ack = 2)

\* The deadline does not pass without a frame that shows it: the last second
\* before it has one.
Shown == main \in Rendering /\ ack = 1 /\ ~idle => lit = "crossfade"

\* Without a deadline the renderer shows, and is about to show, the pattern
\* that is current.
Followed ==
  /\ main \in Rendering /\ ack = 0 /\ Plain => lit = current
  /\ main = "overlay" /\ ack = 0 => p = current

LedsInv == LedsTypeOK /\ Starting /\ Announced /\ Shown /\ Followed
-----------------------------------------------------------------------------
(* What the services and the host call for is a pattern.                   *)
LEMMA SelectedPattern == \A b : SelectPattern(b) \in Patterns
BY DEF SelectPattern, Patterns

(* A step of any actor, as the cases that the proofs below distinguish.    *)
LEMMA LedsSteps ==
  ASSUME [LedsNext]_ledsVars
  PROVE  \/ UNCHANGED ledsVars \/ BoardChanges \/ ForceChanges \/ LedsOnSignal
         \/ (\E s \in LedInputs : Query(s) \/ QueryFails(s)) \/ InitialPattern
         \/ ThreadFails \/ ThreadTests \/ ReadForce \/ ThreadSelects \/ Acknowledge \/ Store
         \/ ClaimLines \/ RenderTests \/ LoadPattern \/ Overlay \/ JoinThread
         \/ SecondPasses
BY DEF LedsNext, StateThread, Renderer, Ended

(* The data keeps its types.                                               *)
LEMMA LedsTypesStep ==
  ASSUME LedsTypeOK, [LedsNext]_ledsVars
  PROVE  LedsTypeOK'
<1> USE DEF LedsTypeOK, world, thread, renderer, shared
<1>1. CASE UNCHANGED ledsVars
  BY <1>1 DEF ledsVars
<1>2. CASE BoardChanges \/ ForceChanges \/ LedsOnSignal
  BY <1>2 DEF BoardChanges, ForceChanges, LedsOnSignal
<1>3. CASE \E s \in LedInputs : Query(s) \/ QueryFails(s)
  <2>1. PICK s \in LedInputs : Query(s) \/ QueryFails(s)
    BY <1>3
  <2>2. poll' # "done"
    BY <2>1 DEF Query, QueryFails, After, LedInputs
  <2>3. board[s] \in BOOLEAN
    BY DEF Conditions
  <2>4. seen' \in [LedInputs -> BOOLEAN]
    BY <2>1, <2>3 DEF Query, QueryFails
  <2> QED
    BY <2>1, <2>2, <2>4 DEF Query, QueryFails
<1>4. CASE InitialPattern \/ ThreadFails
  BY <1>4, SelectedPattern DEF InitialPattern, ThreadFails
<1>5. CASE ThreadTests \/ ReadForce \/ Acknowledge \/ Store
  BY <1>5 DEF ThreadTests, ReadForce, Acknowledge, Store, CrossfadeSeconds
<1>6. CASE ThreadSelects
  BY <1>6, SelectedPattern DEF ThreadSelects
<1>7. CASE ClaimLines \/ RenderTests \/ LoadPattern \/ JoinThread
  BY <1>7 DEF ClaimLines, RenderTests, LoadPattern, JoinThread
<1>8. CASE Overlay
  BY <1>8 DEF Overlay, Patterns
<1>9. CASE SecondPasses
  BY <1>9 DEF SecondPasses, CrossfadeSeconds
<1> QED
  BY LedsSteps, <1>1, <1>2, <1>3, <1>4, <1>5, <1>6, <1>7, <1>8, <1>9

(* Only the state thread's two stores touch what the threads agree on.     *)
LEMMA AnnouncedStep ==
  ASSUME Starting, Announced, [LedsNext]_ledsVars
  PROVE  Announced'
<1> USE DEF Announced, world, thread, renderer, shared
<1>1. CASE UNCHANGED ledsVars
  BY <1>1 DEF ledsVars
<1>2. CASE BoardChanges \/ ForceChanges \/ LedsOnSignal
  BY <1>2 DEF BoardChanges, ForceChanges, LedsOnSignal
<1>3. CASE \E s \in LedInputs : Query(s) \/ QueryFails(s)
  BY <1>3 DEF Query, QueryFails, After, LedInputs
<1>4. CASE InitialPattern \/ ThreadFails \/ ThreadTests \/ ReadForce \/ ThreadSelects
  BY <1>4 DEF InitialPattern, ThreadFails, ThreadTests, ReadForce, ThreadSelects
<1>5. CASE Acknowledge
  BY <1>5 DEF Acknowledge, Starting, Before, CrossfadeSeconds
<1>6. CASE Store
  BY <1>6 DEF Store
<1>7. CASE ClaimLines \/ RenderTests \/ LoadPattern \/ Overlay \/ JoinThread
  BY <1>7 DEF ClaimLines, RenderTests, LoadPattern, Overlay, JoinThread
<1>8. CASE SecondPasses
  BY <1>8 DEF SecondPasses
<1> QED
  BY LedsSteps, <1>1, <1>2, <1>3, <1>4, <1>5, <1>6, <1>7, <1>8

(* Nobody but the queries does anything before the first pattern.          *)
LEMMA StartingStep ==
  ASSUME Starting, [LedsNext]_ledsVars
  PROVE  Starting'
<1> USE DEF Starting, Before, world, thread, renderer, shared
<1>1. CASE UNCHANGED ledsVars
  BY <1>1 DEF ledsVars
<1>2. CASE BoardChanges \/ ForceChanges \/ LedsOnSignal
  BY <1>2 DEF BoardChanges, ForceChanges, LedsOnSignal
<1>3. CASE \E s \in LedInputs : Query(s) \/ QueryFails(s)
  BY <1>3 DEF Query, QueryFails, Polling, After, LedInputs
<1>4. CASE InitialPattern \/ ThreadFails
  BY <1>4 DEF InitialPattern, ThreadFails
<1>5. CASE ThreadTests \/ ReadForce \/ Acknowledge \/ Store
  BY <1>5 DEF ThreadTests, ReadForce, Acknowledge, Store
<1>6. CASE ThreadSelects
  BY <1>6 DEF ThreadSelects
<1>7. CASE ClaimLines
  BY <1>7 DEF ClaimLines
<1>8. CASE RenderTests \/ LoadPattern \/ Overlay \/ JoinThread
  BY <1>8 DEF RenderTests, LoadPattern, Overlay, JoinThread
<1>9. CASE SecondPasses
  BY <1>9 DEF SecondPasses
<1> QED
  BY LedsSteps, <1>1, <1>2, <1>3, <1>4, <1>5, <1>6, <1>7, <1>8, <1>9

(* A second passes only after a frame, and that frame showed the deadline. *)
LEMMA ShownStep ==
  ASSUME LedsTypeOK, Starting, Shown, [LedsNext]_ledsVars
  PROVE  Shown'
<1> USE DEF Shown, Rendering, world, thread, renderer, shared
<1>1. CASE UNCHANGED ledsVars
  BY <1>1 DEF ledsVars
<1>2. CASE BoardChanges \/ ForceChanges \/ LedsOnSignal
  BY <1>2 DEF BoardChanges, ForceChanges, LedsOnSignal
<1>3. CASE \E s \in LedInputs : Query(s) \/ QueryFails(s)
  BY <1>3 DEF Query, QueryFails
<1>4. CASE ThreadTests \/ ReadForce \/ ThreadSelects \/ Store
  BY <1>4 DEF ThreadTests, ReadForce, ThreadSelects, Store
<1>5. CASE Acknowledge
  BY <1>5 DEF Acknowledge, CrossfadeSeconds
<1>6. CASE InitialPattern \/ ThreadFails \/ ClaimLines
  BY <1>6 DEF InitialPattern, ThreadFails, ClaimLines, Starting, Before
<1>7. CASE RenderTests \/ LoadPattern \/ JoinThread
  BY <1>7 DEF RenderTests, LoadPattern, JoinThread
<1>8. CASE Overlay
  BY <1>8 DEF Overlay
<1>9. CASE SecondPasses
  BY <1>9 DEF SecondPasses
<1> QED
  BY LedsSteps, <1>1, <1>2, <1>3, <1>4, <1>5, <1>6, <1>7, <1>8, <1>9

(* Without a deadline there is no new pattern, and the renderer keeps to   *)
(* the one that it shows.                                                  *)
LEMMA FollowedStep ==
  ASSUME LedsTypeOK, Starting, Announced, Shown, Followed, [LedsNext]_ledsVars
  PROVE  Followed'
<1> USE DEF Followed, Rendering, Plain, world, thread, renderer, shared
<1>1. CASE UNCHANGED ledsVars
  BY <1>1 DEF ledsVars
<1>2. CASE BoardChanges \/ ForceChanges \/ LedsOnSignal
  BY <1>2 DEF BoardChanges, ForceChanges, LedsOnSignal
<1>3. CASE \E s \in LedInputs : Query(s) \/ QueryFails(s)
  BY <1>3 DEF Query, QueryFails
<1>4. CASE InitialPattern \/ ThreadFails \/ ClaimLines
  BY <1>4 DEF InitialPattern, ThreadFails, ClaimLines, Starting, Before
<1>5. CASE ThreadTests \/ ReadForce \/ ThreadSelects
  BY <1>5 DEF ThreadTests, ReadForce, ThreadSelects
<1>6. CASE Acknowledge
  BY <1>6 DEF Acknowledge, CrossfadeSeconds
<1>7. CASE Store
  BY <1>7 DEF Store, Announced
<1>8. CASE RenderTests \/ LoadPattern \/ JoinThread
  BY <1>8 DEF RenderTests, LoadPattern, JoinThread
<1>9. CASE Overlay
  BY <1>9 DEF Overlay
<1>10. CASE SecondPasses
  <2>1. CASE ack = 0
    BY <1>10, <2>1 DEF SecondPasses
  <2>2. CASE ack > 0
    BY <1>10, <2>2 DEF SecondPasses, Shown, LedsTypeOK, CrossfadeSeconds
  <2> QED
    BY <2>1, <2>2 DEF LedsTypeOK, CrossfadeSeconds
<1> QED
  BY LedsSteps, <1>1, <1>2, <1>3, <1>4, <1>5, <1>6, <1>7, <1>8, <1>9, <1>10
-----------------------------------------------------------------------------
LEMMA InitLedsInv == LedsInit => LedsInv
BY DEF LedsInit, LedsStart, LedsInv, LedsTypeOK, Starting, Announced, Shown,
       Followed, Before, Rendering, Plain, Patterns, CrossfadeSeconds

LEMMA NextLedsInv == LedsInv /\ [LedsNext]_ledsVars => LedsInv'
BY LedsTypesStep, StartingStep, AnnouncedStep, ShownStep, FollowedStep DEF LedsInv

(* What the two threads may count on, for every number of changes of the   *)
(* board and whatever the force file holds.                                *)
THEOREM LedsInvariance == LedsSpec => []LedsInv
BY InitLedsInv, NextLedsInv, PTL DEF LedsSpec

(* The pattern, the deadline and the LEDs stay within what the code        *)
(* defines, and the program does not end before the LEDs are off.          *)
THEOREM LedsTypes == LedsSpec => []LedsTypeOK
<1>1. LedsInv => LedsTypeOK
  BY DEF LedsInv
<1> QED
  BY <1>1, LedsInvariance, PTL

(* The LEDs do not go from one pattern to another without the crossfade    *)
(* between them.                                                           *)
THEOREM LedsAcknowledge == LedsSpec => Acknowledged
<1>1. ASSUME LedsInv, [LedsNext]_ledsVars
      PROVE  [lit # lit' => {"crossfade", "dark"} \cap {lit, lit'} # {}]_ledsVars
  <2> SUFFICES ASSUME lit # lit'
               PROVE  {"crossfade", "dark"} \cap {lit, lit'} # {}
    OBVIOUS
  <2> USE DEF world, thread, renderer, shared
  <2>1. ~UNCHANGED ledsVars
    BY DEF ledsVars
  <2>2. ~(BoardChanges \/ ForceChanges \/ LedsOnSignal)
    BY DEF BoardChanges, ForceChanges, LedsOnSignal
  <2>3. ~\E s \in LedInputs : Query(s) \/ QueryFails(s)
    BY DEF Query, QueryFails
  <2>4. ~(InitialPattern \/ ThreadFails \/ ThreadTests \/ ReadForce \/ ThreadSelects)
    BY DEF InitialPattern, ThreadFails, ThreadTests, ReadForce, ThreadSelects
  <2>5. ~(Acknowledge \/ Store \/ ClaimLines \/ SecondPasses)
    BY DEF Acknowledge, Store, ClaimLines, SecondPasses
  <2>6. ~(RenderTests \/ LoadPattern)
    BY DEF RenderTests, LoadPattern
  <2>7. CASE JoinThread
    BY <2>7 DEF JoinThread
  <2>8. CASE Overlay
    <3>1. CASE ack > 0
      BY <2>8, <3>1 DEF Overlay
    <3>2. CASE ack = 0
      <4>1. lit' = current
        BY <1>1, <2>8, <3>2 DEF Overlay, LedsInv, Followed
      <4>2. ~Plain
        BY <1>1, <2>8, <3>2, <4>1 DEF Overlay, LedsInv, Followed, Rendering
      <4> QED
        BY <4>2 DEF Plain
    <3> QED
      BY <1>1, <3>1, <3>2 DEF LedsInv, LedsTypeOK, CrossfadeSeconds
  <2> QED
    BY <1>1, LedsSteps, <2>1, <2>2, <2>3, <2>4, <2>5, <2>6, <2>7, <2>8
<1> QED
  BY <1>1, LedsInvariance, PTL DEF LedsSpec, Acknowledged
-----------------------------------------------------------------------------
(* Control transfers.                                                      *)

Setups == [n : Nat, what : Requests]

Answer(r) == Least(Transfer(r).len, r.len)

\* The host is in the newest transfer or in none; that transfer is the setup
\* FunctionFS holds.
AskInv ==
  /\ asked \in Nat /\ ask \subseteq {setup}
  /\ asked > 0 => setup \in Setups /\ setup.n = asked
  /\ asked = 0 => ask = {} /\ ~queued

\* A setup still pending is the one the main thread took; a thread that sleeps
\* on ep0 has queued the answer to it.
HeldInv ==
  /\ at \in {"wait", "handle", "queued", "aborted", "exit"}
  /\ state \in {"none", "pending", "cancelled"}
  /\ state = "pending" => asked > 0 /\ held = setup
  /\ at = "handle" => state # "none"
  /\ at = "queued" => /\ state = "pending"
                      /\ Transfer(held.what).dir = held.what.dir
                      /\ moving = Answer(held.what)

\* How a transfer may have ended.
EndsWell(o) ==
  o.end # "lost" =>
    /\ o.by = o.n
    /\ \A n \in Expected(o.what) : o.end = "done" /\ o.len = Least(n, o.what.len)

OutcomeInv ==
  /\ \A o, n \in outcome : o = n
  /\ \A o \in outcome : EndsWell(o)

ControlInv == AskInv /\ HeldInv /\ OutcomeInv
-----------------------------------------------------------------------------
(* The answers. *)

\* The stub of a report has the bytes its item declares.
LEMMA StubDeclared ==
  \A id \in DOMAIN Declared : id \in DOMAIN Stub /\ Stub[id] = Declared[id]
BY DEF Stub, Declared

\* What a driver counts on is what the daemon answers.
LEMMA AnswerExpected ==
  ASSUME NEW r \in Requests, NEW n \in Expected(r)
  PROVE  Transfer(r).dir = r.dir /\ Answer(r) = Least(n, r.len)
<1>1. r.dir \in {"in", "out"} /\ r.len \in Nat
  BY RequestsAssumption
<1>2. CASE r.dir = "in" /\ Standard(r, "GET_DESCRIPTOR") /\ r.value = "report"
  <2>1. Expected(r) = {273} /\ Transfer(r) = Send(273)
    BY <1>2 DEF Expected, Transfer, Standard, Class, ReportDescriptorSize
  <2> QED
    BY <1>2, <2>1 DEF Send, Answer
<1>3. CASE r.dir = "in" /\ Standard(r, "GET_DESCRIPTOR") /\ r.value = "hid"
  <2>1. Expected(r) = {9} /\ Transfer(r) = Send(9)
    BY <1>3 DEF Expected, Transfer, Standard, Class, HidDescriptorSize
  <2> QED
    BY <1>3, <2>1 DEF Send, Answer
<1>4. CASE /\ r.dir = "in" /\ Class(r, "GET_REPORT") /\ r.value = "feature"
           /\ r.id \in DOMAIN Declared
  <2>1. r.id \in DOMAIN Stub /\ Stub[r.id] = Declared[r.id]
    BY <1>4, StubDeclared
  <2>2. Expected(r) = {Declared[r.id]} /\ Transfer(r) = Send(Stub[r.id])
    BY <1>4, <2>1 DEF Expected, Transfer, Standard, Class
  <2> QED
    BY <1>4, <2>1, <2>2 DEF Send, Answer
<1>5. CASE r.dir = "in" /\ Class(r, "GET_REPORT") /\ r.value = "input"
  <2>1. Expected(r) = {64} /\ Transfer(r) = Send(64)
    BY <1>5 DEF Expected, Transfer, Standard, Class, ReportSize
  <2> QED
    BY <1>5, <2>1 DEF Send, Answer
<1>6. CASE r.dir = "out" /\ Class(r, "SET_REPORT") /\ r.len <= 256
  <2>1. Expected(r) = {r.len} /\ Transfer(r) = Receive(256)
    BY <1>6 DEF Expected, Transfer, Standard, Class
  <2> QED
    BY <1>1, <1>6, <2>1 DEF Receive, Answer, Least
<1>7. CASE r.dir = "out" /\ Class(r, "SET_IDLE")
  <2>1. Expected(r) = {0} /\ Transfer(r) = Receive(0)
    BY <1>7 DEF Expected, Transfer, Standard, Class
  <2> QED
    BY <1>7, <2>1 DEF Receive, Answer
<1>8. \/ r.dir = "in" /\ Standard(r, "GET_DESCRIPTOR") /\ r.value = "report"
      \/ r.dir = "in" /\ Standard(r, "GET_DESCRIPTOR") /\ r.value = "hid"
      \/ /\ r.dir = "in" /\ Class(r, "GET_REPORT") /\ r.value = "feature"
         /\ r.id \in DOMAIN Declared
      \/ r.dir = "in" /\ Class(r, "GET_REPORT") /\ r.value = "input"
      \/ r.dir = "out" /\ Class(r, "SET_REPORT") /\ r.len <= 256
      \/ r.dir = "out" /\ Class(r, "SET_IDLE")
  <2>1. Expected(r) # {}
    OBVIOUS
  <2> HIDE DEF Expected
  <2> QED
    BY <2>1 DEF Expected
<1> QED
  BY <1>2, <1>3, <1>4, <1>5, <1>6, <1>7, <1>8
-----------------------------------------------------------------------------
(* Transfers end. *)

\* At most one transfer ends at a time, and as it may.
LEMMA TransferEnds ==
  ASSUME AskInv, NEW end, NEW by, NEW len, Ends(end, by, len),
         ask # {} => EndsWell([n |-> setup.n, by |-> by, what |-> setup.what,
                           end |-> end, len |-> len])
  PROVE  OutcomeInv' /\ ask' = {} /\ asked' = asked
<1> DEFINE Record(a) == [n |-> a.n, by |-> by, what |-> a.what, end |-> end, len |-> len]
<1>1. outcome' = {Record(a) : a \in ask} /\ ask' = {} /\ asked' = asked
  BY DEF Ends
<1>2. \A o \in outcome' : o = Record(setup) /\ EndsWell(o)
  BY <1>1 DEF AskInv
<1> HIDE DEF Record
<1> QED
  BY <1>1, <1>2 DEF OutcomeInv

LEMMA TransferLost ==
  ASSUME AskInv, Ends("lost", 0, 0)
  PROVE  OutcomeInv' /\ ask' = {} /\ asked' = asked
BY TransferEnds DEF EndsWell

\* FunctionFS keeps the types while it cancels, and leaves no pending setup.
LEMMA Aborts ==
  ASSUME HeldInv, Abort
  PROVE  /\ at' \in {"wait", "handle", "aborted", "exit"}
         /\ state' \in {"none", "cancelled"}
         /\ at' = "handle" => state' # "none"
BY DEF HeldInv, Abort
-----------------------------------------------------------------------------
(* The steps. *)
LEMMA AskStep ==
  ASSUME AskInv, HeldInv, [ControlNext]_controlVars
  PROVE  AskInv'
<1> USE DEF host, ffs, daemon0
<1>1. CASE HostAsks
  <2>1. PICK r \in Requests :
          /\ asked' = asked + 1 /\ ask' = {[n |-> asked', what |-> r]}
          /\ setup' \in ask' /\ queued' = TRUE
    BY <1>1 DEF HostAsks
  <2>2. asked' \in Nat /\ asked' > 0 /\ setup' = [n |-> asked', what |-> r]
    BY <2>1 DEF AskInv
  <2>3. setup' \in Setups /\ setup'.n = asked'
    BY <2>2 DEF Setups
  <2> QED
    BY <2>1, <2>2, <2>3 DEF AskInv, Setups
<1>2. CASE HostCompletes \/ HostGivesUp \/ HostResets \/ AnswerStalls
  <2>1. ask' = {} /\ UNCHANGED <<asked, setup>> /\ (queued' = queued \/ queued' = FALSE)
    BY <1>2 DEF HostCompletes, HostGivesUp, HostResets, AnswerStalls, Ends
  <2> QED
    BY <2>1 DEF AskInv, Setups
<1>3. CASE ReadSetup
  BY <1>3 DEF ReadSetup, AskInv, Setups
<1>4. CASE \/ AnswerCancelled \/ AnswerQueued \/ AnswerAborted \/ LoopEnds
           \/ ControlOnSignal \/ ControlEnded \/ UNCHANGED controlVars
  <2>1. UNCHANGED <<ask, asked, setup, queued>>
    BY <1>4 DEF AnswerCancelled, AnswerQueued, AnswerAborted, LoopEnds, ControlOnSignal,
                ControlEnded, controlVars
  <2> QED
    BY <2>1 DEF AskInv, Setups
<1> QED
  BY <1>1, <1>2, <1>3, <1>4 DEF ControlNext, MainLoop, ControlHost

LEMMA HeldStep ==
  ASSUME AskInv, HeldInv, [ControlNext]_controlVars
  PROVE  HeldInv'
<1> USE DEF host, ffs, daemon0
<1>1. CASE HostAsks \/ HostResets
  <2>1. Abort
    BY <1>1 DEF HostAsks, HostResets
  <2>2. /\ at' \in {"wait", "handle", "aborted", "exit"}
        /\ state' \in {"none", "cancelled"} /\ (at' = "handle" => state' # "none")
    BY <2>1, Aborts
  <2> QED
    BY <2>2 DEF HeldInv
<1>2. CASE HostCompletes \/ AnswerStalls \/ AnswerCancelled \/ AnswerAborted
  <2>1. at' = "wait" /\ state' = "none"
    BY <1>2 DEF HostCompletes, AnswerStalls, AnswerCancelled, AnswerAborted
  <2> QED
    BY <2>1 DEF HeldInv
<1>3. CASE ReadSetup
  <2>1. state' = "pending" /\ at' = "handle" /\ held' = setup' /\ queued
        /\ UNCHANGED <<asked, setup>>
    BY <1>3 DEF ReadSetup
  <2>2. asked > 0
    BY <2>1 DEF AskInv
  <2> QED
    BY <2>1, <2>2 DEF HeldInv
<1>4. CASE AnswerQueued
  <2>1. /\ at = "handle" /\ state = "pending" /\ at' = "queued"
        /\ Transfer(held.what).dir = held.what.dir /\ moving' = Answer(held.what)
        /\ UNCHANGED <<asked, setup, state, held>>
    BY <1>4 DEF AnswerQueued, Answer
  <2> QED
    BY <2>1 DEF HeldInv
<1>5. CASE LoopEnds \/ ControlOnSignal
  <2>1. at' \in {"wait", "exit"} \/ (at' = at /\ at # "queued")
    BY <1>5 DEF LoopEnds, ControlOnSignal
  <2>2. UNCHANGED <<asked, setup, state, held>>
    BY <1>5 DEF LoopEnds, ControlOnSignal
  <2> QED
    BY <2>1, <2>2 DEF HeldInv
<1>6. CASE HostGivesUp \/ ControlEnded \/ UNCHANGED controlVars
  <2>1. UNCHANGED <<asked, setup, state, at, held, moving>>
    BY <1>6 DEF HostGivesUp, ControlEnded, controlVars, Ends
  <2> QED
    BY <2>1 DEF HeldInv
<1> QED
  BY <1>1, <1>2, <1>3, <1>4, <1>5, <1>6 DEF ControlNext, MainLoop, ControlHost

LEMMA OutcomeStep ==
  ASSUME AskInv, HeldInv, OutcomeInv, [ControlNext]_controlVars
  PROVE  OutcomeInv'
<1> USE DEF host, ffs, daemon0
<1> DEFINE r == setup.what
<1>1. ASSUME state = "pending" PROVE r \in Requests /\ held = setup
  BY <1>1 DEF HeldInv, AskInv, Setups
<1>2. CASE HostCompletes
  <2>1. at = "queued" /\ Ends("done", held.n, moving)
    BY <1>2 DEF HostCompletes
  <2>2. state = "pending" /\ moving = Answer(held.what)
    BY <2>1 DEF HeldInv
  <2>3. r \in Requests /\ held = setup
    BY <1>1, <2>2
  <2> DEFINE o == [n |-> setup.n, by |-> held.n, what |-> r, end |-> "done", len |-> moving]
  <2>4. \A n \in Expected(r) : moving = Least(n, r.len)
    BY <2>2, <2>3, AnswerExpected
  <2>5. o.n = setup.n /\ o.by = setup.n /\ o.what = r /\ o.end = "done" /\ o.len = moving
    BY <2>3
  <2> HIDE DEF o
  <2>6. EndsWell(o)
    BY <2>4, <2>5 DEF EndsWell
  <2> QED
    BY <2>1, <2>6, TransferEnds DEF o
<1>3. CASE AnswerStalls
  <2>1. /\ state = "pending" /\ Ends("stall", held.n, 0)
        /\ Transfer(held.what).dir # held.what.dir
    BY <1>3 DEF AnswerStalls
  <2>2. r \in Requests /\ held = setup
    BY <1>1, <2>1
  <2> DEFINE o == [n |-> setup.n, by |-> held.n, what |-> r, end |-> "stall", len |-> 0]
  <2>3. \A n : n \notin Expected(r)
    BY <2>1, <2>2, AnswerExpected
  <2>4. o.n = setup.n /\ o.by = setup.n /\ o.what = r
    BY <2>2
  <2> HIDE DEF o
  <2>5. EndsWell(o)
    BY <2>3, <2>4 DEF EndsWell
  <2> QED
    BY <2>1, <2>5, TransferEnds DEF o
<1>4. CASE HostGivesUp \/ HostResets
  <2>1. Ends("lost", 0, 0)
    BY <1>4 DEF HostGivesUp, HostResets
  <2> QED
    BY <2>1, TransferLost
<1>5. CASE \/ HostAsks \/ ReadSetup \/ AnswerCancelled \/ AnswerQueued \/ AnswerAborted
           \/ LoopEnds \/ ControlOnSignal \/ ControlEnded \/ UNCHANGED controlVars
  <2>1. UNCHANGED outcome
    BY <1>5 DEF HostAsks, ReadSetup, AnswerCancelled, AnswerQueued, AnswerAborted, LoopEnds,
                ControlOnSignal, ControlEnded, controlVars
  <2> QED
    BY <2>1 DEF OutcomeInv, EndsWell
<1> QED
  BY <1>2, <1>3, <1>4, <1>5 DEF ControlNext, MainLoop, ControlHost
-----------------------------------------------------------------------------
(* The theorems. *)
LEMMA InitControlInv == ControlInit => ControlInv
BY DEF ControlInit, ControlInv, AskInv, HeldInv, OutcomeInv

LEMMA NextControlInv == ControlInv /\ [ControlNext]_controlVars => ControlInv'
BY AskStep, HeldStep, OutcomeStep DEF ControlInv

\* The inductive invariant holds however the host and the daemon interleave.
THEOREM ControlInvariance == ControlSpec => []ControlInv
BY InitControlInv, NextControlInv, PTL DEF ControlSpec

LEMMA AtMostOne ==
  ASSUME NEW S, \A x, y \in S : x = y
  PROVE  Cardinality(S) <= 1
<1>1. CASE S = {}
  BY <1>1, FS_EmptySet
<1>2. CASE S # {}
  <2>1. PICK x : S = {x}
    BY <1>2
  <2>2. Cardinality({x}) = 1
    BY FS_Singleton
  <2> QED
    BY <2>1, <2>2
<1> QED
  BY <1>1, <1>2

\* The host is in one transfer at most, and a main thread that handles a setup
\* or sleeps on ep0 has one that FunctionFS still knows of (handle_setup).
THEOREM OneTransfer == ControlSpec => []ControlTypeOK
<1>1. ASSUME ControlInv PROVE ControlTypeOK
  <2>1. Cardinality(ask) <= 1
    BY <1>1, AtMostOne DEF ControlInv, AskInv
  <2>2. Cardinality(outcome) <= 1
    BY <1>1, AtMostOne DEF ControlInv, OutcomeInv
  <2>3. \A a \in ask : a.n = asked
    BY <1>1 DEF ControlInv, AskInv
  <2> QED
    BY <1>1, <2>1, <2>2, <2>3 DEF ControlInv, HeldInv, ControlTypeOK
<1> QED
  BY <1>1, ControlInvariance, PTL

\* No host gets the answer to a request it gave up, or another number of bytes
\* than the descriptors announce, however its timeouts, its resets and its next
\* requests meet the thread that answers (handle_setup, respond_in, ack_out).
THEOREM AnswersItsRequest == ControlSpec => []HostGetsWhatItAsked
<1>1. ControlInv => HostGetsWhatItAsked
  BY DEF ControlInv, OutcomeInv, EndsWell, HostGetsWhatItAsked
<1> QED
  BY <1>1, ControlInvariance, PTL
-----------------------------------------------------------------------------
(* Key capture.                                                            *)

\* What the browser was sent and will be sent; the events after the first e.
Stream(s) == relayed[s] \o inbox[s]
EventsAfter(e) == [i \in 1 .. published - e |-> e + i]

IsServed(s) == \E i \in Slots : clients[i] = s
IsWaiting(s) == \E i \in DOMAIN waiting : waiting[i] = s

CaptureTypes ==
  /\ clients \in [Slots -> Subscribers \cup {NoClient}]
  /\ waiting \in Seq(Subscribers) /\ Len(waiting) <= Backlog
  /\ link \in [Subscribers -> {"none", "open", "left", "closed"}]
  /\ inbox \in [Subscribers -> Seq(Nat)] /\ relayed \in [Subscribers -> Seq(Nat)]
  /\ since \in [Subscribers -> Nat] /\ lossy \subseteq Subscribers
  /\ published \in Nat /\ listening \in BOOLEAN
  /\ \A s \in Subscribers : Len(inbox[s]) <= Room /\ since[s] <= published

\* A connection has one place: in the backlog or in one of the slots.
PlaceInv ==
  /\ \A i, j \in Slots : clients[i] = clients[j] /\ clients[i] # NoClient => i = j
  /\ \A i, j \in DOMAIN waiting : waiting[i] = waiting[j] => i = j
  /\ \A s \in Subscribers : ~(IsServed(s) /\ IsWaiting(s))
  /\ \A s \in Subscribers : IsServed(s) \/ IsWaiting(s) => link[s] # "none"
  /\ \A s \in Subscribers : link[s] = "open" => IsServed(s) \/ IsWaiting(s)

\* Nothing is written to a connection before it is accepted, and each event
\* after that.
StreamInv ==
  \A s \in Subscribers :
    /\ link[s] = "none" \/ IsWaiting(s) => Stream(s) = <<>>
    /\ IsServed(s) /\ link[s] = "open" /\ s \notin lossy => Stream(s) = EventsAfter(since[s])

CaptureInv == CaptureTypes /\ PlaceInv /\ StreamInv
-----------------------------------------------------------------------------
(* Sequences, and the least element of a set of numbers. *)
LEMMA MovedHead ==
  ASSUME NEW r \in Seq(Nat), NEW q \in Seq(Nat), q # <<>>
  PROVE  /\ Append(r, Head(q)) \in Seq(Nat) /\ Tail(q) \in Seq(Nat)
         /\ Len(Tail(q)) = Len(q) - 1
         /\ Append(r, Head(q)) \o Tail(q) = r \o q
<1>1. /\ Head(q) \in Nat /\ Tail(q) \in Seq(Nat) /\ Len(Tail(q)) = Len(q) - 1
      /\ Head(q) = q[1] /\ \A i \in 1 .. Len(Tail(q)) : Tail(q)[i] = q[i + 1]
  BY HeadTailProperties
<1> DEFINE a == Append(r, Head(q))  t == Tail(q)
<1>2. /\ a \in Seq(Nat) /\ Len(a) = Len(r) + 1 /\ a[Len(r) + 1] = q[1]
      /\ \A i \in 1 .. Len(r) : a[i] = r[i]
  BY <1>1
<1>3. t \in Seq(Nat) /\ Len(t) = Len(q) - 1 /\ Len(q) \in Nat \ {0} /\ Len(r) \in Nat
  BY <1>1
<1>4. \A i \in 1 .. Len(t) : t[i] = q[i + 1]
  BY <1>1
<1> HIDE DEF a, t
<1>5. /\ a \o t \in Seq(Nat) /\ Len(a \o t) = Len(a) + Len(t)
      /\ \A i \in 1 .. Len(a) + Len(t) :
           (a \o t)[i] = IF i <= Len(a) THEN a[i] ELSE t[i - Len(a)]
  BY <1>2, <1>3, ConcatProperties
<1>6. /\ r \o q \in Seq(Nat) /\ Len(r \o q) = Len(r) + Len(q)
      /\ \A i \in 1 .. Len(r) + Len(q) :
           (r \o q)[i] = IF i <= Len(r) THEN r[i] ELSE q[i - Len(r)]
  BY ConcatProperties
<1> DEFINE m == Len(r)  n == Len(q)
<1>7. ASSUME NEW i \in 1 .. m + n PROVE (a \o t)[i] = (r \o q)[i]
  <2>1. m \in Nat /\ n \in Nat \ {0} /\ Len(a) = m + 1 /\ Len(t) = n - 1 /\ i \in 1 .. Len(a) + Len(t)
    BY <1>2, <1>3
  <2>2. /\ (a \o t)[i] = IF i <= m + 1 THEN a[i] ELSE t[i - (m + 1)]
        /\ (r \o q)[i] = IF i <= m THEN r[i] ELSE q[i - m]
    BY <1>5, <1>6, <2>1
  <2>3. CASE i <= m
    BY <1>2, <2>1, <2>2, <2>3
  <2>4. CASE i = m + 1
    <3>1. i - m = 1 /\ ~(i <= m)
      BY <2>1, <2>4
    <3> QED
      BY <1>2, <2>1, <2>2, <2>4, <3>1
  <2>5. CASE i > m + 1
    <3>1. i - (m + 1) \in 1 .. Len(t) /\ (i - (m + 1)) + 1 = i - m /\ ~(i <= m) /\ ~(i <= m + 1)
      BY <2>1, <2>5
    <3> QED
      BY <1>4, <2>2, <3>1
  <2> QED
    BY <2>1, <2>3, <2>4, <2>5
<1>8. a \o t = r \o q
  <2>1. Len(a \o t) = m + n /\ Len(r \o q) = m + n
    BY <1>2, <1>3, <1>5, <1>6
  <2> QED
    BY <1>5, <1>6, <1>7, <2>1, SeqEqual
<1> QED
  BY <1>2, <1>3, <1>8 DEF a, t

LEMMA AppendedLast ==
  ASSUME NEW r \in Seq(Nat), NEW q \in Seq(Nat), NEW e \in Nat
  PROVE  /\ Append(q, e) \in Seq(Nat) /\ Len(Append(q, e)) = Len(q) + 1
         /\ r \o Append(q, e) = Append(r \o q, e)
<1>1. /\ Append(q, e) \in Seq(Nat) /\ Len(Append(q, e)) = Len(q) + 1
      /\ Len(q) \in Nat /\ Len(r) \in Nat
  OBVIOUS
<1>2. r \o Append(q, e) = Append(r \o q, e)
  OBVIOUS
<1> QED
  BY <1>1, <1>2

LEMMA OneMore ==
  ASSUME NEW e \in Nat, NEW n \in Nat, e <= n
  PROVE  [i \in 1 .. (n + 1) - e |-> e + i] = Append([i \in 1 .. n - e |-> e + i], n + 1)
<1> DEFINE f == [i \in 1 .. n - e |-> e + i]
           g == [i \in 1 .. (n + 1) - e |-> e + i]
           m == n - e
<1>1. m \in Nat /\ (n + 1) - e = m + 1 /\ e + (m + 1) = n + 1
  OBVIOUS
<1>2. f \in Seq(Nat) /\ Len(f) = m
  <2>1. f = [i \in 1 .. m |-> e + i] /\ \A i \in 1 .. m : e + i \in Nat
    OBVIOUS
  <2> QED
    BY <1>1, <2>1
<1>3. g \in Seq(Nat) /\ Len(g) = m + 1
  <2>1. g = [i \in 1 .. m + 1 |-> e + i] /\ \A i \in 1 .. m + 1 : e + i \in Nat
    BY <1>1
  <2> QED
    BY <1>1, <2>1
<1>4. \A i \in 1 .. m : f[i] = e + i
  OBVIOUS
<1>5. \A i \in 1 .. m + 1 : g[i] = e + i
  BY <1>1
<1> HIDE DEF f, g, m
<1>6. Append(f, n + 1) \in Seq(Nat) /\ Len(Append(f, n + 1)) = m + 1
  BY <1>1, <1>2
<1>7. ASSUME NEW i \in 1 .. m + 1 PROVE g[i] = Append(f, n + 1)[i]
  <2>1. CASE i <= m
    <3>1. i \in 1 .. m
      BY <1>1, <2>1
    <3>2. Append(f, n + 1)[i] = f[i]
      BY <1>2, <3>1, AppendProperties
    <3> QED
      BY <1>4, <1>5, <3>1, <3>2
  <2>2. CASE i = m + 1
    <3>1. g[i] = n + 1
      BY <1>1, <1>5, <2>2
    <3>2. Append(f, n + 1)[i] = n + 1
      BY <1>1, <1>2, <2>2
    <3> QED
      BY <3>1, <3>2
  <2>3. i <= m \/ i = m + 1
    BY <1>1
  <2> QED
    BY <2>1, <2>2, <2>3
<1>8. g = Append(f, n + 1)
  BY <1>3, <1>6, <1>7, SeqEqual
<1> QED
  BY <1>8 DEF f, g
-----------------------------------------------------------------------------
(* The steps, as the proofs below distinguish them. *)
LEMMA CaptureSteps ==
  ASSUME [CaptureNext]_captureVars
  PROVE  \/ UNCHANGED captureVars
         \/ \E s \in Subscribers : Connects(s) \/ Relays(s) \/ Leaves(s)
         \/ \E i \in Slots : AcceptFree /\ clients[i] = NoClient /\ Take(i) /\ UNCHANGED link
         \/ AcceptFull /\ Take(1) /\ 1 \in Slots /\ link' = Closed({clients[1]})
         \/ Publish \/ CaptureEnds
<1>1. CASE AcceptFree
  <2> DEFINE i == CHOOSE x \in Free : \A y \in Free : x <= y
  <2>1. Free # {} /\ Free \in SUBSET Nat /\ Take(i) /\ UNCHANGED link
    BY <1>1 DEF AcceptFree, Free, Slots
  <2>2. i \in Free
    BY <2>1, LeastExists
  <2> HIDE DEF i
  <2>3. \E j \in Slots : clients[j] = NoClient /\ Take(j)
    BY <2>1, <2>2 DEF Free
  <2> QED
    BY <1>1, <2>1, <2>3
<1>2. CASE AcceptFull
  BY <1>2, SizesAssumption DEF AcceptFull, Slots
<1> QED
  BY <1>1, <1>2 DEF CaptureNext

\* Accepting: the head of the backlog takes a slot.
LEMMA Taking ==
  ASSUME CaptureTypes, PlaceInv, NEW i \in Slots, Take(i), waiting # <<>>
  PROVE  \E h \in Subscribers :
           /\ h = Head(waiting) /\ IsWaiting(h) /\ ~IsServed(h)
           /\ clients' = [clients EXCEPT ![i] = h]
           /\ since' = [since EXCEPT ![h] = published]
           /\ waiting' \in Seq(Subscribers) /\ Len(waiting') <= Backlog
           /\ \A j, k \in DOMAIN waiting' : waiting'[j] = waiting'[k] => j = k
           /\ \A s : IsWaiting(s)' <=> IsWaiting(s) /\ s # h
           /\ \A s : IsServed(s)' <=> s = h \/ \E j \in Slots : j # i /\ clients[j] = s
<1> DEFINE h == Head(waiting)  t == Tail(waiting)
<1>1. waiting \in Seq(Subscribers) /\ waiting # <<>> /\ Len(waiting) <= Backlog
  BY DEF CaptureTypes
<1>2. /\ h \in Subscribers /\ t \in Seq(Subscribers) /\ Len(t) = Len(waiting) - 1
      /\ \A j \in 1 .. Len(t) : t[j] = waiting[j + 1]
  BY <1>1, HeadTailProperties
<1>3. /\ Len(waiting) \in Nat \ {0} /\ DOMAIN waiting = 1 .. Len(waiting)
      /\ DOMAIN t = 1 .. Len(t) /\ h = waiting[1] /\ Backlog \in Nat
  BY <1>1, <1>2, SizesAssumption
<1>4. /\ clients' = [clients EXCEPT ![i] = h] /\ waiting' = t
      /\ since' = [since EXCEPT ![h] = published]
  BY DEF Take
<1> HIDE DEF h, t
<1>5. IsWaiting(h) /\ ~IsServed(h)
  <2>1. IsWaiting(h)
    BY <1>3 DEF IsWaiting
  <2> QED
    BY <1>2, <2>1 DEF PlaceInv
<1>6. Len(t) <= Backlog
  BY <1>1, <1>2, <1>3
<1>7. \A j \in DOMAIN t : j + 1 \in DOMAIN waiting /\ t[j] = waiting[j + 1] /\ j + 1 # 1
  BY <1>2, <1>3
<1>8. \A j, k \in DOMAIN waiting : waiting[j] = waiting[k] => j = k
  BY DEF PlaceInv
<1>9. \A j, k \in DOMAIN t : t[j] = t[k] => j = k
  <2> SUFFICES ASSUME NEW j \in DOMAIN t, NEW k \in DOMAIN t, t[j] = t[k] PROVE j = k
    OBVIOUS
  <2>1. j + 1 = k + 1
    BY <1>7, <1>8
  <2>2. j \in Nat /\ k \in Nat
    BY <1>3
  <2> QED
    BY <2>1, <2>2
<1>10. ASSUME NEW s PROVE IsWaiting(s)' <=> IsWaiting(s) /\ s # h
  <2>1. IsWaiting(s)' <=> \E j \in DOMAIN t : t[j] = s
    BY <1>4 DEF IsWaiting
  <2>2. ASSUME NEW j \in DOMAIN t, t[j] = s PROVE IsWaiting(s) /\ s # h
    <3>1. j + 1 \in DOMAIN waiting /\ waiting[j + 1] = s /\ j + 1 # 1
      BY <1>7, <2>2
    <3>2. 1 \in DOMAIN waiting
      BY <1>3
    <3> QED
      BY <1>3, <1>8, <3>1, <3>2 DEF IsWaiting
  <2>3. ASSUME IsWaiting(s), s # h PROVE \E j \in DOMAIN t : t[j] = s
    <3>1. PICK k \in DOMAIN waiting : waiting[k] = s
      BY <2>3 DEF IsWaiting
    <3>2. k # 1 /\ k \in 1 .. Len(waiting)
      BY <1>3, <2>3, <3>1
    <3>3. k - 1 \in 1 .. Len(t) /\ (k - 1) + 1 = k
      BY <1>2, <1>3, <3>2
    <3> QED
      BY <1>2, <1>3, <3>1, <3>3
  <2> QED
    BY <2>1, <2>2, <2>3
<1>11. ASSUME NEW s
       PROVE  IsServed(s)' <=> s = h \/ \E j \in Slots : j # i /\ clients[j] = s
  <2>1. clients \in [Slots -> Subscribers \cup {NoClient}]
    BY DEF CaptureTypes
  <2>2. clients'[i] = h /\ \A j \in Slots : j # i => clients'[j] = clients[j]
    BY <1>4, <2>1
  <2>3. IsServed(s)' <=> \E j \in Slots : clients'[j] = s
    BY DEF IsServed, Slots
  <2> QED
    BY <2>2, <2>3
<1> QED
  BY <1>2, <1>4, <1>5, <1>6, <1>9, <1>10, <1>11 DEF h

LEMMA SlotSame ==
  ASSUME UNCHANGED clients
  PROVE  \A s : IsServed(s)' <=> IsServed(s)
BY DEF IsServed, Slots

LEMMA BacklogSame ==
  ASSUME UNCHANGED waiting
  PROVE  \A s : IsWaiting(s)' <=> IsWaiting(s)
BY DEF IsWaiting

LEMMA NobodyIsNone == \A s \in Subscribers : s # NoClient
BY ClientsAssumption

\* Who is served, in the words of Publish.
LEMMA ServedSet == \A s : s \in ToSet(clients) <=> \E i \in DOMAIN clients : clients[i] = s
BY DEF ToSet

-----------------------------------------------------------------------------
(* Types. *)
LEMMA CaptureTypesStep ==
  ASSUME CaptureTypes, PlaceInv, [CaptureNext]_captureVars
  PROVE  CaptureTypes'
<1>1. CASE UNCHANGED captureVars
  BY <1>1 DEF captureVars, CaptureTypes, Slots
<1>2. ASSUME NEW s \in Subscribers, Connects(s)
      PROVE  CaptureTypes'
  <2>1. /\ link' = [link EXCEPT ![s] = "open"] /\ waiting' = Append(waiting, s)
        /\ Len(waiting) < Backlog
        /\ UNCHANGED <<clients, inbox, relayed, since, lossy, published, listening>>
    BY <1>2 DEF Connects
  <2>2. link' \in [Subscribers -> {"none", "open", "left", "closed"}]
    BY <2>1 DEF CaptureTypes
  <2>3. waiting' \in Seq(Subscribers) /\ Len(waiting') <= Backlog
    <3>1. waiting \in Seq(Subscribers) /\ Backlog \in Nat /\ Len(waiting) \in Nat
      BY SizesAssumption DEF CaptureTypes
    <3>2. waiting' \in Seq(Subscribers) /\ Len(waiting') = Len(waiting) + 1
      BY <2>1, <3>1
    <3> QED
      BY <2>1, <3>1, <3>2
  <2> QED
    BY <2>1, <2>2, <2>3 DEF CaptureTypes, Slots
<1>3. ASSUME NEW s \in Subscribers, Relays(s)
      PROVE  CaptureTypes'
  <2>1. /\ inbox[s] # <<>>
        /\ relayed' = [relayed EXCEPT ![s] = Append(relayed[s], Head(inbox[s]))]
        /\ inbox' = [inbox EXCEPT ![s] = Tail(inbox[s])]
        /\ UNCHANGED <<clients, waiting, link, since, lossy, published, listening>>
    BY <1>3 DEF Relays
  <2>2. inbox[s] \in Seq(Nat) /\ relayed[s] \in Seq(Nat) /\ Len(inbox[s]) <= Room
    BY DEF CaptureTypes
  <2>3. /\ Append(relayed[s], Head(inbox[s])) \in Seq(Nat) /\ Tail(inbox[s]) \in Seq(Nat)
        /\ Len(Tail(inbox[s])) = Len(inbox[s]) - 1
    BY <2>1, <2>2, MovedHead
  <2>4. Len(Tail(inbox[s])) <= Room
    BY <2>2, <2>3, SizesAssumption
  <2>5. inbox' \in [Subscribers -> Seq(Nat)] /\ relayed' \in [Subscribers -> Seq(Nat)]
    BY <2>1, <2>3 DEF CaptureTypes
  <2>6. \A x \in Subscribers : Len(inbox'[x]) <= Room
    BY <2>1, <2>4 DEF CaptureTypes
  <2> QED
    BY <2>1, <2>5, <2>6 DEF CaptureTypes, Slots
<1>4. ASSUME NEW s \in Subscribers, Leaves(s)
      PROVE  CaptureTypes'
  <2>1. /\ link' = [link EXCEPT ![s] = "left"] /\ inbox' = [inbox EXCEPT ![s] = <<>>]
        /\ UNCHANGED <<clients, waiting, relayed, since, lossy, published, listening>>
    BY <1>4 DEF Leaves
  <2>2. link' \in [Subscribers -> {"none", "open", "left", "closed"}]
    BY <2>1 DEF CaptureTypes
  <2>3. <<>> \in Seq(Nat) /\ Len(<<>>) <= Room
    BY SizesAssumption
  <2>4. inbox' \in [Subscribers -> Seq(Nat)]
    BY <2>1, <2>3 DEF CaptureTypes
  <2>5. \A x \in Subscribers : Len(inbox'[x]) <= Room
    BY <2>1, <2>3 DEF CaptureTypes
  <2> QED
    BY <2>1, <2>2, <2>4, <2>5 DEF CaptureTypes, Slots
<1>5. ASSUME NEW i \in Slots, waiting # <<>>, Take(i),
             link' \in [Subscribers -> {"none", "open", "left", "closed"}]
      PROVE  CaptureTypes'
  <2>1. PICK h \in Subscribers :
          /\ clients' = [clients EXCEPT ![i] = h] /\ since' = [since EXCEPT ![h] = published]
          /\ waiting' \in Seq(Subscribers) /\ Len(waiting') <= Backlog
    BY <1>5, Taking
  <2>2. UNCHANGED <<inbox, relayed, lossy, published, listening>>
    BY <1>5 DEF Take
  <2>3. clients' \in [Slots -> Subscribers \cup {NoClient}]
    BY <2>1 DEF CaptureTypes
  <2>4. /\ since' \in [Subscribers -> Nat]
        /\ \A x \in Subscribers : since'[x] <= published
    BY <2>1 DEF CaptureTypes
  <2> QED
    BY <1>5, <2>1, <2>2, <2>3, <2>4 DEF CaptureTypes, Slots
<1>6. \A ss : Closed(ss) \in [Subscribers -> {"none", "open", "left", "closed"}]
  BY DEF Closed, CaptureTypes
<1>7. CASE Publish
  <2> DEFINE served == {s \in Subscribers : s \in ToSet(clients) /\ link[s] = "open"}
  <2>1. /\ published' = published + 1
        /\ inbox' = [s \in Subscribers |->
                       IF s \in served /\ ~Full(s) THEN Append(inbox[s], published')
                       ELSE inbox[s]]
        /\ lossy' = lossy \cup {s \in served : Full(s)}
        /\ clients' = [i \in Slots |-> IF clients[i] \in served THEN clients[i] ELSE NoClient]
        /\ UNCHANGED <<waiting, link, relayed, since, listening>>
    BY <1>7 DEF Publish
  <2> HIDE DEF served
  <2>2. served \subseteq Subscribers
    BY DEF served
  <2>3. published' \in Nat /\ lossy' \subseteq Subscribers
    BY <2>1, <2>2 DEF CaptureTypes
  <2>4. clients' \in [Slots -> Subscribers \cup {NoClient}]
    BY <2>1, <2>2
  <2>5. ASSUME NEW s \in Subscribers
        PROVE  /\ inbox'[s] \in Seq(Nat) /\ Len(inbox'[s]) <= Room
               /\ since'[s] <= published'
    <3>1. inbox[s] \in Seq(Nat) /\ Len(inbox[s]) <= Room /\ Room \in Nat /\ Len(inbox[s]) \in Nat
      BY SizesAssumption DEF CaptureTypes
    <3>2. since'[s] <= published'
      BY <2>1 DEF CaptureTypes
    <3>3. CASE s \in served /\ ~Full(s)
      <4>1. inbox'[s] = Append(inbox[s], published') /\ Len(inbox[s]) # Room
        BY <2>1, <3>3 DEF Full
      <4>2. inbox'[s] \in Seq(Nat) /\ Len(inbox'[s]) = Len(inbox[s]) + 1
        BY <2>3, <3>1, <4>1
      <4> QED
        BY <3>1, <3>2, <4>1, <4>2
    <3>4. CASE ~(s \in served /\ ~Full(s))
      BY <2>1, <3>1, <3>2, <3>4
    <3> QED
      BY <3>3, <3>4
  <2>6. inbox' \in [Subscribers -> Seq(Nat)]
    <3>1. inbox' = [s \in Subscribers |-> inbox'[s]]
      BY <2>1
    <3> QED
      BY <2>5, <3>1
  <2> QED
    BY <2>1, <2>3, <2>4, <2>5, <2>6 DEF CaptureTypes, Slots
<1>8. CASE CaptureEnds
  <2>1. /\ listening' = FALSE /\ link' = Closed(Subscribers)
        /\ clients' = [i \in Slots |-> NoClient] /\ waiting' = <<>>
        /\ UNCHANGED <<inbox, relayed, since, lossy, published>>
    BY <1>8 DEF CaptureEnds
  <2>2. waiting' \in Seq(Subscribers) /\ Len(waiting') <= Backlog
    BY <2>1, SizesAssumption
  <2>3. clients' \in [Slots -> Subscribers \cup {NoClient}]
    BY <2>1
  <2> QED
    BY <1>6, <2>1, <2>2, <2>3 DEF CaptureTypes, Slots
<1>9. ASSUME NEW i \in Slots, AcceptFree, Take(i), UNCHANGED link
      PROVE  CaptureTypes'
  <2>1. waiting # <<>> /\ link' \in [Subscribers -> {"none", "open", "left", "closed"}]
    BY <1>9 DEF AcceptFree, CaptureTypes
  <2> QED
    BY <1>5, <1>9, <2>1
<1>10. CASE AcceptFull /\ Take(1) /\ 1 \in Slots /\ link' = Closed({clients[1]})
  <2>1. waiting # <<>> /\ link' \in [Subscribers -> {"none", "open", "left", "closed"}]
    BY <1>6, <1>10 DEF AcceptFull
  <2> QED
    BY <1>5, <1>10, <2>1
<1> QED
  BY CaptureSteps, <1>1, <1>2, <1>3, <1>4, <1>7, <1>8, <1>9, <1>10
-----------------------------------------------------------------------------
(* Places. *)

\* Connecting: one more in the backlog.
LEMMA Joining ==
  ASSUME CaptureTypes, PlaceInv, NEW s \in Subscribers, Connects(s)
  PROVE  /\ ~IsServed(s) /\ ~IsWaiting(s) /\ link[s] = "none"
         /\ link' = [link EXCEPT ![s] = "open"]
         /\ \A x : IsServed(x)' <=> IsServed(x)
         /\ \A x : IsWaiting(x)' <=> IsWaiting(x) \/ x = s
         /\ \A i, j \in DOMAIN waiting' : waiting'[i] = waiting'[j] => i = j
<1>1. /\ link[s] = "none" /\ link' = [link EXCEPT ![s] = "open"] /\ clients' = clients
      /\ waiting' = Append(waiting, s) /\ waiting \in Seq(Subscribers)
  BY DEF Connects, CaptureTypes
<1>2. ~IsServed(s) /\ ~IsWaiting(s)
  BY <1>1 DEF PlaceInv
<1> DEFINE n == Len(waiting)
<1>3. /\ n \in Nat /\ DOMAIN waiting = 1 .. n /\ DOMAIN waiting' = 1 .. n + 1
      /\ waiting'[n + 1] = s /\ \A i \in 1 .. n : waiting'[i] = waiting[i]
  BY <1>1
<1> HIDE DEF n
<1>4. ASSUME NEW x PROVE IsWaiting(x)' <=> IsWaiting(x) \/ x = s
  <2>1. IsWaiting(x)' <=> \E i \in 1 .. n + 1 : waiting'[i] = x
    BY <1>3 DEF IsWaiting
  <2>2. IsWaiting(x) <=> \E i \in 1 .. n : waiting[i] = x
    BY <1>3 DEF IsWaiting
  <2>3. n + 1 \in 1 .. n + 1 /\ \A i \in 1 .. n + 1 : i \in 1 .. n \/ i = n + 1
    BY <1>3
  <2>4. \A i \in 1 .. n : i \in 1 .. n + 1
    BY <1>3
  <2> QED
    BY <1>3, <2>1, <2>2, <2>3, <2>4
<1>5. ASSUME NEW i \in DOMAIN waiting', NEW j \in DOMAIN waiting', waiting'[i] = waiting'[j]
      PROVE  i = j
  <2>1. \A k \in 1 .. n + 1 : k \in 1 .. n \/ k = n + 1
    BY <1>3
  <2>2. \A k \in 1 .. n : waiting[k] # s
    BY <1>2, <1>3 DEF IsWaiting
  <2>3. \A k, l \in 1 .. n : waiting[k] = waiting[l] => k = l
    BY <1>3 DEF PlaceInv
  <2> QED
    BY <1>3, <1>5, <2>1, <2>2, <2>3
<1> QED
  BY <1>1, <1>2, <1>4, <1>5, SlotSame

LEMMA TakenSlots ==
  ASSUME CaptureTypes, PlaceInv, NEW i \in Slots, NEW h \in Subscribers, ~IsServed(h),
         clients' = [clients EXCEPT ![i] = h]
  PROVE  \A j, k \in Slots : clients'[j] = clients'[k] /\ clients'[j] # NoClient => j = k
<1>1. clients' \in [Slots -> Subscribers \cup {NoClient}] /\ clients'[i] = h
      /\ \A j \in Slots : j # i => clients'[j] = clients[j]
  BY DEF CaptureTypes
<1>2. \A j \in Slots : clients[j] # h
  BY DEF IsServed
<1> QED
  BY <1>1, <1>2 DEF PlaceInv

LEMMA ClosedLinks ==
  ASSUME NEW ss, link' = Closed(ss)
  PROVE  \A s \in Subscribers :
           /\ link'[s] = "none" <=> link[s] = "none"
           /\ link'[s] = "open" <=> link[s] = "open" /\ s \notin ss
BY DEF Closed

\* Publishing drops from the slots those who left.
LEMMA Serving ==
  ASSUME CaptureTypes, PlaceInv, Publish
  PROVE  /\ UNCHANGED <<waiting, link, relayed, since>>
         /\ \A i \in Slots : clients'[i] = clients[i] \/ clients'[i] = NoClient
         /\ \A s \in Subscribers : IsServed(s)' <=> IsServed(s) /\ link[s] = "open"
         /\ \A s \in Subscribers :
              /\ IsServed(s) /\ link[s] = "open" /\ Full(s) => s \in lossy'
              /\ inbox'[s] = IF IsServed(s) /\ link[s] = "open" /\ ~Full(s)
                               THEN Append(inbox[s], published') ELSE inbox[s]
         /\ lossy \subseteq lossy' /\ published' = published + 1
<1> DEFINE served == {s \in Subscribers : s \in ToSet(clients) /\ link[s] = "open"}
<1>1. /\ published' = published + 1
      /\ inbox' = [s \in Subscribers |->
                     IF s \in served /\ ~Full(s) THEN Append(inbox[s], published')
                     ELSE inbox[s]]
      /\ lossy' = lossy \cup {s \in served : Full(s)}
      /\ clients' = [i \in Slots |-> IF clients[i] \in served THEN clients[i] ELSE NoClient]
      /\ UNCHANGED <<waiting, link, relayed, since>>
  BY DEF Publish
<1>2. \A s \in Subscribers : s \in served <=> IsServed(s) /\ link[s] = "open"
  <2>1. DOMAIN clients = Slots
    BY DEF CaptureTypes
  <2>2. \A s : s \in ToSet(clients) <=> IsServed(s)
    BY <2>1, ServedSet DEF IsServed
  <2> QED
    BY <2>2
<1>3. served \subseteq Subscribers
  OBVIOUS
<1> HIDE DEF served
<1>4. ASSUME NEW s \in Subscribers PROVE IsServed(s)' <=> s \in served
  <2>1. IsServed(s)' <=> \E i \in Slots : clients'[i] = s
    BY DEF IsServed, Slots
  <2>2. s \in served => \E i \in Slots : clients[i] = s
    BY <1>2 DEF IsServed
  <2>3. \A i \in Slots : clients'[i] = IF clients[i] \in served THEN clients[i] ELSE NoClient
    BY <1>1
  <2> QED
    BY <2>1, <2>2, <2>3, NobodyIsNone
<1> QED
  BY <1>1, <1>2, <1>4

LEMMA PlaceStep ==
  ASSUME CaptureTypes, PlaceInv, [CaptureNext]_captureVars
  PROVE  PlaceInv'
<1>0. /\ \A i, j \in Slots : clients[i] = clients[j] /\ clients[i] # NoClient => i = j
      /\ \A i, j \in DOMAIN waiting : waiting[i] = waiting[j] => i = j
      /\ \A s \in Subscribers : ~(IsServed(s) /\ IsWaiting(s))
      /\ \A s \in Subscribers : IsServed(s) \/ IsWaiting(s) => link[s] # "none"
      /\ \A s \in Subscribers : link[s] = "open" => IsServed(s) \/ IsWaiting(s)
      /\ link \in [Subscribers -> {"none", "open", "left", "closed"}]
      /\ clients \in [Slots -> Subscribers \cup {NoClient}]
  BY DEF PlaceInv, CaptureTypes
<1> DEFINE Alone == /\ \A i, j \in Slots :
                         clients'[i] = clients'[j] /\ clients'[i] # NoClient => i = j
                    /\ \A i, j \in DOMAIN waiting' : waiting'[i] = waiting'[j] => i = j
           Placed == \A s \in Subscribers :
                       /\ ~(IsServed(s)' /\ IsWaiting(s)')
                       /\ IsServed(s)' \/ IsWaiting(s)' => link'[s] # "none"
                       /\ link'[s] = "open" => IsServed(s)' \/ IsWaiting(s)'
<1>1. Alone /\ Placed => PlaceInv'
  BY DEF PlaceInv, Slots
<1>2. ASSUME UNCHANGED <<clients, waiting>>,
             \A s \in Subscribers : /\ link'[s] = "none" => link[s] = "none"
                                    /\ link'[s] = "open" => link[s] = "open"
      PROVE  PlaceInv'
  <2>1. \A s : (IsServed(s)' <=> IsServed(s)) /\ (IsWaiting(s)' <=> IsWaiting(s))
    BY <1>2, SlotSame, BacklogSame
  <2>2. Alone
    BY <1>0, <1>2
  <2>3. Placed
    BY <1>0, <1>2, <2>1
  <2> QED
    BY <1>1, <2>2, <2>3
<1>3. ASSUME NEW s \in Subscribers, Connects(s)
      PROVE  PlaceInv'
  <2>1. /\ ~IsServed(s) /\ ~IsWaiting(s) /\ link' = [link EXCEPT ![s] = "open"]
        /\ \A x : IsServed(x)' <=> IsServed(x)
        /\ \A x : IsWaiting(x)' <=> IsWaiting(x) \/ x = s
        /\ \A i, j \in DOMAIN waiting' : waiting'[i] = waiting'[j] => i = j
    BY <1>3, Joining
  <2>2. clients' = clients
    BY <1>3 DEF Connects
  <2>3. Placed
    BY <1>0, <2>1
  <2>4. Alone
    BY <1>0, <2>1, <2>2
  <2> QED
    BY <1>1, <2>3, <2>4
<1>4. ASSUME NEW s \in Subscribers, Relays(s) \/ Leaves(s)
      PROVE  PlaceInv'
  <2>1. UNCHANGED <<clients, waiting>>
    BY <1>4 DEF Relays, Leaves
  <2>2. UNCHANGED link \/ link' = [link EXCEPT ![s] = "left"]
    BY <1>4 DEF Relays, Leaves
  <2>3. \A x \in Subscribers : link'[x] = link[x] \/ link'[x] = "left"
    BY <1>0, <2>2
  <2> QED
    BY <1>2, <2>1, <2>3
<1>5. ASSUME NEW i \in Slots, AcceptFree, clients[i] = NoClient, Take(i), UNCHANGED link
      PROVE  PlaceInv'
  <2>1. PICK h \in Subscribers :
          /\ IsWaiting(h) /\ ~IsServed(h) /\ clients' = [clients EXCEPT ![i] = h]
          /\ \A j, k \in DOMAIN waiting' : waiting'[j] = waiting'[k] => j = k
          /\ \A s : IsWaiting(s)' <=> IsWaiting(s) /\ s # h
          /\ \A s : IsServed(s)' <=> s = h \/ \E j \in Slots : j # i /\ clients[j] = s
    BY <1>5, Taking DEF AcceptFree
  <2>2. \A s \in Subscribers : IsServed(s)' <=> s = h \/ IsServed(s)
    BY <1>5, <2>1, NobodyIsNone DEF IsServed
  <2>3. Placed
    BY <1>0, <1>5, <2>1, <2>2
  <2>4. Alone
    BY <2>1, TakenSlots
  <2> QED
    BY <1>1, <2>3, <2>4
<1>6. CASE AcceptFull /\ Take(1) /\ 1 \in Slots /\ link' = Closed({clients[1]})
  <2>1. PICK h \in Subscribers :
          /\ IsWaiting(h) /\ ~IsServed(h) /\ clients' = [clients EXCEPT ![1] = h]
          /\ \A j, k \in DOMAIN waiting' : waiting'[j] = waiting'[k] => j = k
          /\ \A s : IsWaiting(s)' <=> IsWaiting(s) /\ s # h
          /\ \A s : IsServed(s)' <=> s = h \/ \E j \in Slots : j # 1 /\ clients[j] = s
    BY <1>6, Taking DEF AcceptFull
  <2>2. \A s \in Subscribers :
           /\ link'[s] = "none" <=> link[s] = "none"
           /\ link'[s] = "open" <=> link[s] = "open" /\ s # clients[1]
    BY <1>6, ClosedLinks
  <2>3. \A s \in Subscribers : IsServed(s)' => s = h \/ IsServed(s)
    BY <2>1 DEF IsServed
  <2>4. \A s \in Subscribers : IsServed(s) /\ s # clients[1] => IsServed(s)'
    BY <2>1 DEF IsServed
  <2>5. Placed
    BY <1>0, <2>1, <2>2, <2>3, <2>4
  <2>6. Alone
    BY <1>6, <2>1, TakenSlots
  <2> QED
    BY <1>1, <2>5, <2>6
<1>7. CASE Publish
  <2>1. /\ UNCHANGED <<waiting, link>>
        /\ \A i \in Slots : clients'[i] = clients[i] \/ clients'[i] = NoClient
        /\ \A s \in Subscribers : IsServed(s)' <=> IsServed(s) /\ link[s] = "open"
    BY <1>7, Serving
  <2>2. \A s : IsWaiting(s)' <=> IsWaiting(s)
    BY <2>1, BacklogSame
  <2>3. Placed
    BY <1>0, <2>1, <2>2
  <2>4. Alone
    BY <1>0, <2>1
  <2> QED
    BY <1>1, <2>3, <2>4
<1>8. CASE CaptureEnds
  <2>1. /\ clients' = [i \in Slots |-> NoClient] /\ waiting' = <<>>
        /\ link' = Closed(Subscribers)
    BY <1>8 DEF CaptureEnds
  <2>2. \A s \in Subscribers : ~IsServed(s)' /\ ~IsWaiting(s)' /\ link'[s] # "open"
    <3>1. \A s \in Subscribers : link'[s] # "open"
      BY <2>1, ClosedLinks
    <3>2. \A s \in Subscribers : ~IsServed(s)'
      BY <2>1, NobodyIsNone DEF IsServed, Slots
    <3>3. \A s \in Subscribers : ~IsWaiting(s)'
      BY <2>1 DEF IsWaiting
    <3> QED
      BY <3>1, <3>2, <3>3
  <2>3. Placed
    BY <2>2
  <2>4. Alone
    BY <2>1
  <2> QED
    BY <1>1, <2>3, <2>4
<1>9. CASE UNCHANGED captureVars
  BY <1>2, <1>9 DEF captureVars
<1> QED
  BY CaptureSteps, <1>3, <1>4, <1>5, <1>6, <1>7, <1>8, <1>9
-----------------------------------------------------------------------------
(* Streams. *)
LEMMA BothEmpty ==
  ASSUME NEW r \in Seq(Nat), NEW q \in Seq(Nat), r \o q = <<>>
  PROVE  r \o <<>> = <<>>
<1>1. Len(r \o q) = Len(r) + Len(q) /\ Len(r \o q) = 0 /\ Len(r) \in Nat /\ Len(q) \in Nat
  OBVIOUS
<1>2. Len(r) = 0
  BY <1>1
<1> QED
  BY <1>2

LEMMA NothingYet == ASSUME NEW e \in Nat PROVE [i \in 1 .. e - e |-> e + i] = <<>>
<1>1. 1 .. e - e = {}
  OBVIOUS
<1> QED
  BY <1>1

LEMMA StreamStep ==
  ASSUME CaptureTypes, PlaceInv, StreamInv, [CaptureNext]_captureVars
  PROVE  StreamInv'
<1> DEFINE Empty(s) == link[s] = "none" \/ IsWaiting(s) => relayed[s] \o inbox[s] = <<>>
           Whole(s) == IsServed(s) /\ link[s] = "open" /\ s \notin lossy =>
                         relayed[s] \o inbox[s] = EventsAfter(since[s])
           EmptyNext(s) == link'[s] = "none" \/ IsWaiting(s)' => relayed'[s] \o inbox'[s] = <<>>
           WholeNext(s) == IsServed(s)' /\ link'[s] = "open" /\ s \notin lossy' =>
                relayed'[s] \o inbox'[s] = [i \in 1 .. published' - since'[s] |-> since'[s] + i]
<1>1. \A s \in Subscribers : Empty(s) /\ Whole(s)
  BY DEF StreamInv, Stream
<1>2. (\A s \in Subscribers : EmptyNext(s) /\ WholeNext(s)) => StreamInv'
  BY DEF StreamInv, Stream, EventsAfter
<1>3. ASSUME NEW s \in Subscribers
      PROVE  /\ relayed[s] \in Seq(Nat) /\ inbox[s] \in Seq(Nat) /\ since[s] \in Nat
             /\ published \in Nat /\ since[s] <= published
             /\ ~(IsServed(s) /\ IsWaiting(s))
             /\ IsServed(s) \/ IsWaiting(s) => link[s] # "none"
  BY DEF CaptureTypes, PlaceInv
<1>4. /\ relayed \in [Subscribers -> Seq(Nat)] /\ inbox \in [Subscribers -> Seq(Nat)]
      /\ link \in [Subscribers -> {"none", "open", "left", "closed"}]
      /\ since \in [Subscribers -> Nat]
  BY DEF CaptureTypes
<1>5. ASSUME NEW s \in Subscribers,
             relayed'[s] \o inbox'[s] = relayed[s] \o inbox[s],
             since'[s] = since[s], published' = published, lossy' = lossy,
             IsServed(s)' <=> IsServed(s), IsWaiting(s)' <=> IsWaiting(s), link'[s] = link[s]
      PROVE  EmptyNext(s) /\ WholeNext(s)
  BY <1>1, <1>5 DEF EventsAfter
<1>6. CASE UNCHANGED captureVars
  <2>1. \A s : (IsServed(s)' <=> IsServed(s)) /\ (IsWaiting(s)' <=> IsWaiting(s))
    BY <1>6, SlotSame, BacklogSame DEF captureVars
  <2> HIDE DEF EmptyNext, WholeNext
  <2> QED
    BY <1>2, <1>5, <1>6, <2>1 DEF captureVars
<1>7. ASSUME NEW s \in Subscribers, Connects(s)
      PROVE  StreamInv'
  <2>1. /\ ~IsServed(s) /\ ~IsWaiting(s) /\ link[s] = "none"
        /\ link' = [link EXCEPT ![s] = "open"]
        /\ \A x : IsServed(x)' <=> IsServed(x)
        /\ \A x : IsWaiting(x)' <=> IsWaiting(x) \/ x = s
    BY <1>7, Joining
  <2>2. UNCHANGED <<inbox, relayed, since, lossy, published>>
    BY <1>7 DEF Connects
  <2>3. EmptyNext(s) /\ WholeNext(s)
    BY <1>1, <2>1, <2>2
  <2>4. ASSUME NEW x \in Subscribers, x # s PROVE EmptyNext(x) /\ WholeNext(x)
    <3>1. /\ link'[x] = link[x]
          /\ IsServed(x)' <=> IsServed(x)
          /\ IsWaiting(x)' <=> IsWaiting(x)
      BY <1>4, <2>1, <2>4
    <3> HIDE DEF EmptyNext, WholeNext
    <3> QED
      BY <1>5, <2>2, <3>1
  <2> HIDE DEF EmptyNext, WholeNext
  <2> QED
    BY <1>2, <2>3, <2>4
<1>8. ASSUME NEW s \in Subscribers, Relays(s)
      PROVE  StreamInv'
  <2>1. /\ inbox[s] # <<>>
        /\ relayed' = [relayed EXCEPT ![s] = Append(relayed[s], Head(inbox[s]))]
        /\ inbox' = [inbox EXCEPT ![s] = Tail(inbox[s])]
        /\ UNCHANGED <<clients, waiting, link, since, lossy, published>>
    BY <1>8 DEF Relays
  <2>2. Append(relayed[s], Head(inbox[s])) \o Tail(inbox[s]) = relayed[s] \o inbox[s]
    BY <1>3, <2>1, MovedHead
  <2>3. \A x \in Subscribers : relayed'[x] \o inbox'[x] = relayed[x] \o inbox[x]
    BY <1>4, <2>1, <2>2
  <2>4. \A x : (IsServed(x)' <=> IsServed(x)) /\ (IsWaiting(x)' <=> IsWaiting(x))
    BY <2>1, SlotSame, BacklogSame
  <2> HIDE DEF EmptyNext, WholeNext
  <2> QED
    BY <1>2, <1>5, <2>1, <2>3, <2>4
<1>9. ASSUME NEW s \in Subscribers, Leaves(s)
      PROVE  StreamInv'
  <2>1. /\ link[s] = "open"
        /\ link' = [link EXCEPT ![s] = "left"] /\ inbox' = [inbox EXCEPT ![s] = <<>>]
        /\ UNCHANGED <<clients, waiting, relayed, since, lossy, published>>
    BY <1>9 DEF Leaves
  <2>2. \A x : (IsServed(x)' <=> IsServed(x)) /\ (IsWaiting(x)' <=> IsWaiting(x))
    BY <2>1, SlotSame, BacklogSame
  <2>3. EmptyNext(s) /\ WholeNext(s)
    <3>1. link'[s] = "left" /\ inbox'[s] = <<>> /\ relayed'[s] = relayed[s]
      BY <1>4, <2>1
    <3>2. IsWaiting(s) => relayed[s] \o <<>> = <<>>
      BY <1>1, <1>3, BothEmpty
    <3> QED
      BY <2>2, <3>1, <3>2
  <2>4. ASSUME NEW x \in Subscribers, x # s PROVE EmptyNext(x) /\ WholeNext(x)
    <3>1. link'[x] = link[x] /\ inbox'[x] = inbox[x]
      BY <1>4, <2>1, <2>4
    <3> HIDE DEF EmptyNext, WholeNext
    <3> QED
      BY <1>5, <2>1, <2>2, <3>1
  <2> HIDE DEF EmptyNext, WholeNext
  <2> QED
    BY <1>2, <2>3, <2>4
<1>10. ASSUME NEW i \in Slots, Take(i), waiting # <<>>,
              \A x \in Subscribers : /\ link'[x] = "none" <=> link[x] = "none"
                                     /\ link'[x] = "open" => link[x] = "open"
       PROVE  StreamInv'
  <2>1. PICK h \in Subscribers :
          /\ IsWaiting(h) /\ ~IsServed(h)
          /\ since' = [since EXCEPT ![h] = published]
          /\ \A s : IsWaiting(s)' <=> IsWaiting(s) /\ s # h
          /\ \A s : IsServed(s)' <=> s = h \/ \E j \in Slots : j # i /\ clients[j] = s
    BY <1>10, Taking
  <2>2. UNCHANGED <<inbox, relayed, lossy, published>>
    BY <1>10 DEF Take
  <2>3. EmptyNext(h) /\ WholeNext(h)
    <3>1. relayed'[h] \o inbox'[h] = <<>>
      BY <1>1, <2>1, <2>2
    <3>2. since'[h] = published /\ published' = published /\ published \in Nat
      BY <1>3, <1>4, <2>1, <2>2
    <3>3. [k \in 1 .. published' - since'[h] |-> since'[h] + k] = <<>>
      BY <3>2, NothingYet
    <3> QED
      BY <3>1, <3>3
  <2>4. ASSUME NEW x \in Subscribers, x # h PROVE EmptyNext(x) /\ WholeNext(x)
    <3>1. since'[x] = since[x] /\ IsServed(x)' => IsServed(x)
      BY <1>4, <2>1, <2>4 DEF IsServed
    <3>2. EmptyNext(x)
      BY <1>1, <1>10, <2>1, <2>2
    <3>3. WholeNext(x)
      BY <1>1, <1>4, <1>10, <2>1, <2>2, <2>4, <3>1 DEF EventsAfter
    <3> QED
      BY <3>2, <3>3
  <2> HIDE DEF EmptyNext, WholeNext
  <2> QED
    BY <1>2, <2>3, <2>4
<1>11. ASSUME NEW i \in Slots, AcceptFree, Take(i), UNCHANGED link
       PROVE  StreamInv'
  BY <1>10, <1>11 DEF AcceptFree
<1>12. CASE AcceptFull /\ Take(1) /\ 1 \in Slots /\ link' = Closed({clients[1]})
  <2>1. \A x \in Subscribers : /\ link'[x] = "none" <=> link[x] = "none"
                               /\ link'[x] = "open" => link[x] = "open"
    BY <1>12, ClosedLinks
  <2> QED
    BY <1>10, <1>12, <2>1 DEF AcceptFull
<1>13. CASE Publish
  <2>1. /\ UNCHANGED <<waiting, link, relayed, since>>
        /\ \A s \in Subscribers : IsServed(s)' <=> IsServed(s) /\ link[s] = "open"
        /\ \A s \in Subscribers :
             /\ IsServed(s) /\ link[s] = "open" /\ Full(s) => s \in lossy'
             /\ inbox'[s] = IF IsServed(s) /\ link[s] = "open" /\ ~Full(s)
                              THEN Append(inbox[s], published') ELSE inbox[s]
        /\ lossy \subseteq lossy' /\ published' = published + 1
    BY <1>13, Serving
  <2>2. \A s : IsWaiting(s)' <=> IsWaiting(s)
    BY <2>1, BacklogSame
  <2>3. ASSUME NEW s \in Subscribers PROVE EmptyNext(s)
    <3>1. SUFFICES ASSUME link[s] = "none" \/ IsWaiting(s)
                   PROVE  relayed'[s] \o inbox'[s] = <<>>
      BY <2>1, <2>2
    <3>2. ~IsServed(s)
      BY <1>3, <3>1
    <3>3. inbox'[s] = inbox[s] /\ relayed'[s] = relayed[s]
      BY <2>1, <3>2
    <3> QED
      BY <1>1, <3>1, <3>3
  <2>4. ASSUME NEW s \in Subscribers PROVE WholeNext(s)
    <3> DEFINE e == since[s]
    <3>1. SUFFICES ASSUME IsServed(s), link[s] = "open", s \notin lossy'
                   PROVE  relayed'[s] \o inbox'[s] = [i \in 1 .. (published + 1) - e |-> e + i]
      BY <2>1
    <3>2. ~Full(s) /\ s \notin lossy /\ inbox'[s] = Append(inbox[s], published + 1)
          /\ relayed'[s] = relayed[s]
      BY <2>1, <3>1
    <3>3. /\ relayed[s] \in Seq(Nat) /\ inbox[s] \in Seq(Nat) /\ e \in Nat
          /\ published \in Nat /\ e <= published /\ published + 1 \in Nat
      BY <1>3
    <3>4. relayed[s] \o inbox[s] = [i \in 1 .. published - e |-> e + i]
      BY <1>1, <3>1, <3>2 DEF EventsAfter
    <3> HIDE DEF e
    <3>5. relayed[s] \o Append(inbox[s], published + 1)
            = Append(relayed[s] \o inbox[s], published + 1)
      BY <3>3, AppendedLast
    <3>6. [i \in 1 .. (published + 1) - e |-> e + i]
            = Append([i \in 1 .. published - e |-> e + i], published + 1)
      BY <3>3, OneMore
    <3> QED
      BY <3>2, <3>4, <3>5, <3>6
  <2> HIDE DEF EmptyNext, WholeNext
  <2> QED
    BY <1>2, <2>3, <2>4
<1>14. CASE CaptureEnds
  <2>1. /\ clients' = [i \in Slots |-> NoClient] /\ waiting' = <<>>
        /\ link' = Closed(Subscribers) /\ UNCHANGED <<inbox, relayed>>
    BY <1>14 DEF CaptureEnds
  <2>2. \A s \in Subscribers : ~IsServed(s)'
    BY <2>1, NobodyIsNone DEF IsServed, Slots
  <2>3. \A s \in Subscribers : ~IsWaiting(s)'
    BY <2>1 DEF IsWaiting
  <2>4. \A s \in Subscribers : link'[s] = "none" <=> link[s] = "none"
    BY <2>1, ClosedLinks
  <2>5. \A s \in Subscribers : EmptyNext(s) /\ WholeNext(s)
    BY <1>1, <2>1, <2>2, <2>3, <2>4
  <2> HIDE DEF EmptyNext, WholeNext
  <2> QED
    BY <1>2, <2>5
<1> QED
  BY CaptureSteps, <1>6, <1>7, <1>8, <1>9, <1>11, <1>12, <1>13, <1>14
-----------------------------------------------------------------------------
(* The theorems. *)
LEMMA InitCaptureInv == CaptureInit => CaptureInv
<1> SUFFICES ASSUME CaptureInit PROVE CaptureInv
  OBVIOUS
<1>1. /\ clients = [i \in Slots |-> NoClient] /\ waiting = <<>>
      /\ link = [s \in Subscribers |-> "none"]
      /\ inbox = [s \in Subscribers |-> <<>>] /\ relayed = [s \in Subscribers |-> <<>>]
      /\ since = [s \in Subscribers |-> 0] /\ lossy = {}
      /\ published = 0 /\ listening = TRUE
  BY DEF CaptureInit
<1>2. <<>> \in Seq(Nat) /\ <<>> \in Seq(Subscribers) /\ Len(<<>>) = 0
  OBVIOUS
<1>3. CaptureTypes
  BY <1>1, <1>2, SizesAssumption DEF CaptureTypes
<1>4. \A s \in Subscribers : ~IsServed(s) /\ ~IsWaiting(s)
  BY <1>1, NobodyIsNone DEF IsServed, IsWaiting
<1>5. PlaceInv
  BY <1>1, <1>4 DEF PlaceInv
<1>6. StreamInv
  BY <1>1, <1>4 DEF StreamInv, Stream
<1> QED
  BY <1>3, <1>5, <1>6 DEF CaptureInv

LEMMA NextCaptureInv == CaptureInv /\ [CaptureNext]_captureVars => CaptureInv'
BY CaptureTypesStep, PlaceStep, StreamStep DEF CaptureInv

\* The inductive invariant holds in every state the daemon, kbm-web and the
\* browsers reach.
THEOREM CaptureInvariance == CaptureSpec => []CaptureInv
BY InitCaptureInv, NextCaptureInv, PTL DEF CaptureSpec

\* The slots hold connections, no more wait than the backlog has places, no
\* socket holds more than it has room for (capture_accept, capture_publish).
THEOREM SlotsBacklogRoom == CaptureSpec => []CaptureTypeOK
<1>1. CaptureInv => CaptureTypeOK
  <2> SUFFICES ASSUME CaptureInv PROVE CaptureTypeOK
    OBVIOUS
  <2>1. CaptureTypes
    BY DEF CaptureInv
  <2>2. clients \in [Slots -> Subscribers \cup {NoClient}]
    BY <2>1 DEF CaptureTypes
  <2>3. ToSet(clients) \subseteq Subscribers \cup {NoClient}
    BY <2>2, ServedSet
  <2> QED
    BY <2>1, <2>3 DEF CaptureTypes, CaptureTypeOK
<1> QED
  BY <1>1, CaptureInvariance, PTL

\* Whatever connects, leaves, fills its socket or is closed for a newcomer, an
\* open connection that was accepted is in a slot, and what it was sent and
\* will be sent is every key event since, in order and once, unless its socket
\* was full (capture_accept and capture_publish, relayed by capture.go).
THEOREM OpenIsServed == CaptureSpec => []SubscribersServed
<1>1. ASSUME CaptureInv PROVE SubscribersServed
  <2>1. CaptureTypes /\ PlaceInv /\ StreamInv
    BY <1>1 DEF CaptureInv
  <2>2. DOMAIN clients = Slots
    BY <2>1 DEF CaptureTypes
  <2>3. \A s : s \in ToSet(clients) <=> IsServed(s)
    BY <2>2, ServedSet DEF IsServed
  <2>4. \A s : s \in ToSet(waiting) <=> IsWaiting(s)
    BY DEF ToSet, IsWaiting
  <2> QED
    BY <2>1, <2>3, <2>4 DEF SubscribersServed, PlaceInv, StreamInv, Stream, EventsAfter
<1> QED
  BY <1>1, CaptureInvariance, PTL
-----------------------------------------------------------------------------
(* The mode switch.                                                        *)

Verbs == {"start", "stop", "restart"}

\* What systemctl is asked for is a verb and a unit.
CallTypes ==
  /\ calls \in [Switches -> Seq(Verbs \X Units)]
  /\ blocked \in [Switches -> SUBSET (Verbs \X Units)]

UnitTypes ==
  /\ job \in [Units -> {"none"} \cup Verbs]
  /\ unit \in [Units -> {"inactive", "active", "started", "script", "torn", "restart"}]
  /\ udc \in {"none", "dualsense", "kbm"}

\* kbm-passthrough has its gadget under it, and the gadget does not go before
\* the daemon does.
GadgetUnder ==
  unit["pt"] = "active" =>
    /\ unit["setup"] = "active"
    /\ job["setup"] \in {"stop", "restart"} => job["pt"] \in {"stop", "restart"}

ModesInv == CallTypes /\ UnitTypes /\ GadgetUnder

LEMMA CallsTyped == \A m \in Modes : CallsFor(m) \in Seq(Verbs \X Units)
<1> DEFINE Call == Verbs \X Units
<1>1. \A v \in {"start", "stop"}, u \in Units : <<v, u>> \in Call
  BY DEF Verbs
<1> HIDE DEF Call
<1>2. \A v \in {"start", "stop"} :
        <<v, "ffs">> \in Call /\ <<v, "ffsd">> \in Call /\ <<v, "setup">> \in Call /\ <<v, "pt">> \in Call
  BY <1>1 DEF Units
<1>3. CallsFor("emulation") \in Seq(Call)
  BY <1>2 DEF CallsFor
<1>4. CallsFor("passthrough") \in Seq(Call)
  BY <1>2 DEF CallsFor
<1>5. CallsFor("off") \in Seq(Call)
  BY <1>2 DEF CallsFor
<1> QED
  BY <1>3, <1>4, <1>5 DEF Modes, Call

\* A transaction of systemd gives every unit a job or none, and a unit is not
\* stopped without those that require it.
LEMMA JobsTyped ==
  ASSUME UnitTypes, NEW verb \in Verbs, NEW u \in Units
  PROVE  /\ Jobs(verb, u) \in [Units -> {"none"} \cup Verbs]
         /\ GadgetUnder /\ unit["pt"] = "active" /\ Jobs(verb, u)["setup"] \in {"stop", "restart"}
              => Jobs(verb, u)["pt"] \in {"stop", "restart"}
<1> USE DEF Units, Verbs
<1>1. /\ \A v \in Units : job[v] \in {"none"} \cup Verbs
      /\ \A v \in Units : Up(v) \in {"none", "start"}
      /\ \A v \in Units : Aside(u, v) \in {job[v], "none", "stop"}
  BY DEF UnitTypes, Up, Aside
<1>2. GadgetUnder /\ unit["pt"] = "active" /\ Aside(u, "setup") \in {"stop", "restart"}
        => Aside(u, "pt") \in {"stop", "restart"}
  BY DEF Aside, Side, GadgetUnder
<1>3. CASE verb = "start"
  <2>1. Jobs(verb, u) = Starts(u)
    BY <1>3 DEF Jobs
  <2>2. Starts(u) \in [Units -> {"none"} \cup Verbs]
    BY <1>1 DEF Starts
  <2>3. GadgetUnder /\ unit["pt"] = "active" /\ Starts(u)["setup"] \in {"stop", "restart"}
          => Starts(u)["pt"] \in {"stop", "restart"}
    BY <1>1, <1>2 DEF Starts, Requires
  <2> QED
    BY <2>1, <2>2, <2>3
<1>4. CASE verb = "stop"
  <2>1. Jobs(verb, u) = Stops(u)
    BY <1>4 DEF Jobs
  <2>2. Stops(u) \in [Units -> {"none"} \cup Verbs]
    BY <1>1 DEF Stops
  <2>3. GadgetUnder /\ unit["pt"] = "active" /\ Stops(u)["setup"] \in {"stop", "restart"}
          => Stops(u)["pt"] \in {"stop", "restart"}
    BY DEF Stops, DependOn, Requires, GadgetUnder
  <2> QED
    BY <2>1, <2>2, <2>3
<1>5. CASE verb = "restart"
  <2>1. Jobs(verb, u) = Restarts(u)
    BY <1>5 DEF Jobs
  <2>2. Restarts(u) \in [Units -> {"none"} \cup Verbs]
    BY <1>1 DEF Restarts
  <2>3. GadgetUnder /\ unit["pt"] = "active" /\ Restarts(u)["setup"] \in {"stop", "restart"}
          => Restarts(u)["pt"] \in {"stop", "restart"}
    BY <1>1, <1>2 DEF Restarts, DependOn, Requires
  <2> QED
    BY <2>1, <2>2, <2>3
<1> QED
  BY <1>3, <1>4, <1>5

\* The part of a step in which systemd makes a new transaction.
LEMMA NewJobs ==
  ASSUME UnitTypes, GadgetUnder, NEW verb \in Verbs, NEW u \in Units,
         job' = Jobs(verb, u), UNCHANGED <<unit, udc>>
  PROVE  UnitTypes' /\ GadgetUnder'
BY JobsTyped DEF UnitTypes, GadgetUnder

LEMMA UnitsStep ==
  ASSUME UnitTypes, GadgetUnder, NEW u \in Units, UnitStep(u) \/ Crash(u)
  PROVE  UnitTypes' /\ GadgetUnder' /\ UNCHANGED goroutine
<1> USE DEF Units, Verbs, UnitTypes, GadgetUnder, Becomes, Done
<1>1. CASE DependencyFails(u)
  BY <1>1 DEF DependencyFails, Ready, Requires
<1>2. CASE UnitStarts(u)
  BY <1>2 DEF UnitStarts, Ready, Requires
<1>3. CASE UnitStops(u)
  BY <1>3 DEF UnitStops, JobLeft, Released, DependOn, Requires
<1>4. CASE UnitRestarts(u)
  <2>1. job' = Jobs("start", u) /\ UNCHANGED <<unit, udc, goroutine>>
    BY <1>4 DEF UnitRestarts, Jobs
  <2> QED
    BY <2>1, NewJobs
<1>5. CASE u = "ffs" /\ FfsScript
  BY <1>5 DEF FfsScript
<1>6. CASE u = "setup" /\ (SetupTearsDown \/ SetupBinds)
  BY <1>6 DEF SetupTearsDown, SetupBinds
<1>7. CASE u = "ffsd" /\ FfsdBinds
  BY <1>7 DEF FfsdBinds, Failed, JobLeft
<1>8. CASE Crash(u)
  BY <1>8 DEF Crash, Failed, JobLeft, Released
<1> QED
  BY <1>1, <1>2, <1>3, <1>4, <1>5, <1>6, <1>7, <1>8 DEF UnitStep

LEMMA ModesStep ==
  ASSUME ModesInv, [ModesNext]_modesVars
  PROVE  ModesInv'
<1> USE DEF ModesInv
<1>1. CASE \E u \in Units : UnitStep(u) \/ Crash(u)
  <2>1. UnitTypes' /\ GadgetUnder' /\ UNCHANGED goroutine
    BY <1>1, UnitsStep
  <2> QED
    BY <2>1 DEF CallTypes, goroutine
<1>2. CASE \E u \in Units : ChordSwitches(u)
  <2>1. PICK u \in Units : job' = Jobs("start", u) /\ UNCHANGED <<unit, udc, calls, blocked>>
    BY <1>2 DEF ChordSwitches, goroutine, Jobs, Units
  <2>2. UnitTypes' /\ GadgetUnder'
    BY <2>1, NewJobs DEF Verbs
  <2> QED
    BY <2>1, <2>2 DEF CallTypes
<1>3. CASE \/ \E m \in Modes : WebSwitches(m)
           \/ \E u \in Units : WebRestarts(u)
  <2>1. PICK c \in Seq(Verbs \X Units) : calls' = [calls EXCEPT ![switches'] = c]
    <3>1. CASE \E m \in Modes : WebSwitches(m)
      BY <3>1, CallsTyped DEF WebSwitches
    <3>2. CASE \E u \in Units : WebRestarts(u)
      <4>1. PICK u \in Units : calls' = [calls EXCEPT ![switches'] = <<<<"restart", u>>>>]
        BY <3>2 DEF WebRestarts
      <4>2. <<<<"restart", u>>>> \in Seq(Verbs \X Units)
        BY DEF Verbs
      <4> QED
        BY <4>1, <4>2
    <3> QED
      BY <1>3, <3>1, <3>2
  <2>2. UNCHANGED <<unit, job, udc, blocked>>
    BY <1>3 DEF WebSwitches, WebRestarts, systemd
  <2>3. CallTypes'
    BY <2>1, <2>2 DEF CallTypes
  <2> QED
    BY <2>2, <2>3 DEF UnitTypes, GadgetUnder
<1>4. CASE \E s \in Switches : SystemctlCall(s)
  <2>1. PICK s \in Switches : SystemctlCall(s)
    BY <1>4
  <2>2. PICK verb \in Verbs, u \in Units : Head(calls[s]) = <<verb, u>>
    BY <2>1 DEF SystemctlCall, CallTypes
  <2>3. job' = Jobs(verb, u) /\ UNCHANGED <<unit, udc>>
    BY <2>1, <2>2 DEF SystemctlCall
  <2>4. UnitTypes' /\ GadgetUnder'
    BY <2>3, NewJobs
  <2>5. Tail(calls[s]) \in Seq(Verbs \X Units) /\ {Head(calls[s])} \subseteq Verbs \X Units
    BY <2>1, <2>2 DEF SystemctlCall, CallTypes
  <2>6. CallTypes'
    BY <2>1, <2>5 DEF SystemctlCall, CallTypes
  <2> QED
    BY <2>4, <2>6
<1>5. CASE \E s \in Switches : SystemctlReturns(s)
  <2>1. PICK s \in Switches :
          /\ blocked' = [blocked EXCEPT ![s] = {}]
          /\ UNCHANGED <<unit, job, udc, calls>>
    BY <1>5 DEF SystemctlReturns, systemd
  <2> QED
    BY <2>1 DEF CallTypes, UnitTypes, GadgetUnder
<1>6. CASE UNCHANGED modesVars
  BY <1>6 DEF modesVars, systemd, goroutine, CallTypes, UnitTypes, GadgetUnder
<1> QED
  BY <1>1, <1>2, <1>3, <1>4, <1>5, <1>6 DEF ModesNext, Goroutine

LEMMA InitModesInv == ModesInit => ModesInv
<1> SUFFICES ASSUME ModesInit PROVE ModesInv
  OBVIOUS
<1>1. /\ calls = [s \in Switches |-> <<>>] /\ blocked = [s \in Switches |-> {}]
      /\ job["setup"] = "none"
  BY DEF ModesInit, Boots, ModesStart, Side, Units
<1>2. CallTypes
  BY <1>1 DEF CallTypes
<1>3. UnitTypes /\ GadgetUnder
  <2>1. CASE Boots
    BY <2>1 DEF Boots, UnitTypes, GadgetUnder, Verbs, Units
  <2>2. CASE \E m \in Modes : ModesStart(m)
    BY <2>2 DEF ModesStart, Resting, Modes, Side, UnitTypes, GadgetUnder, Verbs, Units
  <2> QED
    BY <2>1, <2>2 DEF ModesInit
<1> QED
  BY <1>2, <1>3 DEF ModesInv

\* kbm-passthrough never runs without the gadget that its setup has bound,
\* however switches, chords, restarts and crashes interleave: systemd stops
\* what requires a unit before the unit (Requires= of kbm-passthrough.service).
THEOREM PassthroughOnItsGadget == ModesSpec => []ModesTypeOK
<1>1. ModesInv => ModesTypeOK
  BY DEF ModesInv, UnitTypes, GadgetUnder, ModesTypeOK, Units, Verbs
<1> QED
  BY <1>1, InitModesInv, ModesStep, PTL DEF ModesSpec
-----------------------------------------------------------------------------
(* All of them side by side, as MCBoard runs them.                         *)

LEMMA BoardStep ==
  ASSUME [BoardNext]_boardVars
  PROVE  /\ [LedsNext]_ledsVars /\ [SettingsNext]_settingsVars
         /\ [ControlNext]_controlVars /\ [CaptureNext]_captureVars
         /\ [ModesNext]_modesVars /\ [HotPlugNext]_hotplugVars
<1>1. CASE UNCHANGED boardVars
  BY <1>1 DEF boardVars
<1>2. CASE BoardNext
  BY <1>2 DEF BoardNext
<1> QED
  BY <1>1, <1>2

\* A behaviour of the run is one of each component, whichever of them has the
\* focus: what is proved of a component by itself holds there.
THEOREM BoardRunsEach ==
  BoardSpec => SettingsSpec /\ ControlSpec /\ CaptureSpec /\ ModesSpec
<1>1. BoardInit => SettingsInit /\ ControlInit /\ CaptureInit /\ ModesInit
  <2> SUFFICES ASSUME BoardInit
               PROVE  SettingsInit /\ ControlInit /\ CaptureInit /\ ModesInit
    OBVIOUS
  <2>1. SettingsInit
    BY DEF BoardInit, SettingsRest
  <2>2. ModesInit
    BY DEF BoardInit, ModesInit, Modes
  <2> QED
    BY <2>1, <2>2 DEF BoardInit
<1>2. [BoardNext]_boardVars => /\ [SettingsNext]_settingsVars
                               /\ [ControlNext]_controlVars
                               /\ [CaptureNext]_captureVars
                               /\ [ModesNext]_modesVars
  BY BoardStep
<1> QED
  BY <1>1, <1>2, PTL DEF BoardSpec, SettingsSpec, ControlSpec, CaptureSpec, ModesSpec

\* Every component's data stays of its kind and within its array and clamping
\* limits in all that the run explores, and beyond its bounds.
THEOREM BoardTypes == BoardSpec => []BoardTypeOK
<1>1. BoardInit => LedsInv
  <2>1. LedsRest => LedsInv
    BY DEF LedsRest, LedsStart, LedsInv, LedsTypeOK, Starting, Announced, Shown,
           Followed, Before, Rendering, Plain, Patterns, CrossfadeSeconds
  <2> QED
    BY <2>1, InitLedsInv DEF BoardInit
<1>2. LedsInv /\ [BoardNext]_boardVars => LedsInv'
  BY BoardStep, NextLedsInv
<1>3. LedsInv => LedsTypeOK
  BY DEF LedsInv
<1>4. BoardSpec => []LedsTypeOK
  BY <1>1, <1>2, <1>3, PTL DEF BoardSpec
<1>5. BoardSpec => [](SettingsTypeOK /\ ControlTypeOK /\ CaptureTypeOK /\ ModesTypeOK)
  BY BoardRunsEach, SettingsTypes, OneTransfer, SlotsBacklogRoom,
     PassthroughOnItsGadget, PTL
<1>6. BoardInit => HotPlugInv
  <2> SUFFICES ASSUME HotPlugRest PROVE HotPlugInv
    BY InitHotPlugInv DEF BoardInit
  <2>1. \A i \in InputSlots : slots[i] = FreeSlot
    BY DEF HotPlugRest
  <2>2. DataOK
    <3>1. <<>> \in Seq(Paths) /\ Len(<<>>) <= MaxNotes
      BY InputsAssumption
    <3>2. node \in [Paths -> {"none", "input", "other"}]
      BY DEF HotPlugRest
    <3> QED
      BY <3>1, <3>2 DEF HotPlugRest, DataOK
  <2>3. TableOK
    BY <2>1, FreeIsDead DEF HotPlugRest, TableOK
  <2>4. StageInv /\ ScanInv
    BY DEF HotPlugRest, StageInv, ScanInv
  <2>5. NoticedInv
    BY DEF HotPlugRest, NoticedInv
  <2> QED
    BY <2>2, <2>3, <2>4, <2>5 DEF HotPlugInv
<1>7. HotPlugInv /\ [BoardNext]_boardVars => HotPlugInv'
  BY BoardStep, NextHotPlugInv
<1>8. HotPlugInv => HotPlugTypeOK
  BY DEF HotPlugInv, DataOK, TableOK, HotPlugTypeOK
<1>9. BoardSpec => []HotPlugTypeOK
  BY <1>6, <1>7, <1>8, PTL DEF BoardSpec
<1>10. LedsTypeOK /\ SettingsTypeOK /\ ControlTypeOK /\ CaptureTypeOK /\ ModesTypeOK
       /\ HotPlugTypeOK => BoardTypeOK
  BY DEF BoardTypeOK
<1> QED
  BY <1>4, <1>5, <1>9, <1>10, PTL
=============================================================================

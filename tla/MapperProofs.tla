---------------------------- MODULE MapperProofs ----------------------------
(***************************************************************************)
(* The mapper for every set of devices, keys and configurations, and for   *)
(* event buffers of any size: the types, that the bitmap follows the       *)
(* fingers, and that the toggle fires on a chord that is held.             *)
(***************************************************************************)
EXTENDS Mapper, SequenceTheorems, WellFoundedInduction, TLAPS

Mentions(q, k) == \E i \in DOMAIN q : q[i].key = k

\* The last event of k in q, if there is one, tells whether it is down.
Says(q, k, b) ==
  \A i \in DOMAIN q :
    q[i].key = k /\ (\A j \in DOMAIN q : i < j => q[j].key # k) =>
      (Down(q[i]) <=> b)

\* The events of a buffer are those of its device, and the newest of a switch
\* tells where the switch is now.
QueueInv ==
  \A d \in Devices, k \in Keys :
    /\ Mentions(queue[d], k) => <<d, k>> \in Switches
    /\ Says(queue[d], k, <<d, k>> \in held)

\* Without an event in the buffer the daemon has the position of the switch,
\* unless the event was overwritten.
SeenInv ==
  \A d \in Devices, k \in Keys :
    ~Mentions(queue[d], k) /\ <<d, k>> \notin missed =>
      (<<d, k>> \in seen <=> <<d, k>> \in held)

\* An action that is not excused is pressed exactly when a switch bound to it
\* was down when last heard of; that one was overwritten changes nothing then.
BitmapInv ==
  \A a \in Actions \ excused :
    /\ a \in pressed => Bound(a, seen \ missed) # {}
    /\ a \notin pressed => Bound(a, seen \cup missed) = {}

\* A position of the chord that is down is the first with its code, and the
\* daemon has last heard of a key with this code that it is down.
ChordInv ==
  \A i \in chordDown :
    /\ i = Min(Positions(cfg.chord, cfg.chord[i]))
    /\ cfg.chord[i] \in orphans \/ \E s \in seen : s[2] = cfg.chord[i]

IInv == TypeOK /\ QueueInv /\ SeenInv /\ BitmapInv /\ ChordInv
-----------------------------------------------------------------------------
(* Sequences of events, and the least element of a set of numbers. *)
LEMMA AppendEvent ==
  ASSUME NEW q \in Seq(Events), NEW e \in Events, NEW k
  PROVE  /\ Append(q, e) \in Seq(Events)
         /\ Mentions(Append(q, e), k) <=> Mentions(q, k) \/ e.key = k
         /\ \A b \in BOOLEAN :
              (IF e.key = k THEN b <=> Down(e) ELSE Says(q, k, b)) =>
                Says(Append(q, e), k, b)
<1>1. /\ Append(q, e) \in Seq(Events) /\ Len(Append(q, e)) = Len(q) + 1
      /\ DOMAIN q = 1 .. Len(q) /\ Len(q) \in Nat
      /\ DOMAIN Append(q, e) = 1 .. Len(q) + 1
  OBVIOUS
<1>2. /\ Append(q, e)[Len(q) + 1] = e
      /\ \A i \in 1 .. Len(q) : Append(q, e)[i] = q[i]
  BY <1>1
<1> DEFINE r == Append(q, e)
<1> HIDE DEF r
<1>3. Mentions(r, k) <=> Mentions(q, k) \/ e.key = k
  BY <1>1, <1>2 DEF Mentions, r
<1>4. ASSUME NEW b \in BOOLEAN, e.key = k, b <=> Down(e)
      PROVE  Says(r, k, b)
  BY <1>1, <1>2, <1>4 DEF Says, r
<1>5. ASSUME NEW b \in BOOLEAN, e.key # k, Says(q, k, b)
      PROVE  Says(r, k, b)
  <2> SUFFICES ASSUME NEW i \in DOMAIN r, r[i].key = k,
                      \A j \in DOMAIN r : i < j => r[j].key # k
               PROVE  Down(r[i]) <=> b
    BY DEF Says
  <2>1. i \in DOMAIN q /\ r[i] = q[i]
    BY <1>1, <1>2, <1>5 DEF r
  <2>2. \A j \in DOMAIN q : i < j => q[j].key # k
    BY <1>1, <1>2 DEF r
  <2> QED
    BY <1>5, <2>1, <2>2 DEF Says
<1> QED
  BY <1>1, <1>3, <1>4, <1>5 DEF r

LEMMA TailEvents ==
  ASSUME NEW q \in Seq(Events), q # <<>>, NEW k
  PROVE  /\ Head(q) \in Events /\ Tail(q) \in Seq(Events)
         /\ Len(Tail(q)) = Len(q) - 1
         /\ Mentions(q, k) <=> Mentions(Tail(q), k) \/ Head(q).key = k
         /\ \A b \in BOOLEAN : Says(q, k, b) =>
              /\ Says(Tail(q), k, b)
              /\ ~Mentions(Tail(q), k) /\ Head(q).key = k => (Down(Head(q)) <=> b)
<1> DEFINE t == Tail(q)
<1>1. /\ Head(q) \in Events /\ t \in Seq(Events) /\ Len(t) = Len(q) - 1
      /\ \A i \in 1 .. Len(t) : t[i] = q[i + 1]
  BY HeadTailProperties
<1>2. /\ Len(q) \in Nat \ {0} /\ DOMAIN q = 1 .. Len(q) /\ Head(q) = q[1]
      /\ DOMAIN t = 1 .. Len(q) - 1
  BY <1>1
<1> HIDE DEF t
<1>3. ASSUME NEW i \in DOMAIN q, i # 1
      PROVE  i - 1 \in DOMAIN t /\ t[i - 1] = q[i]
  BY <1>1, <1>2, <1>3
<1>4. Mentions(q, k) <=> Mentions(t, k) \/ Head(q).key = k
  <2>1. Mentions(q, k) => Mentions(t, k) \/ Head(q).key = k
    BY <1>2, <1>3 DEF Mentions
  <2>2. Mentions(t, k) => Mentions(q, k)
    <3>1. \A i \in DOMAIN t : i + 1 \in DOMAIN q /\ t[i] = q[i + 1]
      BY <1>1, <1>2
    <3> QED
      BY <3>1 DEF Mentions
  <2>3. Head(q).key = k => Mentions(q, k)
    BY <1>2 DEF Mentions
  <2> QED
    BY <2>1, <2>2, <2>3
<1>5. ASSUME NEW b \in BOOLEAN, Says(q, k, b)
      PROVE  /\ Says(t, k, b)
             /\ ~Mentions(t, k) /\ Head(q).key = k => (Down(Head(q)) <=> b)
  <2>1. ASSUME NEW i \in DOMAIN t, t[i].key = k,
               \A j \in DOMAIN t : i < j => t[j].key # k
        PROVE  Down(t[i]) <=> b
    <3>1. i + 1 \in DOMAIN q /\ q[i + 1] = t[i] /\ i \in Nat
      BY <1>1, <1>2
    <3>2. ASSUME NEW j \in DOMAIN q, i + 1 < j
          PROVE  q[j].key # k
      <4>1. j - 1 \in DOMAIN t /\ t[j - 1] = q[j] /\ i < j - 1
        BY <1>2, <1>3, <3>1, <3>2
      <4> QED
        BY <2>1, <4>1
    <3> QED
      BY <1>5, <2>1, <3>1, <3>2 DEF Says
  <2>2. ASSUME ~Mentions(t, k), Head(q).key = k
        PROVE  Down(Head(q)) <=> b
    <3>1. \A j \in DOMAIN q : 1 < j => q[j].key # k
      BY <1>2, <1>3, <2>2 DEF Mentions
    <3> QED
      BY <1>2, <1>5, <2>2, <3>1 DEF Says
  <2> QED
    BY <2>1, <2>2 DEF Says
<1> QED
  BY <1>1, <1>4, <1>5 DEF t

LEMMA NoEvents == \A k, b : ~Mentions(<<>>, k) /\ Says(<<>>, k, b)
BY DEF Mentions, Says

LEMMA OneEvent ==
  ASSUME NEW e \in Events, NEW k
  PROVE  /\ <<e>> \in Seq(Events)
         /\ Mentions(<<e>>, k) <=> e.key = k
         /\ \A b \in BOOLEAN :
              (e.key = k => (b <=> Down(e))) => Says(<<e>>, k, b)
BY DEF Mentions, Says

LEMMA QueueMentions ==
  \A d, q, k : <<d, k>> \in InQueue(d, q) <=> Mentions(q, k)
BY DEF InQueue, Mentions

LEMMA MinExists == ASSUME NEW S \in SUBSET Nat, S # {} PROVE Min(S) \in S
<1> DEFINE R == OpToRel(<, Nat)
<1>1. IsWellFoundedOn(R, Nat) /\ \A x, y \in Nat : y < x => <<y, x>> \in R
  BY NatLessThanWellFounded DEF OpToRel
<1> HIDE DEF R
<1>2. PICK x \in S : \A y \in S : <<y, x>> \notin R
  BY <1>1, WFMin
<1>3. \A y \in S : ~(y < x)
  BY <1>1, <1>2
<1>4. \A y \in S : x <= y
  BY <1>3
<1> QED
  BY <1>4 DEF Min

LEMMA FirstPosition ==
  ASSUME NEW chord \in Seq(Keys), NEW code, Positions(chord, code) # {}
  PROVE  Min(Positions(chord, code)) \in Positions(chord, code)
<1>1. Positions(chord, code) \in SUBSET Nat
  BY DEF Positions
<1> QED
  BY <1>1, MinExists
-----------------------------------------------------------------------------
(* The steps, as the proofs below distinguish them. *)
LEMMA Steps ==
  ASSUME [Next]_vars
  PROVE  \/ UNCHANGED vars
         \/ \E s \in Switches, v \in Values : KeyEvent(s, v)
         \/ \E d \in Devices : Unplug(d) \/ Plug(d) \/ StartDrain(d)
         \/ \E c \in Configs : WriteConfig(c)
         \/ ReadEvent \/ EndDrain \/ Reload \/ Clock
BY DEF Next, Fingers, HotPlug, Drain, Press, Release, Repeat, Values

LEMMA ConfigTypes ==
  \A c \in Configs :
    /\ c.action \in [Keys -> Actions \cup {None}]
    /\ c.chord \in Seq(Keys)
BY ConfigsAssumption

\* What one key event does to the buffer of its device: it goes behind the
\* others, or is the only one left, or is lost with them.
LEMMA Appended ==
  ASSUME TypeOK, NEW s \in Switches, NEW v \in Values, KeyEvent(s, v)
  PROVE  /\ queue' = [queue EXCEPT ![s[1]] = queue'[s[1]]]
         /\ queue'[s[1]] \in Seq(Events) /\ Len(queue'[s[1]]) <= MaxQueue[s[1]]
         /\ \/ queue'[s[1]] = Append(queue[s[1]], [key |-> s[2], value |-> v])
            \/ queue'[s[1]] = <<[key |-> s[2], value |-> v]>>
            \/ queue'[s[1]] = <<>>
<1> DEFINE d == s[1]
           e == [key |-> s[2], value |-> v]
<1>1. d \in Devices /\ e \in Events
  BY SwitchesAssumption DEF Events
<1>2. PICK q \in AfterAppend(d, queue[d], e) : queue' = [queue EXCEPT ![d] = q]
  BY DEF KeyEvent
<1>3. queue[d] \in Seq(Events) /\ Len(queue[d]) <= MaxQueue[d]
  BY <1>1 DEF TypeOK
<1>4. queue'[d] = q
  BY <1>1, <1>2 DEF TypeOK
<1>5. MaxQueue[d] \in Nat \ {0}
  BY <1>1, MaxQueueAssumption
<1>6. CASE Len(queue[d]) = MaxQueue[d]
  <2>1. q \in {<<e>>, <<>>}
    BY <1>2, <1>6 DEF AfterAppend
  <2>2. <<e>> \in Seq(Events) /\ Len(<<e>>) = 1
    BY <1>1
  <2>3. <<>> \in Seq(Events) /\ Len(<<>>) = 0
    OBVIOUS
  <2>4. q \in Seq(Events) /\ Len(q) <= MaxQueue[d]
    <3>1. CASE q = <<e>>
      BY <1>5, <2>2, <3>1
    <3>2. CASE q = <<>>
      BY <1>5, <2>3, <3>2
    <3> QED
      BY <2>1, <3>1, <3>2
  <2> QED
    BY <1>2, <1>4, <2>1, <2>4
<1>7. CASE Len(queue[d]) # MaxQueue[d]
  <2>1. q = Append(queue[d], e)
    BY <1>2, <1>7 DEF AfterAppend
  <2>2. q \in Seq(Events) /\ Len(q) = Len(queue[d]) + 1
    BY <1>1, <1>3, <2>1
  <2>3. Len(q) <= MaxQueue[d]
    BY <1>3, <1>5, <1>7, <2>2
  <2> QED
    BY <1>2, <1>4, <2>1, <2>2, <2>3
<1> QED
  BY <1>6, <1>7

\* The event read and what is left of the buffer.
LEMMA HeadRead ==
  ASSUME TypeOK, QueueInv, draining # None, queue[draining] # <<>>
  PROVE  /\ draining \in Devices
         /\ queue[draining] \in Seq(Events)
         /\ Head(queue[draining]) \in Events
         /\ Tail(queue[draining]) \in Seq(Events)
         /\ Len(Tail(queue[draining])) = Len(queue[draining]) - 1
         /\ <<draining, Head(queue[draining]).key>> \in Switches
<1>1. draining \in Devices /\ queue[draining] \in Seq(Events)
  BY DEF TypeOK
<1>2. /\ Head(queue[draining]) \in Events /\ Tail(queue[draining]) \in Seq(Events)
      /\ Len(Tail(queue[draining])) = Len(queue[draining]) - 1
      /\ Mentions(queue[draining], Head(queue[draining]).key)
  BY <1>1, TailEvents
<1>3. Head(queue[draining]).key \in Keys
  BY <1>2 DEF Events
<1> QED
  BY <1>1, <1>2, <1>3 DEF QueueInv
\* What the event read does to the chord.
LEMMA ChordUpdate ==
  ASSUME TypeOK, QueueInv, ReadEvent,
         NEW chord, chord = cfg.chord,
         NEW code, code = Head(queue[draining]).key,
         NEW down, down = Down(Head(queue[draining]))
  PROVE  /\ chord \in Seq(Keys) /\ code \in Keys /\ down \in BOOLEAN
         /\ HotkeyTypeOK(cfg.chord)'
         /\ \A i \in chordDown' :
              \/ /\ i \in chordDown
                 /\ chord[i] = code => down \/ i # Min(Positions(chord, code))
              \/ down /\ chord[i] = code /\ i = Min(Positions(chord, code))
<1>1. chord \in Seq(Keys) /\ code \in Keys /\ down \in BOOLEAN
  BY HeadRead, ConfigTypes DEF TypeOK, ReadEvent, Events, Down
<1>2. /\ HotkeyTypeOK(chord) /\ cfg' = cfg
      /\ IF Positions(chord, code) = {} THEN UNCHANGED hotkeyVars
         ELSE LET i == Min(Positions(chord, code)) IN
           /\ chordDown' = IF down THEN chordDown \cup {i} ELSE chordDown \ {i}
           /\ allSince' = IF chordDown' # DOMAIN chord THEN "never"
                          ELSE IF allSince = "never" THEN "recent" ELSE allSince
           /\ fired' = (fired /\ chordDown' = DOMAIN chord)
  BY DEF TypeOK, ReadEvent, HotkeyUpdate
<1>3. CASE Positions(chord, code) = {}
  <2>1. \A i \in chordDown : chord[i] # code
    BY <1>2, <1>3 DEF HotkeyTypeOK, Positions
  <2>2. UNCHANGED <<chordDown, allSince, fired>>
    BY <1>2, <1>3 DEF hotkeyVars
  <2>3. HotkeyTypeOK(cfg.chord)'
    BY <1>2, <2>2 DEF HotkeyTypeOK
  <2> QED
    BY <1>1, <2>1, <2>2, <2>3
<1>4. CASE Positions(chord, code) # {}
  <2> DEFINE m == Min(Positions(chord, code))
  <2>1. m \in DOMAIN chord /\ chord[m] = code
    <3>1. m \in Positions(chord, code)
      BY <1>1, <1>4, FirstPosition
    <3> QED
      BY <3>1 DEF Positions
  <2>2. /\ chordDown' = IF down THEN chordDown \cup {m} ELSE chordDown \ {m}
        /\ allSince' = IF chordDown' # DOMAIN chord THEN "never"
                       ELSE IF allSince = "never" THEN "recent" ELSE allSince
        /\ fired' = (fired /\ chordDown' = DOMAIN chord)
    BY <1>2, <1>4
  <2> HIDE DEF m
  <2>3. chordDown' \subseteq DOMAIN chord
    BY <1>2, <2>1, <2>2 DEF HotkeyTypeOK
  <2>4. /\ allSince' \in {"never", "recent", "long ago"}
        /\ allSince' # "never" => chordDown' = DOMAIN chord
    BY <1>2, <2>2 DEF HotkeyTypeOK
  <2>5. fired' \in BOOLEAN /\ (fired' => allSince' = "long ago")
    BY <1>2, <2>2 DEF HotkeyTypeOK
  <2>6. HotkeyTypeOK(cfg.chord)'
    BY <1>2, <2>3, <2>4, <2>5 DEF HotkeyTypeOK
  <2> QED
    BY <1>1, <2>1, <2>2, <2>6 DEF m
<1> QED
  BY <1>3, <1>4
-----------------------------------------------------------------------------
(* Types. *)
LEMMA SameChord ==
  ASSUME TypeOK, UNCHANGED <<cfg, hotkeyVars>>
  PROVE  HotkeyTypeOK(cfg.chord)'
<1>1. HotkeyTypeOK(cfg.chord) /\ UNCHANGED <<cfg, chordDown, allSince, fired>>
  BY DEF TypeOK, hotkeyVars
<1> QED
  BY <1>1 DEF HotkeyTypeOK

LEMMA TypesStep ==
  ASSUME TypeOK, QueueInv, [Next]_vars
  PROVE  TypeOK'
<1> USE DEF fingerVars, fileVars, mapVars, history, hotkeyVars
<1>1. CASE UNCHANGED vars
  BY <1>1 DEF vars, TypeOK, On, HotkeyTypeOK
<1>2. CASE \E s \in Switches, v \in Values : KeyEvent(s, v)
  <2>1. PICK s \in Switches, v \in Values : KeyEvent(s, v)
    BY <1>2
  <2> DEFINE d == s[1]
  <2>2. d \in Devices /\ s = <<s[1], s[2]>> /\ s[2] \in Keys
    BY SwitchesAssumption
  <2>3. /\ queue' = [queue EXCEPT ![d] = queue'[d]]
        /\ queue'[d] \in Seq(Events) /\ Len(queue'[d]) <= MaxQueue[d]
    BY <2>1, Appended
  <2>4. /\ status[d] = "plugged"
        /\ held' \in {held \ {s}, held \cup {s}}
        /\ \E lost : missed' = missed \cup {t \in lost : (t \in held') # (t \in seen)}
        /\ excused' = excused \cup ({cfg.action[t[2]] : t \in missed' \ missed} \ {None})
        /\ UNCHANGED <<status, fileVars, mapVars, seen, orphans, hotkeyVars>>
    BY <2>1 DEF KeyEvent
  <2>5. held' \subseteq Switches /\ missed' \subseteq Switches
    <3>1. \A t \in missed' \ missed : t \in held' \/ t \in seen
      BY <2>4
    <3> QED
      BY <2>4, <3>1 DEF TypeOK
  <2>6. excused' \subseteq Actions
    <3>1. \A t \in missed' : cfg.action[t[2]] \in Actions \cup {None}
      BY <2>5, ConfigTypes, SwitchesAssumption DEF TypeOK
    <3> QED
      BY <2>4, <3>1 DEF TypeOK
  <2>7. queue' \in [Devices -> Seq(Events)]
    BY <2>3 DEF TypeOK
  <2>8. \A c \in Devices : /\ Len(queue'[c]) <= MaxQueue[c]
                           /\ status'[c] # "plugged" => queue'[c] = <<>> /\ On(c, held') = {}
    <3> TAKE c \in Devices
    <3>1. CASE c = d
      BY <2>3, <2>4, <3>1
    <3>2. CASE c # d
      BY <2>3, <2>4, <3>2 DEF TypeOK, On
    <3> QED
      BY <3>1, <3>2
  <2>9. HotkeyTypeOK(cfg.chord)'
    BY <2>4 DEF TypeOK, HotkeyTypeOK
  <2> QED
    BY <2>4, <2>5, <2>6, <2>7, <2>8, <2>9 DEF TypeOK
<1>3. CASE \E d \in Devices : Unplug(d)
  <2>1. PICK d \in Devices : Unplug(d)
    BY <1>3
  <2>2. held' \subseteq held /\ seen' \subseteq seen /\ missed' \subseteq missed
    BY <2>1 DEF Unplug
  <2>3. excused' \subseteq Actions
    <3>1. \A t \in Switches : cfg.action[t[2]] \in Actions \cup {None}
      BY ConfigTypes, SwitchesAssumption DEF TypeOK
    <3> QED
      BY <2>1, <3>1 DEF Unplug, TypeOK, On
  <2>4. orphans' \subseteq Keys
    BY <2>1, SwitchesAssumption DEF Unplug, TypeOK, On
  <2>5. /\ status' \in [Devices -> {"plugged", "gone", "absent"}]
        /\ queue' \in [Devices -> Seq(Events)]
    BY <2>1 DEF Unplug, TypeOK
  <2>6. \A c \in Devices : /\ Len(queue'[c]) <= MaxQueue[c]
                           /\ status'[c] # "plugged" => queue'[c] = <<>> /\ On(c, held') = {}
    <3> TAKE c \in Devices
    <3>1. CASE c = d
      <4>1. queue'[c] = <<>> /\ On(c, held') = {}
        BY <2>1, <3>1 DEF Unplug, TypeOK, On
      <4> QED
        BY <4>1, MaxQueueAssumption
    <3>2. CASE c # d
      BY <2>1, <3>2 DEF Unplug, TypeOK, On
    <3> QED
      BY <3>1, <3>2
  <2>7. HotkeyTypeOK(cfg.chord)' /\ UNCHANGED <<fileVars, mapVars>>
    BY <2>1 DEF Unplug, TypeOK, HotkeyTypeOK
  <2> QED
    BY <2>2, <2>3, <2>4, <2>5, <2>6, <2>7 DEF TypeOK
<1>4. CASE \E d \in Devices : Plug(d)
  <2>1. HotkeyTypeOK(cfg.chord)'
    BY <1>4, SameChord DEF Plug
  <2> QED
    BY <1>4, <2>1 DEF Plug, TypeOK, On
<1>5. CASE \E d \in Devices : StartDrain(d)
  <2>1. HotkeyTypeOK(cfg.chord)'
    BY <1>5, SameChord DEF StartDrain
  <2> QED
    BY <1>5, <2>1 DEF StartDrain, TypeOK, On
<1>6. CASE \E c \in Configs : WriteConfig(c)
  <2>1. HotkeyTypeOK(cfg.chord)'
    BY <1>6, SameChord DEF WriteConfig
  <2> QED
    BY <1>6, <2>1 DEF WriteConfig, TypeOK, On
<1>7. CASE ReadEvent
  <2> DEFINE d == draining
             e == Head(queue[d])
             s == <<d, e.key>>
             a == cfg.action[e.key]
             down == Down(e)
  <2>1. /\ d \in Devices /\ s \in Switches /\ e \in Events
        /\ Tail(queue[d]) \in Seq(Events) /\ Len(Tail(queue[d])) = Len(queue[d]) - 1
    BY <1>7, HeadRead DEF ReadEvent
  <2>2. e.key \in Keys /\ a \in Actions \cup {None} /\ down \in BOOLEAN
    BY <2>1, ConfigTypes DEF TypeOK, Events, Down
  <2>3. /\ queue' = [queue EXCEPT ![d] = Tail(queue[d])]
        /\ HotkeyUpdate(cfg.chord, e.key, down)
        /\ SetAction(a, down)
        /\ seen' = IF down THEN seen \cup {s} ELSE seen \ {s}
        /\ missed' = missed \ {s}
        /\ excused' = IF ~down /\ Sharers(s, a) # {}
                        THEN excused \cup ({a} \ {None}) ELSE excused \ {a}
        /\ orphans' = orphans \ {e.key}
        /\ UNCHANGED <<held, status, fileVars, cfg, draining>>
    BY <1>7 DEF ReadEvent
  <2> HIDE DEF d, e, s, a, down
  <2>4. seen' \subseteq Switches /\ missed' \subseteq Switches /\ orphans' \subseteq Keys
    BY <2>1, <2>3 DEF TypeOK
  <2>5. pressed' \subseteq Actions /\ excused' \subseteq Actions
    BY <2>2, <2>3 DEF TypeOK, SetAction
  <2>6. queue' \in [Devices -> Seq(Events)]
    BY <2>1, <2>3 DEF TypeOK
  <2>7. \A c \in Devices : /\ Len(queue'[c]) <= MaxQueue[c]
                           /\ status'[c] # "plugged" => queue'[c] = <<>> /\ On(c, held') = {}
    <3> TAKE c \in Devices
    <3>1. CASE c = d
      <4>1. queue[c] # <<>>
        BY <1>7, <3>1 DEF ReadEvent, d
      <4>2. Len(queue'[c]) = Len(queue[c]) - 1
        BY <2>1, <2>3, <3>1 DEF TypeOK
      <4>3. status'[c] = "plugged"
        BY <2>3, <4>1 DEF TypeOK
      <4>4. Len(queue[c]) \in Nat /\ MaxQueue[c] \in Nat /\ Len(queue[c]) <= MaxQueue[c]
        BY MaxQueueAssumption DEF TypeOK
      <4> QED
        BY <4>2, <4>3, <4>4
    <3>2. CASE c # d
      BY <2>3, <3>2 DEF TypeOK, On
    <3> QED
      BY <3>1, <3>2
  <2>8. HotkeyTypeOK(cfg.chord)'
    BY <1>7, ChordUpdate
  <2> QED
    BY <2>3, <2>4, <2>5, <2>6, <2>7, <2>8 DEF TypeOK
<1>8. CASE EndDrain
  <2>1. HotkeyTypeOK(cfg.chord)'
    <3>1. /\ UNCHANGED <<cfg, chordDown, allSince>>
          /\ fired' = (fired \/ (~fired /\ allSince = "long ago"))
      BY <1>8 DEF EndDrain, HotkeyPoll, ShouldFire
    <3>2. HotkeyTypeOK(cfg.chord)
      BY DEF TypeOK
    <3>3. fired' \in BOOLEAN /\ (fired' => allSince' = "long ago")
      BY <3>1, <3>2 DEF HotkeyTypeOK
    <3>4. /\ chordDown' \subseteq DOMAIN cfg'.chord
          /\ allSince' \in {"never", "recent", "long ago"}
          /\ allSince' # "never" => chordDown' = DOMAIN cfg'.chord
      BY <3>1, <3>2 DEF HotkeyTypeOK
    <3> QED
      BY <3>3, <3>4 DEF HotkeyTypeOK
  <2> QED
    BY <1>8, <2>1 DEF EndDrain, TypeOK, On
<1>9. CASE Reload
  <2>1. HotkeyTypeOK(cfg.chord)'
    BY <1>9 DEF Reload, HotkeyReset, HotkeyTypeOK
  <2>2. excused' \subseteq Actions
    <3>1. \A t \in Switches : /\ cfg.action[t[2]] \in Actions \cup {None}
                              /\ file.action[t[2]] \in Actions \cup {None}
      BY ConfigTypes, SwitchesAssumption DEF TypeOK
    <3> QED
      BY <1>9, <3>1 DEF Reload, TypeOK
  <2> QED
    BY <1>9, <2>1, <2>2 DEF Reload, TypeOK, On
<1>10. CASE Clock
  BY <1>10 DEF Clock, SecondPasses, TypeOK, On, HotkeyTypeOK
<1> QED
  BY Steps, <1>1, <1>2, <1>3, <1>4, <1>5, <1>6, <1>7, <1>8, <1>9, <1>10
-----------------------------------------------------------------------------
(* Buffers and fingers. *)

\* An event that is overwritten leaves the switch where the daemon believes it
\* to be, or is missed.
LEMMA PressStep ==
  ASSUME TypeOK, QueueInv, SeenInv,
         NEW s \in Switches, NEW v \in Values, KeyEvent(s, v)
  PROVE  QueueInv' /\ SeenInv'
<1> DEFINE d == s[1]
           e == [key |-> s[2], value |-> v]
           q == queue'[s[1]]
           lost == (InQueue(d, queue[d]) \cup {s}) \ InQueue(d, q)
<1>1. d \in Devices /\ s[2] \in Keys /\ s = <<d, s[2]>> /\ e \in Events
  BY SwitchesAssumption DEF Events
<1>2. /\ queue' = [queue EXCEPT ![d] = q] /\ q \in Seq(Events)
      /\ q \in {Append(queue[d], e), <<e>>, <<>>}
  BY Appended
<1>3. queue[d] \in Seq(Events) /\ \A c \in Devices : c # d => queue'[c] = queue[c]
  BY <1>1, <1>2 DEF TypeOK
<1>4. held' = IF Down(e) THEN held \cup {s} ELSE held \ {s}
  BY DEF KeyEvent, Down
<1>5. seen' = seen
  BY DEF KeyEvent, history
<1>6. missed' = missed \cup {t \in lost : (t \in held') # (t \in seen)}
  <2>1. PICK r \in AfterAppend(d, queue[d], e) :
          /\ queue' = [queue EXCEPT ![d] = r]
          /\ missed' = missed \cup {t \in (InQueue(d, queue[d]) \cup {s}) \ InQueue(d, r) :
                                   (t \in held') # (t \in seen)}
    BY DEF KeyEvent
  <2>2. r = q
    BY <1>1, <2>1 DEF TypeOK
  <2> QED
    BY <2>1, <2>2
<1> HIDE DEF d, e, q, lost
<1>7. ASSUME NEW c \in Devices, NEW k \in Keys
      PROVE  /\ Mentions(queue'[c], k) => <<c, k>> \in Switches
             /\ Says(queue'[c], k, <<c, k>> \in held')
             /\ ~Mentions(queue'[c], k) /\ <<c, k>> \notin missed' =>
                  (<<c, k>> \in seen' <=> <<c, k>> \in held')
  <2>1. /\ Mentions(queue[c], k) => <<c, k>> \in Switches
        /\ Says(queue[c], k, <<c, k>> \in held)
        /\ ~Mentions(queue[c], k) /\ <<c, k>> \notin missed =>
             (<<c, k>> \in seen <=> <<c, k>> \in held)
    BY DEF QueueInv, SeenInv
  <2>2. <<c, k>> # s => (<<c, k>> \in held' <=> <<c, k>> \in held)
    BY <1>4
  <2>3. CASE c # d
    BY <1>1, <1>3, <1>5, <1>6, <2>1, <2>2, <2>3
  <2>4. CASE c = d
    <3>1. queue'[c] = q /\ (<<c, k>> = s <=> e.key = k)
      BY <1>1, <2>4 DEF q, d, e
    <3>2. PICK b \in BOOLEAN : b <=> <<c, k>> \in held'
      OBVIOUS
    <3>3. /\ Mentions(q, k) => Mentions(queue[c], k) \/ e.key = k
          /\ (IF e.key = k THEN b <=> Down(e) ELSE Says(queue[c], k, b)) =>
               Says(q, k, b)
      <4>1. CASE q = Append(queue[d], e)
        <5>1. /\ Mentions(Append(queue[d], e), k) <=> Mentions(queue[d], k) \/ e.key = k
              /\ (IF e.key = k THEN b <=> Down(e) ELSE Says(queue[d], k, b)) =>
                   Says(Append(queue[d], e), k, b)
          BY <1>1, <1>3, AppendEvent
        <5> QED
          BY <2>4, <4>1, <5>1
      <4>2. CASE q = <<e>>
        BY <1>1, <4>2, OneEvent
      <4>3. CASE q = <<>>
        BY <4>3, NoEvents
      <4> QED
        BY <1>2, <4>1, <4>2, <4>3
    <3>4. e.key = k => <<c, k>> \in Switches /\ (b <=> Down(e))
      BY <1>4, <3>1, <3>2
    <3>5. e.key # k => Says(queue[c], k, b)
      <4> SUFFICES ASSUME e.key # k PROVE Says(queue[c], k, b)
        OBVIOUS
      <4>1. b <=> <<c, k>> \in held
        BY <2>2, <3>1, <3>2
      <4> QED
        BY <2>1, <4>1 DEF Says
    <3>6. /\ Mentions(q, k) => <<c, k>> \in Switches
          /\ Says(q, k, <<c, k>> \in held')
      BY <2>1, <3>2, <3>3, <3>4, <3>5 DEF Says
    <3>7. ASSUME ~Mentions(q, k), <<c, k>> \notin missed'
          PROVE  <<c, k>> \in seen' <=> <<c, k>> \in held'
      <4>1. CASE <<c, k>> \in lost
        BY <1>5, <1>6, <3>7, <4>1
      <4>2. CASE <<c, k>> \notin lost
        <5>1. <<c, k>> \notin InQueue(d, q)
          BY <2>4, <3>7, QueueMentions
        <5>2. <<c, k>> \notin InQueue(d, queue[d]) /\ <<c, k>> # s
          BY <4>2, <5>1 DEF lost
        <5>3. ~Mentions(queue[c], k)
          BY <2>4, <5>2, QueueMentions
        <5> QED
          BY <1>5, <1>6, <2>1, <2>2, <3>7, <5>2, <5>3
      <4> QED
        BY <4>1, <4>2
    <3> QED
      BY <3>1, <3>6, <3>7
  <2> QED
    BY <2>3, <2>4
<1> QED
  BY <1>7 DEF QueueInv, SeenInv

LEMMA ReadStep ==
  ASSUME TypeOK, QueueInv, SeenInv, ReadEvent
  PROVE  QueueInv' /\ SeenInv'
<1> DEFINE d == draining
           q == queue[d]
           e == Head(q)
           s == <<d, e.key>>
<1>1. /\ d \in Devices /\ q \in Seq(Events) /\ q # <<>> /\ s \in Switches
  BY HeadRead DEF ReadEvent
<1>2. /\ queue' = [queue EXCEPT ![d] = Tail(q)] /\ held' = held
      /\ seen' = IF Down(e) THEN seen \cup {s} ELSE seen \ {s}
      /\ missed' = missed \ {s}
  BY DEF ReadEvent
<1> HIDE DEF d, q, e, s
<1>3. ASSUME NEW c \in Devices, NEW k \in Keys
      PROVE  /\ Mentions(queue'[c], k) => <<c, k>> \in Switches
             /\ Says(queue'[c], k, <<c, k>> \in held)
             /\ ~Mentions(queue'[c], k) /\ <<c, k>> \notin missed' =>
                  (<<c, k>> \in seen' <=> <<c, k>> \in held)
  <2>1. /\ Mentions(queue[c], k) => <<c, k>> \in Switches
        /\ Says(queue[c], k, <<c, k>> \in held)
        /\ ~Mentions(queue[c], k) /\ <<c, k>> \notin missed =>
             (<<c, k>> \in seen <=> <<c, k>> \in held)
    BY DEF QueueInv, SeenInv
  <2>2. CASE c # d
    <3>1. queue'[c] = queue[c]
      BY <1>1, <1>2, <2>2 DEF TypeOK
    <3>2. <<c, k>> # s
      BY <2>2 DEF s
    <3> QED
      BY <1>2, <2>1, <3>1, <3>2
  <2>3. CASE c = d
    <3>1. queue'[c] = Tail(q) /\ queue[c] = q
      BY <1>1, <1>2, <2>3 DEF TypeOK, q
    <3>2. e = Head(q) /\ (<<c, k>> = s <=> e.key = k)
      BY <2>3 DEF s, e
    <3>3. /\ Mentions(q, k) <=> Mentions(Tail(q), k) \/ e.key = k
          /\ Says(Tail(q), k, <<c, k>> \in held)
          /\ ~Mentions(Tail(q), k) /\ e.key = k => (Down(e) <=> <<c, k>> \in held)
      <4>1. PICK b \in BOOLEAN : b <=> <<c, k>> \in held
        OBVIOUS
      <4>2. Says(q, k, b)
        BY <2>1, <3>1, <4>1 DEF Says
      <4>3. /\ Mentions(q, k) <=> Mentions(Tail(q), k) \/ e.key = k
            /\ Says(Tail(q), k, b)
            /\ ~Mentions(Tail(q), k) /\ e.key = k => (Down(e) <=> b)
        BY <1>1, <3>2, <4>2, TailEvents
      <4> QED
        BY <4>1, <4>3 DEF Says
    <3>4. CASE e.key = k
      BY <1>2, <2>1, <3>1, <3>2, <3>3, <3>4
    <3>5. CASE e.key # k
      BY <1>2, <2>1, <3>1, <3>2, <3>3, <3>5
    <3> QED
      BY <3>4, <3>5
  <2> QED
    BY <2>2, <2>3
<1> QED
  BY <1>2, <1>3 DEF QueueInv, SeenInv

LEMMA UnplugStep ==
  ASSUME TypeOK, QueueInv, SeenInv, NEW d \in Devices, Unplug(d)
  PROVE  QueueInv' /\ SeenInv'
<1>1. /\ queue' = [queue EXCEPT ![d] = <<>>]
      /\ held' = held \ On(d, held) /\ seen' = seen \ On(d, seen)
      /\ missed' = missed \ On(d, missed)
  BY DEF Unplug
<1>2. ASSUME NEW c \in Devices, NEW k \in Keys
      PROVE  /\ Mentions(queue'[c], k) => <<c, k>> \in Switches
             /\ Says(queue'[c], k, <<c, k>> \in held')
             /\ ~Mentions(queue'[c], k) /\ <<c, k>> \notin missed' =>
                  (<<c, k>> \in seen' <=> <<c, k>> \in held')
  <2>1. CASE c = d
    <3>1. queue'[c] = <<>>
      BY <1>1, <2>1 DEF TypeOK
    <3>2. <<c, k>> \notin seen' /\ <<c, k>> \notin held'
      BY <1>1, <2>1 DEF On
    <3> QED
      BY <3>1, <3>2, NoEvents
  <2>2. CASE c # d
    <3>1. queue'[c] = queue[c]
      BY <1>1, <2>2 DEF TypeOK
    <3>2. /\ <<c, k>> \in seen' <=> <<c, k>> \in seen
          /\ <<c, k>> \in held' <=> <<c, k>> \in held
          /\ <<c, k>> \in missed' <=> <<c, k>> \in missed
      BY <1>1, <2>2 DEF On
    <3>3. Says(queue[c], k, <<c, k>> \in held')
      BY <3>2 DEF QueueInv, Says
    <3> QED
      BY <3>1, <3>2, <3>3 DEF QueueInv, SeenInv
  <2> QED
    BY <2>1, <2>2
<1> QED
  BY <1>2 DEF QueueInv, SeenInv

LEMMA ViewStep ==
  ASSUME TypeOK, QueueInv, SeenInv, [Next]_vars
  PROVE  QueueInv' /\ SeenInv'
<1>1. CASE UNCHANGED <<queue, held, seen, missed>>
  BY <1>1 DEF QueueInv, SeenInv
<1> USE DEF fingerVars, history
<1>2. CASE UNCHANGED vars \/ EndDrain \/ Reload \/ Clock
  BY <1>1, <1>2 DEF vars, EndDrain, Reload, Clock
<1>3. CASE \E c \in Configs : WriteConfig(c)
  BY <1>1, <1>3 DEF WriteConfig
<1>4. CASE \E d \in Devices : Plug(d) \/ StartDrain(d)
  BY <1>1, <1>4 DEF Plug, StartDrain
<1> QED
  BY Steps, <1>2, <1>3, <1>4, PressStep, ReadStep, UnplugStep
-----------------------------------------------------------------------------
(* The bitmap. *)
LEMMA BitmapRead ==
  ASSUME TypeOK, QueueInv, BitmapInv, ReadEvent
  PROVE  BitmapInv'
<1> DEFINE e == Head(queue[draining])
           s == <<draining, e.key>>
           act == cfg.action[e.key]
<1>1. s \in Switches /\ s[2] = e.key
  BY HeadRead DEF ReadEvent
<1>2. /\ cfg' = cfg
      /\ pressed' = IF act = None THEN pressed
                    ELSE IF Down(e) THEN pressed \cup {act} ELSE pressed \ {act}
      /\ seen' = IF Down(e) THEN seen \cup {s} ELSE seen \ {s}
      /\ missed' = missed \ {s}
      /\ excused' = IF ~Down(e) /\ Bound(act, seen \cup missed) \ {s} # {}
                      THEN excused \cup ({act} \ {None}) ELSE excused \ {act}
  BY DEF ReadEvent, SetAction, Sharers
<1> HIDE DEF e, s, act
<1>3. \A t : t \in {s} => cfg.action[t[2]] = act
  BY <1>1 DEF act
<1> SUFFICES ASSUME NEW a \in Actions \ excused'
             PROVE  /\ a \in pressed' => Bound(a, seen \ missed)' # {}
                    /\ a \notin pressed' => Bound(a, seen \cup missed)' = {}
  BY DEF BitmapInv
<1>4. a # None
  BY NoneAssumption
<1>5. CASE a # act
  <2>1. a \notin excused /\ (a \in pressed' <=> a \in pressed)
    BY <1>2, <1>4, <1>5
  <2>2. /\ Bound(a, seen \ missed)' = Bound(a, seen \ missed)
        /\ Bound(a, seen \cup missed)' = Bound(a, seen \cup missed)
    BY <1>2, <1>3, <1>5 DEF Bound
  <2> QED
    BY <2>1, <2>2 DEF BitmapInv
<1>6. CASE a = act /\ Down(e)
  <2>1. a \in pressed' /\ s \in seen' \ missed'
    BY <1>2, <1>4, <1>6
  <2>2. s \in Bound(a, seen \ missed)'
    BY <1>2, <1>3, <1>6, <2>1 DEF Bound
  <2> QED
    BY <2>1, <2>2
<1>7. CASE a = act /\ ~Down(e)
  <2>1. Bound(act, seen \cup missed) \ {s} = {}
    BY <1>2, <1>4, <1>7
  <2>2. a \notin pressed'
    BY <1>2, <1>4, <1>7
  <2>3. Bound(a, seen \cup missed)' = {}
    BY <1>2, <1>7, <2>1 DEF Bound
  <2> QED
    BY <2>2, <2>3
<1> QED
  BY <1>5, <1>6, <1>7

LEMMA BitmapStep ==
  ASSUME TypeOK, QueueInv, BitmapInv, [Next]_vars
  PROVE  BitmapInv'
<1>1. CASE UNCHANGED <<cfg, pressed, seen, missed, excused>>
  BY <1>1 DEF BitmapInv, Bound
<1> USE DEF fingerVars, mapVars, history
<1>2. CASE UNCHANGED vars \/ EndDrain \/ Clock
  BY <1>1, <1>2 DEF vars, EndDrain, Clock
<1>3. CASE \E c \in Configs : WriteConfig(c)
  BY <1>1, <1>3 DEF WriteConfig
<1>4. CASE \E d \in Devices : Plug(d) \/ StartDrain(d)
  BY <1>1, <1>4 DEF Plug, StartDrain
<1>5. CASE \E s \in Switches, v \in Values : KeyEvent(s, v)
  <2>1. PICK s \in Switches, v \in Values : KeyEvent(s, v)
    BY <1>5
  <2>2. /\ UNCHANGED <<cfg, pressed, seen>> /\ missed \subseteq missed'
        /\ excused' = excused \cup ({cfg.action[t[2]] : t \in missed' \ missed} \ {None})
    BY <2>1 DEF KeyEvent
  <2> SUFFICES ASSUME NEW a \in Actions \ excused'
               PROVE  /\ a \in pressed' => Bound(a, seen \ missed)' # {}
                      /\ a \notin pressed' => Bound(a, seen \cup missed)' = {}
    BY DEF BitmapInv
  <2>3. a \notin excused /\ a # None
    BY <2>2, NoneAssumption
  <2>4. \A t \in missed' \ missed : cfg.action[t[2]] # a
    BY <2>2, <2>3
  <2>5. /\ Bound(a, seen \ missed)' = Bound(a, seen \ missed)
        /\ Bound(a, seen \cup missed)' = Bound(a, seen \cup missed)
    BY <2>2, <2>4 DEF Bound
  <2> QED
    BY <2>2, <2>3, <2>5 DEF BitmapInv
<1>6. CASE \E d \in Devices : Unplug(d)
  <2>1. PICK d \in Devices : Unplug(d)
    BY <1>6
  <2>2. /\ UNCHANGED <<cfg, pressed>>
        /\ seen' = seen \ On(d, seen) /\ missed' = missed \ On(d, missed)
        /\ excused' = excused \cup
             ({cfg.action[t[2]] : t \in On(d, seen \cup missed)} \ {None})
    BY <2>1 DEF Unplug
  <2> SUFFICES ASSUME NEW a \in Actions \ excused'
               PROVE  /\ a \in pressed' => Bound(a, seen \ missed)' # {}
                      /\ a \notin pressed' => Bound(a, seen \cup missed)' = {}
    BY DEF BitmapInv
  <2>3. a \notin excused /\ a # None
    BY <2>2, NoneAssumption
  <2>4. \A t \in On(d, seen \cup missed) : cfg.action[t[2]] # a
    BY <2>2, <2>3
  <2>5. /\ Bound(a, seen \ missed)' = Bound(a, seen \ missed)
        /\ Bound(a, seen \cup missed)' = Bound(a, seen \cup missed)
    BY <2>2, <2>4 DEF Bound, On
  <2> QED
    BY <2>2, <2>3, <2>5 DEF BitmapInv
<1>7. CASE Reload
  <2> DEFINE moved == {s \in seen \cup missed : cfg.action[s[2]] # file.action[s[2]]}
  <2>1. /\ UNCHANGED <<pressed, seen, missed>> /\ cfg' = file
        /\ excused' = excused \cup
             (({cfg.action[s[2]] : s \in moved} \cup {file.action[s[2]] : s \in moved})
                \ {None})
    BY <1>7 DEF Reload
  <2> SUFFICES ASSUME NEW a \in Actions \ excused'
               PROVE  /\ a \in pressed' => Bound(a, seen \ missed)' # {}
                      /\ a \notin pressed' => Bound(a, seen \cup missed)' = {}
    BY DEF BitmapInv
  <2>2. a \notin excused /\ a # None
    BY <2>1, NoneAssumption
  <2>3. \A s \in moved : cfg.action[s[2]] # a /\ file.action[s[2]] # a
    BY <2>1, <2>2
  <2>4. \A s \in seen \cup missed : cfg.action[s[2]] = a <=> cfg'.action[s[2]] = a
    BY <2>1, <2>3
  <2>5. /\ Bound(a, seen \ missed)' = Bound(a, seen \ missed)
        /\ Bound(a, seen \cup missed)' = Bound(a, seen \cup missed)
    BY <2>1, <2>4 DEF Bound
  <2> QED
    BY <2>1, <2>2, <2>5 DEF BitmapInv
<1> QED
  BY Steps, <1>2, <1>3, <1>4, <1>5, <1>6, <1>7, BitmapRead
-----------------------------------------------------------------------------
(* The chord. *)
LEMMA ChordRead ==
  ASSUME TypeOK, QueueInv, ChordInv, ReadEvent
  PROVE  ChordInv'
<1> DEFINE e == Head(queue[draining])
           s == <<draining, e.key>>
<1>1. PICK chord, code, down :
        chord = cfg.chord /\ code = e.key /\ down = Down(e)
  OBVIOUS
<1>2. /\ cfg' = cfg /\ orphans' = orphans \ {code}
      /\ seen' = IF down THEN seen \cup {s} ELSE seen \ {s}
      /\ s[2] = code
  BY <1>1 DEF ReadEvent
<1> HIDE DEF e, s
<1>3. \A i \in chordDown' :
        \/ i \in chordDown /\ (chord[i] = code => down \/ i # Min(Positions(chord, code)))
        \/ down /\ chord[i] = code /\ i = Min(Positions(chord, code))
  BY <1>1, ChordUpdate DEF e
<1> SUFFICES ASSUME NEW i \in chordDown'
             PROVE  /\ i = Min(Positions(chord, chord[i]))
                    /\ chord[i] \in orphans' \/ \E t \in seen' : t[2] = chord[i]
  BY <1>1, <1>2 DEF ChordInv
<1>4. i \in chordDown =>
        /\ i = Min(Positions(chord, chord[i]))
        /\ chord[i] \in orphans \/ \E t \in seen : t[2] = chord[i]
  BY <1>1 DEF ChordInv
<1>5. CASE chord[i] = code
  <2>1. down /\ i = Min(Positions(chord, code))
    BY <1>3, <1>4, <1>5
  <2> QED
    BY <1>2, <1>5, <2>1
<1>6. CASE chord[i] # code
  BY <1>2, <1>3, <1>4, <1>6
<1> QED
  BY <1>5, <1>6

LEMMA ChordStep ==
  ASSUME TypeOK, QueueInv, ChordInv, [Next]_vars
  PROVE  ChordInv'
<1>1. CASE UNCHANGED <<cfg, seen, orphans, chordDown>>
  BY <1>1 DEF ChordInv
<1> USE DEF fingerVars, mapVars, history, hotkeyVars
<1>2. CASE UNCHANGED vars \/ EndDrain \/ Clock
  BY <1>1, <1>2 DEF vars, EndDrain, HotkeyPoll, Clock, SecondPasses
<1>3. CASE \E c \in Configs : WriteConfig(c)
  BY <1>1, <1>3 DEF WriteConfig
<1>4. CASE \E d \in Devices : Plug(d) \/ StartDrain(d)
  BY <1>1, <1>4 DEF Plug, StartDrain
<1>5. CASE \E s \in Switches, v \in Values : KeyEvent(s, v)
  BY <1>1, <1>5 DEF KeyEvent
<1>6. CASE \E d \in Devices : Unplug(d)
  <2>1. PICK d \in Devices : Unplug(d)
    BY <1>6
  <2>2. /\ UNCHANGED <<cfg, chordDown>> /\ seen' = seen \ On(d, seen)
        /\ orphans' = orphans \cup
             {t[2] : t \in {s \in On(d, seen) : Positions(cfg.chord, s[2]) # {}}}
    BY <2>1 DEF Unplug
  <2>3. ASSUME NEW i \in chordDown, NEW s \in seen, s[2] = cfg.chord[i]
        PROVE  cfg.chord[i] \in orphans' \/ \E t \in seen' : t[2] = cfg.chord[i]
    <3>1. i \in Positions(cfg.chord, s[2])
      BY <2>3 DEF Positions, TypeOK, HotkeyTypeOK
    <3>2. s \in On(d, seen) => cfg.chord[i] \in orphans'
      BY <2>2, <2>3, <3>1
    <3> QED
      BY <2>2, <2>3, <3>2
  <2> QED
    BY <2>2, <2>3 DEF ChordInv
<1>7. CASE Reload
  BY <1>7 DEF Reload, HotkeyReset, ChordInv
<1> QED
  BY Steps, <1>2, <1>3, <1>4, <1>5, <1>6, <1>7, ChordRead
-----------------------------------------------------------------------------
LEMMA InitIInv == Init => IInv
<1> SUFFICES ASSUME Init PROVE IInv
  OBVIOUS
<1> USE DEF Init, HotkeyInit
<1>1. \A d \in Devices : queue[d] = <<>> /\ Len(queue[d]) <= MaxQueue[d]
  BY MaxQueueAssumption
<1>2. HotkeyTypeOK(cfg.chord)
  BY DEF HotkeyTypeOK
<1>3. TypeOK
  <2>1. queue \in [Devices -> Seq(Events)]
    OBVIOUS
  <2>2. \A d \in Devices : On(d, held) = {}
    BY DEF On
  <2> QED
    BY <1>1, <1>2, <2>1, <2>2 DEF TypeOK
<1>4. QueueInv /\ SeenInv
  BY <1>1, NoEvents DEF QueueInv, SeenInv
<1>5. BitmapInv /\ ChordInv
  BY DEF BitmapInv, ChordInv, Bound
<1> QED
  BY <1>3, <1>4, <1>5 DEF IInv

LEMMA NextIInv == IInv /\ [Next]_vars => IInv'
BY TypesStep, ViewStep, BitmapStep, ChordStep DEF IInv

(* The inductive invariant of the mapper: what the buffers, the daemon's   *)
(* view, the bitmap and the chord have to do with each other at any time.  *)
THEOREM Invariance == Spec => []IInv
BY InitIInv, NextIInv, PTL DEF Spec

(* The data keeps its types, a buffer its size, and the chord's state and  *)
(* timer agree, whatever is plugged, pressed, repeated or reconfigured.    *)
THEOREM MapperTypes == Spec => []TypeOK
<1>1. IInv => TypeOK
  BY DEF IInv
<1> QED
  BY <1>1, Invariance, PTL

(* The bitmap follows the fingers: no button is stuck or dead but for the  *)
(* four accidents that excuse it, for every table of bindings.             *)
THEOREM BitmapFollows == Spec => []FollowsFingers
<1>1. IInv => FollowsFingers
  <2> SUFFICES ASSUME IInv, Quiet, NEW a \in Actions \ excused
               PROVE  a \in pressed <=> Bound(a, held) # {}
    BY DEF FollowsFingers
  <2>1. /\ held \subseteq Devices \X Keys /\ seen \subseteq Devices \X Keys
    BY SwitchesAssumption DEF IInv, TypeOK
  <2>2. \A s \in Devices \X Keys : s \notin missed => (s \in seen <=> s \in held)
    BY NoEvents DEF Quiet, IInv, SeenInv
  <2>3. Bound(a, seen \ missed) \subseteq Bound(a, held)
    BY <2>1, <2>2 DEF Bound
  <2>4. Bound(a, held) \subseteq Bound(a, seen \cup missed)
    BY <2>1, <2>2 DEF Bound
  <2> QED
    BY <2>3, <2>4 DEF IInv, BitmapInv
<1> QED
  BY <1>1, Invariance, PTL

(* The toggle fires only when every key of the chord is down as far as the *)
(* daemon can know, unless a device left with it down; for every chord, of *)
(* keys of any number of devices.                                          *)
THEOREM ToggleFiresOnHeldChord == Spec => FiresOnHeldChord
<1>1. ASSUME IInv, [Next]_vars
      PROVE  [fired' /\ ~fired =>
                \A i \in DOMAIN cfg.chord :
                  cfg.chord[i] \in orphans \/ MaybeHeld(cfg.chord[i])]_vars
  <2> SUFFICES ASSUME fired', ~fired, NEW i \in DOMAIN cfg.chord
               PROVE  cfg.chord[i] \in orphans \/ MaybeHeld(cfg.chord[i])
    OBVIOUS
  <2>1. EndDrain
    <3> USE DEF fingerVars, mapVars, history, hotkeyVars
    <3>1. ~UNCHANGED fired
      OBVIOUS
    <3>2. ~(UNCHANGED vars \/ Clock)
      BY <3>1 DEF vars, Clock, SecondPasses
    <3>3. ~\E c \in Configs : WriteConfig(c)
      BY <3>1 DEF WriteConfig
    <3>4. ~\E d \in Devices : Plug(d) \/ StartDrain(d) \/ Unplug(d)
      BY <3>1 DEF Plug, StartDrain, Unplug
    <3>5. ~\E s \in Switches, v \in Values : KeyEvent(s, v)
      BY <3>1 DEF KeyEvent
    <3>6. ~Reload
      BY DEF Reload, HotkeyReset
    <3>7. ~ReadEvent
      BY <3>1 DEF ReadEvent, HotkeyUpdate
    <3> QED
      BY <1>1, Steps, <3>2, <3>3, <3>4, <3>5, <3>6, <3>7
  <2>2. chordDown = DOMAIN cfg.chord
    BY <1>1, <2>1 DEF EndDrain, HotkeyPoll, ShouldFire, IInv, TypeOK, HotkeyTypeOK
  <2>3. CASE cfg.chord[i] \in orphans
    BY <2>3
  <2>4. CASE cfg.chord[i] \notin orphans
    <3>1. PICK s \in seen : s[2] = cfg.chord[i]
      BY <1>1, <2>2, <2>4 DEF IInv, ChordInv
    <3>2. s \in Switches /\ s \in Devices \X Keys
      BY <1>1, SwitchesAssumption DEF IInv, TypeOK
    <3>3. Mentions(queue[s[1]], s[2]) \/ s \in missed \/ s \in held
      BY <1>1, <3>2 DEF IInv, SeenInv
    <3>4. Mentions(queue[s[1]], s[2]) => s \in InQueue(s[1], queue[s[1]])
      BY <3>2, QueueMentions
    <3> QED
      BY <3>1, <3>2, <3>3, <3>4 DEF MaybeHeld
  <2> QED
    BY <2>3, <2>4
<1> QED
  BY <1>1, Invariance, PTL DEF Spec, FiresOnHeldChord
=============================================================================

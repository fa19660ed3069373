------------------------------- MODULE Hotkey -------------------------------
(***************************************************************************)
(* The mode-toggle chord, as both daemons track it: struct hotkey_state    *)
(* and the functions on it (kbm-mapper-ff/files/main.c, and the same code  *)
(* in kbm-passthrough/files/main.c).                                       *)
(*                                                                         *)
(* The state is fed by the drain loop, one call per key event, and polled  *)
(* once after each drain.  It is advanced by whichever daemon extends this *)
(* module: every operator below is a conjunct of one of its actions.       *)
(***************************************************************************)
EXTENDS Naturals, Sequences, FiniteSetsExt

VARIABLES
  chordDown,   \* hotkey.pressed: positions of the chord
  allSince,    \* hotkey.all_since_ns: never, recent, or long (1000 ms) ago
  fired        \* hotkey.fired

hotkeyVars == <<chordDown, allSince, fired>>

HotkeyInit == chordDown = {} /\ allSince = "never" /\ fired = FALSE

Positions(chord, code) == {i \in DOMAIN chord : chord[i] = code}

\* Variant of HotkeyUpdate: the one-shot latch survives the end of the hold.
HotkeyNoRearm(chord, code, down) ==
  IF Positions(chord, code) = {} THEN UNCHANGED hotkeyVars
  ELSE LET i == Min(Positions(chord, code)) IN
       /\ chordDown' = IF down THEN chordDown \cup {i} ELSE chordDown \ {i}
       /\ allSince' = IF chordDown' # DOMAIN chord THEN "never"
                      ELSE IF allSince = "never" THEN "recent" ELSE allSince
       /\ UNCHANGED fired

\* Variant of HotkeyUpdate: the hold is timed from its first key.
HotkeyAnyKey(chord, code, down) ==
  IF Positions(chord, code) = {} THEN UNCHANGED hotkeyVars
  ELSE LET i == Min(Positions(chord, code)) IN
       /\ chordDown' = IF down THEN chordDown \cup {i} ELSE chordDown \ {i}
       /\ allSince' = IF chordDown' = {} THEN "never"
                      ELSE IF allSince = "never" THEN "recent" ELSE allSince
       /\ fired' = (fired /\ chordDown' # {})

\* Variant of HotkeyUpdate: every event of a full chord, autorepeat included,
\* starts the second over.
HotkeyRestarts(chord, code, down) ==
  IF Positions(chord, code) = {} THEN UNCHANGED hotkeyVars
  ELSE LET i == Min(Positions(chord, code)) IN
       /\ chordDown' = IF down THEN chordDown \cup {i} ELSE chordDown \ {i}
       /\ allSince' = IF chordDown' # DOMAIN chord THEN "never" ELSE "recent"
       /\ fired' = (fired /\ chordDown' = DOMAIN chord)

\* hotkey_update, on a key event: the first position with this code follows
\* the key; the hold starts when all positions are down and ends, with the
\* one-shot latch, when one is not.
HotkeyUpdate(chord, code, down) ==
  IF Positions(chord, code) = {} THEN UNCHANGED hotkeyVars
  ELSE LET i == Min(Positions(chord, code)) IN
       /\ chordDown' = IF down THEN chordDown \cup {i} ELSE chordDown \ {i}
       /\ allSince' = IF chordDown' # DOMAIN chord THEN "never"
                      ELSE IF allSince = "never" THEN "recent" ELSE allSince
       /\ fired' = (fired /\ chordDown' = DOMAIN chord)

\* hotkey_should_fire, and the fork of systemctl that follows.
ShouldFire == ~fired /\ allSince = "long ago"
HotkeyPoll ==
  /\ fired' = (fired \/ ShouldFire)
  /\ UNCHANGED <<chordDown, allSince>>

\* Variant of HotkeyReset: the keys keep their bits.
HotkeyKeepBits == allSince' = "never" /\ fired' = FALSE /\ UNCHANGED chordDown

\* hotkey_reset
HotkeyReset == chordDown' = {} /\ allSince' = "never" /\ fired' = FALSE

\* The clock passes all_since_ns + 1000 ms.
SecondPasses ==
  /\ allSince = "recent"
  /\ allSince' = "long ago"
  /\ UNCHANGED <<chordDown, fired>>

HotkeyTypeOK(chord) ==
  /\ chordDown \subseteq DOMAIN chord
  /\ allSince \in {"never", "recent", "long ago"}
  /\ fired \in BOOLEAN
  /\ allSince # "never" => chordDown = DOMAIN chord
  /\ fired => allSince = "long ago"
=============================================================================

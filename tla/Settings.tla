------------------------------ MODULE Settings ------------------------------
(***************************************************************************)
(* /etc/kbm-mapper.conf and the three programs that read it: dualsense-ffsd *)
(* (kbm-mapper-ff/files/config.c), kbm-passthrough, which wants the chord  *)
(* only, and kbm-web, which also writes it, from a form the browser keeps. *)
(* A hand editor truncates the file, writes it and closes it; kbm-web      *)
(* renames a finished file over it.  dualsense-ffsd reads it at its start  *)
(* and, once it has set up its inotify watch, after every close or rename. *)
(*                                                                         *)
(* The file is a sequence of lines; blank lines, comment lines and lines   *)
(* without a '=' are left out.  Numbers are in hundredths.  Bursts are     *)
(* those of one action.                                                    *)
(***************************************************************************)
EXTENDS Integers, Sequences, SequencesExt

CONSTANTS
  Names,      \* how keys and buttons are spelled, comments behind them included
  Order,      \* Names in the order of their bytes
  Upper,      \* the name in capitals
  Bare,       \* the name without the comment behind it
  MapperCodes, \* per source, the names in capitals that dualsense-ffsd knows
  PassNames,  \* the names in capitals that kbm-passthrough knows
  Actions,    \* the actions dualsense-ffsd knows
  HandFiles,  \* bound: what was written by hand before we look
  Drafts,     \* bound: what is written by hand since
  Edits,      \* bound: changes made in the form, [key, of, num, words]
  MaxEdits    \* bound: changes of the form, or of the file by hand

VARIABLES
  file,      \* the lines of the file
  editing,   \* what a hand editor has still to write: one file or none
  form,      \* the configuration in the browser, or NoForm
  saved,     \* history: the form the file was written from, or NoForm
  daemon,    \* which daemon runs
  conf,      \* struct config of dualsense-ffsd
  chord,     \* hotkey of kbm-passthrough
  notified,  \* an inotify event waits to be read
  missed,    \* history: the file changed between config_load and the watch
  edits      \* changes so far

settingsVars == <<file, editing, form, saved, daemon, conf, chord, notified,
                  missed, edits>>

Tunings     == {"window_ms", "curve_exp", "anti_deadzone", "outer_sat",
                "sens_counts_ms", "debt_drain"}
Pulls       == {"recoil.x", "recoil.y"}
Scales      == {"ads.sens_scale", "fire.sens_scale"}
Shares      == {"burst.jitter", "burst.duty_jitter", "burst.skip_prob"}
BurstFields == {"burst.hz", "burst.duty"} \cup Shares
NumKeys     == Tunings \cup Pulls \cup Scales \cup BurstFields
WordKeys    == {"recoil.action", "ads.action"}
Sources     == {"key", "mouse"}

NoAction     == "none"
NoForm       == [num |-> <<>>]
DefaultChord == <<"LEFTCTRL", "ESC">>
MaxChord     == 8

\* Capitals stay what they are, and no name in a table has a comment behind it.
ASSUME SpellingAssumption ==
  /\ Names \subseteq STRING /\ Order \in Seq(Names) /\ ToSet(Order) = Names
  /\ \A n \in Names :
       /\ Upper[n] \in Names /\ Bare[n] \in Names /\ Upper[Upper[n]] = Upper[n]
       /\ Upper[n] \in MapperCodes["key"] \cap PassNames => Bare[n] = n
\* No table has an action without a name, or one called "none".
ASSUME TablesAssumption ==
  /\ ToSet(DefaultChord) \subseteq MapperCodes["key"] \cap PassNames \cap Names
  /\ \A w \in ToSet(DefaultChord) : Upper[w] = w
  /\ Actions \subseteq STRING \ {NoAction, ""}
-----------------------------------------------------------------------------
(* Lines.  of is the name in a binding; noted tells that a comment follows *)
(* the number, tight that nothing stands before the '=', cr that the line  *)
(* ends in CR LF.                                                          *)

Keys  == NumKeys \cup WordKeys \cup Sources \cup {"hotkey"}
Lines ==
  {l \in [key : Keys, of : Names \cup {""}, num : Int, words : Seq(STRING),
          noted : BOOLEAN, tight : BOOLEAN, cr : BOOLEAN] :
     /\ l.key \in WordKeys \cup Sources => l.words # <<>>
     /\ l.key \in Sources => l.of \in Names
     /\ l.key = "hotkey" => l.words \in Seq(Names)}

\* The line that a change of the form would write.
Line(e) == [key |-> e.key, of |-> e.of, num |-> e.num, words |-> e.words,
            noted |-> FALSE, tight |-> TRUE, cr |-> FALSE]

ASSUME EditsAssumption ==
  /\ HandFiles \subseteq Seq(Lines) /\ Drafts \subseteq Seq(Lines)
  /\ \A e \in Edits : Line(e) \in Lines
  /\ MaxEdits \in Nat

Number(k, n)   == [key |-> k, of |-> "", num |-> n, words |-> <<>>,
                   noted |-> FALSE, tight |-> TRUE, cr |-> FALSE]
Word(k, of, a) == [key |-> k, of |-> of, num |-> 0, words |-> <<a>>,
                   noted |-> FALSE, tight |-> TRUE, cr |-> FALSE]
Chord(ws)      == [key |-> "hotkey", of |-> "", num |-> 0, words |-> ws,
                   noted |-> FALSE, tight |-> TRUE, cr |-> FALSE]

\* The members of I in the order R, a set of pairs, by the number of members
\* before each.  It filters and sorts in place of SelectSeq and recursion.
InOrder(I, R) ==
  [n \in 1 .. Cardinality(I) |->
     CHOOSE i \in I : Cardinality({j \in I : <<j, i>> \in R}) = n - 1]

\* The elements of s with an index in I.
Picked(s, I) ==
  LET at == InOrder(I, {p \in I \X I : p[1] < p[2]})
  IN [n \in 1 .. Cardinality(I) |-> s[at[n]]]
-----------------------------------------------------------------------------
(* dualsense-ffsd: config_init_defaults and config_load.                   *)

DefaultNum(k) ==
  CASE k = "window_ms" -> 600     [] k = "curve_exp" -> 200
    [] k = "anti_deadzone" -> 10  [] k = "outer_sat" -> 97
    [] k = "sens_counts_ms" -> 800 [] k = "debt_drain" -> 5
    [] k \in Scales -> 100        [] OTHER -> 0

Bindable == UNION {{s} \X MapperCodes[s] : s \in Sources}

DefaultBind(c) ==
  CASE c = <<"key", "W">> -> "lstick_up"
    [] c = <<"mouse", "LEFT">> -> "r2"
    [] OTHER -> NoAction

Defaults ==
  [num |-> [k \in NumKeys |-> DefaultNum(k)],
   word |-> [k \in WordKeys |-> NoAction],
   bind |-> [c \in Bindable |-> DefaultBind(c)],
   chord |-> DefaultChord]

Within(lo, n, hi) == IF n < lo THEN lo ELSE IF n > hi THEN hi ELSE n

\* Variant of Clamp: the sensitivity scales may be zero.
ClampScaleToZero(k, n) ==
  CASE k \in Pulls -> Within(-100, n, 100)
    [] k \in Scales -> Within(0, n, 400)
    [] k \in Shares -> Within(0, n, 100)
    [] OTHER -> n

Clamp(k, n) ==
  CASE k \in Pulls -> Within(-100, n, 100)
    [] k \in Scales -> Within(1, n, 400)
    [] k \in Shares -> Within(0, n, 100)
    [] OTHER -> n

Cut(ws) == SubSeq(ws, 1, IF Len(ws) < MaxChord THEN Len(ws) ELSE MaxChord)

Capitals(ws)     == [i \in DOMAIN ws |-> Upper[ws[i]]]
Known(ws, names) == Picked(ws, {i \in DOMAIN ws : ws[i] \in names})

\* Names the table does not have are reported and skipped; no name at all
\* disables the chord.
MapperChord(ws) == Cut(Known(Capitals(ws), MapperCodes["key"]))

\* Variant of MapperLine: a line about the chord adds to it.
MapperLineAdds(c, l) ==
  CASE l.key \in NumKeys -> [c EXCEPT !.num[l.key] = Clamp(l.key, l.num)]
    [] l.key \in WordKeys /\ l.words[1] \in Actions ->
         [c EXCEPT !.word[l.key] = l.words[1]]
    [] l.key \in Sources /\ <<l.key, Upper[l.of]>> \in Bindable
                         /\ l.words[1] \in Actions ->
         [c EXCEPT !.bind[<<l.key, Upper[l.of]>>] = l.words[1]]
    [] l.key = "hotkey" -> [c EXCEPT !.chord = @ \o MapperChord(l.words)]
    [] OTHER -> c

\* One line: atof reads up to the comment, the last line about a key counts,
\* and what names no key, no action or nothing known is reported and skipped.
MapperLine(c, l) ==
  CASE l.key \in NumKeys -> [c EXCEPT !.num[l.key] = Clamp(l.key, l.num)]
    [] l.key \in WordKeys /\ l.words[1] \in Actions ->
         [c EXCEPT !.word[l.key] = l.words[1]]
    [] l.key \in Sources /\ <<l.key, Upper[l.of]>> \in Bindable
                         /\ l.words[1] \in Actions ->
         [c EXCEPT !.bind[<<l.key, Upper[l.of]>>] = l.words[1]]
    [] l.key = "hotkey" -> [c EXCEPT !.chord = MapperChord(l.words)]
    [] OTHER -> c

MapperReads(f) ==
  LET read[n \in 0 .. Len(f)] ==
        IF n = 0 THEN Defaults ELSE MapperLine(read[n - 1], f[n])
  IN read[Len(f)]
-----------------------------------------------------------------------------
(* kbm-passthrough: hotkey_load.                                           *)

\* The names that hotkey_load looks up: those up to a comment, trimmed of
\* blanks but not of a CR at the end of the line.  No table has a name with a
\* CR, so that name is as good as not there.
Heard(l) ==
  LET noted == {i \in DOMAIN l.words : Bare[l.words[i]] # l.words[i]}
      upto  == IF noted # {} THEN Min(noted)
               ELSE IF l.cr THEN Len(l.words) - 1 ELSE Len(l.words)
  IN [i \in 1 .. upto |-> Bare[l.words[i]]]

\* Variant of PassReads: names are compared with strcmp.
PassReadsCase(f) ==
  LET about == {i \in DOMAIN f : f[i].key = "hotkey" /\ f[i].tight}
      known == Known(Heard(f[Min(about)]), PassNames)
  IN IF about = {} \/ known = <<>> THEN DefaultChord ELSE Cut(known)

\* The first line that spells the key without a blank before the '='; a
\* comment behind it is cut off.  No line, or nothing known, is the default.
PassReads(f) ==
  LET about == {i \in DOMAIN f : f[i].key = "hotkey" /\ f[i].tight}
      known == Known(Capitals(Heard(f[Min(about)])), PassNames)
  IN IF about = {} \/ known = <<>> THEN DefaultChord ELSE Cut(known)
-----------------------------------------------------------------------------
(* kbm-web: loadConfig and saveConfig.                                     *)

Blank ==
  [num |-> [k \in NumKeys |-> DefaultNum(k)],
   word |-> [k \in WordKeys |-> ""],
   binds |-> <<>>,
   chord |-> <<>>]

\* strconv.ParseFloat does not accept a comment: the number becomes 0.
WebLine(c, l) ==
  CASE l.key \in NumKeys ->
         [c EXCEPT !.num[l.key] = IF l.noted THEN 0 ELSE l.num]
    [] l.key \in WordKeys -> [c EXCEPT !.word[l.key] = l.words[1]]
    [] l.key \in Sources ->
         [c EXCEPT !.binds = Append(@, [key |-> l.key, of |-> l.of,
                                        words |-> l.words])]
    [] l.key = "hotkey" -> [c EXCEPT !.chord = Capitals(l.words)]

\* Bindings are sorted by source and spelling, equal ones keep their order.
Place(b) == (IF b.key = "mouse" THEN Len(Order) ELSE 0)
              + (CHOOSE i \in DOMAIN Order : Order[i] = b.of)

Sorted(bs) ==
  LET before(i, j) == \/ Place(bs[i]) < Place(bs[j])
                      \/ Place(bs[i]) = Place(bs[j]) /\ i < j
      all == DOMAIN bs
      at  == InOrder(all, {p \in all \X all : before(p[1], p[2])})
  IN [i \in all |-> bs[at[i]]]

\* An empty chord is shown, and therefore saved, as the default one.
WebReads(f) ==
  LET read[n \in 0 .. Len(f)] ==
        IF n = 0 THEN Blank ELSE WebLine(read[n - 1], f[n])
  IN [read[Len(f)] EXCEPT !.binds = Sorted(@),
                          !.chord = IF @ = <<>> THEN DefaultChord ELSE @]

\* Variant of Written: recoil.x is written only if there is an action for it.
WrittenIfInUse(c, k) ==
  CASE k \in Tunings -> TRUE
    [] k \in Pulls -> c.num[k] # 0 /\ c.word["recoil.action"] # ""
    [] k \in Scales -> c.num[k] > 0 /\ c.num[k] # 100
    [] k \in BurstFields -> c.num["burst.hz"] > 0 /\ c.num[k] > 0

\* Each number is written when it differs from what its absence means.
Written(c, k) ==
  CASE k \in Tunings -> TRUE
    [] k \in Pulls -> c.num[k] # 0
    [] k \in Scales -> c.num[k] > 0 /\ c.num[k] # 100
    [] k \in BurstFields -> c.num["burst.hz"] > 0 /\ c.num[k] > 0

NumOrder == <<"window_ms", "curve_exp", "anti_deadzone", "outer_sat",
              "sens_counts_ms", "debt_drain", "recoil.x", "recoil.y",
              "ads.sens_scale", "fire.sens_scale", "burst.hz", "burst.duty",
              "burst.jitter", "burst.duty_jitter", "burst.skip_prob">>
WordOrder == <<"recoil.action", "ads.action">>

WebWrites(c) ==
  LET nums  == Picked(NumOrder, {i \in DOMAIN NumOrder :
                                   Written(c, NumOrder[i])})
      words == Picked(WordOrder, {i \in DOMAIN WordOrder :
                                    c.word[WordOrder[i]] # ""})
  IN [i \in DOMAIN nums |-> Number(nums[i], c.num[nums[i]])]
     \o [i \in DOMAIN words |-> Word(words[i], "", c.word[words[i]])]
     \o [i \in DOMAIN c.binds |->
          Word(c.binds[i].key, Upper[c.binds[i].of], c.binds[i].words[1])]
     \o (IF c.chord = <<>> THEN <<>> ELSE <<Chord(c.chord)>>)
-----------------------------------------------------------------------------
(* The file changes.                                                       *)

SettingsInit ==
  /\ file \in HandFiles /\ editing = {}
  /\ form = NoForm /\ saved = NoForm
  /\ daemon = "off" /\ conf = Defaults /\ chord = DefaultChord
  /\ notified = FALSE /\ missed = FALSE /\ edits = 0

\* dualsense-ffsd learns of a new file, or has not asked to be told yet.
Announce ==
  /\ notified' = (notified \/ daemon = "mapper")
  /\ missed' = (missed \/ daemon = "mapper loaded")

Edit ==
  /\ edits < MaxEdits
  /\ edits' = edits + 1

\* Opening the file for writing truncates it and tells nobody.
EditorOpens ==
  /\ Edit /\ editing = {}
  /\ \E f \in Drafts : editing' = {f}
  /\ file' = <<>> /\ saved' = NoForm
  /\ UNCHANGED <<form, daemon, conf, chord, notified, missed>>

EditorCloses ==
  /\ editing # {}
  /\ file' \in editing /\ editing' = {}
  /\ Announce
  /\ UNCHANGED <<form, saved, daemon, conf, chord, edits>>

FormLoads ==
  /\ form' = WebReads(file)
  /\ UNCHANGED <<file, editing, saved, daemon, conf, chord, notified, missed,
                 edits>>

\* A binding takes the place of the one for the same source and spelling.
Rebind(bs, b) ==
  LET same(i) == bs[i].key = b.key /\ bs[i].of = b.of IN
    IF \E i \in DOMAIN bs : same(i)
      THEN [bs EXCEPT ![CHOOSE i \in DOMAIN bs :
                          same(i) /\ \A j \in 1 .. i - 1 : ~same(j)] = b]
      ELSE Append(bs, b)

Changed(c, e) ==
  CASE e.key \in NumKeys -> [c EXCEPT !.num[e.key] = e.num]
    [] e.key \in WordKeys -> [c EXCEPT !.word[e.key] = e.words[1]]
    [] e.key \in Sources ->
         [c EXCEPT !.binds = Rebind(@, [key |-> e.key, of |-> e.of,
                                        words |-> e.words])]
    [] e.key = "hotkey" -> [c EXCEPT !.chord = e.words]

FormEdited ==
  /\ Edit /\ form # NoForm
  /\ \E e \in Edits : form' = Changed(form, e)
  /\ UNCHANGED <<file, editing, saved, daemon, conf, chord, notified, missed>>

BindingDeleted ==
  /\ Edit /\ form # NoForm
  /\ \E i \in DOMAIN form.binds : form' = [form EXCEPT !.binds = RemoveAt(@, i)]
  /\ UNCHANGED <<file, editing, saved, daemon, conf, chord, notified, missed>>

\* Variant of FormSaved: the watch does not notice renames.
SavedUnnoticed ==
  /\ form # NoForm
  /\ file' = WebWrites(form) /\ saved' = form
  /\ editing' = {}
  /\ UNCHANGED <<form, daemon, conf, chord, notified, missed, edits>>

\* The finished file takes the name; an editor that has the old one open goes
\* on writing to a file that has none.
FormSaved ==
  /\ form # NoForm
  /\ file' = WebWrites(form) /\ saved' = form
  /\ editing' = {}
  /\ Announce
  /\ UNCHANGED <<form, daemon, conf, chord, edits>>
-----------------------------------------------------------------------------
(* The daemons.                                                            *)

\* config_load is the first thing main does; binding the gadget and opening
\* its endpoints, which may take seconds, comes before the inotify watch.
MapperStarts ==
  /\ daemon = "off"
  /\ daemon' = "mapper loaded" /\ conf' = MapperReads(file)
  /\ UNCHANGED <<file, editing, form, saved, chord, notified, missed, edits>>

MapperWatches ==
  /\ daemon = "mapper loaded"
  /\ daemon' = "mapper"
  /\ UNCHANGED <<file, editing, form, saved, conf, chord, notified, missed,
                 edits>>

MapperReloads ==
  /\ daemon = "mapper" /\ notified
  /\ conf' = MapperReads(file)
  /\ notified' = FALSE /\ missed' = FALSE
  /\ UNCHANGED <<file, editing, form, saved, daemon, chord, edits>>

PassStarts ==
  /\ daemon = "off"
  /\ daemon' = "passthrough" /\ chord' = PassReads(file)
  /\ UNCHANGED <<file, editing, form, saved, conf, notified, missed, edits>>

DaemonStops ==
  /\ daemon # "off"
  /\ daemon' = "off" /\ notified' = FALSE /\ missed' = FALSE
  /\ conf' = Defaults /\ chord' = DefaultChord
  /\ UNCHANGED <<file, editing, form, saved, edits>>

SettingsNext ==
  \/ EditorOpens \/ EditorCloses
  \/ FormLoads \/ FormEdited \/ BindingDeleted \/ FormSaved
  \/ MapperStarts \/ MapperWatches \/ MapperReloads \/ PassStarts \/ DaemonStops

SettingsSpec == SettingsInit /\ [][SettingsNext]_settingsVars
-----------------------------------------------------------------------------
(* Properties.                                                             *)

SettingsTypeOK ==
  /\ daemon \in {"off", "mapper loaded", "mapper", "passthrough"}
  /\ Len(conf.chord) <= MaxChord /\ ToSet(conf.chord) \subseteq MapperCodes["key"]
  /\ Len(chord) \in 1 .. MaxChord /\ ToSet(chord) \subseteq PassNames
  /\ \A k \in Scales : conf.num[k] \in 1 .. 400
  /\ notified => daemon = "mapper"

\* A watching dualsense-ffsd that has read its notifications runs the file as
\* it is, however saves, hand edits and its own reloads interleave: unless an
\* editor has the file open, or the file changed before the watch was set up
\* and has not changed since.
MapperRunsFile ==
  daemon = "mapper" /\ ~notified /\ editing = {} /\ ~missed
    => conf = MapperReads(file)

\* Two configurations the mapper cannot tell apart: without a rate a burst is
\* off, and without a duty it takes one of its own.
Effect(c) ==
  [c EXCEPT !.num = [k \in NumKeys |->
     IF \/ k \in BurstFields /\ c.num["burst.hz"] <= 0
        \/ k = "burst.duty" /\ c.num[k] <= 0
       THEN 0 ELSE c.num[k]]]

\* What kbm-web does not keep of a file written by hand.
Kept(f) ==
  /\ \A i \in DOMAIN f :
       /\ ~f[i].noted
       /\ f[i].key \in Scales => f[i].num > 0
       /\ f[i].key = "hotkey" => f[i].words # <<>>
       /\ f[i].key \in WordKeys => f[i].words[1] \in Actions
  /\ \A i, j \in DOMAIN f :
       f[i].key \in Sources /\ f[i].key = f[j].key /\ f[i].of # f[j].of
         => Upper[f[i].of] # Upper[f[j].of]

\* Loading the file into the form and saving it untouched changes nothing for
\* the mapper, although kbm-web and config.c each have a parser, defaults and a
\* rule of their own for what to leave out.
UntouchedSaveKeepsMapper ==
  Kept(file) =>
    Effect(MapperReads(WebWrites(WebReads(file)))) = Effect(MapperReads(file))

\* What the form says, as the mapper would run it: its numbers clamped, for
\* each key and button the last action known to it, the chord without the
\* names it does not know, and the default where the form says nothing.
Says(c) ==
  LET lastFor(k) == {i \in DOMAIN c.binds :
                       /\ <<c.binds[i].key, Upper[c.binds[i].of]>> = k
                       /\ c.binds[i].words[1] \in Actions}
  IN [num |-> [k \in NumKeys |->
                 IF k \in Scales /\ c.num[k] <= 0 THEN 100
                 ELSE Clamp(k, c.num[k])],
      word |-> [k \in WordKeys |->
                 IF c.word[k] \in Actions THEN c.word[k] ELSE NoAction],
      bind |-> [k \in Bindable |->
                 IF lastFor(k) = {} THEN DefaultBind(k)
                 ELSE c.binds[CHOOSE i \in lastFor(k) :
                                \A j \in lastFor(k) : j <= i].words[1]],
      chord |-> MapperChord(c.chord)]

\* The mapper runs what the form said when it was saved, unless the chord was
\* empty: by kbm-web/files/main.go:91 that disables the toggle, but no line is
\* written for it and MapperReads keeps the default chord.
FormRuns ==
  saved # NoForm /\ saved.chord # <<>>
    => Effect(MapperReads(file)) = Effect(Says(saved))

\* The file says the chord once, without a blank before the '=', and in names
\* that both daemons know.
PlainChord(f) ==
  LET about == {i \in DOMAIN f : f[i].key = "hotkey"} IN
    /\ \A i, j \in about : i = j
    /\ \A i \in about :
         /\ f[i].tight /\ f[i].words # <<>>
         /\ \A w \in ToSet(f[i].words) :
              Upper[w] \in MapperCodes["key"] \cap PassNames

\* The two daemons watch for the same chord, each with its parser and its table
\* of names, when the file spells it plainly and its lines end in LF.  After a
\* CR they may not: PassReads then loses the last name.
ChordsAgree ==
  /\ PlainChord(file)
  /\ \A i \in DOMAIN file : file[i].key = "hotkey" => ~file[i].cr
  => MapperReads(file).chord = PassReads(file)
=============================================================================

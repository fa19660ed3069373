------------------------------ MODULE Profiles ------------------------------
(***************************************************************************)
(* The files of kbm-web: the live configuration, the profiles and the      *)
(* active marker (kbm-web/files/profiles.go, saveConfig in main.go).       *)
(*                                                                         *)
(* net/http runs every request in a goroutine of its own and no handler    *)
(* takes a lock.  A request is a program of file operations; every         *)
(* operation is a step.  os.WriteFile is two of them, truncate and write,  *)
(* and what it truncated keeps the inode: a file renamed or removed in     *)
(* between is written under its new name, or nowhere.                      *)
(*                                                                         *)
(* A file's contents are the configuration it spells; the metadata comment *)
(* of a profile is left out.                                               *)
(***************************************************************************)
EXTENDS Naturals, Sequences

CONSTANTS
  Requests,   \* bound: requests in service at the same time
  Ids,        \* bound: profile names
  MaxAccidents, \* bound: accidents until an activation puts things right
  Default,    \* the profile the bootstrap creates
  Bodies,     \* configurations
  Blank,      \* the configuration of a profile made from nothing
  Absent,     \* no such file
  Empty,      \* a file that was truncated and not written yet
  Torn,       \* one configuration, or name, over the remains of another
  None        \* no request, no profile

ASSUME DefaultAssumption == Default \in Ids /\ Blank \in Bodies
ASSUME AccidentsAssumption == MaxAccidents \in Nat

Files == Bodies \cup {Absent, Empty, Torn}
Names == Ids \cup {Empty, Torn, None}

\* A request: the operation, its next step, the profile it works on, the one
\* it copies, what it has to write and what its file is called by now.
Work ==
  [op : {"save", "activate", "list", "create", "import", "update", "delete"},
   at : Nat, id : Names, src : Names, body : Files,
   file : {"none", "tmp", "live", "profile", "gone"}, mixed : BOOLEAN, base : Names]

ASSUME NamesAssumption ==
  /\ {Absent, Empty, Torn, None} \cap (Ids \cup Bodies) = {} /\ None \notin Work
  /\ Absent # Empty /\ Absent # Torn /\ Empty # Torn

VARIABLES
  live,      \* /etc/kbm-mapper.conf
  tmp,       \* /etc/kbm-mapper.conf.tmp, one name for all requests
  marker,    \* /etc/kbm-mapper.d/active
  profile,   \* /etc/kbm-mapper.d/profiles
  req,       \* the requests in service
  meant,     \* history: what the request that last renamed tmp had to write
  shared,    \* history: another request had tmp in its hands as well
  tainted,   \* history: requests that overlapped one they conflict with
  accidents  \* history: such overlaps, and requests cut short, since the
             \* last undisturbed activation

files   == <<live, tmp, marker, profile>>
history == <<meant, shared, tainted, accidents>>
vars    == <<files, req, history>>

Init ==
  /\ live \in Bodies /\ tmp = Absent /\ marker = Default
  /\ profile = [i \in Ids |-> IF i = Default THEN live ELSE Absent]
  /\ req = [h \in Requests |-> None]
  /\ meant = live /\ shared = FALSE /\ tainted = {} /\ accidents = 0
-----------------------------------------------------------------------------
(* What the handlers do to the files, in order.                            *)

FindActive   == <<"read marker", "stat active">>
WriteMarker  == <<"open marker", "write marker">>
WriteProfile == <<"open profile", "write profile">>
Bootstrap    == <<"any profile", "read live">> \o WriteProfile \o WriteMarker

\* Variant of ReplaceLive: the file takes its name before it has contents.
RenameFirst  == <<"open tmp", "rename", "write tmp">>
ReplaceLive  == <<"open tmp", "write tmp", "rename">>

\* Variant of Save: nothing is mirrored into the active profile.
SaveLiveOnly == ReplaceLive
Save         == ReplaceLive \o FindActive \o WriteProfile
Activate     == <<"stat">> \o WriteMarker \o FindActive \o <<"read profile">>
                  \o ReplaceLive
Delete       == <<"not active", "remove">>

Program(op) ==
  CASE op = "save"     -> Save
    [] op = "activate" -> Activate
    [] op = "list"     -> Bootstrap
    [] op = "create"   -> Bootstrap \o <<"copy", "pick id">> \o WriteProfile
    [] op = "import"   -> <<"pick id">> \o WriteProfile
    [] op = "update"   -> <<"read profile">> \o WriteProfile
    [] op = "delete"   -> Delete

\* Requests that may not overlap.  Two that write the live file, the active
\* profile or the marker; an activation and whatever removes or has not yet
\* finished its profile; an update and a deletion, which it may undo; two that
\* look for an unused name.
Conflict(o, p) ==
  \/ {o, p} \subseteq {"save", "activate", "update"}
  \/ {o, p} \subseteq {"create", "import"} \/ {o, p} = {"update", "delete"}
  \/ "activate" \in {o, p}

Busy == {h \in Requests : req[h] # None}

Accident ==
  /\ accidents < MaxAccidents
  /\ accidents' = accidents + 1

\* A request arrives.  For the history, base is the profile it is about and
\* mixed tells that another request had tmp in its hands as well.
Start(h, op, id, body, base) ==
  /\ req[h] = None
  /\ req' = [req EXCEPT ![h] = [op |-> op, at |-> 1, id |-> id, src |-> id,
                                 body |-> body, file |-> "none", mixed |-> FALSE,
                                 base |-> base]]
  /\ LET foes == {g \in Busy : Conflict(op, req[g].op)} IN
       /\ tainted' = IF foes = {} THEN tainted ELSE tainted \cup foes \cup {h}
       /\ IF foes = {} THEN UNCHANGED accidents ELSE Accident
  /\ UNCHANGED <<files, meant, shared>>

Arrive(h) ==
  \/ \E b \in Bodies : Start(h, "save", None, b, marker)
  \/ \E b \in Bodies : Start(h, "import", None, b, None)
  \/ \E i \in Ids \cup {None} : Start(h, "create", i, Blank, None)
  \/ \E i \in Ids : Start(h, "activate", i, Blank, None)
  \/ \E i \in Ids : Start(h, "update", i, Blank, i)
  \/ \E i \in Ids : Start(h, "delete", i, Blank, i)
  \/ Start(h, "list", None, Blank, None)
-----------------------------------------------------------------------------
(* One step of a request.                                                  *)

Pending(h) == Program(req[h].op)[req[h].at]
At(h, step) == h \in Busy /\ Pending(h) = step

End(h) ==
  /\ req' = [req EXCEPT ![h] = None]
  /\ tainted' = tainted \ {h}
  /\ UNCHANGED accidents

\* The request goes on with the record r, n steps further.  An activation that
\* nothing disturbed leaves everything in order.
GoOn(h, r, n) ==
  IF r.at + n <= Len(Program(r.op))
    THEN /\ req' = [req EXCEPT ![h] = [r EXCEPT !.at = @ + n]]
         /\ UNCHANGED <<tainted, accidents>>
    ELSE /\ req' = [req EXCEPT ![h] = None]
         /\ tainted' = tainted \ {h}
         /\ accidents' = IF r.op = "activate" /\ h \notin tainted THEN 0
                          ELSE accidents

Keep(h) == GoOn(h, req[h], 1)
Exists(i) == i \in Ids /\ profile[i] # Absent

\* A write at offset 0 of a file that another request has written since it was
\* truncated covers all of it, or leaves its tail.
Overlay(old, new) == IF old \in {Empty, new} THEN {new} ELSE {new, Torn}

\* os.Stat, or the test of an id, that decides whether the request goes on.
Test(h) ==
  /\ h \in Busy /\ Pending(h) \in {"stat", "stat active", "not active"}
  /\ LET i == req[h].id
         passes == IF Pending(h) = "not active" THEN marker # i ELSE Exists(i)
     IN IF passes THEN Keep(h) ELSE End(h)
  /\ UNCHANGED <<files, meant, shared>>

\* readActiveID; a marker that is empty names nobody.
ReadMarker(h) ==
  /\ At(h, "read marker")
  /\ IF marker = Empty THEN End(h) ELSE GoOn(h, [req[h] EXCEPT !.id = marker], 1)
  /\ UNCHANGED <<files, meant, shared>>

\* bootstrapProfiles goes on only if there is no profile.
AnyProfile(h) ==
  /\ At(h, "any profile")
  /\ IF \E i \in Ids : Exists(i)
       THEN GoOn(h, req[h], Len(Bootstrap))
       ELSE GoOn(h, [req[h] EXCEPT !.id = Default, !.base = Default], 1)
  /\ UNCHANGED <<files, meant, shared>>

\* os.ReadFile: the live file for the bootstrap, a profile to be activated or
\* updated, a profile to be copied into a new one.
ReadBody(h, i) ==
  IF Exists(i) THEN GoOn(h, [req[h] EXCEPT !.body = profile[i]], 1) ELSE End(h)

Read(h) ==
  /\ \/ At(h, "read live") /\ GoOn(h, [req[h] EXCEPT !.body = live], 1)
     \/ At(h, "read profile") /\ ReadBody(h, req[h].id)
     \/ At(h, "copy") /\ req[h].src # None /\ ReadBody(h, req[h].src)
     \/ At(h, "copy") /\ req[h].src = None
          /\ GoOn(h, [req[h] EXCEPT !.body = Blank], 1)
  /\ UNCHANGED <<files, meant, shared>>

\* Variant of PickId: the slug is used whether it is taken or not.
PickAnyId(h) ==
  /\ At(h, "pick id")
  /\ \E i \in Ids : GoOn(h, [req[h] EXCEPT !.id = i, !.base = i], 1)
  /\ UNCHANGED <<files, meant, shared>>

\* uniqueProfileID.  A request that finds every name of the model taken ends.
PickId(h) ==
  /\ At(h, "pick id")
  /\ \/ \E i \in Ids : ~Exists(i) /\ GoOn(h, [req[h] EXCEPT !.id = i, !.base = i], 1)
     \/ (\A i \in Ids : Exists(i)) /\ End(h)
  /\ UNCHANGED <<files, meant, shared>>

\* Other requests that are between their opening of tmp and their rename.
OnTmp(h) == {g \in Busy \ {h} : Pending(g) \in {"write tmp", "rename"}}

\* The first half of os.WriteFile: O_CREATE|O_TRUNC.
Open(h) ==
  /\ \/ /\ At(h, "open tmp")
        /\ tmp' = Empty
        /\ req' = [g \in Requests |->
                     IF g = h
                       THEN [req[h] EXCEPT !.at = @ + 1, !.file = "tmp",
                                           !.mixed = OnTmp(h) # {}]
                     ELSE IF g \in OnTmp(h) THEN [req[g] EXCEPT !.mixed = TRUE]
                     ELSE req[g]]
        /\ UNCHANGED <<marker, profile, tainted, accidents>>
     \/ /\ At(h, "open marker")
        /\ marker' = Empty
        /\ Keep(h)
        /\ UNCHANGED <<tmp, profile>>
     \/ /\ At(h, "open profile")
        /\ profile' = [profile EXCEPT ![req[h].id] = Empty]
        /\ GoOn(h, [req[h] EXCEPT !.file = "profile"], 1)
        /\ UNCHANGED <<tmp, marker>>
  /\ UNCHANGED <<live, meant, shared>>

\* The second half, into whatever the file opened is called by now.
WriteConf(h) ==
  /\ At(h, "write tmp") \/ At(h, "write profile")
  /\ LET r == req[h] IN
       /\ tmp' \in IF r.file = "tmp" THEN Overlay(tmp, r.body) ELSE {tmp}
       /\ live' \in IF r.file = "live" THEN Overlay(live, r.body) ELSE {live}
       /\ \E c \in Overlay(IF r.id \in Ids THEN profile[r.id] ELSE Empty, r.body) :
            profile' = IF r.file = "profile" THEN [profile EXCEPT ![r.id] = c]
                       ELSE profile
       /\ GoOn(h, [r EXCEPT !.file = "none"], 1)
  /\ UNCHANGED <<marker, meant, shared>>

WriteActiveID(h) ==
  /\ At(h, "write marker")
  /\ marker' \in Overlay(marker, req[h].id)
  /\ Keep(h)
  /\ UNCHANGED <<live, tmp, profile, meant, shared>>

\* os.Rename: whoever has tmp open has the live file open from now on, and
\* whoever has the old one open writes into nothing.
Rename(h) ==
  /\ At(h, "rename")
  /\ IF tmp = Absent
       THEN End(h) /\ UNCHANGED <<live, tmp, meant, shared>>
       ELSE /\ live' = tmp /\ tmp' = Absent
            /\ meant' = req[h].body /\ shared' = req[h].mixed
            /\ LET moved == [g \in Requests |->
                     IF g \notin Busy THEN None
                     ELSE [req[g] EXCEPT !.file = CASE @ = "tmp"  -> "live"
                                                    [] @ = "live" -> "gone"
                                                    [] OTHER      -> @]]
                   r == moved[h]
                   last == r.at = Len(Program(r.op))
               IN /\ req' = [moved EXCEPT ![h] = IF last THEN None ELSE [r EXCEPT !.at = @ + 1]]
                  /\ tainted' = IF last THEN tainted \ {h} ELSE tainted
                  /\ accidents' = IF last /\ r.op = "activate" /\ h \notin tainted
                                    THEN 0 ELSE accidents
  /\ UNCHANGED <<marker, profile>>

\* os.Remove: whoever has the profile open writes into nothing.
Remove(h) ==
  /\ At(h, "remove")
  /\ LET i == req[h].id IN
       /\ profile' = [profile EXCEPT ![i] = Absent]
       /\ req' = [g \in Requests |->
                    IF g = h \/ g \notin Busy THEN None
                    ELSE [req[g] EXCEPT !.file =
                            IF @ = "profile" /\ req[g].id = i THEN "gone" ELSE @]]
  /\ tainted' = tainted \ {h}
  /\ UNCHANGED <<live, tmp, marker, meant, shared, accidents>>

\* A full disk ends the request where it stands; a kill of kbm-web ends all.
CutShort(h) ==
  /\ h \in Busy
  /\ req' = [req EXCEPT ![h] = None]
  /\ tainted' = tainted \ {h}
  /\ Accident
  /\ UNCHANGED <<files, meant, shared>>

Step(h) ==
  \/ Test(h) \/ ReadMarker(h) \/ AnyProfile(h) \/ Read(h) \/ PickId(h)
  \/ Open(h) \/ WriteConf(h) \/ WriteActiveID(h) \/ Rename(h) \/ Remove(h)

Next == \E h \in Requests : Arrive(h) \/ Step(h) \/ CutShort(h)

Spec == Init /\ [][Next]_vars
-----------------------------------------------------------------------------
(* Properties.                                                             *)

\* Type invariant.  A file handle is open exactly between the two halves of a
\* write, and only the profile of the request can be behind it.
TypeOK ==
  /\ live \in Files /\ tmp \in Files /\ meant \in Files
  /\ marker \in Ids \cup {Empty, Torn}
  /\ profile \in [Ids -> Files]
  /\ tainted \subseteq Busy /\ shared \in BOOLEAN /\ accidents \in 0 .. MaxAccidents
  /\ \A h \in Busy :
       /\ req[h].at \in DOMAIN Program(req[h].op)
       /\ req[h].body \in Files
       /\ req[h].file # "none" <=> Pending(h) \in {"write tmp", "write profile"}
       /\ req[h].file = "profile" => req[h].id \in Ids

\* Write-temp-and-rename makes the live file whole: at every moment, and
\* wherever a request is cut short, the live file is exactly what one request
\* had to write, unless a second request had the temporary file, which has one
\* name for all of them, in its hands at the rename.
LiveWhole == shared \/ live = meant

Settled == \A h \in Busy : req[h].op \notin {"save", "activate", "update"}

\* The live configuration is the active profile: whenever no request that
\* writes either is in service, both have the same contents and the marker
\* names an existing profile, unless two requests that conflict have
\* overlapped, or one was cut short, since the last undisturbed activation.
LiveIsActive ==
  Settled /\ accidents = 0 => marker \in Ids /\ Exists(marker) /\ live = profile[marker]

\* A profile is a snapshot: a whole profile changes only by a save while it was
\* active, by its own update or by its own deletion, unless conflicting
\* requests have overlapped.  In particular a new profile overwrites no other.
SnapshotsKept ==
  [][\A i \in Ids :
       profile'[i] # profile[i] /\ profile[i] \in Bodies =>
         \/ accidents' > 0
         \/ \E h \in Busy : /\ req[h].base = i
                            /\ req[h].op \in {"save", "update", "delete"}]_vars
=============================================================================

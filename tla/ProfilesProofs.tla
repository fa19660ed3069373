--------------------------- MODULE ProfilesProofs ---------------------------
(***************************************************************************)
(* The files of kbm-web for any number of requests, profiles and           *)
(* configurations.  Three results: the types, and that the live file is    *)
(* whole, from IInv; that the live file is the active profile, and that    *)
(* profiles are snapshots, from UInv.                                      *)
(*                                                                         *)
(* For IInv each action is taken by itself.  For UInv every step is first  *)
(* brought into the form Effect, a relation between two records and two    *)
(* states of the files; what follows is then about these alone.            *)
(***************************************************************************)
EXTENDS Profiles, SequenceTheorems, TLAPS

\* The step a request is at.
StepOf(r) == Program(r.op)[r.at]

\* A file is open between the two halves of a write only, and has the name the
\* step says or one it was given meanwhile; whoever is to write a profile or
\* the marker knows whose.
Fits(r, s) ==
  /\ (r.file # "none") <=> s \in {"write tmp", "write profile"}
  /\ r.file \in {"tmp", "live"} => s = "write tmp"
  /\ r.file = "profile" => s = "write profile"
  /\ s \in {"read live", "open profile", "write profile", "open marker", "write marker"}
       => r.id \in Ids
  /\ r.op = "update" => r.id \in Ids

Good(r) ==
  /\ r \in Work /\ r.at \in 1 .. Len(Program(r.op))
  /\ Fits(r, StepOf(r))

FileTypes ==
  /\ live \in Files /\ tmp \in Files /\ meant \in Files
  /\ marker \in Ids \cup {Empty, Torn}
  /\ profile \in [Ids -> Files]
  /\ shared \in BOOLEAN /\ accidents \in 0 .. MaxAccidents

RequestTypes ==
  /\ req \in [Requests -> Work \cup {None}]
  /\ \A h \in Requests : req[h] # None => Good(req[h])
  /\ tainted \subseteq Busy

\* In the middle of a replacement of the live file.
Replaces(r) == r # None /\ StepOf(r) \in {"write tmp", "rename"}

\* A request that has tmp to itself has put there what it has to write; only a
\* rename with tmp in several hands leaves one of them with the live file.
TmpInv ==
  /\ \A h \in Requests : Replaces(req[h]) /\ ~req[h].mixed =>
       /\ \A g \in Requests : Replaces(req[g]) => g = h
       /\ StepOf(req[h]) = "write tmp" => tmp = Empty /\ req[h].file = "tmp"
       /\ StepOf(req[h]) = "rename" => tmp = req[h].body
  /\ \A h \in Requests : req[h] # None /\ req[h].file = "live" => shared
  /\ LiveWhole

IInv == FileTypes /\ RequestTypes /\ TmpInv
-----------------------------------------------------------------------------
(* The programs of the requests. *)
AllSteps ==
  {"any profile", "copy", "not active", "open marker", "open profile", "open tmp",
   "pick id", "read live", "read marker", "read profile", "remove", "rename", "stat",
   "stat active", "write marker", "write profile", "write tmp"}

\* t is the n steps of u that follow the k-th.
Piece(t, u, k, n) ==
  /\ t \in Seq(AllSteps) /\ u \in Seq(AllSteps)
  /\ Len(t) = n /\ k + n <= Len(u)
  /\ \A i \in 1 .. n : t[i] = u[k + i]

LEMMA Adjacent ==
  ASSUME NEW s, NEW t, NEW u, NEW n \in Nat, NEW m \in Nat,
         Piece(s, u, 0, n), Piece(t, u, n, m)
  PROVE  Piece(s \o t, u, 0, n + m)
<1>1. /\ s \o t \in Seq(AllSteps) /\ Len(s \o t) = n + m
      /\ \A i \in 1 .. n + m : (s \o t)[i] = IF i <= n THEN s[i] ELSE t[i - n]
  BY ConcatProperties, ZenonT(30) DEF Piece
<1>2. ASSUME NEW i \in 1 .. n + m PROVE (s \o t)[i] = u[0 + i]
  <2>1. CASE i <= n
    BY <1>1, <2>1 DEF Piece
  <2>2. CASE ~(i <= n)
    <3> DEFINE j == i - n
    <3>1. j \in 1 .. m /\ i = n + j
      BY <2>2
    <3> HIDE DEF j
    <3>2. u[n + j] = t[j]
      BY <3>1 DEF Piece
    <3> QED
      BY <1>1, <2>2, <3>1, <3>2 DEF j
  <2> QED
    BY <2>1, <2>2
<1> QED
  BY <1>1, <1>2 DEF Piece

LEMMA AllPieces ==
  ASSUME NEW s, NEW u, NEW n, Len(u) = n, Piece(s, u, 0, n)
  PROVE  s = u
<1>1. s \in Seq(AllSteps) /\ u \in Seq(AllSteps) /\ Len(s) = Len(u) /\ Len(u) \in Nat
  BY DEF Piece
<1>2. \A i \in 1 .. Len(s) : s[i] = u[i]
  BY <1>1 DEF Piece
<1> QED
  BY <1>1, <1>2, SeqEqual

\* The programs, written out.
SaveSteps ==
  <<"open tmp", "write tmp", "rename", "read marker", "stat active", "open profile",
    "write profile">>
ActivateSteps ==
  <<"stat", "open marker", "write marker", "read marker", "stat active", "read profile",
    "open tmp", "write tmp", "rename">>
ListSteps ==
  <<"any profile", "read live", "open profile", "write profile", "open marker",
    "write marker">>
CreateSteps ==
  <<"any profile", "read live", "open profile", "write profile", "open marker",
    "write marker", "copy", "pick id", "open profile", "write profile">>
ImportSteps == <<"pick id", "open profile", "write profile">>
UpdateSteps == <<"read profile", "open profile", "write profile">>
DeleteSteps == <<"not active", "remove">>

LEMMA Table ==
  /\ Program("save") = SaveSteps /\ Program("activate") = ActivateSteps
  /\ Program("list") = ListSteps /\ Program("create") = CreateSteps
  /\ Program("import") = ImportSteps /\ Program("update") = UpdateSteps
  /\ Program("delete") = DeleteSteps
<1> DEFINE stat == <<"stat">>  readProfile == <<"read profile">>
           anyProfile == <<"any profile", "read live">>
           copy == <<"copy", "pick id">>  pickId == <<"pick id">>
<1>1. ReplaceLive \o FindActive \o WriteProfile = SaveSteps
  <2>1. /\ Piece(ReplaceLive, SaveSteps, 0, 3) /\ Piece(FindActive, SaveSteps, 3, 2)
        /\ Piece(WriteProfile, SaveSteps, 5, 2) /\ Len(SaveSteps) = 7
    BY DEF Piece, AllSteps, SaveSteps, ReplaceLive, FindActive, WriteProfile
  <2>2. Piece(ReplaceLive \o FindActive, SaveSteps, 0, 5)
    BY <2>1, Adjacent
  <2>3. Piece(ReplaceLive \o FindActive \o WriteProfile, SaveSteps, 0, 7)
    BY <2>1, <2>2, Adjacent
  <2> QED
    BY <2>1, <2>3, AllPieces
<1>2. stat \o WriteMarker \o FindActive \o readProfile \o ReplaceLive = ActivateSteps
  <2>1. /\ Piece(stat, ActivateSteps, 0, 1) /\ Piece(WriteMarker, ActivateSteps, 1, 2)
        /\ Piece(FindActive, ActivateSteps, 3, 2)
        /\ Piece(readProfile, ActivateSteps, 5, 1)
        /\ Piece(ReplaceLive, ActivateSteps, 6, 3) /\ Len(ActivateSteps) = 9
    BY DEF Piece, AllSteps, ActivateSteps, WriteMarker, FindActive, ReplaceLive
  <2> HIDE DEF stat, readProfile
  <2>2. Piece(stat \o WriteMarker, ActivateSteps, 0, 3)
    BY <2>1, Adjacent
  <2>3. Piece(stat \o WriteMarker \o FindActive, ActivateSteps, 0, 5)
    BY <2>1, <2>2, Adjacent
  <2>4. Piece(stat \o WriteMarker \o FindActive \o readProfile, ActivateSteps, 0, 6)
    BY <2>1, <2>3, Adjacent
  <2>5. Piece(stat \o WriteMarker \o FindActive \o readProfile \o ReplaceLive, ActivateSteps, 0, 9)
    BY <2>1, <2>4, Adjacent
  <2> QED
    BY <2>1, <2>5, AllPieces
<1>3. anyProfile \o WriteProfile \o WriteMarker = ListSteps
  <2>1. /\ Piece(anyProfile, ListSteps, 0, 2) /\ Piece(WriteProfile, ListSteps, 2, 2)
        /\ Piece(WriteMarker, ListSteps, 4, 2) /\ Len(ListSteps) = 6
    BY DEF Piece, AllSteps, ListSteps, WriteProfile, WriteMarker
  <2> HIDE DEF anyProfile
  <2>2. Piece(anyProfile \o WriteProfile, ListSteps, 0, 4)
    BY <2>1, Adjacent
  <2>3. Piece(anyProfile \o WriteProfile \o WriteMarker, ListSteps, 0, 6)
    BY <2>1, <2>2, Adjacent
  <2> QED
    BY <2>1, <2>3, AllPieces
<1>4. ListSteps \o copy \o WriteProfile = CreateSteps
  <2>1. /\ Piece(ListSteps, CreateSteps, 0, 6) /\ Piece(copy, CreateSteps, 6, 2)
        /\ Piece(WriteProfile, CreateSteps, 8, 2) /\ Len(CreateSteps) = 10
    BY DEF Piece, AllSteps, ListSteps, CreateSteps, WriteProfile
  <2> HIDE DEF copy
  <2>2. Piece(ListSteps \o copy, CreateSteps, 0, 8)
    BY <2>1, Adjacent
  <2>3. Piece(ListSteps \o copy \o WriteProfile, CreateSteps, 0, 10)
    BY <2>1, <2>2, Adjacent
  <2> QED
    BY <2>1, <2>3, AllPieces
<1>5. pickId \o WriteProfile = ImportSteps /\ readProfile \o WriteProfile = UpdateSteps
  <2>1. /\ Piece(pickId, ImportSteps, 0, 1) /\ Piece(WriteProfile, ImportSteps, 1, 2)
        /\ Piece(readProfile, UpdateSteps, 0, 1) /\ Piece(WriteProfile, UpdateSteps, 1, 2)
        /\ Len(ImportSteps) = 3 /\ Len(UpdateSteps) = 3
    BY DEF Piece, AllSteps, ImportSteps, UpdateSteps, WriteProfile
  <2> HIDE DEF pickId, readProfile
  <2>2. /\ Piece(pickId \o WriteProfile, ImportSteps, 0, 3)
        /\ Piece(readProfile \o WriteProfile, UpdateSteps, 0, 3)
    BY <2>1, Adjacent
  <2> QED
    BY <2>1, <2>2, AllPieces
<1> QED
  BY <1>1, <1>2, <1>3, <1>4, <1>5
  DEF Program, Save, Activate, Bootstrap, Delete, DeleteSteps

Ops == {"save", "activate", "list", "create", "import", "update", "delete"}

\* Which step may come after which, where a file is opened, written or renamed.
Follows(op, s, t) ==
  /\ (t = "write tmp") <=> (s = "open tmp")
  /\ (t = "rename") <=> (s = "write tmp")
  /\ (t = "write profile") <=> (s = "open profile")
  /\ (t = "write marker") <=> (s = "open marker")
  /\ t = "open marker" => s \in {"write profile", "stat"}
  /\ t = "read live" => s = "any profile"
  /\ t = "open profile" =>
       \/ s \in {"read live", "stat active", "pick id"}
       \/ s = "read profile" /\ op = "update"

\* A program of n steps, none of which leaves a file open at the end.
Order(op, p, n) ==
  /\ p \in Seq(AllSteps) /\ Len(p) = n /\ n \in {2, 3, 6, 7, 9, 10}
  /\ p[1] \in {"open tmp", "stat", "any profile", "pick id", "read profile", "not active"}
  /\ \A k \in 1 .. n :
       /\ p[k] \in {"open tmp", "write tmp", "open profile", "open marker"} => k # n
       /\ p[k] = "read marker" => op # "update"
       /\ p[k] = "any profile" => k = 1 /\ (n = 6 \/ p[7] = "copy")
  /\ \A k, j \in 1 .. n : j = k + 1 => Follows(op, p[k], p[j])

LEMMA InOrder == \A op \in Ops : \E n : Order(op, Program(op), n)
<1>1. Order("save", SaveSteps, 7)
  <2>1. /\ Len(SaveSteps) = 7 /\ SaveSteps \in Seq(AllSteps)
        /\ SaveSteps[1] = "open tmp" /\ SaveSteps[2] = "write tmp"
        /\ SaveSteps[3] = "rename" /\ SaveSteps[4] = "read marker"
        /\ SaveSteps[5] = "stat active" /\ SaveSteps[6] = "open profile"
        /\ SaveSteps[7] = "write profile"
    BY DEF SaveSteps, AllSteps
  <2>2. /\ \A k \in 1 .. 7 : k = 1 \/ k = 2 \/ k = 3 \/ k = 4 \/ k = 5 \/ k = 6 \/ k = 7
        /\ \A k, j \in 1 .. 7 : j = k + 1 =>
             \/ (k = 1 /\ j = 2) \/ (k = 2 /\ j = 3) \/ (k = 3 /\ j = 4)
             \/ (k = 4 /\ j = 5) \/ (k = 5 /\ j = 6) \/ (k = 6 /\ j = 7)
    OBVIOUS
  <2> QED
    BY <2>1, <2>2 DEF Order, Follows
<1>2. Order("activate", ActivateSteps, 9)
  <2>1. /\ Len(ActivateSteps) = 9 /\ ActivateSteps \in Seq(AllSteps)
        /\ ActivateSteps[1] = "stat" /\ ActivateSteps[2] = "open marker"
        /\ ActivateSteps[3] = "write marker" /\ ActivateSteps[4] = "read marker"
        /\ ActivateSteps[5] = "stat active" /\ ActivateSteps[6] = "read profile"
        /\ ActivateSteps[7] = "open tmp" /\ ActivateSteps[8] = "write tmp"
        /\ ActivateSteps[9] = "rename"
    BY DEF ActivateSteps, AllSteps
  <2>2. /\ \A k \in 1 .. 9 : k = 1 \/ k = 2 \/ k = 3 \/ k = 4 \/ k = 5 \/ k = 6 \/ k = 7 \/ k = 8 \/ k = 9
        /\ \A k, j \in 1 .. 9 : j = k + 1 =>
             \/ (k = 1 /\ j = 2) \/ (k = 2 /\ j = 3) \/ (k = 3 /\ j = 4)
             \/ (k = 4 /\ j = 5) \/ (k = 5 /\ j = 6) \/ (k = 6 /\ j = 7)
             \/ (k = 7 /\ j = 8) \/ (k = 8 /\ j = 9)
    OBVIOUS
  <2> QED
    BY <2>1, <2>2, ZenonT(30) DEF Order, Follows
<1>3. Order("list", ListSteps, 6)
  <2>1. /\ Len(ListSteps) = 6 /\ ListSteps \in Seq(AllSteps)
        /\ ListSteps[1] = "any profile" /\ ListSteps[2] = "read live"
        /\ ListSteps[3] = "open profile" /\ ListSteps[4] = "write profile"
        /\ ListSteps[5] = "open marker" /\ ListSteps[6] = "write marker"
    BY DEF ListSteps, AllSteps
  <2>2. /\ \A k \in 1 .. 6 : k = 1 \/ k = 2 \/ k = 3 \/ k = 4 \/ k = 5 \/ k = 6
        /\ \A k, j \in 1 .. 6 : j = k + 1 =>
             \/ (k = 1 /\ j = 2) \/ (k = 2 /\ j = 3) \/ (k = 3 /\ j = 4)
             \/ (k = 4 /\ j = 5) \/ (k = 5 /\ j = 6)
    OBVIOUS
  <2> QED
    BY <2>1, <2>2 DEF Order, Follows
<1>4. Order("create", CreateSteps, 10)
  <2>1. /\ Len(CreateSteps) = 10 /\ CreateSteps \in Seq(AllSteps)
        /\ CreateSteps[1] = "any profile" /\ CreateSteps[2] = "read live"
        /\ CreateSteps[3] = "open profile" /\ CreateSteps[4] = "write profile"
        /\ CreateSteps[5] = "open marker" /\ CreateSteps[6] = "write marker"
        /\ CreateSteps[7] = "copy" /\ CreateSteps[8] = "pick id"
        /\ CreateSteps[9] = "open profile" /\ CreateSteps[10] = "write profile"
    BY DEF CreateSteps, AllSteps
  <2>2. /\ \A k \in 1 .. 10 : k = 1 \/ k = 2 \/ k = 3 \/ k = 4 \/ k = 5 \/ k = 6 \/ k = 7 \/ k = 8 \/ k = 9 \/ k = 10
        /\ \A k, j \in 1 .. 10 : j = k + 1 =>
             \/ (k = 1 /\ j = 2) \/ (k = 2 /\ j = 3) \/ (k = 3 /\ j = 4)
             \/ (k = 4 /\ j = 5) \/ (k = 5 /\ j = 6) \/ (k = 6 /\ j = 7)
             \/ (k = 7 /\ j = 8) \/ (k = 8 /\ j = 9) \/ (k = 9 /\ j = 10)
    OBVIOUS
  <2> QED
    BY <2>1, <2>2, ZenonT(30) DEF Order, Follows
<1>5. Order("import", ImportSteps, 3)
  <2>1. /\ Len(ImportSteps) = 3 /\ ImportSteps \in Seq(AllSteps)
        /\ ImportSteps[1] = "pick id" /\ ImportSteps[2] = "open profile"
        /\ ImportSteps[3] = "write profile"
    BY DEF ImportSteps, AllSteps
  <2>2. /\ \A k \in 1 .. 3 : k = 1 \/ k = 2 \/ k = 3
        /\ \A k, j \in 1 .. 3 : j = k + 1 =>
             \/ (k = 1 /\ j = 2) \/ (k = 2 /\ j = 3)
    OBVIOUS
  <2> QED
    BY <2>1, <2>2 DEF Order, Follows
<1>6. Order("update", UpdateSteps, 3)
  <2>1. /\ Len(UpdateSteps) = 3 /\ UpdateSteps \in Seq(AllSteps)
        /\ UpdateSteps[1] = "read profile" /\ UpdateSteps[2] = "open profile"
        /\ UpdateSteps[3] = "write profile"
    BY DEF UpdateSteps, AllSteps
  <2>2. /\ \A k \in 1 .. 3 : k = 1 \/ k = 2 \/ k = 3
        /\ \A k, j \in 1 .. 3 : j = k + 1 =>
             \/ (k = 1 /\ j = 2) \/ (k = 2 /\ j = 3)
    OBVIOUS
  <2> QED
    BY <2>1, <2>2 DEF Order, Follows
<1>7. Order("delete", DeleteSteps, 2)
  <2>1. /\ Len(DeleteSteps) = 2 /\ DeleteSteps \in Seq(AllSteps)
        /\ DeleteSteps[1] = "not active" /\ DeleteSteps[2] = "remove"
    BY DEF DeleteSteps, AllSteps
  <2>2. /\ \A k \in 1 .. 2 : k = 1 \/ k = 2
        /\ \A k, j \in 1 .. 2 : j = k + 1 =>
             \/ (k = 1 /\ j = 2)
    OBVIOUS
  <2> QED
    BY <2>1, <2>2 DEF Order, Follows
<1> QED
  BY <1>1, <1>2, <1>3, <1>4, <1>5, <1>6, <1>7, Table DEF Ops
-----------------------------------------------------------------------------
(* Requests. *)
LEMMA Lengths ==
  /\ \A n \in {2, 3, 6, 7, 9, 10} : n \in Nat /\ 1 \in 1 .. n
  /\ \A n \in Nat : 1 + 6 <= n => n # 6 /\ 7 \in 1 .. n
  /\ \A k, n : k = 1 /\ n = k + 6 => n = 7
  /\ \A n \in Nat : \A k \in 1 .. n : k # n => k + 1 <= n
OBVIOUS

LEMMA Operations == \A r \in Work : r.op \in Ops /\ r.at \in Nat /\ r # None
BY NamesAssumption DEF Work, Ops

\* A record with its fields changed is a request all the same.
LEMMA Changed ==
  ASSUME NEW r \in Work
  PROVE  /\ \A n \in Nat : [r EXCEPT !.at = @ + n] \in Work
         /\ \A i \in Names : [r EXCEPT !.id = i] \in Work
         /\ \A i \in Names : [r EXCEPT !.id = i, !.base = i] \in Work
         /\ \A b \in Files : [r EXCEPT !.body = b] \in Work
         /\ \A f \in {"none", "tmp", "live", "profile", "gone"} :
              [r EXCEPT !.file = f] \in Work
<1> USE DEF Work
<1>1. \A n \in Nat : [r EXCEPT !.at = @ + n] \in Work
  OBVIOUS
<1>2. \A i \in Names : [r EXCEPT !.id = i] \in Work
  OBVIOUS
<1>3. \A i \in Names : [r EXCEPT !.id = i, !.base = i] \in Work
  OBVIOUS
<1>4. \A b \in Files : [r EXCEPT !.body = b] \in Work
  OBVIOUS
<1>5. \A f \in {"none", "tmp", "live", "profile", "gone"} : [r EXCEPT !.file = f] \in Work
  OBVIOUS
<1> QED
  BY <1>1, <1>2, <1>3, <1>4, <1>5

\* What a step has to leave behind for the next one.
Ready(r, s) ==
  /\ r.file = CASE s = "open tmp" -> "tmp" [] s = "open profile" -> "profile"
                [] OTHER -> "none"
  /\ r.op = "update" \/ s \in {"any profile", "read live", "open profile",
                               "write profile", "open marker", "pick id", "stat",
                               "stat active"} => r.id \in Ids

LEMMA Advance ==
  ASSUME NEW r \in Work, r.at \in 1 .. Len(Program(r.op)),
         r.at + 1 <= Len(Program(r.op)), Ready(r, StepOf(r))
  PROVE  /\ Good([r EXCEPT !.at = @ + 1])
         /\ Replaces([r EXCEPT !.at = @ + 1]) <=> StepOf(r) \in {"open tmp", "write tmp"}
         /\ StepOf(r) = "open tmp" => StepOf([r EXCEPT !.at = @ + 1]) = "write tmp"
         /\ StepOf(r) = "write tmp" => StepOf([r EXCEPT !.at = @ + 1]) = "rename"
<1> DEFINE q == [r EXCEPT !.at = @ + 1]
<1>1. /\ q.at = r.at + 1 /\ q.op = r.op /\ q.file = r.file /\ q.id = r.id
      /\ q \in Work /\ q # None /\ r.op \in Ops
  <2>1. q \in Work
    BY Changed
  <2>2. q.at = r.at + 1 /\ q.op = r.op /\ q.file = r.file /\ q.id = r.id
    BY DEF Work
  <2> QED
    BY <2>1, <2>2, Operations
<1> HIDE DEF q
<1>2. PICK p, n, k, j : /\ p = Program(r.op) /\ Order(r.op, p, n) /\ k = r.at /\ j = q.at
  BY <1>1, InOrder
<1>3. k \in 1 .. n /\ j \in 1 .. n /\ j = k + 1 /\ Len(p) = n
  <2>1. n \in Nat /\ Len(p) = n
    BY <1>2, Lengths DEF Order
  <2> QED
    BY <1>1, <1>2, <2>1
<1>4. StepOf(r) = p[k] /\ StepOf(q) = p[j]
  BY <1>1, <1>2 DEF StepOf
<1>5. Follows(r.op, p[k], p[j])
  BY <1>2, <1>3 DEF Order
<1>6. Fits(q, p[j])
  BY <1>1, <1>4, <1>5 DEF Ready, Fits, Follows
<1>7. Good(q)
  BY <1>1, <1>2, <1>3, <1>4, <1>6 DEF Good
<1>8. Replaces(q) <=> p[k] \in {"open tmp", "write tmp"}
  BY <1>1, <1>4, <1>5 DEF Replaces, Follows
<1> QED
  BY <1>4, <1>5, <1>7, <1>8 DEF q, Follows

LEMMA Fresh ==
  ASSUME NEW r \in Work, r.at = 1, r.file = "none", r.op = "update" => r.id \in Ids
  PROVE  Good(r) /\ ~Replaces(r)
<1>1. PICK p, n : p = Program(r.op) /\ Order(r.op, p, n)
  BY InOrder, Operations
<1>2. /\ n \in Nat /\ 1 \in 1 .. n /\ Len(p) = n
      /\ p[1] \in {"open tmp", "stat", "any profile", "pick id", "read profile", "not active"}
  BY <1>1, Lengths DEF Order
<1>3. StepOf(r) = p[1]
  BY <1>1 DEF StepOf
<1>4. r.at \in 1 .. Len(Program(r.op))
  BY <1>1, <1>2
<1> QED
  BY <1>2, <1>3, <1>4 DEF Good, Fits, Replaces

\* A request that finds profiles skips the bootstrap.
LEMMA Skip ==
  ASSUME NEW r, Good(r), StepOf(r) = "any profile", r.at + 6 <= Len(Program(r.op))
  PROVE  Good([r EXCEPT !.at = @ + 6]) /\ ~Replaces([r EXCEPT !.at = @ + 6])
<1> DEFINE q == [r EXCEPT !.at = @ + 6]
<1>1. r \in Work /\ r.at \in 1 .. Len(Program(r.op)) /\ Fits(r, "any profile")
  BY DEF Good
<1>2. /\ q.at = r.at + 6 /\ q.op = r.op /\ q.file = r.file /\ q.id = r.id
      /\ q \in Work /\ q # None /\ r.op \in Ops
  <2>1. q \in Work
    BY <1>1, Changed
  <2>2. q.at = r.at + 6 /\ q.op = r.op /\ q.file = r.file /\ q.id = r.id
    BY <1>1 DEF Work
  <2> QED
    BY <1>1, <2>1, <2>2, Operations
<1> HIDE DEF q
<1>3. PICK p, n, k : p = Program(r.op) /\ Order(r.op, p, n) /\ k = r.at
  BY <1>2, InOrder
<1>4. n \in Nat /\ Len(p) = n /\ k \in 1 .. n /\ p[k] = "any profile"
  BY <1>1, <1>3, Lengths DEF Order, StepOf
<1>5. k = 1 /\ (n = 6 \/ p[7] = "copy")
  BY <1>3, <1>4 DEF Order
<1>6. n # 6 /\ q.at = 7 /\ 7 \in 1 .. n
  <2>1. r.at = 1 /\ 1 + 6 <= n /\ n \in Nat
    BY <1>3, <1>4, <1>5
  <2>2. q.at = 7
    <3>1. q.at = r.at + 6
      BY <1>2
    <3> QED
      BY <2>1, <3>1, Lengths
  <2>3. n # 6 /\ 7 \in 1 .. n
    BY <2>1, Lengths
  <2> QED
    BY <2>2, <2>3
<1>7. StepOf(q) = "copy"
  BY <1>2, <1>3, <1>5, <1>6 DEF StepOf
<1> QED
  BY <1>1, <1>2, <1>3, <1>4, <1>6, <1>7 DEF Good, Fits, Replaces, q

\* How a request goes on.
LEMMA Going ==
  ASSUME NEW h, NEW r \in Work, NEW n \in Nat, GoOn(h, r, n)
  PROVE  \E x : /\ req' = [req EXCEPT ![h] = x]
                /\ tainted' = IF x = None THEN tainted \ {h} ELSE tainted
                /\ accidents' \in {0, accidents}
                /\ \/ x = None
                   \/ x = [r EXCEPT !.at = @ + n] /\ r.at + n <= Len(Program(r.op))
<1>1. CASE r.at + n <= Len(Program(r.op))
  <2>1. /\ req' = [req EXCEPT ![h] = [r EXCEPT !.at = @ + n]]
        /\ tainted' = tainted /\ accidents' = accidents
    BY <1>1 DEF GoOn
  <2>2. [r EXCEPT !.at = @ + n] # None
    BY Changed, Operations
  <2> QED
    BY <1>1, <2>1, <2>2
<1>2. CASE ~(r.at + n <= Len(Program(r.op)))
  BY <1>2 DEF GoOn
<1> QED
  BY <1>1, <1>2
-----------------------------------------------------------------------------
(* Steps that leave tmp and the live file alone. *)

\* A request that changes, or ends, leaves the others as they are.
LEMMA OneRequest ==
  ASSUME RequestTypes, NEW h \in Requests, NEW x, x = None \/ Good(x),
         req' = [req EXCEPT ![h] = x],
         tainted' = IF x = None THEN tainted \ {h} ELSE tainted
  PROVE  RequestTypes'
<1>1. x \in Work \cup {None} /\ req \in [Requests -> Work \cup {None}]
  BY DEF Good, RequestTypes
<1>2. req' \in [Requests -> Work \cup {None}]
  BY <1>1
<1>3. req'[h] = x /\ \A g \in Requests \ {h} : req'[g] = req[g]
  BY <1>1
<1>4. \A g \in Requests : req'[g] # None => Good(req'[g])
  BY <1>3 DEF RequestTypes
<1>5. tainted' \subseteq Busy'
  BY <1>3 DEF RequestTypes, Busy
<1> QED
  BY <1>2, <1>4, <1>5 DEF RequestTypes

LEMMA Quiet ==
  ASSUME TmpInv, UNCHANGED <<live, tmp, meant, shared>>,
         \A g \in Requests :
           \/ req'[g] = req[g] \/ req'[g] = None
           \/ ~Replaces(req'[g]) /\ req'[g].file # "live"
  PROVE  TmpInv'
<1>1. LiveWhole'
  BY DEF TmpInv, LiveWhole
<1>2. \A g \in Requests : Replaces(req'[g]) => Replaces(req[g]) /\ req'[g] = req[g]
  BY DEF Replaces
<1>3. \A g \in Requests : req'[g] # None /\ req'[g].file = "live" => shared'
  BY DEF TmpInv
<1>4. ASSUME NEW g \in Requests, Replaces(req'[g]), ~req'[g].mixed
      PROVE  /\ \A k \in Requests : Replaces(req'[k]) => k = g
             /\ StepOf(req'[g]) = "write tmp" => tmp' = Empty /\ req'[g].file = "tmp"
             /\ StepOf(req'[g]) = "rename" => tmp' = req'[g].body
  BY <1>2, <1>4 DEF TmpInv
<1> QED
  BY <1>1, <1>3, <1>4 DEF TmpInv

\* Both for one request that does nothing to tmp.
LEMMA Ordinary ==
  ASSUME IInv, NEW h \in Requests, NEW x,
         x = None \/ (Good(x) /\ ~Replaces(x)),
         req' = [req EXCEPT ![h] = x],
         tainted' = IF x = None THEN tainted \ {h} ELSE tainted,
         UNCHANGED <<live, tmp, meant, shared>>, FileTypes'
  PROVE  IInv'
<1>1. RequestTypes'
  BY OneRequest DEF IInv
<1>2. ~Replaces(x) => x = None \/ x.file # "live"
  BY DEF Good, Fits, Replaces
<1>3. \A g \in Requests : req'[g] = IF g = h THEN x ELSE req[g]
  BY DEF IInv, RequestTypes
<1>4. TmpInv'
  BY <1>2, <1>3, Quiet DEF IInv
<1> QED
  BY <1>1, <1>4 DEF IInv

\* A request in service, and the step it is at.
LEMMA InService ==
  ASSUME IInv, NEW h \in Busy
  PROVE  \E r \in Work : /\ r = req[h] /\ h \in Requests /\ Pending(h) = StepOf(r)
                         /\ Good(r) /\ r.at \in 1 .. Len(Program(r.op))
                         /\ Fits(r, StepOf(r))
BY DEF IInv, RequestTypes, Busy, Pending, StepOf, Good

LEMMA Counted ==
  ASSUME FileTypes, NEW n, n \in {0, accidents}
  PROVE  n \in 0 .. MaxAccidents
<1>1. accidents \in 0 .. MaxAccidents
  BY DEF FileTypes
<1>2. 0 \in 0 .. MaxAccidents
  BY AccidentsAssumption
<1> QED
  BY <1>1, <1>2

LEMMA Goes ==
  ASSUME IInv, NEW h \in Requests, NEW r \in Work, r.at \in 1 .. Len(Program(r.op)),
         Ready(r, StepOf(r)), StepOf(r) \notin {"open tmp", "write tmp"}, GoOn(h, r, 1),
         UNCHANGED <<live, tmp, meant, shared>>,
         marker' \in Ids \cup {Empty, Torn}, profile' \in [Ids -> Files]
  PROVE  IInv'
<1>1. PICK x : /\ req' = [req EXCEPT ![h] = x]
               /\ tainted' = IF x = None THEN tainted \ {h} ELSE tainted
               /\ accidents' \in {0, accidents}
               /\ \/ x = None
                  \/ x = [r EXCEPT !.at = @ + 1] /\ r.at + 1 <= Len(Program(r.op))
  BY Going
<1>2. x = None \/ (Good(x) /\ ~Replaces(x))
  BY <1>1, Advance
<1>3. FileTypes'
  <2>1. accidents' \in 0 .. MaxAccidents
    BY <1>1, Counted DEF IInv
  <2> QED
    BY <2>1 DEF IInv, FileTypes
<1> QED
  BY <1>1, <1>2, <1>3, Ordinary

\* A step that only reads may give the request a profile, or something to write.
LEMMA GoesOn ==
  ASSUME IInv, NEW h \in Requests, NEW r \in Work, r.at \in 1 .. Len(Program(r.op)),
         Fits(r, StepOf(r)), NEW q \in Work, q.at = r.at, q.op = r.op, q.file = r.file,
         StepOf(r) \notin {"open tmp", "write tmp", "open profile", "write profile"},
         r.op = "update" \/ StepOf(r) \in {"any profile", "read live", "pick id",
                                           "open marker", "stat", "stat active"}
           => q.id \in Ids,
         GoOn(h, q, 1), UNCHANGED <<files, meant, shared>>
  PROVE  IInv'
<1>1. StepOf(q) = StepOf(r) /\ q.at \in 1 .. Len(Program(q.op))
  BY DEF StepOf
<1>2. Ready(q, StepOf(q))
  BY <1>1 DEF Ready, Fits
<1>3. /\ UNCHANGED <<live, tmp, meant, shared>>
      /\ marker' \in Ids \cup {Empty, Torn} /\ profile' \in [Ids -> Files]
  BY DEF files, IInv, FileTypes
<1> QED
  BY <1>1, <1>2, <1>3, Goes

LEMMA Ends ==
  ASSUME IInv, NEW h \in Requests, End(h), UNCHANGED <<files, meant, shared>>
  PROVE  IInv'
<1>1. FileTypes'
  BY DEF End, files, IInv, FileTypes
<1>2. /\ req' = [req EXCEPT ![h] = None]
      /\ tainted' = IF None = None THEN tainted \ {h} ELSE tainted
  BY DEF End
<1>3. UNCHANGED <<live, tmp, meant, shared>>
  BY DEF files
<1> QED
  BY <1>1, <1>2, <1>3, Ordinary
-----------------------------------------------------------------------------
(* The actions. *)
LEMMA ArriveStep ==
  ASSUME IInv, NEW h \in Requests, Arrive(h)
  PROVE  IInv'
<1>1. PICK op \in Ops, i \in Ids \cup {None}, b \in Bodies,
           base \in Ids \cup {Empty, Torn, None} :
        Start(h, op, i, b, base) /\ (op = "update" => i \in Ids)
  BY DefaultAssumption DEF Arrive, Ops, IInv, FileTypes
<1> DEFINE x == [op |-> op, at |-> 1, id |-> i, src |-> i, body |-> b, file |-> "none",
                 mixed |-> FALSE, base |-> base]
<1>2. x \in Work /\ x.at = 1 /\ x.file = "none" /\ x.op = op /\ x.id = i
  BY DEF Work, Ops, Names, Files
<1>3. req[h] = None /\ req' = [req EXCEPT ![h] = x] /\ UNCHANGED <<files, meant, shared>>
  BY <1>1 DEF Start
<1>4. PICK foes \in SUBSET Busy :
        /\ tainted' = IF foes = {} THEN tainted ELSE tainted \cup foes \cup {h}
        /\ IF foes = {} THEN UNCHANGED accidents ELSE Accident
  BY <1>1 DEF Start
<1> HIDE DEF x
<1>5. Good(x) /\ ~Replaces(x) /\ x # None
  BY <1>1, <1>2, Fresh, Operations
<1>6. accidents' \in 0 .. MaxAccidents
  BY <1>4, AccidentsAssumption DEF Accident, IInv, FileTypes
<1>7. FileTypes'
  BY <1>3, <1>6 DEF files, IInv, FileTypes
<1>8. req' \in [Requests -> Work \cup {None}]
      /\ \A g \in Requests : req'[g] = IF g = h THEN x ELSE req[g]
  BY <1>2, <1>3 DEF IInv, RequestTypes
<1>9. RequestTypes'
  <2>1. tainted' \subseteq Busy'
    BY <1>4, <1>5, <1>8 DEF Busy, IInv, RequestTypes
  <2> QED
    BY <1>5, <1>8, <2>1 DEF IInv, RequestTypes
<1>10. TmpInv'
  <2>1. x.file # "live"
    BY <1>2
  <2>2. UNCHANGED <<live, tmp, meant, shared>>
    BY <1>3 DEF files
  <2> QED
    BY <1>5, <1>8, <2>1, <2>2, Quiet DEF IInv
<1> QED
  BY <1>7, <1>9, <1>10 DEF IInv

LEMMA TestStep ==
  ASSUME IInv, NEW h \in Requests, Test(h)
  PROVE  IInv'
<1>1. PICK r \in Work : /\ r = req[h] /\ Pending(h) = StepOf(r)
                        /\ r.at \in 1 .. Len(Program(r.op)) /\ Fits(r, StepOf(r))
  BY InService DEF Test
<1>2. StepOf(r) \in {"stat", "stat active", "not active"} /\ UNCHANGED <<files, meant, shared>>
  BY <1>1 DEF Test
<1>3. CASE End(h)
  BY <1>2, <1>3, Ends
<1>4. CASE ~End(h)
  <2>1. GoOn(h, r, 1) /\ (StepOf(r) # "not active" => r.id \in Ids)
    BY <1>1, <1>4 DEF Test, Keep, Exists
  <2>2. r.op = "update" => r.id \in Ids
    BY <1>1 DEF Fits
  <2> QED
    BY <1>1, <1>2, <2>1, <2>2, GoesOn
<1> QED
  BY <1>3, <1>4

LEMMA ReadMarkerStep ==
  ASSUME IInv, NEW h \in Requests, ReadMarker(h)
  PROVE  IInv'
<1>1. PICK r \in Work : /\ r = req[h] /\ Pending(h) = StepOf(r)
                        /\ r.at \in 1 .. Len(Program(r.op)) /\ Fits(r, StepOf(r))
  BY InService DEF ReadMarker, At
<1>2. StepOf(r) = "read marker" /\ UNCHANGED <<files, meant, shared>>
  BY <1>1 DEF ReadMarker, At
<1>3. CASE marker = Empty
  BY <1>2, <1>3, Ends DEF ReadMarker
<1>4. CASE marker # Empty
  <2>1. PICK i \in Names : i = marker
    BY DEF IInv, FileTypes, Names
  <2>2. PICK q \in Work : q = [r EXCEPT !.id = i]
    BY Changed
  <2>3. GoOn(h, q, 1)
    BY <1>1, <1>4, <2>1, <2>2 DEF ReadMarker
  <2>4. q.at = r.at /\ q.op = r.op /\ q.file = r.file
    BY <2>2 DEF Work
  <2>5. r.op # "update"
    <3>1. PICK p, n, k : p = Program(r.op) /\ Order(r.op, p, n) /\ k = r.at
      BY InOrder, Operations
    <3>2. k \in 1 .. n /\ p[k] = "read marker"
      BY <1>1, <1>2, <3>1, Lengths DEF Order, StepOf
    <3> QED
      BY <3>1, <3>2 DEF Order
  <2> QED
    BY <1>1, <1>2, <2>3, <2>4, <2>5, GoesOn
<1> QED
  BY <1>3, <1>4

LEMMA AnyProfileStep ==
  ASSUME IInv, NEW h \in Requests, AnyProfile(h)
  PROVE  IInv'
<1>1. PICK r \in Work : /\ r = req[h] /\ Pending(h) = StepOf(r) /\ Good(r)
                        /\ r.at \in 1 .. Len(Program(r.op)) /\ Fits(r, StepOf(r))
  BY InService DEF AnyProfile, At
<1>2. StepOf(r) = "any profile" /\ UNCHANGED <<files, meant, shared>>
  BY <1>1 DEF AnyProfile, At
<1>3. CASE \E i \in Ids : Exists(i)
  <2>1. Len(Bootstrap) = 6
    <3>1. Bootstrap = ListSteps
      BY Table DEF Program
    <3> QED
      BY <3>1 DEF ListSteps
  <2>2. GoOn(h, r, 6)
    BY <1>1, <1>3, <2>1 DEF AnyProfile
  <2>3. PICK x : /\ req' = [req EXCEPT ![h] = x]
                 /\ tainted' = IF x = None THEN tainted \ {h} ELSE tainted
                 /\ accidents' \in {0, accidents}
                 /\ \/ x = None
                    \/ x = [r EXCEPT !.at = @ + 6] /\ r.at + 6 <= Len(Program(r.op))
    BY <2>2, Going
  <2>4. x = None \/ (Good(x) /\ ~Replaces(x))
    BY <1>1, <1>2, <2>3, Skip
  <2>5. accidents' \in 0 .. MaxAccidents
    BY <2>3, Counted DEF IInv
  <2>6. FileTypes' /\ UNCHANGED <<live, tmp, meant, shared>>
    BY <1>2, <2>5 DEF files, IInv, FileTypes
  <2> QED
    BY <2>3, <2>4, <2>6, Ordinary
<1>4. CASE ~\E i \in Ids : Exists(i)
  <2>1. PICK q \in Work : q = [r EXCEPT !.id = Default, !.base = Default]
    BY Changed, DefaultAssumption DEF Names
  <2>2. GoOn(h, q, 1)
    BY <1>1, <1>4, <2>1 DEF AnyProfile
  <2>3. q.at = r.at /\ q.op = r.op /\ q.file = r.file /\ q.id \in Ids
    BY <2>1, DefaultAssumption DEF Work
  <2> QED
    BY <1>1, <1>2, <2>2, <2>3, GoesOn
<1> QED
  BY <1>3, <1>4

LEMMA ReadStep ==
  ASSUME IInv, NEW h \in Requests, Read(h)
  PROVE  IInv'
<1>1. PICK r \in Work : /\ r = req[h] /\ Pending(h) = StepOf(r)
                        /\ r.at \in 1 .. Len(Program(r.op)) /\ Fits(r, StepOf(r))
  BY InService DEF Read, At
<1>2. StepOf(r) \in {"read live", "read profile", "copy"} /\ UNCHANGED <<files, meant, shared>>
  BY <1>1 DEF Read, At
<1>3. CASE End(h)
  BY <1>2, <1>3, Ends
<1>4. CASE ~End(h)
  <2>1. PICK b \in Files : GoOn(h, [r EXCEPT !.body = b], 1)
    BY <1>1, <1>4, DefaultAssumption DEF Read, ReadBody, Exists, IInv, FileTypes, Files
  <2>2. PICK q \in Work : q = [r EXCEPT !.body = b]
    BY Changed
  <2>3. GoOn(h, q, 1)
    BY <2>1, <2>2
  <2>4. q.at = r.at /\ q.op = r.op /\ q.file = r.file /\ q.id = r.id
    BY <2>2 DEF Work
  <2>5. r.op = "update" \/ StepOf(r) = "read live" => q.id \in Ids
    BY <1>1, <2>4 DEF Fits
  <2> QED
    BY <1>1, <1>2, <2>3, <2>4, <2>5, GoesOn
<1> QED
  BY <1>3, <1>4

LEMMA PickIdStep ==
  ASSUME IInv, NEW h \in Requests, PickId(h)
  PROVE  IInv'
<1>1. PICK r \in Work : /\ r = req[h] /\ Pending(h) = StepOf(r)
                        /\ r.at \in 1 .. Len(Program(r.op)) /\ Fits(r, StepOf(r))
  BY InService DEF PickId, At
<1>2. StepOf(r) = "pick id" /\ UNCHANGED <<files, meant, shared>>
  BY <1>1 DEF PickId, At
<1>3. CASE End(h)
  BY <1>2, <1>3, Ends
<1>4. CASE ~End(h)
  <2>1. PICK i \in Ids : GoOn(h, [r EXCEPT !.id = i, !.base = i], 1)
    BY <1>1, <1>4 DEF PickId
  <2>2. PICK q \in Work : q = [r EXCEPT !.id = i, !.base = i]
    BY Changed DEF Names
  <2>3. GoOn(h, q, 1)
    BY <2>1, <2>2
  <2>4. q.at = r.at /\ q.op = r.op /\ q.file = r.file /\ q.id \in Ids
    BY <2>2 DEF Work
  <2> QED
    BY <1>1, <1>2, <2>3, <2>4, GoesOn
<1> QED
  BY <1>3, <1>4

\* A request that has opened something is not at its end.
LEMMA NotLast ==
  ASSUME NEW r \in Work, r.at \in 1 .. Len(Program(r.op)),
         StepOf(r) \in {"open tmp", "write tmp", "open profile", "open marker"}
  PROVE  r.at + 1 <= Len(Program(r.op))
<1>1. PICK p, n, k : p = Program(r.op) /\ Order(r.op, p, n) /\ k = r.at
  BY InOrder, Operations
<1>2. n \in Nat /\ Len(p) = n /\ k \in 1 .. n
  BY <1>1, Lengths DEF Order
<1>3. k # n
  BY <1>1, <1>2 DEF Order, StepOf
<1>4. k + 1 <= n
  BY <1>2, <1>3, Lengths
<1> QED
  BY <1>1, <1>2, <1>4

\* A request whose file is shared, or renamed or removed, is where it was.
LEMMA Mixed ==
  ASSUME NEW r, Good(r), NEW m \in BOOLEAN, NEW q, q = [r EXCEPT !.mixed = m]
  PROVE  /\ Good(q) /\ StepOf(q) = StepOf(r) /\ q # None
         /\ q.file = r.file /\ q.body = r.body /\ q.mixed = m
<1>1. r \in Work
  BY DEF Good
<1>2. /\ q.at = r.at /\ q.op = r.op /\ q.file = r.file /\ q.id = r.id
      /\ q.body = r.body /\ q.mixed = m /\ q \in Work
  BY <1>1 DEF Work
<1>3. StepOf(q) = StepOf(r) /\ q # None
  BY <1>2, Operations DEF StepOf
<1>4. Good(q)
  BY <1>2, <1>3 DEF Good, Fits
<1> QED
  BY <1>2, <1>3, <1>4

LEMMA Renamed ==
  ASSUME NEW r, Good(r), NEW f, NEW q, q = [r EXCEPT !.file = f],
         f = r.file \/ (r.file = "tmp" /\ f = "live")
           \/ (r.file \in {"live", "profile"} /\ f = "gone")
  PROVE  /\ Good(q) /\ StepOf(q) = StepOf(r) /\ q # None
         /\ q.file = f /\ q.body = r.body /\ q.mixed = r.mixed
         /\ q.at = r.at /\ q.op = r.op /\ (f = r.file => q = r)
<1>1. r \in Work
  BY DEF Good
<1>2. f \in {"none", "tmp", "live", "profile", "gone"}
  BY <1>1 DEF Work
<1>3. /\ q.at = r.at /\ q.op = r.op /\ q.file = f /\ q.id = r.id
      /\ q.body = r.body /\ q.mixed = r.mixed
  BY <1>1 DEF Work
<1>4. q \in Work
  BY <1>1, <1>2, Changed
<1>5. StepOf(q) = StepOf(r) /\ q # None
  BY <1>3, <1>4, Operations DEF StepOf
<1>6. Fits(q, StepOf(q))
  BY <1>3, <1>5 DEF Good, Fits
<1>7. Good(q)
  BY <1>3, <1>4, <1>5, <1>6 DEF Good
<1>8. f = r.file => q = r
  BY <1>1 DEF Work
<1> QED
  BY <1>3, <1>5, <1>7, <1>8

LEMMA OpenStep ==
  ASSUME IInv, NEW h \in Requests, Open(h)
  PROVE  IInv'
<1>1. PICK r \in Work : /\ r = req[h] /\ Pending(h) = StepOf(r) /\ Good(r)
                        /\ r.at \in 1 .. Len(Program(r.op)) /\ Fits(r, StepOf(r))
  BY InService DEF Open, At
<1>2. UNCHANGED <<live, meant, shared>> /\ h \in Busy
  BY DEF Open, At
<1>3. CASE At(h, "open marker")
  <2>1. /\ StepOf(r) = "open marker" /\ GoOn(h, r, 1)
        /\ marker' = Empty /\ UNCHANGED <<tmp, profile>>
    BY <1>1, <1>3 DEF Open, At, Keep
  <2>2. Ready(r, StepOf(r))
    BY <1>1, <2>1 DEF Fits, Ready
  <2>3. marker' \in Ids \cup {Empty, Torn} /\ profile' \in [Ids -> Files]
    BY <2>1 DEF IInv, FileTypes
  <2> QED
    BY <1>1, <1>2, <2>1, <2>2, <2>3, Goes
<1>4. CASE At(h, "open profile")
  <2>1. PICK q \in Work : q = [r EXCEPT !.file = "profile"]
    BY Changed
  <2>2. /\ StepOf(r) = "open profile" /\ GoOn(h, q, 1)
        /\ profile' = [profile EXCEPT ![r.id] = Empty] /\ UNCHANGED <<tmp, marker>>
    BY <1>1, <1>4, <2>1 DEF Open, At
  <2>3. q.at = r.at /\ q.op = r.op /\ q.file = "profile" /\ q.id = r.id
    BY <2>1 DEF Work
  <2>4. StepOf(q) = StepOf(r) /\ q.at \in 1 .. Len(Program(q.op))
    BY <1>1, <2>3 DEF StepOf
  <2>5. Ready(q, StepOf(q))
    BY <1>1, <2>2, <2>3, <2>4 DEF Fits, Ready
  <2>6. marker' \in Ids \cup {Empty, Torn} /\ profile' \in [Ids -> Files]
    BY <2>2 DEF IInv, FileTypes, Files
  <2> QED
    BY <1>2, <2>2, <2>4, <2>5, <2>6, Goes
<1>5. CASE At(h, "open tmp")
  <2> DEFINE b == OnTmp(h) # {}
             q == [r EXCEPT !.file = "tmp", !.mixed = b]
             x == [q EXCEPT !.at = @ + 1]
  <2>1. StepOf(r) = "open tmp"
    BY <1>1, <1>5 DEF At
  <2>2. /\ tmp' = Empty /\ UNCHANGED <<marker, profile, tainted, accidents>>
        /\ req' = [g \in Requests |->
                     IF g = h
                       THEN [r EXCEPT !.at = @ + 1, !.file = "tmp", !.mixed = b]
                     ELSE IF g \in OnTmp(h) THEN [req[g] EXCEPT !.mixed = TRUE]
                     ELSE req[g]]
    BY <1>1, <1>5, <2>1 DEF Open, At
  <2>3. /\ q \in Work /\ q.at = r.at /\ q.op = r.op /\ q.file = "tmp" /\ q.id = r.id
        /\ q.mixed = b
    BY DEF Work
  <2>4. x = [r EXCEPT !.at = @ + 1, !.file = "tmp", !.mixed = b]
        /\ x.file = "tmp" /\ x.mixed = b
    BY DEF Work
  <2> HIDE DEF b, q
  <2>5. StepOf(q) = "open tmp" /\ q.at \in 1 .. Len(Program(q.op))
    BY <1>1, <2>1, <2>3 DEF StepOf
  <2>6. Ready(q, StepOf(q)) /\ q.at + 1 <= Len(Program(q.op))
    <3>1. q.at + 1 <= Len(Program(q.op))
      BY <2>3, <2>5, NotLast
    <3>2. Ready(q, StepOf(q))
      BY <1>1, <2>3, <2>5 DEF Fits, Ready
    <3> QED
      BY <3>1, <3>2
  <2>7. Good(x) /\ Replaces(x) /\ StepOf(x) = "write tmp"
    BY <2>3, <2>5, <2>6, Advance
  <2>8. x \in Work /\ x # None
    BY <2>7, Operations DEF Good
  <2> HIDE DEF x
  <2>9. req'[h] = x
    BY <2>2, <2>4
  <2>10. ASSUME NEW g \in OnTmp(h)
         PROVE  /\ g \in Requests /\ g # h /\ req[g] # None /\ Replaces(req[g])
                /\ req'[g] = [req[g] EXCEPT !.mixed = TRUE]
    <3>1. g \in Requests /\ g # h /\ req[g] # None /\ Pending(g) \in {"write tmp", "rename"}
      BY DEF OnTmp, Busy
    <3>2. Replaces(req[g])
      BY <3>1 DEF Replaces, Pending, StepOf
    <3> QED
      BY <2>2, <3>1, <3>2
  <2>11. ASSUME NEW g \in Requests, g # h, g \notin OnTmp(h)
         PROVE  req'[g] = req[g] /\ ~Replaces(req[g])
    <3>1. req'[g] = req[g]
      BY <2>2, <2>11
    <3>2. ~Replaces(req[g])
      BY <2>11 DEF OnTmp, Busy, Replaces, Pending, StepOf
    <3> QED
      BY <3>1, <3>2
  <2>12. ASSUME NEW g \in OnTmp(h)
         PROVE  /\ Good(req'[g]) /\ req'[g] # None
                /\ req'[g].file = req[g].file /\ req'[g].mixed
    <3>1. PICK y, z : y = req[g] /\ z = req'[g]
      OBVIOUS
    <3>2. Good(y)
      BY <2>10, <3>1 DEF IInv, RequestTypes
    <3>3. z = [y EXCEPT !.mixed = TRUE]
      BY <2>10, <3>1
    <3>4. Good(z) /\ z # None /\ z.file = y.file /\ z.mixed = TRUE
      BY <3>2, <3>3, Mixed
    <3> QED
      BY <3>1, <3>4
  <2>13. FileTypes'
    BY <1>2, <2>2 DEF IInv, FileTypes, Files
  <2>14. RequestTypes'
    <3>1. \A g \in Requests : req'[g] # None => Good(req'[g])
      BY <2>7, <2>9, <2>11, <2>12 DEF IInv, RequestTypes
    <3>2. \A g \in Requests : req'[g] \in Work \cup {None}
      BY <3>1 DEF Good
    <3>3. req' \in [Requests -> Work \cup {None}]
      BY <2>2, <3>2
    <3>4. tainted' \subseteq Busy'
      BY <2>2, <2>8, <2>9, <2>11, <2>12 DEF Busy, IInv, RequestTypes
    <3> QED
      BY <3>1, <3>3, <3>4 DEF RequestTypes
  <2>15. \A g \in Requests : req'[g] # None /\ req'[g].file = "live" => shared'
    BY <1>2, <2>4, <2>9, <2>10, <2>11, <2>12 DEF IInv, TmpInv
  <2>16. ASSUME NEW g \in Requests, Replaces(req'[g]), ~req'[g].mixed
         PROVE  g = h /\ OnTmp(h) = {}
    <3>1. g = h
      BY <2>11, <2>12, <2>16
    <3> QED
      BY <2>4, <2>9, <2>16, <3>1 DEF b
  <2>17. ASSUME OnTmp(h) = {}, NEW g \in Requests, Replaces(req'[g])
         PROVE  g = h
    BY <2>11, <2>17
  <2>18. LiveWhole'
    BY <1>2 DEF IInv, TmpInv, LiveWhole
  <2>19. TmpInv'
    BY <2>2, <2>4, <2>7, <2>9, <2>15, <2>16, <2>17, <2>18 DEF TmpInv
  <2> QED
    BY <2>13, <2>14, <2>19 DEF IInv
<1> QED
  BY <1>3, <1>4, <1>5 DEF Open

LEMMA WriteConfStep ==
  ASSUME IInv, NEW h \in Requests, WriteConf(h)
  PROVE  IInv'
<1>1. PICK r \in Work : /\ r = req[h] /\ Pending(h) = StepOf(r) /\ Good(r)
                        /\ r.at \in 1 .. Len(Program(r.op)) /\ Fits(r, StepOf(r))
  BY InService DEF WriteConf, At
<1>2. PICK q \in Work : q = [r EXCEPT !.file = "none"]
  BY Changed
<1>3. /\ q.at = r.at /\ q.op = r.op /\ q.file = "none" /\ q.id = r.id
      /\ q.body = r.body /\ q.mixed = r.mixed
  BY <1>2 DEF Work
<1>4. StepOf(q) = StepOf(r) /\ q.at \in 1 .. Len(Program(q.op))
  BY <1>1, <1>3 DEF StepOf
<1>5. /\ StepOf(r) \in {"write tmp", "write profile"} /\ UNCHANGED <<marker, meant, shared>>
      /\ GoOn(h, q, 1) /\ h \in Busy
  BY <1>1, <1>2 DEF WriteConf, At
<1>6. /\ tmp' \in IF r.file = "tmp" THEN Overlay(tmp, r.body) ELSE {tmp}
      /\ live' \in IF r.file = "live" THEN Overlay(live, r.body) ELSE {live}
      /\ \E c \in Overlay(IF r.id \in Ids THEN profile[r.id] ELSE Empty, r.body) :
           profile' = IF r.file = "profile" THEN [profile EXCEPT ![r.id] = c] ELSE profile
  BY <1>1 DEF WriteConf
<1>7. \A old : Overlay(old, r.body) \subseteq Files
  <2>1. r.body \in Files /\ Torn \in Files
    BY DEF Work, Files
  <2> QED
    BY <2>1 DEF Overlay
<1>8. tmp' \in Files /\ live' \in Files /\ profile' \in [Ids -> Files]
      /\ marker' \in Ids \cup {Empty, Torn}
  <2>1. live \in Files /\ tmp \in Files /\ profile \in [Ids -> Files]
        /\ marker \in Ids \cup {Empty, Torn}
    BY DEF IInv, FileTypes
  <2>2. tmp' \in Files
    BY <1>6, <1>7, <2>1
  <2>3. live' \in Files
    BY <1>6, <1>7, <2>1
  <2>4. profile' \in [Ids -> Files]
    BY <1>6, <1>7, <2>1
  <2> QED
    BY <1>5, <2>1, <2>2, <2>3, <2>4
<1>9. CASE StepOf(r) = "write profile"
  <2>1. r.file \notin {"tmp", "live"}
    BY <1>1, <1>9 DEF Fits
  <2>2. UNCHANGED <<live, tmp, meant, shared>>
    BY <1>5, <1>6, <2>1
  <2>3. Ready(q, StepOf(q))
    BY <1>1, <1>3, <1>4, <1>9 DEF Fits, Ready
  <2> QED
    BY <1>4, <1>5, <1>8, <1>9, <2>2, <2>3, Goes
<1>10. CASE StepOf(r) = "write tmp"
  <2>1. PICK x : /\ req' = [req EXCEPT ![h] = x]
                 /\ tainted' = IF x = None THEN tainted \ {h} ELSE tainted
                 /\ accidents' \in {0, accidents}
                 /\ \/ x = None
                    \/ x = [q EXCEPT !.at = @ + 1] /\ q.at + 1 <= Len(Program(q.op))
    BY <1>5, Going
  <2>2. ~(q.at + 1 <= Len(Program(q.op))) => x = None
    BY <2>1
  <2>3. q.at + 1 <= Len(Program(q.op))
    BY <1>4, <1>10, NotLast
  <2>4. x # None \/ x = None
    OBVIOUS
  <2>5. Ready(q, StepOf(q))
    BY <1>1, <1>3, <1>4, <1>10 DEF Fits, Ready
  <2>6. x = None \/ (x = [q EXCEPT !.at = @ + 1])
    BY <2>1
  <2>7. ASSUME x # None
        PROVE  /\ Good(x) /\ StepOf(x) = "rename" /\ x.body = r.body
               /\ x.mixed = r.mixed /\ x.file = "none"
    <3>1. x = [q EXCEPT !.at = @ + 1]
      BY <2>6, <2>7
    <3>2. Good(x) /\ StepOf(x) = "rename"
      BY <1>4, <1>10, <2>3, <2>5, <3>1, Advance
    <3>3. x.body = q.body /\ x.mixed = q.mixed /\ x.file = q.file
      BY <3>1 DEF Work
    <3> QED
      BY <1>3, <3>2, <3>3
  <2>8. RequestTypes'
    BY <2>1, <2>7, OneRequest DEF IInv
  <2>9. FileTypes'
    <3>1. accidents' \in 0 .. MaxAccidents
      BY <2>1, Counted DEF IInv
    <3> QED
      BY <1>5, <1>8, <3>1 DEF IInv, FileTypes
  <2>10. req'[h] = x /\ \A g \in Requests \ {h} : req'[g] = req[g]
    BY <2>1 DEF IInv, RequestTypes
  <2>11. Replaces(req[h])
    BY <1>1, <1>10, Operations DEF Replaces
  <2>12. LiveWhole'
    <3>1. CASE r.file = "live"
      <4>1. shared
        BY <1>1, <3>1, Operations DEF IInv, TmpInv
      <4> QED
        BY <1>5, <4>1 DEF LiveWhole
    <3>2. CASE r.file # "live"
      <4>1. live' = live
        BY <1>6, <3>2
      <4> QED
        BY <1>5, <4>1 DEF LiveWhole, IInv, TmpInv
    <3> QED
      BY <3>1, <3>2
  <2>13. \A g \in Requests : req'[g] # None /\ req'[g].file = "live" => shared'
    BY <1>5, <2>7, <2>10 DEF IInv, TmpInv
  <2>14. ASSUME NEW g \in Requests, Replaces(req'[g]), ~req'[g].mixed
         PROVE  /\ \A k \in Requests : Replaces(req'[k]) => k = g
                /\ StepOf(req'[g]) = "rename" /\ tmp' = req'[g].body
    <3>1. CASE g # h
      BY <2>10, <2>11, <2>14, <3>1 DEF IInv, TmpInv
    <3>2. CASE g = h
      <4>1. x # None
        BY <2>10, <2>14, <3>2 DEF Replaces
      <4>2. ~r.mixed /\ Replaces(r)
        BY <1>1, <2>7, <2>10, <2>11, <2>14, <3>2, <4>1
      <4>3. /\ \A k \in Requests : Replaces(req[k]) => k = h
            /\ tmp = Empty /\ r.file = "tmp"
        BY <1>1, <1>10, <4>2 DEF IInv, TmpInv
      <4>4. tmp' = r.body
        BY <1>6, <4>3 DEF Overlay
      <4> QED
        BY <2>7, <2>10, <3>2, <4>1, <4>3, <4>4
    <3> QED
      BY <3>1, <3>2
  <2>15. TmpInv'
    BY <2>12, <2>13, <2>14 DEF TmpInv
  <2> QED
    BY <2>8, <2>9, <2>15 DEF IInv
<1> QED
  BY <1>5, <1>9, <1>10

LEMMA RenameStep ==
  ASSUME IInv, NEW h \in Requests, Rename(h)
  PROVE  IInv'
<1>1. PICK r \in Work : /\ r = req[h] /\ Pending(h) = StepOf(r) /\ Good(r)
                        /\ r.at \in 1 .. Len(Program(r.op)) /\ Fits(r, StepOf(r))
  BY InService DEF Rename, At
<1>2. /\ StepOf(r) = "rename" /\ h \in Busy /\ UNCHANGED <<marker, profile>>
      /\ Replaces(r) /\ r.file = "none"
  <2>1. StepOf(r) = "rename" /\ h \in Busy /\ UNCHANGED <<marker, profile>>
    BY <1>1 DEF Rename, At
  <2> QED
    BY <1>1, <2>1, Operations DEF Replaces, Fits
<1>3. CASE tmp = Absent
  <2>1. End(h) /\ UNCHANGED <<files, meant, shared>>
    BY <1>2, <1>3 DEF Rename, files
  <2> QED
    BY <2>1, Ends
<1>4. CASE tmp # Absent
  <2> DEFINE name(f) == CASE f = "tmp" -> "live" [] f = "live" -> "gone" [] OTHER -> f
             moved == [g \in Requests |->
                         IF g \notin Busy THEN None
                         ELSE [req[g] EXCEPT !.file = name(@)]]
             last == moved[h].at = Len(Program(moved[h].op))
             x == IF last THEN None ELSE [moved[h] EXCEPT !.at = @ + 1]
  <2>1. /\ live' = tmp /\ tmp' = Absent /\ meant' = r.body /\ shared' = r.mixed
        /\ req' = [moved EXCEPT ![h] = x]
        /\ tainted' = IF last THEN tainted \ {h} ELSE tainted
        /\ accidents' \in {0, accidents}
    BY <1>1, <1>4 DEF Rename
  <2>2. moved[h] = [r EXCEPT !.file = "none"]
    BY <1>1, <1>2
  <2> DEFINE q == moved[h]
  <2>3. Good(q) /\ StepOf(q) = "rename" /\ q.file = "none"
    <3>1. PICK z, f : z = [r EXCEPT !.file = f] /\ f = "none"
      OBVIOUS
    <3>2. Good(z) /\ StepOf(z) = StepOf(r) /\ z.file = f
      BY <1>1, <1>2, <3>1, Renamed
    <3>3. z = q
      BY <2>2, <3>1
    <3> HIDE DEF q, moved
    <3> QED
      BY <1>2, <3>1, <3>2, <3>3
  <2>4. ASSUME NEW g \in Requests, req[g] # None
        PROVE  /\ Good(moved[g]) /\ StepOf(moved[g]) = StepOf(req[g]) /\ moved[g] # None
               /\ moved[g].mixed = req[g].mixed /\ req[g].file \in {"none", "tmp", "live", "profile", "gone"}
               /\ moved[g].file = name(req[g].file)
    <3>1. PICK y, z : y = req[g] /\ z = moved[g]
      OBVIOUS
    <3>2. Good(y) /\ y.file \in {"none", "tmp", "live", "profile", "gone"}
      BY <2>4, <3>1 DEF IInv, RequestTypes, Good, Work
    <3>3. z = [y EXCEPT !.file = name(y.file)]
      BY <2>4, <3>1 DEF Busy
    <3>4. PICK f : f = name(y.file)
      OBVIOUS
    <3>5. \/ f = y.file \/ (y.file = "tmp" /\ f = "live")
          \/ (y.file \in {"live", "profile"} /\ f = "gone")
      BY <3>2, <3>4
    <3> HIDE DEF moved, name
    <3>6. /\ Good(z) /\ StepOf(z) = StepOf(y) /\ z # None /\ z.file = f
          /\ z.mixed = y.mixed
      BY <3>2, <3>3, <3>4, <3>5, Renamed
    <3> QED
      BY <3>1, <3>2, <3>4, <3>6
  <2>5. \A g \in Requests : req[g] = None => moved[g] = None
    BY DEF Busy
  <2>6. moved = [g \in Requests |-> moved[g]]
    OBVIOUS
  <2>7. \A f \in {"none", "tmp", "live", "profile", "gone"} : name(f) = "live" => f = "tmp"
    OBVIOUS
  <2> HIDE DEF moved, name
  <2>8. req' = [g \in Requests |-> IF g = h THEN x ELSE moved[g]]
    BY <2>1, <2>6
  <2>9. req'[h] = x /\ \A g \in Requests \ {h} : req'[g] = moved[g]
    BY <2>8
  <2>10. x = None \/ (Good(x) /\ ~Replaces(x) /\ x # None /\ x.file = "none")
    <3>1. CASE last
      BY <3>1
    <3>2. CASE ~last
      <4>1. q \in Work /\ q.at \in 1 .. Len(Program(q.op)) /\ q.at # Len(Program(q.op))
        BY <2>3, <3>2 DEF Good
      <4>2. q.at + 1 <= Len(Program(q.op))
        <5>1. PICK p, n, k : p = Program(q.op) /\ Order(q.op, p, n) /\ k = q.at
          BY <4>1, InOrder, Operations
        <5>2. n \in Nat /\ Len(p) = n /\ k \in 1 .. n /\ k # n
          BY <4>1, <5>1, Lengths DEF Order
        <5>3. k + 1 <= n
          BY <5>2, Lengths
        <5> QED
          BY <5>1, <5>2, <5>3
      <4>3. Ready(q, StepOf(q))
        <5>1. q.op = "update" => q.id \in Ids
          BY <2>3 DEF Good, Fits
        <5> QED
          BY <2>3, <5>1 DEF Ready
      <4>4. PICK u, v : u = q /\ v = x
        OBVIOUS
      <4>5. v = [u EXCEPT !.at = @ + 1]
        BY <3>2, <4>4
      <4> HIDE DEF q, x, last
      <4>6. Good(v) /\ ~Replaces(v)
        BY <2>3, <4>1, <4>2, <4>3, <4>4, <4>5, Advance
      <4>7. v # None /\ v.file = "none"
        <5>1. v.file = u.file
          BY <4>1, <4>4, <4>5 DEF Work
        <5>2. v \in Work
          BY <4>6 DEF Good
        <5> QED
          BY <2>3, <4>4, <5>1, <5>2, Operations
      <4> QED
        BY <4>4, <4>6, <4>7
    <3> QED
      BY <3>1, <3>2
  <2>11. last <=> x = None
    <3>1. CASE last
      BY <3>1
    <3>2. CASE ~last
      <4>1. PICK u, v : u = q /\ v = x
        OBVIOUS
      <4>2. v = [u EXCEPT !.at = @ + 1]
        BY <3>2, <4>1
      <4>3. u \in Work
        BY <2>3, <4>1 DEF Good
      <4>4. v # None
        BY <4>2, <4>3, Changed, Operations
      <4> QED
        BY <3>2, <4>1, <4>4
    <3> QED
      BY <3>1, <3>2
  <2> HIDE DEF x, last, q
  <2>12. FileTypes'
    <3>1. accidents' \in 0 .. MaxAccidents
      BY <2>1, Counted DEF IInv
    <3>2. r.body \in Files /\ r.mixed \in BOOLEAN /\ Absent \in Files
      BY DEF Work, Files
    <3> QED
      BY <1>2, <2>1, <3>1, <3>2 DEF IInv, FileTypes
  <2>13. RequestTypes'
    <3>1. \A g \in Requests : req'[g] # None => Good(req'[g])
      BY <2>4, <2>5, <2>9, <2>10
    <3>2. \A g \in Requests : req'[g] \in Work \cup {None}
      BY <3>1 DEF Good
    <3>3. req' \in [Requests -> Work \cup {None}]
      BY <2>8, <3>2
    <3>4. tainted' \subseteq Busy'
      <4>1. ASSUME NEW g \in tainted' PROVE g \in Requests /\ req'[g] # None
        <5>1. g \in Requests /\ req[g] # None
          BY <2>1 DEF IInv, RequestTypes, Busy
        <5>2. CASE g = h
          BY <2>1, <2>9, <2>11, <5>1, <5>2
        <5>3. CASE g # h
          BY <2>4, <2>9, <5>1, <5>3
        <5> QED
          BY <5>1, <5>2, <5>3
      <4> QED
        BY <4>1 DEF Busy
    <3> QED
      BY <3>1, <3>3, <3>4 DEF RequestTypes
  <2>14. ~r.mixed => tmp = r.body /\ \A g \in Requests : Replaces(req[g]) => g = h
    BY <1>1, <1>2 DEF IInv, TmpInv
  <2>15. LiveWhole'
    <3>1. r.mixed \in BOOLEAN
      BY DEF Work
    <3> QED
      BY <2>1, <2>14, <3>1 DEF LiveWhole
  <2>16. ASSUME NEW g \in Requests, req'[g] # None, req'[g].file = "live" PROVE shared'
    <3>1. g # h
      BY <2>9, <2>10, <2>16
    <3>2. req[g] # None /\ moved[g].file = "live"
      BY <2>5, <2>9, <2>16, <3>1
    <3>3. req[g].file = "tmp"
      BY <2>4, <2>7, <3>2
    <3>4. Replaces(req[g])
      BY <3>2, <3>3 DEF IInv, RequestTypes, Good, Fits, Replaces
    <3> QED
      BY <2>1, <2>14, <3>1, <3>4
  <2>17. ASSUME NEW g \in Requests, Replaces(req'[g]), ~req'[g].mixed PROVE FALSE
    <3>1. g # h
      BY <2>9, <2>10, <2>17 DEF Replaces
    <3>2. req[g] # None
      BY <2>5, <2>9, <2>17, <3>1 DEF Replaces
    <3>3. Replaces(req[g]) /\ ~req[g].mixed
      BY <2>4, <2>9, <2>17, <3>1, <3>2 DEF Replaces
    <3> QED
      BY <1>1, <1>2, <3>1, <3>3 DEF IInv, TmpInv
  <2>18. TmpInv'
    BY <2>15, <2>16, <2>17 DEF TmpInv
  <2> QED
    BY <2>12, <2>13, <2>18 DEF IInv
<1> QED
  BY <1>3, <1>4

LEMMA RemoveStep ==
  ASSUME IInv, NEW h \in Requests, Remove(h)
  PROVE  IInv'
<1> DEFINE i == req[h].id
<1>1. /\ profile' = [profile EXCEPT ![i] = Absent]
      /\ req' = [g \in Requests |->
                   IF g = h \/ g \notin Busy THEN None
                   ELSE [req[g] EXCEPT !.file =
                           IF @ = "profile" /\ req[g].id = i THEN "gone" ELSE @]]
      /\ tainted' = tainted \ {h}
      /\ UNCHANGED <<live, tmp, marker, meant, shared, accidents>>
  BY DEF Remove
<1>2. FileTypes'
  BY <1>1 DEF IInv, FileTypes, Files
<1>3. ASSUME NEW g \in Requests, g # h, req[g] # None
      PROVE  /\ Good(req'[g]) /\ req'[g] # None
             /\ req'[g] = req[g] \/ (~Replaces(req'[g]) /\ req'[g].file = "gone")
  <2>1. PICK y, z : y = req[g] /\ z = req'[g]
    OBVIOUS
  <2>2. Good(y)
    BY <1>3, <2>1 DEF IInv, RequestTypes
  <2>3. PICK f : f = IF y.file = "profile" /\ y.id = i THEN "gone" ELSE y.file
    OBVIOUS
  <2>4. z = [y EXCEPT !.file = f]
    BY <1>1, <1>3, <2>1, <2>3 DEF Busy
  <2>5. f = y.file \/ (y.file = "profile" /\ f = "gone")
    BY <2>3
  <2>6. /\ Good(z) /\ StepOf(z) = StepOf(y) /\ z # None /\ z.file = f
        /\ f = y.file => z = y
    BY <2>2, <2>4, <2>5, Renamed
  <2>7. y.file = "profile" => StepOf(y) = "write profile"
    BY <2>2 DEF Good, Fits
  <2> QED
    BY <2>1, <2>5, <2>6, <2>7 DEF Replaces
<1>4. ASSUME NEW g \in Requests, g = h \/ req[g] = None PROVE req'[g] = None
  BY <1>1, <1>4 DEF Busy
<1>5. RequestTypes'
  <2>1. \A g \in Requests : req'[g] # None => Good(req'[g])
    BY <1>3, <1>4
  <2>2. \A g \in Requests : req'[g] \in Work \cup {None}
    BY <2>1 DEF Good
  <2>3. req' \in [Requests -> Work \cup {None}]
    BY <1>1, <2>2
  <2>4. tainted' \subseteq Busy'
    BY <1>1, <1>3 DEF Busy, IInv, RequestTypes
  <2> QED
    BY <2>1, <2>3, <2>4 DEF RequestTypes
<1>6. TmpInv'
  <2>1. UNCHANGED <<live, tmp, meant, shared>>
    BY <1>1
  <2>2. \A g \in Requests :
           \/ req'[g] = req[g] \/ req'[g] = None
           \/ ~Replaces(req'[g]) /\ req'[g].file # "live"
    BY <1>3, <1>4
  <2> QED
    BY <2>1, <2>2, Quiet DEF IInv
<1> QED
  BY <1>2, <1>5, <1>6 DEF IInv

LEMMA WriteActiveIDStep ==
  ASSUME IInv, NEW h \in Requests, WriteActiveID(h)
  PROVE  IInv'
<1>1. PICK r \in Work : /\ r = req[h] /\ Pending(h) = StepOf(r) /\ Good(r)
                        /\ r.at \in 1 .. Len(Program(r.op)) /\ Fits(r, StepOf(r))
  BY InService DEF WriteActiveID, At
<1>2. /\ StepOf(r) = "write marker" /\ GoOn(h, r, 1) /\ marker' \in Overlay(marker, r.id)
      /\ UNCHANGED <<live, tmp, profile, meant, shared>>
  BY <1>1 DEF WriteActiveID, At, Keep
<1>3. r.id \in Ids /\ Ready(r, StepOf(r))
  BY <1>1, <1>2 DEF Fits, Ready
<1>4. marker' \in Ids \cup {Empty, Torn} /\ profile' \in [Ids -> Files]
  BY <1>2, <1>3 DEF Overlay, IInv, FileTypes
<1> QED
  BY <1>1, <1>2, <1>3, <1>4, Goes

LEMMA CutShortStep ==
  ASSUME IInv, NEW h \in Requests, CutShort(h)
  PROVE  IInv'
<1>1. accidents' \in 0 .. MaxAccidents
  BY AccidentsAssumption DEF CutShort, Accident, IInv, FileTypes
<1>2. FileTypes'
  BY <1>1 DEF CutShort, files, IInv, FileTypes
<1>3. /\ req' = [req EXCEPT ![h] = None]
      /\ tainted' = IF None = None THEN tainted \ {h} ELSE tainted
      /\ UNCHANGED <<live, tmp, meant, shared>>
  BY DEF CutShort, files
<1> QED
  BY <1>2, <1>3, Ordinary
-----------------------------------------------------------------------------
(* The invariant. *)
LEMMA InitIInv == Init => IInv
<1> SUFFICES ASSUME Init PROVE IInv
  OBVIOUS
<1>1. FileTypes
  <2>1. /\ live \in Files /\ tmp \in Files /\ meant \in Files /\ shared \in BOOLEAN
        /\ marker \in Ids \cup {Empty, Torn}
    BY DefaultAssumption DEF Init, Files
  <2>2. profile \in [Ids -> Files]
    BY <2>1 DEF Init, Files
  <2>3. accidents \in 0 .. MaxAccidents
    BY AccidentsAssumption DEF Init
  <2> QED
    BY <2>1, <2>2, <2>3 DEF FileTypes
<1>2. RequestTypes
  BY DEF Init, RequestTypes
<1>3. TmpInv
  BY DEF Init, TmpInv, Replaces, LiveWhole
<1> QED
  BY <1>1, <1>2, <1>3 DEF IInv

LEMMA NextIInv == IInv /\ [Next]_vars => IInv'
<1> SUFFICES ASSUME IInv, [Next]_vars PROVE IInv'
  OBVIOUS
<1>1. ASSUME NEW h \in Requests, Arrive(h) PROVE IInv'
  BY <1>1, ArriveStep
<1>2. ASSUME NEW h \in Requests, CutShort(h) PROVE IInv'
  BY <1>2, CutShortStep
<1>3. ASSUME NEW h \in Requests, Step(h) PROVE IInv'
  BY <1>3, TestStep, ReadMarkerStep, AnyProfileStep, ReadStep, PickIdStep, OpenStep,
     WriteConfStep, WriteActiveIDStep, RenameStep, RemoveStep DEF Step
<1>4. CASE UNCHANGED vars
  <2>1. UNCHANGED <<live, tmp, marker, profile, req, meant, shared, tainted, accidents>>
    BY <1>4 DEF vars, files, history
  <2>2. FileTypes'
    BY <2>1 DEF IInv, FileTypes
  <2>3. RequestTypes'
    BY <2>1 DEF IInv, RequestTypes, Busy
  <2>4. TmpInv'
    BY <2>1 DEF IInv, TmpInv, LiveWhole
  <2> QED
    BY <2>2, <2>3, <2>4 DEF IInv
<1> QED
  BY <1>1, <1>2, <1>3, <1>4 DEF Next

\* The inductive invariant holds for any number of requests, profiles and
\* configurations: every request stands at a step of its program, with a file
\* open exactly between the halves of a write, and a request that has the one
\* temporary file to itself has in it what it has to write (saveConfig,
\* profiles.go).
THEOREM Invariance == Spec => []IInv
<1>1. Init => IInv
  BY InitIInv
<1>2. IInv /\ [Next]_vars => IInv'
  BY NextIInv
<1> QED
  BY <1>1, <1>2, PTL DEF Spec

\* The types of the files and of the requests in service.
THEOREM ProfilesTypes == Spec => []TypeOK
<1>1. IInv => TypeOK
  <2> SUFFICES ASSUME IInv PROVE TypeOK
    OBVIOUS
  <2>1. ASSUME NEW h \in Busy
        PROVE  /\ req[h].at \in DOMAIN Program(req[h].op)
               /\ req[h].body \in Files
               /\ req[h].file # "none" <=> Pending(h) \in {"write tmp", "write profile"}
               /\ req[h].file = "profile" => req[h].id \in Ids
    <3>1. PICK r \in Work : /\ r = req[h] /\ Pending(h) = StepOf(r)
                            /\ r.at \in 1 .. Len(Program(r.op)) /\ Fits(r, StepOf(r))
      BY InService
    <3>2. r.at \in DOMAIN Program(r.op)
      <4>1. PICK p, n : p = Program(r.op) /\ Order(r.op, p, n)
        BY InOrder, Operations
      <4>2. DOMAIN p = 1 .. Len(p)
        <5>1. p \in Seq(AllSteps)
          BY <4>1 DEF Order
        <5> QED
          BY <5>1
      <4> QED
        BY <3>1, <4>1, <4>2
    <3>3. r.body \in Files
      BY DEF Work
    <3>4. /\ (r.file # "none") <=> StepOf(r) \in {"write tmp", "write profile"}
          /\ r.file = "profile" => r.id \in Ids
      BY <3>1 DEF Fits
    <3> QED
      BY <3>1, <3>2, <3>3, <3>4
  <2> QED
    BY <2>1 DEF TypeOK, IInv, FileTypes, RequestTypes
<1> QED
  BY <1>1, Invariance, PTL

\* Write-temp-and-rename makes the live file whole, at every moment and wherever
\* a request is cut short: it is exactly what one request had to write, unless
\* a second one had the temporary file in its hands at the rename.
THEOREM LiveFileWhole == Spec => []LiveWhole
<1>1. IInv => LiveWhole
  BY DEF IInv, TmpInv
<1> QED
  BY <1>1, Invariance, PTL
-----------------------------------------------------------------------------
(* The order of the steps. *)

\* After step s a request comes to step t; a bootstrap is not among them.
Leads(op, s, t) ==
  \/ op = "save" /\ \/ s = "open tmp" /\ t = "write tmp"
                    \/ s = "write tmp" /\ t = "rename"
                    \/ s = "rename" /\ t = "read marker"
                    \/ s = "read marker" /\ t = "stat active"
                    \/ s = "stat active" /\ t = "open profile"
                    \/ s = "open profile" /\ t = "write profile"
                    \/ s = "write profile" /\ t = "end"
  \/ op = "activate" /\ \/ s = "stat" /\ t = "open marker"
                        \/ s = "open marker" /\ t = "write marker"
                        \/ s = "write marker" /\ t = "read marker"
                        \/ s = "read marker" /\ t = "stat active"
                        \/ s = "stat active" /\ t = "read profile"
                        \/ s = "read profile" /\ t = "open tmp"
                        \/ s = "open tmp" /\ t = "write tmp"
                        \/ s = "write tmp" /\ t = "rename"
                        \/ s = "rename" /\ t = "end"
  \/ op = "update" /\ \/ s = "read profile" /\ t = "open profile"
                      \/ s = "open profile" /\ t = "write profile"
                      \/ s = "write profile" /\ t = "end"
  \/ op = "delete" /\ \/ s = "not active" /\ t = "remove"
                      \/ s = "remove" /\ t = "end"
  \/ op = "create" /\ s = "copy" /\ t = "pick id"
  \/ op \in {"create", "import"} /\ \/ s = "pick id" /\ t = "open profile"
                                    \/ s = "open profile" /\ t = "write profile"
                                    \/ s = "write profile" /\ t = "end"

Chain(op, p, n) ==
  /\ Len(p) = n /\ n \in {2, 3, 7, 9, 10}
  /\ Leads(op, p[n], "end")
  /\ \A k, j \in 1 .. n : j = k + 1 /\ (op = "create" => k > 6) => Leads(op, p[k], p[j])

LEMMA InChain == \A op \in Ops \ {"list"} : \E n : Chain(op, Program(op), n)
<1>1. Chain("save", SaveSteps, 7)
  <2>1. /\ Len(SaveSteps) = 7
        /\ SaveSteps[1] = "open tmp" /\ SaveSteps[2] = "write tmp"
        /\ SaveSteps[3] = "rename" /\ SaveSteps[4] = "read marker"
        /\ SaveSteps[5] = "stat active" /\ SaveSteps[6] = "open profile"
        /\ SaveSteps[7] = "write profile"
    BY DEF SaveSteps
  <2>2. \A k, j \in 1 .. 7 : j = k + 1 =>
             \/ (k = 1 /\ j = 2) \/ (k = 2 /\ j = 3) \/ (k = 3 /\ j = 4)
             \/ (k = 4 /\ j = 5) \/ (k = 5 /\ j = 6) \/ (k = 6 /\ j = 7)
    OBVIOUS
  <2>3. /\ Leads("save", SaveSteps[1], SaveSteps[2])
        /\ Leads("save", SaveSteps[2], SaveSteps[3])
        /\ Leads("save", SaveSteps[3], SaveSteps[4])
        /\ Leads("save", SaveSteps[4], SaveSteps[5])
        /\ Leads("save", SaveSteps[5], SaveSteps[6])
        /\ Leads("save", SaveSteps[6], SaveSteps[7])
        /\ Leads("save", SaveSteps[7], "end")
    BY <2>1 DEF Leads
  <2> QED
    BY <2>1, <2>2, <2>3 DEF Chain
<1>2. Chain("activate", ActivateSteps, 9)
  <2>1. /\ Len(ActivateSteps) = 9
        /\ ActivateSteps[1] = "stat" /\ ActivateSteps[2] = "open marker"
        /\ ActivateSteps[3] = "write marker" /\ ActivateSteps[4] = "read marker"
        /\ ActivateSteps[5] = "stat active" /\ ActivateSteps[6] = "read profile"
        /\ ActivateSteps[7] = "open tmp" /\ ActivateSteps[8] = "write tmp"
        /\ ActivateSteps[9] = "rename"
    BY DEF ActivateSteps
  <2>2. \A k, j \in 1 .. 9 : j = k + 1 =>
             \/ (k = 1 /\ j = 2) \/ (k = 2 /\ j = 3) \/ (k = 3 /\ j = 4)
             \/ (k = 4 /\ j = 5) \/ (k = 5 /\ j = 6) \/ (k = 6 /\ j = 7)
             \/ (k = 7 /\ j = 8) \/ (k = 8 /\ j = 9)
    OBVIOUS
  <2>3. /\ Leads("activate", ActivateSteps[1], ActivateSteps[2])
        /\ Leads("activate", ActivateSteps[2], ActivateSteps[3])
        /\ Leads("activate", ActivateSteps[3], ActivateSteps[4])
        /\ Leads("activate", ActivateSteps[4], ActivateSteps[5])
        /\ Leads("activate", ActivateSteps[5], ActivateSteps[6])
        /\ Leads("activate", ActivateSteps[6], ActivateSteps[7])
        /\ Leads("activate", ActivateSteps[7], ActivateSteps[8])
        /\ Leads("activate", ActivateSteps[8], ActivateSteps[9])
        /\ Leads("activate", ActivateSteps[9], "end")
    BY <2>1 DEF Leads
  <2> QED
    BY <2>1, <2>2, <2>3, ZenonT(30) DEF Chain
<1>3. Chain("create", CreateSteps, 10)
  <2>1. /\ Len(CreateSteps) = 10
        /\ CreateSteps[7] = "copy" /\ CreateSteps[8] = "pick id"
        /\ CreateSteps[9] = "open profile" /\ CreateSteps[10] = "write profile"
    BY DEF CreateSteps
  <2>2. \A k, j \in 1 .. 10 : j = k + 1 /\ k > 6 =>
             (k = 7 /\ j = 8) \/ (k = 8 /\ j = 9) \/ (k = 9 /\ j = 10)
    OBVIOUS
  <2> QED
    BY <2>1, <2>2, ZenonT(30) DEF Chain, Leads
<1>4. Chain("import", ImportSteps, 3)
  <2>1. /\ Len(ImportSteps) = 3
        /\ ImportSteps[1] = "pick id" /\ ImportSteps[2] = "open profile"
        /\ ImportSteps[3] = "write profile"
    BY DEF ImportSteps
  <2>2. \A k, j \in 1 .. 3 : j = k + 1 => (k = 1 /\ j = 2) \/ (k = 2 /\ j = 3)
    OBVIOUS
  <2> QED
    BY <2>1, <2>2 DEF Chain, Leads
<1>5. Chain("update", UpdateSteps, 3)
  <2>1. /\ Len(UpdateSteps) = 3
        /\ UpdateSteps[1] = "read profile" /\ UpdateSteps[2] = "open profile"
        /\ UpdateSteps[3] = "write profile"
    BY DEF UpdateSteps
  <2>2. \A k, j \in 1 .. 3 : j = k + 1 => (k = 1 /\ j = 2) \/ (k = 2 /\ j = 3)
    OBVIOUS
  <2> QED
    BY <2>1, <2>2 DEF Chain, Leads
<1>6. Chain("delete", DeleteSteps, 2)
  <2>1. Len(DeleteSteps) = 2 /\ DeleteSteps[1] = "not active" /\ DeleteSteps[2] = "remove"
    BY DEF DeleteSteps
  <2>2. \A k, j \in 1 .. 2 : j = k + 1 => k = 1 /\ j = 2
    OBVIOUS
  <2> QED
    BY <2>1, <2>2 DEF Chain, Leads
<1> QED
  BY <1>1, <1>2, <1>3, <1>4, <1>5, <1>6, Table DEF Ops

\* A request that is not in a bootstrap.
Plain(r) == r.op # "list" /\ (r.op = "create" => r.at > 6)

LEMMA Succession ==
  /\ \A n \in Nat : \A k \in 1 .. n : ~(k + 1 <= n) => k = n
  /\ \A n \in {2, 3, 7, 9, 10} : n \in Nat
  /\ \A k \in Nat : k > 6 => k + 1 > 6
OBVIOUS

LEMMA Leading ==
  ASSUME NEW r \in Work, r.at \in 1 .. Len(Program(r.op)), Plain(r),
         NEW x, x.op = r.op, x.at = r.at + 1
  PROVE  IF r.at + 1 <= Len(Program(r.op)) THEN Leads(r.op, StepOf(r), StepOf(x))
         ELSE Leads(r.op, StepOf(r), "end")
<1>1. PICK p, n, k, j : p = Program(r.op) /\ Chain(r.op, p, n) /\ k = r.at /\ j = x.at
  BY InChain, Operations DEF Plain
<1>2. n \in Nat /\ Len(p) = n /\ k \in 1 .. n /\ j = k + 1
  BY <1>1, Succession DEF Chain
<1>3. StepOf(r) = p[k] /\ StepOf(x) = p[j]
  BY <1>1 DEF StepOf
<1>4. CASE k + 1 <= n
  <2>1. j \in 1 .. n
    BY <1>2, <1>4
  <2>2. r.op = "create" => k > 6
    BY <1>1 DEF Plain
  <2>3. Leads(r.op, p[k], p[j])
    BY <1>1, <1>2, <2>1, <2>2 DEF Chain
  <2> QED
    BY <1>1, <1>2, <1>3, <1>4, <2>3
<1>5. CASE ~(k + 1 <= n)
  <2>1. k = n
    BY <1>2, <1>5, Succession
  <2>2. Leads(r.op, p[k], "end")
    BY <1>1, <2>1 DEF Chain
  <2> QED
    BY <1>1, <1>2, <1>3, <1>5, <2>2
<1> QED
  BY <1>4, <1>5
-----------------------------------------------------------------------------
(* One step of a request, as the others see it. *)

\* What a step of another request may change of a request's record: the file
\* may have moved or gone.
Same(y, z) ==
  /\ (y = None) <=> (z = None)
  /\ z.op = y.op /\ z.at = y.at /\ z.id = y.id /\ z.base = y.base /\ z.body = y.body
  /\ y.file = "gone" => z.file = "gone"
  /\ z.file = "profile" => y.file = "profile"

Progresses(h) ==
  /\ h \in Busy /\ tainted' = IF req'[h] = None THEN tainted \ {h} ELSE tainted
  /\ \A g \in Requests \ {h} : Same(req[g], req'[g])
  /\ req'[h] # None => req'[h].op = req[h].op
  /\ accidents' = 0 =>
       accidents = 0 \/ (req'[h] = None /\ req[h].op = "activate" /\ h \notin tainted)

LEMMA SameStep ==
  ASSUME NEW y, NEW z, Same(y, z)
  PROVE  StepOf(z) = StepOf(y) /\ (Plain(z) <=> Plain(y))
BY DEF Same, StepOf, Plain

LEMMA GoOnProgresses ==
  ASSUME IInv, NEW h \in Busy, NEW q \in Work, q.op = req[h].op, NEW n \in Nat, GoOn(h, q, n)
  PROVE  Progresses(h)
<1>1. h \in Requests /\ req \in [Requests -> Work \cup {None}]
  BY DEF Busy, IInv, RequestTypes
<1>2. CASE q.at + n <= Len(Program(q.op))
  <2>1. PICK x : x = [q EXCEPT !.at = @ + n]
    OBVIOUS
  <2>2. req' = [req EXCEPT ![h] = x] /\ tainted' = tainted /\ accidents' = accidents
    BY <1>2, <2>1 DEF GoOn
  <2>3. x # None /\ x.op = q.op
    <3>1. x \in Work
      BY <2>1, Changed
    <3> QED
      BY <2>1, <3>1, Operations DEF Work
  <2>4. req'[h] = x /\ \A g \in Requests \ {h} : req'[g] = req[g]
    BY <1>1, <2>2
  <2> QED
    BY <2>2, <2>3, <2>4 DEF Progresses, Same
<1>3. CASE ~(q.at + n <= Len(Program(q.op)))
  <2>1. /\ req' = [req EXCEPT ![h] = None] /\ tainted' = tainted \ {h}
        /\ accidents' = IF q.op = "activate" /\ h \notin tainted THEN 0 ELSE accidents
    BY <1>3 DEF GoOn
  <2>2. req'[h] = None /\ \A g \in Requests \ {h} : req'[g] = req[g]
    BY <1>1, <2>1
  <2> QED
    BY <2>1, <2>2 DEF Progresses, Same
<1> QED
  BY <1>2, <1>3

LEMMA EndProgresses ==
  ASSUME IInv, NEW h \in Busy, End(h)
  PROVE  Progresses(h)
<1>1. h \in Requests /\ req \in [Requests -> Work \cup {None}]
  BY DEF Busy, IInv, RequestTypes
<1>2. req'[h] = None /\ \A g \in Requests \ {h} : req'[g] = req[g]
  BY <1>1 DEF End
<1> QED
  BY <1>2 DEF End, Progresses, Same

LEMMA OpenTmpProgresses ==
  ASSUME IInv, NEW h \in Busy, Open(h), At(h, "open tmp")
  PROVE  Progresses(h)
<1>1. PICK r \in Work : r = req[h] /\ h \in Requests /\ StepOf(r) = "open tmp"
  BY InService DEF At
<1>2. PICK b, x :
        /\ b = (OnTmp(h) # {}) /\ b \in BOOLEAN
        /\ x = [r EXCEPT !.at = @ + 1, !.file = "tmp", !.mixed = b]
  OBVIOUS
<1>3. /\ UNCHANGED <<tainted, accidents>>
      /\ req' = [g \in Requests |->
                   IF g = h THEN x
                   ELSE IF g \in OnTmp(h) THEN [req[g] EXCEPT !.mixed = TRUE]
                   ELSE req[g]]
  BY <1>1, <1>2 DEF Open, At
<1>4. x # None /\ x.op = r.op
  <2>1. PICK u \in Work : u = [r EXCEPT !.at = @ + 1]
    BY Changed
  <2>2. PICK v \in Work : v = [u EXCEPT !.file = "tmp"]
    BY Changed
  <2>3. x = [v EXCEPT !.mixed = b]
    BY <1>2, <2>1, <2>2 DEF Work
  <2>4. x \in Work
    BY <1>2, <2>3 DEF Work
  <2> QED
    BY <1>2, <2>4, Operations DEF Work
<1>5. ASSUME NEW g \in Requests \ {h} PROVE Same(req[g], req'[g])
  <2>1. CASE g \in OnTmp(h)
    <3>1. PICK y, z : y = req[g] /\ z = req'[g]
      OBVIOUS
    <3>2. z = [y EXCEPT !.mixed = TRUE] /\ y \in Work
      BY <1>3, <2>1, <3>1 DEF OnTmp, Busy, IInv, RequestTypes
    <3>3. z \in Work
      BY <3>2 DEF Work
    <3>4. y # None /\ z # None
      BY <3>2, <3>3, Operations
    <3>5. z.op = y.op /\ z.at = y.at /\ z.id = y.id /\ z.base = y.base /\ z.body = y.body
          /\ z.file = y.file
      BY <3>2 DEF Work
    <3> QED
      BY <3>1, <3>4, <3>5 DEF Same
  <2>2. CASE g \notin OnTmp(h)
    BY <1>3, <2>2 DEF Same
  <2> QED
    BY <2>1, <2>2
<1>6. req'[h] = x
  BY <1>1, <1>3
<1> QED
  BY <1>1, <1>3, <1>4, <1>5, <1>6 DEF Progresses

LEMMA Refiled ==
  ASSUME NEW y \in Work, NEW f, NEW z, z = [y EXCEPT !.file = f],
         f \in {"none", "tmp", "live", "profile", "gone"},
         y.file = "gone" => f = "gone", f = "profile" => y.file = "profile"
  PROVE  Same(y, z) /\ z.file = f
<1>1. z \in Work
  BY Changed
<1>2. y # None /\ z # None
  BY <1>1, Operations
<1>3. z.op = y.op /\ z.at = y.at /\ z.id = y.id /\ z.base = y.base /\ z.body = y.body
      /\ z.file = f
  BY DEF Work
<1> QED
  BY <1>2, <1>3 DEF Same

\* What a rename leaves of the records, its own request's included.
LEMMA RenameMoves ==
  ASSUME IInv, NEW h \in Busy, Rename(h), tmp # Absent
  PROVE  \E q, x :
           /\ q \in Work /\ Same(req[h], q) /\ q.file = "none"
           /\ IF q.at = Len(Program(q.op)) THEN x = None ELSE x = [q EXCEPT !.at = @ + 1]
           /\ req'[h] = x /\ \A g \in Requests \ {h} : Same(req[g], req'[g])
           /\ tainted' = IF q.at = Len(Program(q.op)) THEN tainted \ {h} ELSE tainted
           /\ accidents' = IF q.at = Len(Program(q.op)) /\ q.op = "activate" /\ h \notin tainted
                             THEN 0 ELSE accidents
           /\ live' = tmp /\ tmp' = Absent /\ UNCHANGED <<marker, profile>>
<1>1. PICK r \in Work : /\ r = req[h] /\ h \in Requests /\ Pending(h) = StepOf(r)
                        /\ Fits(r, StepOf(r))
  BY InService
<1>2. StepOf(r) = "rename" /\ r.file = "none" /\ UNCHANGED <<marker, profile>>
  BY <1>1 DEF Rename, At, Fits
<1> DEFINE name(f) == CASE f = "tmp" -> "live" [] f = "live" -> "gone" [] OTHER -> f
           moved == [g \in Requests |->
                       IF g \notin Busy THEN None ELSE [req[g] EXCEPT !.file = name(@)]]
           q == moved[h]
           last == q.at = Len(Program(q.op))
           x == IF last THEN None ELSE [q EXCEPT !.at = @ + 1]
<1>3. /\ live' = tmp /\ tmp' = Absent
      /\ req' = [moved EXCEPT ![h] = x]
      /\ tainted' = IF last THEN tainted \ {h} ELSE tainted
      /\ accidents' = IF last /\ q.op = "activate" /\ h \notin tainted THEN 0 ELSE accidents
  BY DEF Rename
<1>4. ASSUME NEW g \in Requests
      PROVE  /\ Same(req[g], moved[g])
             /\ req[g] # None => moved[g] \in Work /\ moved[g].file = name(req[g].file)
  <2>1. CASE req[g] = None
    <3>1. moved[g] = None
      BY <2>1 DEF Busy
    <3> QED
      BY <2>1, <3>1 DEF Same
  <2>2. CASE req[g] # None
    <3>1. PICK y, z, f : y = req[g] /\ z = moved[g] /\ f = name(y.file)
      OBVIOUS
    <3>2. y \in Work /\ z = [y EXCEPT !.file = f]
      BY <2>2, <3>1 DEF Busy, IInv, RequestTypes
    <3>3. y.file \in {"none", "tmp", "live", "profile", "gone"}
      BY <3>2 DEF Work
    <3>4. /\ f \in {"none", "tmp", "live", "profile", "gone"}
          /\ y.file = "gone" => f = "gone"
          /\ f = "profile" => y.file = "profile"
      BY <3>1, <3>3
    <3> HIDE DEF moved, name
    <3>5. Same(y, z) /\ z.file = f
      BY <3>2, <3>4, Refiled
    <3>6. z \in Work
      BY <3>2, <3>4, Changed
    <3> QED
      BY <3>1, <3>5, <3>6
  <2> QED
    BY <2>1, <2>2
<1>5. name("none") = "none" /\ moved = [g \in Requests |-> moved[g]]
  OBVIOUS
<1>6. req[h] # None
  BY DEF Busy
<1> HIDE DEF moved, name
<1>7. q \in Work /\ Same(req[h], q) /\ q.file = "none"
  BY <1>1, <1>2, <1>4, <1>5, <1>6
<1>8. req' = [g \in Requests |-> IF g = h THEN x ELSE moved[g]]
  BY <1>3, <1>5
<1>9. req'[h] = x /\ \A g \in Requests \ {h} : Same(req[g], req'[g])
  BY <1>1, <1>4, <1>8
<1>10. IF last THEN x = None ELSE x = [q EXCEPT !.at = @ + 1]
  OBVIOUS
<1> HIDE DEF x
<1> QED
  BY <1>2, <1>3, <1>7, <1>9, <1>10

LEMMA RenameProgresses ==
  ASSUME IInv, NEW h \in Busy, Rename(h)
  PROVE  Progresses(h)
<1>1. CASE tmp = Absent
  BY <1>1, EndProgresses DEF Rename
<1>2. CASE tmp # Absent
  <2>1. PICK q, x :
           /\ q \in Work /\ Same(req[h], q) /\ q.file = "none"
           /\ IF q.at = Len(Program(q.op)) THEN x = None ELSE x = [q EXCEPT !.at = @ + 1]
           /\ req'[h] = x /\ \A g \in Requests \ {h} : Same(req[g], req'[g])
           /\ tainted' = IF q.at = Len(Program(q.op)) THEN tainted \ {h} ELSE tainted
           /\ accidents' = IF q.at = Len(Program(q.op)) /\ q.op = "activate" /\ h \notin tainted
                             THEN 0 ELSE accidents
    BY <1>2, RenameMoves
  <2>2. q.op = req[h].op
    BY <2>1 DEF Same
  <2>3. CASE q.at = Len(Program(q.op))
    BY <2>1, <2>2, <2>3 DEF Progresses
  <2>4. CASE q.at # Len(Program(q.op))
    <3>1. x = [q EXCEPT !.at = @ + 1]
      BY <2>1, <2>4
    <3>2. x.op = q.op
      BY <2>1, <3>1 DEF Work
    <3>3. x # None
      <4>1. q \in Work
        BY <2>1
      <4>2. x \in Work
        BY <3>1, <4>1, Changed
      <4> QED
        BY <4>2, Operations
    <3> QED
      BY <2>1, <2>2, <2>4, <3>2, <3>3 DEF Progresses
  <2> QED
    BY <2>3, <2>4
<1> QED
  BY <1>1, <1>2

\* What a removal leaves of the other records.
LEMMA RemoveMoves ==
  ASSUME IInv, NEW h \in Busy, Remove(h), NEW g \in Requests, g # h
  PROVE  /\ Same(req[g], req'[g])
         /\ req[g] # None =>
              req'[g].file = IF req[g].file = "profile" /\ req[g].id = req[h].id THEN "gone"
                             ELSE req[g].file
<1>1. CASE req[g] = None
  <2>1. req'[g] = None
    BY <1>1 DEF Remove, Busy
  <2> QED
    BY <1>1, <2>1 DEF Same
<1>2. CASE req[g] # None
  <2>1. PICK y, z, f : /\ y = req[g] /\ z = req'[g]
                       /\ f = IF y.file = "profile" /\ y.id = req[h].id THEN "gone" ELSE y.file
    OBVIOUS
  <2>2. y \in Work /\ z = [y EXCEPT !.file = f]
    BY <1>2, <2>1 DEF Remove, Busy, IInv, RequestTypes
  <2>3. y.file \in {"none", "tmp", "live", "profile", "gone"}
    BY <2>2 DEF Work
  <2>4. /\ f \in {"none", "tmp", "live", "profile", "gone"}
        /\ y.file = "gone" => f = "gone"
        /\ f = "profile" => y.file = "profile"
    BY <2>1, <2>3
  <2>5. Same(y, z) /\ z.file = f
    BY <2>2, <2>4, Refiled
  <2> QED
    BY <2>1, <2>5
<1> QED
  BY <1>1, <1>2

LEMMA Progress ==
  ASSUME IInv, NEW h \in Requests, Step(h) \/ CutShort(h)
  PROVE  Progresses(h)
<1>1. h \in Busy
  BY DEF Step, CutShort, Test, ReadMarker, AnyProfile, Read, PickId, Open, WriteConf,
         WriteActiveID, Rename, Remove, At
<1>2. PICK r \in Work : r = req[h]
  BY <1>1, InService
<1>3. CASE End(h)
  BY <1>1, <1>3, EndProgresses
<1>4. CASE \E q \in Work, n \in Nat : q.op = r.op /\ GoOn(h, q, n)
  BY <1>1, <1>2, <1>4, GoOnProgresses
<1>5. CASE Test(h) \/ WriteActiveID(h)
  BY <1>2, <1>3, <1>4, <1>5 DEF Test, WriteActiveID, Keep
<1>6. CASE ReadMarker(h)
  <2>1. CASE marker = Empty
    BY <1>3, <1>6, <2>1 DEF ReadMarker
  <2>2. CASE marker # Empty
    <3>1. PICK i \in Names : i = marker
      BY DEF IInv, FileTypes, Names
    <3>2. PICK q \in Work : q = [r EXCEPT !.id = i]
      BY Changed
    <3>3. q.op = r.op /\ GoOn(h, q, 1)
      BY <1>2, <1>6, <2>2, <3>1, <3>2 DEF ReadMarker, Work
    <3> QED
      BY <1>4, <3>3
  <2> QED
    BY <2>1, <2>2
<1>7. CASE AnyProfile(h)
  <2>1. CASE \E i \in Ids : Exists(i)
    <3>1. Len(Bootstrap) \in Nat
      <4>1. Bootstrap = ListSteps
        BY Table DEF Program
      <4> QED
        BY <4>1 DEF ListSteps
    <3> QED
      BY <1>2, <1>4, <1>7, <2>1, <3>1 DEF AnyProfile
  <2>2. CASE ~\E i \in Ids : Exists(i)
    <3>1. PICK q \in Work : q = [r EXCEPT !.id = Default, !.base = Default]
      BY Changed, DefaultAssumption DEF Names
    <3>2. q.op = r.op /\ GoOn(h, q, 1)
      BY <1>2, <1>7, <2>2, <3>1 DEF AnyProfile, Work
    <3> QED
      BY <1>4, <3>2
  <2> QED
    BY <2>1, <2>2
<1>8. CASE Read(h) /\ ~End(h)
  <2>1. PICK b \in Files : GoOn(h, [r EXCEPT !.body = b], 1)
    BY <1>2, <1>8, DefaultAssumption DEF Read, ReadBody, Exists, IInv, FileTypes, Files
  <2>2. PICK q \in Work : q = [r EXCEPT !.body = b]
    BY Changed
  <2>3. q.op = r.op /\ GoOn(h, q, 1)
    BY <2>1, <2>2 DEF Work
  <2> QED
    BY <1>4, <2>3
<1>9. CASE PickId(h) /\ ~End(h)
  <2>1. PICK i \in Ids : GoOn(h, [r EXCEPT !.id = i, !.base = i], 1)
    BY <1>2, <1>9 DEF PickId
  <2>2. PICK q \in Work : q = [r EXCEPT !.id = i, !.base = i]
    BY Changed DEF Names
  <2>3. q.op = r.op /\ GoOn(h, q, 1)
    BY <2>1, <2>2 DEF Work
  <2> QED
    BY <1>4, <2>3
<1>10. CASE Open(h)
  <2>1. CASE At(h, "open tmp")
    BY <1>1, <1>10, <2>1, OpenTmpProgresses
  <2>2. CASE At(h, "open marker")
    BY <1>2, <1>4, <1>10, <2>2 DEF Open, At, Keep
  <2>3. CASE At(h, "open profile")
    <3>1. PICK q \in Work : q = [r EXCEPT !.file = "profile"]
      BY Changed
    <3>2. q.op = r.op /\ GoOn(h, q, 1)
      BY <1>2, <1>10, <2>3, <3>1 DEF Open, At, Work
    <3> QED
      BY <1>4, <3>2
  <2> QED
    BY <1>10, <2>1, <2>2, <2>3 DEF Open
<1>11. CASE WriteConf(h)
  <2>1. PICK q \in Work : q = [r EXCEPT !.file = "none"]
    BY Changed
  <2>2. q.op = r.op /\ GoOn(h, q, 1)
    BY <1>2, <1>11, <2>1 DEF WriteConf, Work
  <2> QED
    BY <1>4, <2>2
<1>12. CASE Rename(h)
  BY <1>1, <1>12, RenameProgresses
<1>13. CASE Remove(h)
  <2>1. \A g \in Requests \ {h} : Same(req[g], req'[g])
    BY <1>1, <1>13, RemoveMoves
  <2>2. req'[h] = None /\ tainted' = tainted \ {h} /\ accidents' = accidents
    BY <1>13 DEF Remove
  <2> QED
    BY <1>1, <2>1, <2>2 DEF Progresses
<1>14. CASE CutShort(h)
  <2>1. req'[h] = None /\ \A g \in Requests \ {h} : req'[g] = req[g]
    BY <1>14 DEF CutShort, IInv, RequestTypes
  <2>2. tainted' = tainted \ {h} /\ accidents' # 0
    BY <1>14, AccidentsAssumption DEF CutShort, Accident, IInv, FileTypes
  <2> QED
    BY <1>1, <2>1, <2>2 DEF Progresses, Same
<1> QED
  BY <1>3, <1>5, <1>6, <1>7, <1>8, <1>9, <1>10, <1>11, <1>12, <1>13, <1>14 DEF Step

-----------------------------------------------------------------------------
(* A step of a request as a relation between its record before and after,  *)
(* and the files before and after.                                         *)

Disk == [live |-> live, tmp |-> tmp, marker |-> marker, profile |-> profile]

Has(i, d) == i \in Ids /\ d.profile[i] # Absent

\* The request is at its next step, or has ended, with this id, body and file.
Turns(r, x, i, b, f) ==
  /\ Plain(r) /\ x = None => Leads(r.op, StepOf(r), "end")
  /\ Plain(r) /\ x # None => Leads(r.op, StepOf(r), StepOf(x)) /\ StepOf(x) # "end"
  /\ x # None => /\ x.op = r.op /\ x.at = r.at + 1 /\ x.id = i /\ x.body = b /\ x.file = f
                 /\ StepOf(r) \notin {"pick id", "any profile"} => x.base = r.base

Stays(r, x) == Turns(r, x, r.id, r.body, r.file)

TestEffect(r, x, d, e) ==
  /\ e = d
  /\ \/ /\ StepOf(r) \in {"stat", "stat active"}
        /\ IF Has(r.id, d) THEN Stays(r, x) ELSE x = None
     \/ /\ StepOf(r) = "not active"
        /\ IF d.marker # r.id THEN Stays(r, x) ELSE x = None

ReadEffect(r, x, d, e) ==
  /\ e = d
  /\ \/ /\ StepOf(r) = "read marker"
        /\ IF d.marker = Empty THEN x = None ELSE Turns(r, x, d.marker, r.body, r.file)
     \/ /\ StepOf(r) = "any profile" /\ r.op \in {"list", "create"}
        /\ IF \E i \in Ids : Has(i, d)
             THEN x # None => /\ x.op = r.op /\ x.op # "list" /\ x.at > 6
                              /\ StepOf(x) = "copy"
                              /\ x.id = r.id /\ x.body = r.body /\ x.file = r.file
             ELSE Turns(r, x, Default, r.body, r.file)
     \/ /\ StepOf(r) = "read live"
        /\ Turns(r, x, r.id, d.live, r.file)
     \/ /\ StepOf(r) = "read profile"
        /\ IF Has(r.id, d) THEN Turns(r, x, r.id, d.profile[r.id], r.file) ELSE x = None
     \/ /\ StepOf(r) = "copy"
        /\ x = None \/ \E b \in Files \ {Absent} : Turns(r, x, r.id, b, r.file)
     \/ /\ StepOf(r) = "pick id"
        /\ x = None \/ \E i \in Ids : ~Has(i, d) /\ Turns(r, x, i, r.body, r.file)

OpenEffect(r, x, d, e) ==
  /\ e.live = d.live
  /\ \/ /\ StepOf(r) = "open tmp" /\ e.tmp = Empty
        /\ e.marker = d.marker /\ e.profile = d.profile
        /\ Turns(r, x, r.id, r.body, "tmp")
     \/ /\ StepOf(r) = "open marker" /\ e.marker = Empty
        /\ e.tmp = d.tmp /\ e.profile = d.profile
        /\ Stays(r, x)
     \/ /\ StepOf(r) = "open profile" /\ e.profile = [d.profile EXCEPT ![r.id] = Empty]
        /\ e.tmp = d.tmp /\ e.marker = d.marker
        /\ Turns(r, x, r.id, r.body, "profile")

WriteEffect(r, x, d, e) ==
  \/ /\ StepOf(r) = "write tmp" /\ e.marker = d.marker /\ e.profile = d.profile
     /\ e.tmp \in IF r.file = "tmp" THEN Overlay(d.tmp, r.body) ELSE {d.tmp}
     /\ e.live \in IF r.file = "live" THEN Overlay(d.live, r.body) ELSE {d.live}
     /\ Turns(r, x, r.id, r.body, "none")
  \/ /\ StepOf(r) = "write profile" /\ e.marker = d.marker /\ e.tmp = d.tmp /\ e.live = d.live
     /\ IF r.file = "profile"
          THEN \E c \in Overlay(d.profile[r.id], r.body) :
                 e.profile = [d.profile EXCEPT ![r.id] = c]
          ELSE e.profile = d.profile
     /\ Turns(r, x, r.id, r.body, "none")
  \/ /\ StepOf(r) = "write marker" /\ e.marker \in Overlay(d.marker, r.id)
     /\ e.live = d.live /\ e.tmp = d.tmp /\ e.profile = d.profile
     /\ Stays(r, x)

MoveEffect(r, x, d, e) ==
  \/ /\ StepOf(r) = "rename"
     /\ IF d.tmp = Absent THEN e = d /\ x = None
        ELSE /\ e.live = d.tmp /\ e.tmp = Absent
             /\ e.marker = d.marker /\ e.profile = d.profile
             /\ Turns(r, x, r.id, r.body, "none")
  \/ /\ StepOf(r) = "remove" /\ r.op = "delete"
     /\ e.profile = [d.profile EXCEPT ![r.id] = Absent]
     /\ e.live = d.live /\ e.tmp = d.tmp /\ e.marker = d.marker
     /\ x = None

Effect(r, x, d, e) ==
  \/ TestEffect(r, x, d, e) \/ ReadEffect(r, x, d, e) \/ OpenEffect(r, x, d, e)
  \/ WriteEffect(r, x, d, e) \/ MoveEffect(r, x, d, e)

\* What the step makes of another request: its file may have a new name.
Beside(r, y, z) ==
  /\ Same(y, z)
  /\ y # None /\ StepOf(r) # "rename" =>
       z.file = IF StepOf(r) = "remove" /\ y.file = "profile" /\ y.id = r.id THEN "gone"
                ELSE y.file

LEMMA NextIn == \A n \in Nat : \A k \in 1 .. n : k + 1 <= n => k + 1 \in 1 .. n
OBVIOUS

LEMMA Turned ==
  ASSUME IInv, NEW h \in Busy, NEW r, r = req[h], NEW x, x = req'[h],
         NEW q \in Work, q.op = r.op, q.at = r.at,
         StepOf(r) \notin {"pick id", "any profile"} => q.base = r.base,
         GoOn(h, q, 1)
  PROVE  /\ Turns(r, x, q.id, q.body, q.file)
         /\ \A g \in Requests \ {h} : req'[g] = req[g]
<1>1. /\ r \in Work /\ r.at \in 1 .. Len(Program(r.op)) /\ h \in Requests
      /\ req \in [Requests -> Work \cup {None}]
  BY InService DEF IInv, RequestTypes
<1>2. PICK p : p = [q EXCEPT !.at = @ + 1]
  OBVIOUS
<1>3. /\ p.op = q.op /\ p.at = q.at + 1 /\ p.id = q.id /\ p.body = q.body
      /\ p.file = q.file /\ p.base = q.base
  BY <1>2 DEF Work
<1>4. p \in Work /\ p # None
  BY <1>2, Changed, Operations
<1>5. Plain(r) => IF r.at + 1 <= Len(Program(r.op)) THEN Leads(r.op, StepOf(r), StepOf(p))
                  ELSE Leads(r.op, StepOf(r), "end")
  BY <1>1, <1>3, Leading
<1>6. CASE r.at + 1 <= Len(Program(r.op))
  <2>1. req' = [req EXCEPT ![h] = p]
    BY <1>2, <1>6 DEF GoOn
  <2>2. StepOf(p) # "end"
    <3>1. PICK w, n, k, j : /\ w = Program(r.op) /\ Order(r.op, w, n)
                            /\ k = r.at /\ j = p.at
      BY <1>1, InOrder, Operations
    <3>2. k \in 1 .. Len(w) /\ j = k + 1 /\ j <= Len(w) /\ w \in Seq(AllSteps)
      BY <1>1, <1>3, <1>6, <3>1 DEF Order
    <3>3. j \in 1 .. Len(w)
      <4>1. PICK m : m = Len(w)
        OBVIOUS
      <4>2. m \in Nat /\ k \in 1 .. m /\ j = k + 1 /\ j <= m
        BY <3>2, <4>1, LenProperties
      <4>3. j \in 1 .. m
        BY <4>2, NextIn
      <4> QED
        BY <4>1, <4>3
    <3>4. w[j] \in AllSteps
      BY <3>2, <3>3, ElementOfSeq
    <3> QED
      BY <1>3, <3>1, <3>4 DEF AllSteps, StepOf
  <2>3. Turns(r, p, q.id, q.body, q.file)
    BY <1>3, <1>4, <1>5, <1>6, <2>2 DEF Turns
  <2>4. req'[h] = p /\ \A g \in Requests \ {h} : req'[g] = req[g]
    BY <1>1, <2>1
  <2> QED
    BY <2>1, <2>3, <2>4
<1>7. CASE ~(r.at + 1 <= Len(Program(r.op)))
  <2>1. req' = [req EXCEPT ![h] = None]
    BY <1>7 DEF GoOn
  <2>2. Turns(r, None, q.id, q.body, q.file)
    BY <1>5, <1>7 DEF Turns
  <2>3. req'[h] = None /\ \A g \in Requests \ {h} : req'[g] = req[g]
    BY <1>1, <2>1
  <2> QED
    BY <2>1, <2>2, <2>3
<1> QED
  BY <1>6, <1>7

LEMMA Stand ==
  ASSUME NEW r \in Work, r.at \in 1 .. Len(Program(r.op)), Plain(r)
  PROVE  \E t : Leads(r.op, StepOf(r), t)
<1>1. PICK x : x = [r EXCEPT !.at = @ + 1]
  OBVIOUS
<1>2. x.op = r.op /\ x.at = r.at + 1
  BY <1>1 DEF Work
<1> QED
  BY <1>2, Leading

LEMMA Apart ==
  ASSUME NEW r, NEW y, StepOf(r) # "remove"
  PROVE  Beside(r, y, y)
BY DEF Beside, Same

Effective(h) ==
  /\ Effect(req[h], req'[h], Disk, Disk')
  /\ \A g \in Requests \ {h} : Beside(req[h], req[g], req'[g])

LEMMA SameDisk ==
  ASSUME UNCHANGED files
  PROVE  Disk' = Disk
BY DEF files, Disk

LEMMA Ended ==
  ASSUME IInv, NEW h \in Busy, End(h)
  PROVE  req'[h] = None /\ \A g \in Requests \ {h} : req'[g] = req[g]
BY DEF End, IInv, RequestTypes, Busy

LEMMA Keeps ==
  ASSUME IInv, NEW h \in Busy, Keep(h)
  PROVE  Stays(req[h], req'[h]) /\ \A g \in Requests \ {h} : req'[g] = req[g]
<1>1. PICK r, x : r = req[h] /\ r \in Work /\ x = req'[h]
  BY InService
<1>2. GoOn(h, r, 1)
  BY <1>1 DEF Keep
<1>3. /\ Turns(r, x, r.id, r.body, r.file)
      /\ \A g \in Requests \ {h} : req'[g] = req[g]
  BY <1>1, <1>2, Turned
<1> QED
  BY <1>1, <1>3 DEF Stays

LEMMA TestEffective ==
  ASSUME IInv, NEW h \in Busy, Test(h)
  PROVE  Effective(h)
<1>1. PICK r, x, d, e : /\ r = req[h] /\ x = req'[h] /\ d = Disk /\ e = Disk'
                        /\ Pending(h) = StepOf(r)
  BY InService
<1>2. e = d /\ StepOf(r) \in {"stat", "stat active", "not active"}
  BY <1>1, SameDisk DEF Test
<1>3. (\A i : Exists(i) <=> Has(i, d)) /\ marker = d.marker
  BY <1>1 DEF Exists, Has, Disk
<1> DEFINE passes == IF StepOf(r) = "not active" THEN marker # r.id ELSE Exists(r.id)
<1>4. IF passes THEN Keep(h) ELSE End(h)
  BY <1>1 DEF Test
<1>5. /\ IF passes THEN Stays(r, x) ELSE x = None
      /\ \A g \in Requests \ {h} : req'[g] = req[g]
  BY <1>1, <1>4, Keeps, Ended
<1>6. TestEffect(r, x, d, e)
  BY <1>2, <1>3, <1>5 DEF TestEffect
<1> QED
  BY <1>1, <1>2, <1>5, <1>6, Apart DEF Effective, Effect

LEMMA ReadMarkerEffective ==
  ASSUME IInv, NEW h \in Busy, ReadMarker(h)
  PROVE  Effective(h)
<1>1. PICK r, x, d, e : /\ r = req[h] /\ x = req'[h] /\ d = Disk /\ e = Disk'
                        /\ Pending(h) = StepOf(r) /\ r \in Work
  BY InService
<1>2. e = d /\ StepOf(r) = "read marker" /\ d.marker = marker
  BY <1>1, SameDisk DEF ReadMarker, At, Disk
<1>3. /\ IF marker = Empty THEN x = None ELSE Turns(r, x, marker, r.body, r.file)
      /\ \A g \in Requests \ {h} : req'[g] = req[g]
  <2>1. CASE marker = Empty
    BY <1>1, <2>1, Ended DEF ReadMarker
  <2>2. CASE marker # Empty
    <3>1. PICK i \in Names : i = marker
      BY DEF IInv, FileTypes, Names
    <3>2. PICK q \in Work : q = [r EXCEPT !.id = i]
      BY <1>1, Changed
    <3>3. /\ q.op = r.op /\ q.at = r.at /\ q.base = r.base /\ q.id = i /\ q.body = r.body
          /\ q.file = r.file
      BY <1>1, <3>2 DEF Work
    <3>4. GoOn(h, q, 1)
      BY <1>1, <2>2, <3>1, <3>2 DEF ReadMarker
    <3> QED
      BY <1>1, <2>2, <3>1, <3>3, <3>4, Turned
  <2> QED
    BY <2>1, <2>2
<1>4. ReadEffect(r, x, d, e)
  BY <1>2, <1>3 DEF ReadEffect
<1> QED
  BY <1>1, <1>2, <1>3, <1>4, Apart DEF Effective, Effect

LEMMA PickIdEffective ==
  ASSUME IInv, NEW h \in Busy, PickId(h)
  PROVE  Effective(h)
<1>1. PICK r, x, d, e : /\ r = req[h] /\ x = req'[h] /\ d = Disk /\ e = Disk'
                        /\ Pending(h) = StepOf(r) /\ r \in Work
  BY InService
<1>2. e = d /\ StepOf(r) = "pick id"
  BY <1>1, SameDisk DEF PickId, At
<1>3. \A i : Exists(i) <=> Has(i, d)
  BY <1>1 DEF Exists, Has, Disk
<1>4. /\ x = None \/ \E i \in Ids : ~Exists(i) /\ Turns(r, x, i, r.body, r.file)
      /\ \A g \in Requests \ {h} : req'[g] = req[g]
  <2>1. CASE End(h)
    BY <1>1, <2>1, Ended
  <2>2. CASE ~End(h)
    <3>1. PICK i \in Ids : ~Exists(i) /\ GoOn(h, [r EXCEPT !.id = i, !.base = i], 1)
      BY <1>1, <2>2 DEF PickId
    <3>2. PICK q \in Work : q = [r EXCEPT !.id = i, !.base = i]
      BY <1>1, Changed DEF Names
    <3>3. q.op = r.op /\ q.at = r.at /\ q.id = i /\ q.body = r.body /\ q.file = r.file
      BY <1>1, <3>2 DEF Work
    <3>4. GoOn(h, q, 1)
      BY <3>1, <3>2
    <3> QED
      BY <1>1, <1>2, <3>1, <3>3, <3>4, Turned
  <2> QED
    BY <2>1, <2>2
<1>5. ReadEffect(r, x, d, e)
  BY <1>2, <1>3, <1>4 DEF ReadEffect
<1> QED
  BY <1>1, <1>2, <1>4, <1>5, Apart DEF Effective, Effect

LEMMA ReadEffective ==
  ASSUME IInv, NEW h \in Busy, Read(h)
  PROVE  Effective(h)
<1>1. PICK r, x, d, e : /\ r = req[h] /\ x = req'[h] /\ d = Disk /\ e = Disk'
                        /\ Pending(h) = StepOf(r) /\ r \in Work
  BY InService
<1>2. e = d /\ StepOf(r) \in {"read live", "read profile", "copy"}
  BY <1>1, SameDisk DEF Read, At
<1>3. /\ \A i : Exists(i) <=> Has(i, d)
      /\ d.live = live /\ d.profile = profile /\ live \in Files /\ profile \in [Ids -> Files]
  BY <1>1 DEF Exists, Has, Disk, IInv, FileTypes
<1>4. ASSUME NEW b \in Files, GoOn(h, [r EXCEPT !.body = b], 1)
      PROVE  Turns(r, x, r.id, b, r.file) /\ \A g \in Requests \ {h} : req'[g] = req[g]
  <2>1. PICK q \in Work : q = [r EXCEPT !.body = b]
    BY <1>1, Changed
  <2>2. /\ q.op = r.op /\ q.at = r.at /\ q.id = r.id /\ q.body = b /\ q.file = r.file
        /\ q.base = r.base
    BY <1>1, <2>1 DEF Work
  <2>3. GoOn(h, q, 1)
    BY <1>4, <2>1
  <2> QED
    BY <1>1, <2>2, <2>3, Turned
<1>5. ASSUME NEW i, ReadBody(h, i)
      PROVE  /\ IF Has(i, d) THEN Turns(r, x, r.id, d.profile[i], r.file) ELSE x = None
             /\ \A g \in Requests \ {h} : req'[g] = req[g]
  <2>1. CASE Exists(i)
    <3>1. PICK b \in Files : b = profile[i]
      BY <1>3, <2>1 DEF Exists
    <3>2. GoOn(h, [r EXCEPT !.body = b], 1)
      BY <1>1, <1>5, <2>1, <3>1 DEF ReadBody
    <3> QED
      BY <1>3, <1>4, <2>1, <3>1, <3>2
  <2>2. CASE ~Exists(i)
    BY <1>1, <1>3, <1>5, <2>2, Ended DEF ReadBody
  <2> QED
    BY <2>1, <2>2
<1>6. CASE At(h, "read live")
  <2>1. StepOf(r) = "read live" /\ GoOn(h, [r EXCEPT !.body = live], 1)
    BY <1>1, <1>6 DEF Read, At
  <2>2. Turns(r, x, r.id, live, r.file) /\ \A g \in Requests \ {h} : req'[g] = req[g]
    BY <1>3, <1>4, <2>1
  <2>3. ReadEffect(r, x, d, e)
    BY <1>2, <1>3, <2>1, <2>2 DEF ReadEffect
  <2> QED
    BY <1>1, <2>1, <2>2, <2>3, Apart DEF Effective, Effect
<1>7. CASE At(h, "read profile")
  <2>1. StepOf(r) = "read profile" /\ ReadBody(h, r.id)
    BY <1>1, <1>7 DEF Read, At
  <2>2. /\ IF Has(r.id, d) THEN Turns(r, x, r.id, d.profile[r.id], r.file) ELSE x = None
        /\ \A g \in Requests \ {h} : req'[g] = req[g]
    BY <1>5, <2>1
  <2>3. ReadEffect(r, x, d, e)
    BY <1>2, <2>1, <2>2 DEF ReadEffect
  <2> QED
    BY <1>1, <2>1, <2>2, <2>3, Apart DEF Effective, Effect
<1>8. CASE At(h, "copy")
  <2>1. StepOf(r) = "copy"
    BY <1>1, <1>8 DEF At
  <2>2. ReadBody(h, r.src) \/ GoOn(h, [r EXCEPT !.body = Blank], 1)
    BY <1>1, <1>8 DEF Read, At
  <2>3. Blank \in Files /\ Blank # Absent
    BY DefaultAssumption, NamesAssumption DEF Files
  <2>4. /\ x = None \/ \E b \in Files \ {Absent} : Turns(r, x, r.id, b, r.file)
        /\ \A g \in Requests \ {h} : req'[g] = req[g]
    <3>1. CASE ReadBody(h, r.src)
      <4>1. /\ IF Has(r.src, d) THEN Turns(r, x, r.id, d.profile[r.src], r.file) ELSE x = None
            /\ \A g \in Requests \ {h} : req'[g] = req[g]
        BY <1>5, <3>1
      <4>2. Has(r.src, d) => d.profile[r.src] \in Files \ {Absent}
        BY <1>3 DEF Has
      <4> QED
        BY <4>1, <4>2
    <3>2. CASE GoOn(h, [r EXCEPT !.body = Blank], 1)
      BY <1>4, <2>3, <3>2
    <3> QED
      BY <2>2, <3>1, <3>2
  <2>5. ReadEffect(r, x, d, e)
    BY <1>2, <2>1, <2>4 DEF ReadEffect
  <2> QED
    BY <1>1, <2>1, <2>4, <2>5, Apart DEF Effective, Effect
<1> QED
  BY <1>6, <1>7, <1>8 DEF Read

LEMMA AnyProfileEffective ==
  ASSUME IInv, NEW h \in Busy, AnyProfile(h)
  PROVE  Effective(h)
<1>1. PICK r, x, d, e : /\ r = req[h] /\ x = req'[h] /\ d = Disk /\ e = Disk'
                        /\ Pending(h) = StepOf(r) /\ r \in Work /\ Good(r)
                        /\ r.at \in 1 .. Len(Program(r.op))
  BY InService
<1>2. e = d /\ StepOf(r) = "any profile"
  BY <1>1, SameDisk DEF AnyProfile, At
<1>3. \A i : Exists(i) <=> Has(i, d)
  BY <1>1 DEF Exists, Has, Disk
<1>4. r.op \in {"list", "create"}
  <2>1. \A t : ~Leads(r.op, StepOf(r), t)
    BY <1>2 DEF Leads
  <2>2. ~Plain(r)
    BY <1>1, <2>1, Stand
  <2> QED
    BY <2>2 DEF Plain
<1>5. CASE \E i \in Ids : Exists(i)
  <2>1. Len(Bootstrap) = 6
    <3>1. Bootstrap = ListSteps
      BY Table DEF Program
    <3> QED
      BY <3>1 DEF ListSteps
  <2>2. GoOn(h, r, 6)
    BY <1>1, <1>5, <2>1 DEF AnyProfile
  <2>3. PICK q : q = [r EXCEPT !.at = @ + 6]
    OBVIOUS
  <2>4. q.op = r.op /\ q.id = r.id /\ q.body = r.body /\ q.file = r.file /\ q.at = r.at + 6
    BY <1>1, <2>3 DEF Work
  <2>5. /\ x = None \/ (x = q /\ r.at + 6 <= Len(Program(r.op)))
        /\ \A g \in Requests \ {h} : req'[g] = req[g]
    <3>1. IF r.at + 6 <= Len(Program(r.op)) THEN req' = [req EXCEPT ![h] = q]
          ELSE req' = [req EXCEPT ![h] = None]
      BY <2>2, <2>3 DEF GoOn
    <3> QED
      BY <1>1, <3>1 DEF IInv, RequestTypes, Busy
  <2>6. x # None => /\ x.op = r.op /\ x.op # "list" /\ x.at > 6 /\ StepOf(x) = "copy"
                    /\ x.id = r.id /\ x.body = r.body /\ x.file = r.file
    <3> SUFFICES ASSUME x # None PROVE /\ x.op # "list" /\ x.at > 6 /\ StepOf(x) = "copy"
      BY <2>4, <2>5
    <3>1. PICK p, n, k : p = Program(r.op) /\ Order(r.op, p, n) /\ k = r.at
      BY <1>1, InOrder, Operations
    <3>2. k = 1 /\ (n = 6 \/ p[7] = "copy")
      BY <1>1, <1>2, <3>1 DEF Order, StepOf
    <3>3. n \in Nat /\ Len(p) = n
      BY <3>1, Lengths DEF Order
    <3>4. 1 + 6 <= n /\ q.at = 1 + 6
      BY <2>4, <2>5, <3>1, <3>2, <3>3
    <3>5. n # 6
      BY <3>3, <3>4, Lengths
    <3>6. q.at = 7 /\ q.at > 6
      BY <3>4
    <3>7. r.op # "list"
      <4>1. Program("list") = ListSteps /\ Len(ListSteps) = 6
        BY Table DEF ListSteps
      <4> QED
        BY <3>1, <3>3, <3>5, <4>1
    <3> QED
      BY <2>4, <2>5, <3>1, <3>2, <3>5, <3>6, <3>7 DEF StepOf
  <2>7. ReadEffect(r, x, d, e)
    BY <1>2, <1>3, <1>4, <1>5, <2>6 DEF ReadEffect
  <2> QED
    BY <1>1, <1>2, <2>5, <2>7, Apart DEF Effective, Effect
<1>6. CASE ~\E i \in Ids : Exists(i)
  <2>1. PICK q \in Work : q = [r EXCEPT !.id = Default, !.base = Default]
    BY <1>1, Changed, DefaultAssumption DEF Names
  <2>2. q.op = r.op /\ q.at = r.at /\ q.id = Default /\ q.body = r.body /\ q.file = r.file
    BY <1>1, <2>1 DEF Work
  <2>3. GoOn(h, q, 1)
    BY <1>1, <1>6, <2>1 DEF AnyProfile
  <2>4. Turns(r, x, Default, r.body, r.file) /\ \A g \in Requests \ {h} : req'[g] = req[g]
    BY <1>1, <1>2, <2>2, <2>3, Turned
  <2>5. ReadEffect(r, x, d, e)
    BY <1>2, <1>3, <1>4, <1>6, <2>4 DEF ReadEffect
  <2> QED
    BY <1>1, <1>2, <2>4, <2>5, Apart DEF Effective, Effect
<1> QED
  BY <1>5, <1>6

LEMMA WriteActiveIDEffective ==
  ASSUME IInv, NEW h \in Busy, WriteActiveID(h)
  PROVE  Effective(h)
<1>1. PICK r, x, d, e : /\ r = req[h] /\ x = req'[h] /\ d = Disk /\ e = Disk'
                        /\ Pending(h) = StepOf(r) /\ r \in Work
  BY InService
<1>2. StepOf(r) = "write marker" /\ Keep(h)
  BY <1>1 DEF WriteActiveID, At
<1>3. /\ e.marker \in Overlay(d.marker, r.id)
      /\ e.live = d.live /\ e.tmp = d.tmp /\ e.profile = d.profile
  BY <1>1 DEF WriteActiveID, Disk
<1>4. Stays(r, x) /\ \A g \in Requests \ {h} : req'[g] = req[g]
  BY <1>1, <1>2, Keeps
<1>5. WriteEffect(r, x, d, e)
  BY <1>2, <1>3, <1>4 DEF WriteEffect
<1> QED
  BY <1>1, <1>2, <1>4, <1>5, Apart DEF Effective, Effect

LEMMA WriteConfEffective ==
  ASSUME IInv, NEW h \in Busy, WriteConf(h)
  PROVE  Effective(h)
<1>1. PICK r, x, d, e : /\ r = req[h] /\ x = req'[h] /\ d = Disk /\ e = Disk'
                        /\ Pending(h) = StepOf(r) /\ r \in Work /\ Good(r)
  BY InService
<1>2. PICK q \in Work : q = [r EXCEPT !.file = "none"]
  BY <1>1, Changed
<1>3. /\ q.op = r.op /\ q.at = r.at /\ q.id = r.id /\ q.body = r.body /\ q.file = "none"
      /\ q.base = r.base
  BY <1>1, <1>2 DEF Work
<1>4. GoOn(h, q, 1)
  BY <1>1, <1>2 DEF WriteConf
<1>5. Turns(r, x, r.id, r.body, "none") /\ \A g \in Requests \ {h} : req'[g] = req[g]
  BY <1>1, <1>3, <1>4, Turned
<1>6. /\ d.live = live /\ d.tmp = tmp /\ d.marker = marker /\ d.profile = profile
      /\ e.live = live' /\ e.tmp = tmp' /\ e.marker = marker' /\ e.profile = profile'
  BY <1>1 DEF Disk
<1>7. /\ e.marker = d.marker
      /\ e.tmp \in IF r.file = "tmp" THEN Overlay(d.tmp, r.body) ELSE {d.tmp}
      /\ e.live \in IF r.file = "live" THEN Overlay(d.live, r.body) ELSE {d.live}
      /\ \E c \in Overlay(IF r.id \in Ids THEN d.profile[r.id] ELSE Empty, r.body) :
           e.profile = IF r.file = "profile" THEN [d.profile EXCEPT ![r.id] = c]
                       ELSE d.profile
  BY <1>1, <1>6 DEF WriteConf
<1>8. Fits(r, StepOf(r))
  BY <1>1 DEF Good
<1>9. CASE StepOf(r) = "write tmp"
  <2>1. e.profile = d.profile
    BY <1>7, <1>8, <1>9 DEF Fits
  <2>2. WriteEffect(r, x, d, e)
    BY <1>5, <1>7, <1>9, <2>1 DEF WriteEffect
  <2> QED
    BY <1>1, <1>5, <1>9, <2>2, Apart DEF Effective, Effect
<1>10. CASE StepOf(r) = "write profile"
  <2>1. r.file \notin {"tmp", "live"} /\ r.id \in Ids
    BY <1>8, <1>10 DEF Fits
  <2>2. e.tmp = d.tmp /\ e.live = d.live
    BY <1>7, <2>1
  <2>3. IF r.file = "profile"
          THEN \E c \in Overlay(d.profile[r.id], r.body) :
                 e.profile = [d.profile EXCEPT ![r.id] = c]
          ELSE e.profile = d.profile
    BY <1>7, <2>1
  <2>4. WriteEffect(r, x, d, e)
    BY <1>5, <1>7, <1>10, <2>2, <2>3 DEF WriteEffect
  <2> QED
    BY <1>1, <1>5, <1>10, <2>4, Apart DEF Effective, Effect
<1> QED
  BY <1>1, <1>9, <1>10 DEF WriteConf, At

LEMMA OpenEffective ==
  ASSUME IInv, NEW h \in Busy, Open(h)
  PROVE  Effective(h)
<1>1. PICK r, x, d, e : /\ r = req[h] /\ x = req'[h] /\ d = Disk /\ e = Disk'
                        /\ Pending(h) = StepOf(r) /\ r \in Work /\ h \in Requests
                        /\ r.at \in 1 .. Len(Program(r.op))
  BY InService
<1>2. /\ d.live = live /\ d.tmp = tmp /\ d.marker = marker /\ d.profile = profile
      /\ e.live = live' /\ e.tmp = tmp' /\ e.marker = marker' /\ e.profile = profile'
  BY <1>1 DEF Disk
<1>3. e.live = d.live
  BY <1>2 DEF Open
<1>4. CASE At(h, "open marker")
  <2>1. StepOf(r) = "open marker" /\ e.marker = Empty /\ e.tmp = d.tmp /\ e.profile = d.profile
        /\ Keep(h)
    BY <1>1, <1>2, <1>4 DEF Open, At
  <2>2. Stays(r, x) /\ \A g \in Requests \ {h} : req'[g] = req[g]
    BY <1>1, <2>1, Keeps
  <2>3. OpenEffect(r, x, d, e)
    BY <1>3, <2>1, <2>2 DEF OpenEffect
  <2> QED
    BY <1>1, <2>1, <2>2, <2>3, Apart DEF Effective, Effect
<1>5. CASE At(h, "open profile")
  <2>1. /\ StepOf(r) = "open profile" /\ e.marker = d.marker /\ e.tmp = d.tmp
        /\ e.profile = [d.profile EXCEPT ![r.id] = Empty]
        /\ GoOn(h, [r EXCEPT !.file = "profile"], 1)
    BY <1>1, <1>2, <1>5 DEF Open, At
  <2>2. PICK q \in Work : q = [r EXCEPT !.file = "profile"]
    BY <1>1, Changed
  <2>3. /\ q.op = r.op /\ q.at = r.at /\ q.id = r.id /\ q.body = r.body /\ q.file = "profile"
        /\ q.base = r.base
    BY <1>1, <2>2 DEF Work
  <2>4. Turns(r, x, r.id, r.body, "profile") /\ \A g \in Requests \ {h} : req'[g] = req[g]
    <3>1. GoOn(h, q, 1)
      BY <2>1, <2>2
    <3> QED
      BY <1>1, <2>3, <3>1, Turned
  <2>5. OpenEffect(r, x, d, e)
    BY <1>3, <2>1, <2>4 DEF OpenEffect
  <2> QED
    BY <1>1, <2>1, <2>4, <2>5, Apart DEF Effective, Effect
<1>6. CASE At(h, "open tmp")
  <2>1. /\ StepOf(r) = "open tmp" /\ e.marker = d.marker /\ e.tmp = Empty
        /\ e.profile = d.profile
    BY <1>1, <1>2, <1>6 DEF Open, At
  <2>2. PICK b, y : /\ b = (OnTmp(h) # {}) /\ b \in BOOLEAN
                    /\ y = [r EXCEPT !.at = @ + 1, !.file = "tmp", !.mixed = b]
    OBVIOUS
  <2>3. req' = [g \in Requests |->
                  IF g = h THEN y
                  ELSE IF g \in OnTmp(h) THEN [req[g] EXCEPT !.mixed = TRUE]
                  ELSE req[g]]
    BY <1>1, <1>6, <2>1, <2>2 DEF Open, At
  <2>4. x = y
    BY <1>1, <2>3
  <2>5. /\ y.op = r.op /\ y.at = r.at + 1 /\ y.id = r.id /\ y.body = r.body /\ y.file = "tmp"
        /\ y.base = r.base
    BY <1>1, <2>2 DEF Work
  <2>6. PICK w, n, k : w = Program(r.op) /\ Order(r.op, w, n) /\ k = r.at
    BY <1>1, InOrder, Operations
  <2>7. r.at + 1 <= Len(Program(r.op))
    BY <1>1, <2>1, NotLast
  <2>8. StepOf(y) = "write tmp"
    <3>1. n \in Nat /\ Len(w) = n /\ k \in 1 .. n /\ k + 1 <= n
      BY <1>1, <2>6, <2>7, Lengths DEF Order
    <3>2. k + 1 \in 1 .. n
      BY <3>1, NextIn
    <3>3. w[k] = "open tmp"
      BY <1>1, <2>1, <2>6 DEF StepOf
    <3>4. w[k + 1] = "write tmp"
      BY <2>6, <3>1, <3>2, <3>3 DEF Order, Follows
    <3> QED
      BY <2>5, <2>6, <3>4 DEF StepOf
  <2>9. Plain(r) => Leads(r.op, StepOf(r), StepOf(y))
    BY <1>1, <2>5, <2>7, Leading
  <2>10. y # None
    <3>1. Progresses(h)
      BY <1>6, OpenTmpProgresses
    <3>2. PICK u \in Work : u = [r EXCEPT !.at = @ + 1]
      BY <1>1, Changed
    <3>3. PICK v \in Work : v = [u EXCEPT !.file = "tmp"]
      BY Changed
    <3>4. y = [v EXCEPT !.mixed = b]
      BY <1>1, <2>2, <3>2, <3>3 DEF Work
    <3>5. y \in Work
      BY <2>2, <3>4 DEF Work
    <3> QED
      BY <3>5, Operations
  <2>11. Turns(r, x, r.id, r.body, "tmp")
    BY <2>1, <2>4, <2>5, <2>8, <2>9, <2>10 DEF Turns
  <2>12. OpenEffect(r, x, d, e)
    BY <1>3, <2>1, <2>11 DEF OpenEffect
  <2>13. ASSUME NEW g \in Requests \ {h} PROVE Beside(r, req[g], req'[g])
    <3>1. PICK s, t : s = req[g] /\ t = req'[g]
      OBVIOUS
    <3>2. Same(s, t)
      <4>1. Progresses(h)
        BY <1>6, OpenTmpProgresses
      <4> QED
        BY <3>1, <4>1 DEF Progresses
    <3>3. s # None => t.file = s.file
      <4>1. CASE g \in OnTmp(h)
        <5>1. t = [s EXCEPT !.mixed = TRUE] /\ s \in Work
          BY <2>3, <3>1, <4>1 DEF OnTmp, Busy, IInv, RequestTypes
        <5> QED
          BY <5>1 DEF Work
      <4>2. CASE g \notin OnTmp(h)
        BY <2>3, <3>1, <4>2
      <4> QED
        BY <4>1, <4>2
    <3> QED
      BY <2>1, <3>1, <3>2, <3>3 DEF Beside
  <2> QED
    BY <1>1, <2>12, <2>13 DEF Effective, Effect
<1> QED
  BY <1>4, <1>5, <1>6 DEF Open

LEMMA RenameEffective ==
  ASSUME IInv, NEW h \in Busy, Rename(h)
  PROVE  Effective(h)
<1>1. PICK r, x, d, e : /\ r = req[h] /\ x = req'[h] /\ d = Disk /\ e = Disk'
                        /\ Pending(h) = StepOf(r) /\ r \in Work /\ h \in Requests
                        /\ r.at \in 1 .. Len(Program(r.op))
  BY InService
<1>2. /\ d.live = live /\ d.tmp = tmp /\ d.marker = marker /\ d.profile = profile
      /\ e.live = live' /\ e.tmp = tmp' /\ e.marker = marker' /\ e.profile = profile'
  BY <1>1 DEF Disk
<1>3. StepOf(r) = "rename"
  BY <1>1 DEF Rename, At
<1>4. \A g \in Requests \ {h} : Beside(r, req[g], req'[g])
  BY <1>3, RenameProgresses DEF Progresses, Beside
<1>5. CASE tmp = Absent
  <2>1. e = d /\ End(h)
    BY <1>1, <1>5 DEF Rename, Disk
  <2>2. x = None
    BY <1>1, <2>1, Ended
  <2>3. MoveEffect(r, x, d, e)
    BY <1>2, <1>3, <1>5, <2>1, <2>2 DEF MoveEffect
  <2> QED
    BY <1>1, <1>4, <2>3 DEF Effective, Effect
<1>6. CASE tmp # Absent
  <2>1. PICK q :
           /\ q \in Work /\ Same(r, q) /\ q.file = "none"
           /\ IF q.at = Len(Program(q.op)) THEN x = None ELSE x = [q EXCEPT !.at = @ + 1]
           /\ live' = tmp /\ tmp' = Absent /\ UNCHANGED <<marker, profile>>
    BY <1>1, <1>6, RenameMoves
  <2>2. q.op = r.op /\ q.at = r.at /\ q.id = r.id /\ q.body = r.body /\ q.base = r.base
    BY <2>1 DEF Same
  <2>3. PICK p, w, n, k : /\ p = [q EXCEPT !.at = @ + 1]
                          /\ w = Program(r.op) /\ Order(r.op, w, n) /\ k = r.at
    BY <1>1, InOrder, Operations
  <2>4. /\ p.op = r.op /\ p.at = r.at + 1 /\ p.id = r.id /\ p.body = r.body
        /\ p.base = r.base /\ p.file = "none" /\ p \in Work
    <3>1. q \in Work
      BY <2>1
    <3>2. p \in Work
      BY <2>3, <3>1, Changed
    <3> QED
      BY <2>1, <2>2, <2>3, <3>1, <3>2 DEF Work
  <2>5. n \in Nat /\ Len(w) = n /\ k \in 1 .. n
    BY <1>1, <2>3, Lengths DEF Order
  <2>6. Plain(r) => IF k + 1 <= n THEN Leads(r.op, StepOf(r), StepOf(p))
                    ELSE Leads(r.op, StepOf(r), "end")
    BY <1>1, <2>3, <2>4, <2>5, Leading
  <2>7. Turns(r, x, r.id, r.body, "none")
    <3>1. CASE k = n
      <4>1. x = None
        BY <2>1, <2>2, <2>3, <2>5, <3>1
      <4>2. ~(k + 1 <= n)
        BY <2>5, <3>1
      <4> QED
        BY <2>6, <4>1, <4>2 DEF Turns
    <3>2. CASE k # n
      <4>1. x = p
        BY <2>1, <2>2, <2>3, <2>5, <3>2
      <4>2. k + 1 <= n /\ k + 1 \in 1 .. n
        BY <2>5, <3>2, NextIn, Lengths
      <4>3. StepOf(p) # "end"
        <5>1. w[k + 1] \in AllSteps
          BY <2>3, <2>5, <4>2, ElementOfSeq DEF Order
        <5> QED
          BY <2>3, <2>4, <5>1 DEF AllSteps, StepOf
      <4> QED
        BY <1>3, <2>4, <2>6, <4>1, <4>2, <4>3, Operations DEF Turns
    <3> QED
      BY <3>1, <3>2
  <2>8. MoveEffect(r, x, d, e)
    BY <1>2, <1>3, <1>6, <2>1, <2>7 DEF MoveEffect
  <2> QED
    BY <1>1, <1>4, <2>8 DEF Effective, Effect
<1> QED
  BY <1>5, <1>6

LEMMA Sixth ==
  \A m \in Nat : \A k \in 1 .. m : ~(k > 6) =>
    k = 1 \/ k = 2 \/ k = 3 \/ k = 4 \/ k = 5 \/ k = 6
OBVIOUS

LEMMA RemoveEffective ==
  ASSUME IInv, NEW h \in Busy, Remove(h)
  PROVE  Effective(h)
<1>1. PICK r, x, d, e : /\ r = req[h] /\ x = req'[h] /\ d = Disk /\ e = Disk'
                        /\ Pending(h) = StepOf(r) /\ r \in Work /\ h \in Requests
                        /\ r.at \in 1 .. Len(Program(r.op))
  BY InService
<1>2. /\ d.live = live /\ d.tmp = tmp /\ d.marker = marker /\ d.profile = profile
      /\ e.live = live' /\ e.tmp = tmp' /\ e.marker = marker' /\ e.profile = profile'
  BY <1>1 DEF Disk
<1>3. StepOf(r) = "remove" /\ x = None
  BY <1>1 DEF Remove, At
<1>4. r.op = "delete"
  <2>1. CASE Plain(r)
    <3>1. \E t : Leads(r.op, StepOf(r), t)
      BY <1>1, <2>1, Stand
    <3> QED
      BY <1>3, <3>1 DEF Leads
  <2>2. CASE ~Plain(r)
    <3>1. PICK p, k : p = Program(r.op) /\ k = r.at /\ p[k] = "remove" /\ k \in 1 .. Len(p)
      BY <1>1, <1>3 DEF StepOf
    <3>2. CASE r.op = "list"
      <4>1. p = ListSteps /\ Len(ListSteps) = 6
        BY <3>1, <3>2, Table DEF ListSteps
      <4>2. k = 1 \/ k = 2 \/ k = 3 \/ k = 4 \/ k = 5 \/ k = 6
        BY <3>1, <4>1, Sixth
      <4>3. /\ p[1] # "remove" /\ p[2] # "remove" /\ p[3] # "remove" /\ p[4] # "remove"
            /\ p[5] # "remove" /\ p[6] # "remove"
        BY <4>1 DEF ListSteps
      <4> QED
        BY <3>1, <4>2, <4>3
    <3>3. CASE r.op = "create"
      <4>1. p = CreateSteps
        BY <3>1, <3>3, Table
      <4>2. ~(k > 6)
        BY <2>2, <3>1, <3>3 DEF Plain
      <4>3. k = 1 \/ k = 2 \/ k = 3 \/ k = 4 \/ k = 5 \/ k = 6
        BY <3>1, <4>2, Sixth, <4>1 DEF CreateSteps
      <4>4. /\ p[1] # "remove" /\ p[2] # "remove" /\ p[3] # "remove" /\ p[4] # "remove"
            /\ p[5] # "remove" /\ p[6] # "remove"
        BY <4>1 DEF CreateSteps
      <4> QED
        BY <3>1, <4>3, <4>4
    <3> QED
      BY <2>2, <3>2, <3>3 DEF Plain
  <2> QED
    BY <2>1, <2>2
<1>5. MoveEffect(r, x, d, e)
  <2>1. /\ e.profile = [d.profile EXCEPT ![r.id] = Absent]
        /\ e.live = d.live /\ e.tmp = d.tmp /\ e.marker = d.marker
    BY <1>1, <1>2 DEF Remove
  <2> QED
    BY <1>3, <1>4, <2>1 DEF MoveEffect
<1>6. ASSUME NEW g \in Requests \ {h} PROVE Beside(r, req[g], req'[g])
  <2>1. PICK y, z : y = req[g] /\ z = req'[g]
    OBVIOUS
  <2>2. /\ Same(y, z)
        /\ y # None => z.file = IF y.file = "profile" /\ y.id = r.id THEN "gone" ELSE y.file
    BY <1>1, <2>1, RemoveMoves
  <2> QED
    BY <1>3, <2>1, <2>2 DEF Beside
<1> QED
  BY <1>1, <1>5, <1>6 DEF Effective, Effect

LEMMA Effects ==
  ASSUME IInv, NEW h \in Requests, Step(h)
  PROVE  h \in Busy /\ Effective(h)
<1>1. h \in Busy
  BY DEF Step, Test, ReadMarker, AnyProfile, Read, PickId, Open, WriteConf,
         WriteActiveID, Rename, Remove, At
<1> QED
  BY <1>1, TestEffective, ReadMarkerEffective, AnyProfileEffective, ReadEffective,
     PickIdEffective, OpenEffective, WriteConfEffective, WriteActiveIDEffective,
     RenameEffective, RemoveEffective DEF Step

-----------------------------------------------------------------------------
(* Requests that do not conflict, and an activation that is alone. *)

\* What a request brings with it.
Wants(r) ==
  /\ r.body # Absent
  /\ r.op \in {"update", "delete"} => r.base = r.id
  /\ r.op = "save" => r.body \in Bodies

\* A save has the marker's profile, and has put what it writes into the live
\* file before it goes to that profile.
SaveCalm(r, d) ==
  /\ r.base = d.marker
  /\ StepOf(r) = "write tmp" => d.tmp = Empty /\ r.file = "tmp"
  /\ StepOf(r) = "rename" => d.tmp = r.body
  /\ StepOf(r) \notin {"open tmp", "write tmp", "rename"} => d.live = r.body
  /\ StepOf(r) \in {"stat active", "open profile", "write profile"} => r.id = d.marker
  /\ StepOf(r) = "write profile" => r.file = "profile" /\ d.profile[d.marker] = Empty

\* An update writes back what it has read, and the active profile is what is live.
UpdateCalm(r, d) ==
  /\ StepOf(r) # "read profile" => Has(r.id, d) /\ (r.id = d.marker => r.body = d.live)
  /\ StepOf(r) = "write profile" =>
       r.file = "profile" /\ (r.id = d.marker => d.profile[d.marker] = Empty)
  /\ StepOf(r) # "write profile" /\ r.id = d.marker => d.live = d.profile[d.marker]

\* A new profile has a name of its own until it is written or deleted.
NewCalm(r, d) ==
  /\ r.op = "create" => StepOf(r) = "any profile" \/ r.at > 6
  /\ StepOf(r) = "open profile" => r.id # d.marker /\ d.profile[r.id] = Absent
  /\ StepOf(r) = "write profile" =>
       r.file = "gone" \/ (r.id # d.marker /\ d.profile[r.id] = Empty)

Calm(r, d) ==
  /\ r.op = "save" => SaveCalm(r, d)
  /\ r.op = "update" => UpdateCalm(r, d)
  /\ r.op = "delete" => (StepOf(r) = "remove" => r.id # d.marker)
  /\ r.op = "list" => StepOf(r) = "any profile"
  /\ r.op \in {"create", "import"} => NewCalm(r, d)

\* The requests that may have the live file and the active profile apart.
Between(r, d) == r.op = "save" \/ (r.op = "update" /\ r.id = d.marker)

\* An update may have read a profile while it was being made.
Reads(y, z) ==
  /\ y.op = "update" /\ StepOf(y) # "read profile"
  /\ z.op \in {"create", "import"} /\ StepOf(z) = "write profile" /\ z.file = "profile"
  /\ y.id = z.id

\* With the requests q in service, and none that conflict, the files are d.
Agree(q, d) ==
  /\ Has(d.marker, d)
  /\ \A g \in Requests : q[g] # None => Calm(q[g], d)
  /\ (\A g \in Requests : q[g] # None => ~Between(q[g], d)) => d.live = d.profile[d.marker]
  /\ \A g, k \in Requests :
       q[g] # None /\ q[k] # None /\ Reads(q[g], q[k]) => q[g].body = Empty

\* An activation that nothing disturbs brings marker, profile and live file
\* together, one after the other.
Activates(r, d) ==
  /\ StepOf(r) # "stat" => Has(r.id, d)
  /\ StepOf(r) = "write marker" => d.marker = Empty
  /\ StepOf(r) \notin {"stat", "open marker", "write marker"} => d.marker = r.id
  /\ StepOf(r) \in {"open tmp", "write tmp", "rename"} => r.body = d.profile[r.id]
  /\ StepOf(r) = "write tmp" => d.tmp = Empty /\ r.file = "tmp"
  /\ StepOf(r) = "rename" => d.tmp = r.body

Together(d) == Has(d.marker, d) /\ d.live = d.profile[d.marker]

\* What a step of an update, and of a request that makes a new profile, does.
UpdateGoes(r, x, d, e) ==
  /\ e.marker = d.marker /\ e.live = d.live /\ e.tmp = d.tmp
  /\ Has(e.marker, e) /\ StepOf(r) \notin {"rename", "remove"}
  /\ \A i \in Ids : i # r.id => e.profile[i] = d.profile[i]
  /\ e.profile[r.id] # d.profile[r.id] => StepOf(r) # "read profile" /\ Has(r.id, d)
  /\ r.body = Empty /\ d.profile[r.id] = Empty => e.profile[r.id] = Empty
  /\ x = None /\ r.id = d.marker => e.live = e.profile[e.marker]
  /\ x # None => /\ x.op = "update" /\ UpdateCalm(x, e) /\ x.id = r.id
                 /\ StepOf(x) # "read profile"
                 /\ x.body = IF StepOf(r) = "read profile" THEN d.profile[r.id]
                             ELSE r.body

NewGoes(r, x, d, e) ==
  /\ e.marker = d.marker /\ e.live = d.live /\ e.tmp = d.tmp
  /\ StepOf(r) \notin {"rename", "remove"}
  /\ \A i \in Ids : e.profile[i] # d.profile[i] => i = r.id /\ i # d.marker
  /\ \A i \in Ids : e.profile[i] = Absent => d.profile[i] = Absent
  /\ x # None => /\ x.op = r.op /\ NewCalm(x, e)
                 /\ StepOf(x) = "write profile" => ~Has(x.id, d)

LEMMA WantsOn ==
  ASSUME NEW r, NEW x, NEW d, NEW e, Effect(r, x, d, e), Wants(r), d.live # Absent,
         Plain(r) => \E t : Leads(r.op, StepOf(r), t)
  PROVE  e.live # Absent /\ (x # None => Wants(x))
<1>1. \A o, n : o # Absent /\ n # Absent => Absent \notin Overlay(o, n)
  BY NamesAssumption DEF Overlay
<1>2. r.op \in {"update", "delete", "save"} =>
        /\ StepOf(r) \notin {"pick id", "any profile", "copy", "read live"}
        /\ StepOf(r) = "read profile" => r.op = "update"
        /\ StepOf(r) = "read marker" => r.op = "save"
  BY DEF Leads, Plain
<1>3. CASE TestEffect(r, x, d, e)
  BY <1>2, <1>3 DEF TestEffect, Stays, Turns, Wants
<1>4. CASE ReadEffect(r, x, d, e)
  BY <1>2, <1>4 DEF ReadEffect, Turns, Wants, Has
<1>5. CASE OpenEffect(r, x, d, e)
  BY <1>2, <1>5 DEF OpenEffect, Stays, Turns, Wants
<1>6. CASE WriteEffect(r, x, d, e)
  BY <1>1, <1>2, <1>6 DEF WriteEffect, Stays, Turns, Wants
<1>7. CASE MoveEffect(r, x, d, e)
  BY <1>2, <1>7 DEF MoveEffect, Turns, Wants
<1> QED
  BY <1>3, <1>4, <1>5, <1>6, <1>7 DEF Effect

LEMMA SaveGoesOn ==
  ASSUME NEW r, NEW x, NEW d, NEW e, r.op = "save", \E t : Leads(r.op, StepOf(r), t),
         Effect(r, x, d, e), SaveCalm(r, d), r.body # Absent, Has(d.marker, d),
         d.profile \in [Ids -> Files]
  PROVE  /\ e.marker = d.marker /\ Has(e.marker, e)
         /\ \A i \in Ids : i # d.marker => e.profile[i] = d.profile[i]
         /\ x = None => e.live = e.profile[e.marker]
         /\ x # None => x.op = "save" /\ SaveCalm(x, e)
<1>1. Plain(r) /\ d.marker \in Ids /\ d.marker # Empty
  BY NamesAssumption DEF Plain, Has
<1>2. \A n : Overlay(Empty, n) = {n}
  BY DEF Overlay
<1>3. CASE StepOf(r) = "open tmp"
  <2>1. OpenEffect(r, x, d, e)
    BY <1>3 DEF Effect, TestEffect, ReadEffect, WriteEffect, MoveEffect
  <2>2. /\ e.live = d.live /\ e.tmp = Empty /\ e.marker = d.marker /\ e.profile = d.profile
        /\ Turns(r, x, r.id, r.body, "tmp")
    BY <1>3, <2>1 DEF OpenEffect
  <2>3. /\ x # None /\ StepOf(x) = "write tmp" /\ x.op = r.op /\ x.base = r.base
        /\ x.file = "tmp" /\ x.body = r.body
    BY <1>1, <1>3, <2>2 DEF Turns, Leads
  <2>4. SaveCalm(x, e)
    BY <2>2, <2>3 DEF SaveCalm
  <2>5. e.marker = d.marker /\ Has(e.marker, e)
    BY <2>2 DEF Has
  <2> QED
    BY <2>2, <2>3, <2>4, <2>5
<1>4. CASE StepOf(r) = "write tmp"
  <2>1. WriteEffect(r, x, d, e)
    BY <1>4 DEF Effect, TestEffect, ReadEffect, OpenEffect, MoveEffect
  <2>2. r.base = d.marker /\ d.tmp = Empty /\ r.file = "tmp"
    BY <1>4 DEF SaveCalm
  <2>3. /\ e.live = d.live /\ e.tmp = r.body /\ e.marker = d.marker /\ e.profile = d.profile
        /\ Turns(r, x, r.id, r.body, "none")
    BY <1>2, <1>4, <2>1, <2>2 DEF WriteEffect
  <2>4. /\ x # None /\ StepOf(x) = "rename" /\ x.op = r.op /\ x.base = r.base
        /\ x.body = r.body
    BY <1>1, <1>4, <2>3 DEF Turns, Leads
  <2>5. SaveCalm(x, e)
    BY <2>2, <2>3, <2>4 DEF SaveCalm
  <2>6. e.marker = d.marker /\ Has(e.marker, e)
    BY <2>3 DEF Has
  <2> QED
    BY <2>3, <2>4, <2>5, <2>6
<1>5. CASE StepOf(r) = "rename"
  BY <1>1, <1>5 DEF Effect, TestEffect, ReadEffect, OpenEffect, WriteEffect, MoveEffect,
                    Turns, Leads, SaveCalm, Has
<1>6. CASE StepOf(r) = "read marker"
  BY <1>1, <1>6 DEF Effect, TestEffect, ReadEffect, OpenEffect, WriteEffect, MoveEffect,
                    Turns, Leads, SaveCalm, Has
<1>7. CASE StepOf(r) = "stat active"
  BY <1>1, <1>7 DEF Effect, TestEffect, ReadEffect, OpenEffect, WriteEffect, MoveEffect,
                    Stays, Turns, Leads, SaveCalm, Has
<1>8. CASE StepOf(r) = "open profile"
  <2>1. OpenEffect(r, x, d, e)
    BY <1>8 DEF Effect, TestEffect, ReadEffect, WriteEffect, MoveEffect
  <2>2. /\ e.live = d.live /\ e.tmp = d.tmp /\ e.marker = d.marker
        /\ e.profile = [d.profile EXCEPT ![r.id] = Empty]
        /\ Turns(r, x, r.id, r.body, "profile")
    BY <1>8, <2>1 DEF OpenEffect
  <2>3. /\ x # None /\ StepOf(x) = "write profile" /\ x.op = r.op /\ x.base = r.base
        /\ x.file = "profile" /\ x.body = r.body /\ x.id = r.id
    BY <1>1, <1>8, <2>2 DEF Turns, Leads
  <2>4. r.id = d.marker /\ r.base = d.marker /\ d.live = r.body
    BY <1>8 DEF SaveCalm
  <2>5. /\ e.profile[d.marker] = Empty
        /\ \A i \in Ids : i # d.marker => e.profile[i] = d.profile[i]
    BY <1>1, <2>2, <2>4
  <2>6. SaveCalm(x, e)
    BY <2>2, <2>3, <2>4, <2>5 DEF SaveCalm
  <2>7. e.marker = d.marker /\ Has(e.marker, e)
    BY <1>1, <2>2, <2>5, NamesAssumption DEF Has
  <2> QED
    BY <2>2, <2>3, <2>5, <2>6, <2>7
<1>9. CASE StepOf(r) = "write profile"
  <2>1. WriteEffect(r, x, d, e)
    BY <1>9 DEF Effect, TestEffect, ReadEffect, OpenEffect, MoveEffect
  <2>2. /\ r.id = d.marker /\ d.live = r.body /\ r.file = "profile"
        /\ d.profile[d.marker] = Empty
    BY <1>9 DEF SaveCalm
  <2>3. /\ e.live = d.live /\ e.marker = d.marker
        /\ e.profile = [d.profile EXCEPT ![r.id] = r.body]
        /\ Turns(r, x, r.id, r.body, "none")
    <3>1. Overlay(d.profile[r.id], r.body) = {r.body}
      BY <1>2, <2>2
    <3> QED
      BY <1>9, <2>1, <2>2, <3>1 DEF WriteEffect
  <2>4. x = None
    BY <1>1, <1>9, <2>3 DEF Turns, Leads
  <2>5. /\ e.profile[d.marker] = r.body
        /\ \A i \in Ids : i # d.marker => e.profile[i] = d.profile[i]
    BY <1>1, <2>2, <2>3
  <2> QED
    BY <1>1, <2>2, <2>3, <2>4, <2>5 DEF Has
<1> QED
  BY <1>3, <1>4, <1>5, <1>6, <1>7, <1>8, <1>9 DEF Leads

LEMMA UpdateGoesOn ==
  ASSUME NEW r, NEW x, NEW d, NEW e, r.op = "update", \E t : Leads(r.op, StepOf(r), t),
         Effect(r, x, d, e), UpdateCalm(r, d), r.body # Absent, Has(d.marker, d),
         r.id \in Ids, d.profile \in [Ids -> Files]
  PROVE  UpdateGoes(r, x, d, e)
<1>1. Plain(r) /\ d.marker \in Ids /\ StepOf(r) \notin {"rename", "remove"}
  BY NamesAssumption DEF Plain, Has, Leads
<1>2. \A n : Overlay(Empty, n) = {n}
  BY DEF Overlay
<1>3. CASE StepOf(r) = "read profile"
  <2>1. ReadEffect(r, x, d, e)
    BY <1>3 DEF Effect, TestEffect, OpenEffect, WriteEffect, MoveEffect
  <2>2. /\ e = d
        /\ IF Has(r.id, d) THEN Turns(r, x, r.id, d.profile[r.id], r.file) ELSE x = None
    BY <1>3, <2>1 DEF ReadEffect
  <2>3. Has(r.id, d) => /\ x # None /\ StepOf(x) = "open profile" /\ x.op = r.op
                        /\ x.body = d.profile[r.id] /\ x.id = r.id
    BY <1>1, <1>3, <2>2 DEF Turns, Leads
  <2>4. r.id = d.marker => d.live = d.profile[d.marker]
    BY <1>3 DEF UpdateCalm
  <2>5. x # None => Has(r.id, d)
    BY <2>2
  <2>6. x # None => UpdateCalm(x, e)
    BY <2>2, <2>3, <2>4, <2>5 DEF UpdateCalm
  <2> QED
    BY <1>1, <1>3, <2>2, <2>3, <2>4, <2>5, <2>6 DEF UpdateGoes
<1>4. CASE StepOf(r) = "open profile"
  <2>1. OpenEffect(r, x, d, e)
    BY <1>4 DEF Effect, TestEffect, ReadEffect, WriteEffect, MoveEffect
  <2>2. /\ e.live = d.live /\ e.tmp = d.tmp /\ e.marker = d.marker
        /\ e.profile = [d.profile EXCEPT ![r.id] = Empty]
        /\ Turns(r, x, r.id, r.body, "profile")
    BY <1>4, <2>1 DEF OpenEffect
  <2>3. /\ x # None /\ StepOf(x) = "write profile" /\ x.op = r.op
        /\ x.file = "profile" /\ x.body = r.body /\ x.id = r.id
    BY <1>1, <1>4, <2>2 DEF Turns, Leads
  <2>4. Has(r.id, d) /\ (r.id = d.marker => r.body = d.live)
    BY <1>4 DEF UpdateCalm
  <2>5. /\ e.profile[r.id] = Empty
        /\ \A i \in Ids : i # r.id => e.profile[i] = d.profile[i]
    BY <1>1, <2>2
  <2>6. Has(r.id, e) /\ Has(e.marker, e)
    BY <1>1, <2>2, <2>5, NamesAssumption DEF Has
  <2>7. UpdateCalm(x, e)
    BY <2>2, <2>3, <2>4, <2>5, <2>6 DEF UpdateCalm
  <2> QED
    BY <1>1, <1>4, <2>2, <2>3, <2>4, <2>5, <2>6, <2>7 DEF UpdateGoes
<1>5. CASE StepOf(r) = "write profile"
  <2>1. WriteEffect(r, x, d, e)
    BY <1>5 DEF Effect, TestEffect, ReadEffect, OpenEffect, MoveEffect
  <2>2. /\ r.file = "profile" /\ Has(r.id, d)
        /\ r.id = d.marker => d.profile[d.marker] = Empty /\ r.body = d.live
    BY <1>5 DEF UpdateCalm
  <2>3. PICK c \in Overlay(d.profile[r.id], r.body) :
          e.profile = [d.profile EXCEPT ![r.id] = c]
    BY <1>5, <2>1, <2>2 DEF WriteEffect
  <2>4. /\ e.live = d.live /\ e.tmp = d.tmp /\ e.marker = d.marker
        /\ Turns(r, x, r.id, r.body, "none")
    BY <1>5, <2>1 DEF WriteEffect
  <2>5. x = None
    BY <1>1, <1>5, <2>4 DEF Turns, Leads
  <2>6. /\ e.profile[r.id] = c
        /\ \A i \in Ids : i # r.id => e.profile[i] = d.profile[i]
    BY <2>3
  <2>7. c # Absent /\ (d.profile[r.id] = Empty => c = r.body)
    BY NamesAssumption DEF Overlay
  <2>8. Has(e.marker, e)
    BY <1>1, <2>4, <2>6, <2>7 DEF Has
  <2> QED
    BY <1>1, <1>5, <2>2, <2>4, <2>5, <2>6, <2>7, <2>8 DEF UpdateGoes
<1> QED
  BY <1>3, <1>4, <1>5 DEF Leads

LEMMA NewGoesOn ==
  ASSUME NEW r, NEW x, NEW d, NEW e, r.op \in {"create", "import"}, r.at \in Nat,
         Plain(r) => \E t : Leads(r.op, StepOf(r), t),
         Effect(r, x, d, e), NewCalm(r, d), r.body # Absent, Has(d.marker, d),
         Fits(r, StepOf(r)), d.profile \in [Ids -> Files]
  PROVE  NewGoes(r, x, d, e)
<1>1. d.marker \in Ids
  BY DEF Has
<1>2. CASE StepOf(r) = "any profile"
  <2>1. ReadEffect(r, x, d, e)
    BY <1>2 DEF Effect, TestEffect, OpenEffect, WriteEffect, MoveEffect
  <2>2. /\ e = d
        /\ x # None => x.op = r.op /\ x.at > 6 /\ StepOf(x) = "copy"
    BY <1>1, <1>2, <2>1 DEF ReadEffect, Has
  <2>3. x # None => NewCalm(x, e)
    BY <2>2 DEF NewCalm
  <2> QED
    BY <1>2, <2>2, <2>3 DEF NewGoes
<1>3. CASE StepOf(r) # "any profile"
  <2>1. /\ Plain(r) /\ \E t : Leads(r.op, StepOf(r), t)
        /\ r.op = "create" => r.at > 6
    BY <1>3 DEF NewCalm, Plain
  <2>2. r.op = "create" => r.at + 1 > 6
    BY <2>1, Succession
  <2>3. CASE StepOf(r) = "copy"
    <3>1. ReadEffect(r, x, d, e)
      BY <2>3 DEF Effect, TestEffect, OpenEffect, WriteEffect, MoveEffect
    <3>2. e = d /\ \E b : x = None \/ Turns(r, x, r.id, b, r.file)
      BY <2>3, <3>1 DEF ReadEffect
    <3>3. x # None => StepOf(x) = "pick id" /\ x.op = r.op /\ x.at = r.at + 1
      BY <2>1, <2>3, <3>2 DEF Turns, Leads
    <3>4. x # None => NewCalm(x, e)
      BY <2>2, <3>3 DEF NewCalm
    <3> QED
      BY <2>3, <3>2, <3>3, <3>4 DEF NewGoes
  <2>4. CASE StepOf(r) = "pick id"
    <3>1. ReadEffect(r, x, d, e)
      BY <2>4 DEF Effect, TestEffect, OpenEffect, WriteEffect, MoveEffect
    <3>2. e = d /\ (x = None \/ \E i \in Ids : ~Has(i, d) /\ Turns(r, x, i, r.body, r.file))
      BY <2>4, <3>1 DEF ReadEffect
    <3>3. x # None => /\ StepOf(x) = "open profile" /\ x.op = r.op /\ x.at = r.at + 1
                      /\ x.id \in Ids /\ ~Has(x.id, d)
      BY <2>1, <2>4, <3>2 DEF Turns, Leads
    <3>4. x # None => NewCalm(x, e)
      BY <2>2, <3>2, <3>3 DEF NewCalm, Has
    <3> QED
      BY <2>4, <3>2, <3>3, <3>4 DEF NewGoes
  <2>5. CASE StepOf(r) = "open profile"
    <3>1. OpenEffect(r, x, d, e)
      BY <2>5 DEF Effect, TestEffect, ReadEffect, WriteEffect, MoveEffect
    <3>2. /\ e.live = d.live /\ e.tmp = d.tmp /\ e.marker = d.marker
          /\ e.profile = [d.profile EXCEPT ![r.id] = Empty]
          /\ Turns(r, x, r.id, r.body, "profile")
      BY <2>5, <3>1 DEF OpenEffect
    <3>3. /\ x # None /\ StepOf(x) = "write profile" /\ x.op = r.op /\ x.at = r.at + 1
          /\ x.id = r.id
      BY <2>1, <2>5, <3>2 DEF Turns, Leads
    <3>4. r.id # d.marker /\ d.profile[r.id] = Absent /\ r.id \in Ids
      BY <2>5 DEF NewCalm, Fits
    <3>5. /\ e.profile[r.id] = Empty
          /\ \A i \in Ids : i # r.id => e.profile[i] = d.profile[i]
      BY <3>2, <3>4
    <3>6. NewCalm(x, e)
      BY <2>2, <3>2, <3>3, <3>4, <3>5 DEF NewCalm
    <3> QED
      BY <2>5, <3>2, <3>3, <3>4, <3>5, <3>6, NamesAssumption DEF Has, NewGoes
  <2>6. CASE StepOf(r) = "write profile"
    <3>1. WriteEffect(r, x, d, e)
      BY <2>6 DEF Effect, TestEffect, ReadEffect, OpenEffect, MoveEffect
    <3>2. /\ e.live = d.live /\ e.tmp = d.tmp /\ e.marker = d.marker
          /\ Turns(r, x, r.id, r.body, "none")
      BY <2>6, <3>1 DEF WriteEffect
    <3>3. x = None
      BY <2>1, <2>6, <3>2 DEF Turns, Leads
    <3>4. CASE r.file = "profile"
      <4>1. r.id # d.marker /\ r.id \in Ids /\ d.profile[r.id] = Empty
        BY <2>6, <3>4 DEF NewCalm, Fits
      <4>2. PICK c \in Overlay(d.profile[r.id], r.body) :
              e.profile = [d.profile EXCEPT ![r.id] = c]
        BY <2>6, <3>1, <3>4 DEF WriteEffect
      <4>3. c = r.body
        BY <4>1 DEF Overlay
      <4>4. /\ e.profile[r.id] = c
            /\ \A i \in Ids : i # r.id => e.profile[i] = d.profile[i]
        BY <4>1, <4>2
      <4> QED
        BY <2>6, <3>2, <3>3, <4>1, <4>3, <4>4 DEF NewGoes
    <3>5. CASE r.file # "profile"
      <4>1. e.profile = d.profile
        BY <2>6, <3>1, <3>5 DEF WriteEffect
      <4> QED
        BY <2>6, <3>2, <3>3, <4>1 DEF NewGoes
    <3> QED
      BY <3>4, <3>5
  <2> QED
    BY <2>1, <2>3, <2>4, <2>5, <2>6 DEF Leads
<1> QED
  BY <1>2, <1>3

LEMMA DeleteGoesOn ==
  ASSUME NEW r, NEW x, NEW d, NEW e, r.op = "delete", \E t : Leads(r.op, StepOf(r), t),
         Effect(r, x, d, e), StepOf(r) = "remove" => r.id # d.marker,
         d.profile \in [Ids -> Files]
  PROVE  /\ e.marker = d.marker /\ e.live = d.live /\ e.tmp = d.tmp
         /\ StepOf(r) # "rename"
         /\ \A i \in Ids : e.profile[i] = d.profile[i] \/
                           (i = r.id /\ e.profile[i] = Absent /\ StepOf(r) = "remove")
         /\ x # None => x.op = r.op /\ (StepOf(x) = "remove" => x.id # e.marker)
<1>1. Plain(r)
  BY DEF Plain
<1>2. CASE StepOf(r) = "not active"
  <2>1. TestEffect(r, x, d, e)
    BY <1>2 DEF Effect, ReadEffect, OpenEffect, WriteEffect, MoveEffect
  <2>2. e = d /\ IF d.marker # r.id THEN Turns(r, x, r.id, r.body, r.file) ELSE x = None
    BY <1>2, <2>1 DEF TestEffect, Stays
  <2>3. x # None => x.op = r.op /\ x.id = r.id /\ d.marker # r.id
    BY <2>2 DEF Turns
  <2> QED
    BY <1>2, <2>2, <2>3
<1>3. CASE StepOf(r) = "remove"
  <2>1. MoveEffect(r, x, d, e)
    BY <1>3 DEF Effect, TestEffect, ReadEffect, OpenEffect, WriteEffect
  <2>2. /\ e.profile = [d.profile EXCEPT ![r.id] = Absent]
        /\ e.live = d.live /\ e.tmp = d.tmp /\ e.marker = d.marker
        /\ x = None
    BY <1>3, <2>1 DEF MoveEffect
  <2> QED
    BY <1>3, <2>2
<1> QED
  BY <1>2, <1>3 DEF Leads

-----------------------------------------------------------------------------
(* What one request does leaves the others in agreement with the files. *)

LEMMA ListGoesOn ==
  ASSUME NEW r, NEW x, NEW d, NEW e, r.op = "list", StepOf(r) = "any profile",
         Effect(r, x, d, e), Has(d.marker, d)
  PROVE  e = d /\ x = None
<1>1. ReadEffect(r, x, d, e)
  BY DEF Effect, TestEffect, OpenEffect, WriteEffect, MoveEffect
<1>2. \E i \in Ids : Has(i, d)
  BY DEF Has
<1> QED
  BY <1>1, <1>2 DEF ReadEffect

LEMMA OpenProfile ==
  ASSUME NEW y, Good(y), StepOf(y) = "write profile"
  PROVE  y.id \in Ids /\ y.file \in {"profile", "gone"}
<1>1. y.file \in {"none", "tmp", "live", "profile", "gone"}
  BY DEF Good, Work
<1> QED
  BY <1>1 DEF Good, Fits

LEMMA SaveStays ==
  ASSUME NEW y, NEW z, NEW d, NEW e, Same(y, z), z.file = y.file, SaveCalm(y, d),
         e.marker = d.marker, e.live = d.live, e.tmp = d.tmp,
         e.profile[d.marker] = d.profile[d.marker]
  PROVE  SaveCalm(z, e)
<1>1. StepOf(z) = StepOf(y) /\ z.base = y.base /\ z.body = y.body /\ z.id = y.id
  BY SameStep DEF Same
<1> QED
  BY <1>1 DEF SaveCalm

LEMMA UpdateStays ==
  ASSUME NEW y, NEW z, NEW d, NEW e, Same(y, z), z.file = y.file, UpdateCalm(y, d),
         e.marker = d.marker, e.live = d.live,
         e.profile[d.marker] = d.profile[d.marker], Has(y.id, d) => Has(y.id, e)
  PROVE  UpdateCalm(z, e)
<1>1. StepOf(z) = StepOf(y) /\ z.body = y.body /\ z.id = y.id
  BY SameStep DEF Same
<1> QED
  BY <1>1 DEF UpdateCalm

LEMMA NewStays ==
  ASSUME NEW y, NEW z, NEW d, NEW e, Same(y, z), NewCalm(y, d), e.marker = d.marker,
         StepOf(y) = "open profile" /\ d.profile[y.id] = Absent => e.profile[y.id] = Absent,
         StepOf(y) = "write profile" /\ z.file # "gone" /\ d.profile[y.id] = Empty
           => e.profile[y.id] = Empty
  PROVE  NewCalm(z, e)
<1>1. /\ StepOf(z) = StepOf(y) /\ z.op = y.op /\ z.at = y.at /\ z.id = y.id
      /\ y.file = "gone" => z.file = "gone"
  BY SameStep DEF Same
<1> QED
  BY <1>1 DEF NewCalm

\* What is enough for the whole, with r, the record of h, now x.
LEMMA Assemble ==
  ASSUME NEW q, NEW w, NEW d, NEW e, NEW h \in Requests, NEW r, NEW x,
         r = q[h], x = w[h], r # None, Agree(q, d), e.marker = d.marker, Has(e.marker, e),
         \A g \in Requests \ {h} : Same(q[g], w[g]),
         x # None => Calm(x, e) /\ x.op = r.op /\ (x.op = "update" => x.id = r.id),
         \A g \in Requests \ {h} : q[g] # None => Calm(w[g], e),
         \/ Between(r, d) /\ (x = None => e.live = e.profile[e.marker])
         \/ ~Between(r, d) /\ e.live = d.live /\ e.profile[d.marker] = d.profile[d.marker],
         \A g \in Requests \ {h} : q[g] # None /\ x # None =>
           /\ Reads(x, w[g]) => x.body = Empty
           /\ Reads(w[g], x) => w[g].body = Empty
  PROVE  Agree(w, e)
<1>1. \A g \in Requests : w[g] # None => Calm(w[g], e)
  BY DEF Same
<1>2. ASSUME \A g \in Requests : w[g] # None => ~Between(w[g], e)
      PROVE  e.live = e.profile[e.marker]
  <2>1. CASE Between(r, d)
    <3>1. x # None => Between(x, e)
      BY <2>1 DEF Between
    <3> QED
      BY <1>2, <2>1, <3>1
  <2>2. CASE ~Between(r, d)
    <3>1. \A g \in Requests : q[g] # None => ~Between(q[g], d)
      BY <1>2, <2>2 DEF Between, Same
    <3> QED
      BY <2>2, <3>1 DEF Agree
  <2> QED
    BY <2>1, <2>2
<1>3. ASSUME NEW g \in Requests, NEW k \in Requests, w[g] # None, w[k] # None, Reads(w[g], w[k])
      PROVE  w[g].body = Empty
  <2>1. CASE g # h /\ k # h
    <3>1. PICK y, z, u, v : y = q[g] /\ z = q[k] /\ u = w[g] /\ v = w[k]
      OBVIOUS
    <3>2. Same(y, u) /\ Same(z, v)
      BY <2>1, <3>1
    <3>3. Reads(y, z)
      <4>1. Reads(u, v)
        BY <1>3, <3>1
      <4>2. StepOf(u) = StepOf(y) /\ StepOf(v) = StepOf(z)
        BY <3>2, SameStep
      <4> QED
        BY <3>2, <4>1, <4>2 DEF Reads, Same
    <3>4. y # None /\ z # None
      BY <1>3, <3>1, <3>2 DEF Same
    <3>5. y.body = Empty
      BY <3>1, <3>3, <3>4 DEF Agree
    <3> QED
      BY <3>1, <3>2, <3>5 DEF Same
  <2>2. CASE g = h /\ k # h
    BY <1>3, <2>2 DEF Same
  <2>3. CASE g # h /\ k = h
    BY <1>3, <2>3 DEF Same
  <2>4. CASE g = h /\ k = h
    BY <1>3, <2>4 DEF Reads
  <2> QED
    BY <2>1, <2>2, <2>3, <2>4
<1> QED
  BY <1>1, <1>2, <1>3 DEF Agree

\* Requests of which no two conflict, and no activation.
Peaceful(q) ==
  /\ \A g \in Requests : q[g] # None => Good(q[g]) /\ Wants(q[g]) /\ q[g].op # "activate"
  /\ \A g, k \in Requests : q[g] # None /\ q[k] # None /\ g # k =>
       ~Conflict(q[g].op, q[k].op)

LEMMA SaveAgrees ==
  ASSUME NEW q, NEW w, NEW d, NEW e, NEW h \in Requests, NEW r, NEW x,
         r = q[h], x = w[h], r # None, Agree(q, d), Peaceful(q), d.profile \in [Ids -> Files],
         Effect(r, x, d, e), \A g \in Requests \ {h} : Beside(r, q[g], w[g]), r.op = "save"
  PROVE  Agree(w, e)
<1>1. r \in Work /\ r.at \in 1 .. Len(Program(r.op)) /\ r.body # Absent
  BY DEF Peaceful, Good, Wants
<1>2. \E t : Leads(r.op, StepOf(r), t)
  BY <1>1, Stand DEF Plain
<1>3. SaveCalm(r, d) /\ Has(d.marker, d)
  BY DEF Agree, Calm
<1>4. /\ e.marker = d.marker /\ Has(e.marker, e)
      /\ \A i \in Ids : i # d.marker => e.profile[i] = d.profile[i]
      /\ x = None => e.live = e.profile[e.marker]
      /\ x # None => x.op = "save" /\ SaveCalm(x, e)
  BY <1>1, <1>2, <1>3, SaveGoesOn
<1>5. \A g \in Requests \ {h} : Same(q[g], w[g])
  BY DEF Beside
<1>6. ASSUME NEW g \in Requests \ {h}, q[g] # None
      PROVE  Calm(w[g], e) /\ w[g].op # "update"
  <2>1. PICK y, z : y = q[g] /\ z = w[g]
    OBVIOUS
  <2>2. y.op \in {"list", "create", "import", "delete"}
    <3>1. ~Conflict(r.op, y.op) /\ y.op \in Ops /\ y.op # "activate"
      BY <1>6, <2>1, Operations DEF Peaceful, Good
    <3> QED
      BY <3>1 DEF Conflict, Ops
  <2>3. Same(y, z) /\ Calm(y, d) /\ Fits(y, StepOf(y))
    BY <1>5, <1>6, <2>1 DEF Agree, Peaceful, Good
  <2>4. StepOf(z) = StepOf(y) /\ z.op = y.op /\ z.id = y.id
    BY <2>3, SameStep DEF Same
  <2>5. y.op \in {"create", "import"} => NewCalm(z, e)
    <3> SUFFICES ASSUME NewCalm(y, d) PROVE NewCalm(z, e)
      BY <2>3 DEF Calm
    <3>1. StepOf(y) = "open profile" => y.id \in Ids /\ y.id # d.marker
      BY <2>3 DEF Fits, NewCalm
    <3>2. StepOf(y) = "write profile" /\ z.file # "gone" => y.id \in Ids /\ y.id # d.marker
      BY <2>3 DEF Fits, NewCalm, Same
    <3> QED
      BY <1>4, <2>3, <3>1, <3>2, NewStays
  <2>6. Calm(z, e)
    BY <1>4, <2>2, <2>3, <2>4, <2>5 DEF Calm
  <2> QED
    BY <2>1, <2>2, <2>4, <2>6
<1>7. x # None => Calm(x, e)
  BY <1>4 DEF Calm
<1>8. Between(r, d)
  BY DEF Between
<1>9. \A g \in Requests \ {h} : q[g] # None /\ x # None =>
        /\ Reads(x, w[g]) => x.body = Empty
        /\ Reads(w[g], x) => w[g].body = Empty
  BY <1>4, <1>6 DEF Reads
<1> QED
  BY <1>4, <1>5, <1>6, <1>7, <1>8, <1>9, Assemble

LEMMA UpdateAgrees ==
  ASSUME NEW q, NEW w, NEW d, NEW e, NEW h \in Requests, NEW r, NEW x,
         r = q[h], x = w[h], r # None, Agree(q, d), Peaceful(q), d.profile \in [Ids -> Files],
         Effect(r, x, d, e), \A g \in Requests \ {h} : Beside(r, q[g], w[g]), r.op = "update"
  PROVE  Agree(w, e)
<1>1. /\ r \in Work /\ r.at \in 1 .. Len(Program(r.op)) /\ r.body # Absent
      /\ r.id \in Ids
  BY DEF Peaceful, Good, Wants, Fits
<1>2. \E t : Leads(r.op, StepOf(r), t)
  BY <1>1, Stand DEF Plain
<1>3. UpdateCalm(r, d) /\ Has(d.marker, d) /\ d.marker \in Ids
  BY DEF Agree, Calm, Has
<1>40. UpdateGoes(r, x, d, e)
  BY <1>1, <1>2, <1>3, UpdateGoesOn
<1>4. /\ e.marker = d.marker /\ e.live = d.live /\ e.tmp = d.tmp
      /\ Has(e.marker, e) /\ StepOf(r) \notin {"rename", "remove"}
      /\ \A i \in Ids : i # r.id => e.profile[i] = d.profile[i]
      /\ e.profile[r.id] # d.profile[r.id] => StepOf(r) # "read profile" /\ Has(r.id, d)
      /\ r.body = Empty /\ d.profile[r.id] = Empty => e.profile[r.id] = Empty
      /\ x = None /\ r.id = d.marker => e.live = e.profile[e.marker]
      /\ x # None => /\ x.op = "update" /\ UpdateCalm(x, e) /\ x.id = r.id
                     /\ StepOf(x) # "read profile"
                     /\ x.body = IF StepOf(r) = "read profile" THEN d.profile[r.id]
                                 ELSE r.body
  BY <1>40 DEF UpdateGoes
<1>5. \A g \in Requests \ {h} :
        Same(q[g], w[g]) /\ (q[g] # None => w[g].file = q[g].file)
  BY <1>4 DEF Beside
<1>6. ASSUME NEW g \in Requests \ {h}, q[g] # None
      PROVE  /\ Calm(w[g], e) /\ w[g].op # "update"
             /\ x # None /\ Reads(x, w[g]) => x.body = Empty
  <2>1. PICK y, z : y = q[g] /\ z = w[g]
    OBVIOUS
  <2>2. y.op \in {"list", "create", "import"}
    <3>1. ~Conflict(r.op, y.op) /\ y.op \in Ops /\ y.op # "activate"
      BY <1>6, <2>1, Operations DEF Peaceful, Good
    <3> QED
      BY <3>1 DEF Conflict, Ops
  <2>3. Same(y, z) /\ Calm(y, d) /\ Good(y) /\ Fits(y, StepOf(y)) /\ z.file = y.file
    BY <1>5, <1>6, <2>1 DEF Agree, Peaceful, Good
  <2>4. StepOf(z) = StepOf(y) /\ z.op = y.op /\ z.id = y.id
    BY <2>3, SameStep DEF Same
  <2>5. y.op \in {"create", "import"} => NewCalm(y, d)
    BY <2>3 DEF Calm
  <2>6. y.op \in {"create", "import"} /\ StepOf(y) = "write profile" /\ z.file # "gone"
          => y.id \in Ids /\ y.file = "profile" /\ d.profile[y.id] = Empty
    BY <2>3, <2>5, OpenProfile DEF NewCalm
  <2>7. y.op \in {"create", "import"} => NewCalm(z, e)
    <3> SUFFICES ASSUME y.op \in {"create", "import"} PROVE NewCalm(z, e)
      OBVIOUS
    <3>1. StepOf(y) = "open profile" => y.id \in Ids /\ d.profile[y.id] = Absent
      BY <2>3, <2>5 DEF Fits, NewCalm
    <3>2. StepOf(y) = "open profile" => e.profile[y.id] = Absent
      BY <1>4, <3>1 DEF Has
    <3>3. ASSUME StepOf(y) = "write profile", z.file # "gone" PROVE e.profile[y.id] = Empty
      <4>1. y.id \in Ids /\ y.file = "profile" /\ d.profile[y.id] = Empty
        BY <2>6, <3>3
      <4>2. CASE y.id = r.id /\ StepOf(r) # "read profile"
        <5>1. Reads(r, y)
          BY <3>3, <4>1, <4>2 DEF Reads
        <5>2. r.body = Empty
          BY <1>6, <2>1, <5>1 DEF Agree
        <5> QED
          BY <1>4, <4>1, <4>2, <5>2
      <4>3. CASE ~(y.id = r.id /\ StepOf(r) # "read profile")
        BY <1>4, <4>1, <4>3
      <4> QED
        BY <4>2, <4>3
    <3> QED
      BY <1>4, <2>3, <2>5, <3>2, <3>3, NewStays
  <2>8. Calm(z, e)
    BY <2>2, <2>3, <2>4, <2>7 DEF Calm
  <2>9. x # None /\ Reads(x, z) => x.body = Empty
    <3> SUFFICES ASSUME x # None, Reads(x, z) PROVE x.body = Empty
      OBVIOUS
    <3>1. /\ y.op \in {"create", "import"} /\ StepOf(y) = "write profile"
          /\ z.file = "profile" /\ y.id = r.id /\ y.file = "profile"
      BY <1>4, <2>3, <2>4 DEF Reads
    <3>2. CASE StepOf(r) = "read profile"
      BY <1>4, <2>6, <3>1, <3>2
    <3>3. CASE StepOf(r) # "read profile"
      <4>1. Reads(r, y)
        BY <3>1, <3>3 DEF Reads
      <4>2. r.body = Empty
        BY <1>6, <2>1, <4>1 DEF Agree
      <4> QED
        BY <1>4, <3>3, <4>2
    <3> QED
      BY <3>2, <3>3
  <2> QED
    BY <2>1, <2>2, <2>4, <2>8, <2>9
<1>7. x # None => Calm(x, e) /\ x.op = r.op /\ x.id = r.id
  BY <1>4 DEF Calm
<1>8. \/ Between(r, d) /\ (x = None => e.live = e.profile[e.marker])
      \/ ~Between(r, d) /\ e.live = d.live /\ e.profile[d.marker] = d.profile[d.marker]
  BY <1>3, <1>4 DEF Between
<1>9. \A g \in Requests \ {h} : q[g] # None /\ x # None =>
        /\ Reads(x, w[g]) => x.body = Empty
        /\ Reads(w[g], x) => w[g].body = Empty
  BY <1>6 DEF Reads
<1>10. e.marker = d.marker /\ Has(e.marker, e)
  BY <1>4
<1>11. /\ \A g \in Requests \ {h} : Same(q[g], w[g])
       /\ \A g \in Requests \ {h} : q[g] # None => Calm(w[g], e)
  BY <1>5, <1>6
<1>12. x # None => Calm(x, e) /\ x.op = r.op /\ (x.op = "update" => x.id = r.id)
  BY <1>7
<1> QED
  BY <1>8, <1>9, <1>10, <1>11, <1>12, Assemble

LEMMA NewAgrees ==
  ASSUME NEW q, NEW w, NEW d, NEW e, NEW h \in Requests, NEW r, NEW x,
         r = q[h], x = w[h], r # None, Agree(q, d), Peaceful(q), d.profile \in [Ids -> Files],
         Effect(r, x, d, e), \A g \in Requests \ {h} : Beside(r, q[g], w[g]),
         r.op \in {"create", "import"}
  PROVE  Agree(w, e)
<1>1. /\ r \in Work /\ r.at \in 1 .. Len(Program(r.op)) /\ r.body # Absent
      /\ Fits(r, StepOf(r)) /\ r.at \in Nat
  BY Operations DEF Peaceful, Good, Wants
<1>2. Plain(r) => \E t : Leads(r.op, StepOf(r), t)
  BY <1>1, Stand
<1>3. NewCalm(r, d) /\ Has(d.marker, d) /\ d.marker \in Ids
  BY DEF Agree, Calm, Has
<1>40. NewGoes(r, x, d, e)
  BY <1>1, <1>2, <1>3, NewGoesOn
<1>4. /\ e.marker = d.marker /\ e.live = d.live /\ e.tmp = d.tmp
      /\ StepOf(r) \notin {"rename", "remove"}
      /\ \A i \in Ids : e.profile[i] # d.profile[i] => i = r.id /\ i # d.marker
      /\ \A i \in Ids : e.profile[i] = Absent => d.profile[i] = Absent
      /\ x # None => /\ x.op = r.op /\ NewCalm(x, e)
                     /\ StepOf(x) = "write profile" => ~Has(x.id, d)
  BY <1>40 DEF NewGoes
<1>5. \A g \in Requests \ {h} :
        Same(q[g], w[g]) /\ (q[g] # None => w[g].file = q[g].file)
  BY <1>4 DEF Beside
<1>6. /\ e.profile[d.marker] = d.profile[d.marker]
      /\ \A i : Has(i, d) => Has(i, e)
  BY <1>3, <1>4 DEF Has
<1>7. ASSUME NEW g \in Requests \ {h}, q[g] # None
      PROVE  /\ Calm(w[g], e) /\ w[g].op \notin {"create", "import"}
             /\ x # None /\ Reads(w[g], x) => w[g].body = Empty
  <2>1. PICK y, z : y = q[g] /\ z = w[g]
    OBVIOUS
  <2>2. y.op \in {"list", "delete", "save", "update"}
    <3>1. ~Conflict(r.op, y.op) /\ y.op \in Ops /\ y.op # "activate"
      BY <1>7, <2>1, Operations DEF Peaceful, Good
    <3> QED
      BY <3>1 DEF Conflict, Ops
  <2>3. Same(y, z) /\ Calm(y, d) /\ z.file = y.file
    BY <1>5, <1>7, <2>1 DEF Agree
  <2>4. StepOf(z) = StepOf(y) /\ z.op = y.op /\ z.id = y.id
    BY <2>3, SameStep DEF Same
  <2>5. y.op = "save" => SaveCalm(z, e)
    <3> SUFFICES ASSUME SaveCalm(y, d) PROVE SaveCalm(z, e)
      BY <2>3 DEF Calm
    <3> QED
      BY <1>4, <1>6, <2>3, SaveStays
  <2>6. y.op = "update" => UpdateCalm(z, e)
    <3> SUFFICES ASSUME UpdateCalm(y, d) PROVE UpdateCalm(z, e)
      BY <2>3 DEF Calm
    <3> QED
      BY <1>4, <1>6, <2>3, UpdateStays
  <2>7. Calm(z, e)
    BY <1>4, <2>2, <2>3, <2>4, <2>5, <2>6 DEF Calm
  <2>8. x # None => ~Reads(z, x)
    <3> SUFFICES ASSUME x # None, Reads(z, x) PROVE FALSE
      OBVIOUS
    <3>1. y.op = "update" /\ StepOf(y) # "read profile" /\ y.id = x.id /\ ~Has(x.id, d)
      BY <1>4, <2>4 DEF Reads
    <3>2. Has(y.id, d)
      BY <2>3, <3>1 DEF Calm, UpdateCalm
    <3> QED
      BY <3>1, <3>2
  <2> QED
    BY <2>1, <2>2, <2>4, <2>7, <2>8
<1>8. x # None => Calm(x, e) /\ x.op # "update"
  BY <1>4 DEF Calm
<1>9. ~Between(r, d) /\ Has(e.marker, e)
  BY <1>3, <1>4, <1>6 DEF Between
<1>10. \A g \in Requests \ {h} : q[g] # None /\ x # None =>
         /\ Reads(x, w[g]) => x.body = Empty
         /\ Reads(w[g], x) => w[g].body = Empty
  BY <1>7, <1>8 DEF Reads
<1>11. e.marker = d.marker /\ e.live = d.live
  BY <1>4
<1>12. /\ \A g \in Requests \ {h} : Same(q[g], w[g])
       /\ \A g \in Requests \ {h} : q[g] # None => Calm(w[g], e)
  BY <1>5, <1>7
<1>13. x # None => Calm(x, e) /\ x.op = r.op /\ (x.op = "update" => x.id = r.id)
  BY <1>4, <1>8
<1> QED
  BY <1>6, <1>9, <1>10, <1>11, <1>12, <1>13, Assemble

LEMMA DeleteAgrees ==
  ASSUME NEW q, NEW w, NEW d, NEW e, NEW h \in Requests, NEW r, NEW x,
         r = q[h], x = w[h], r # None, Agree(q, d), Peaceful(q), d.profile \in [Ids -> Files],
         Effect(r, x, d, e), \A g \in Requests \ {h} : Beside(r, q[g], w[g]), r.op = "delete"
  PROVE  Agree(w, e)
<1>1. r \in Work /\ r.at \in 1 .. Len(Program(r.op))
  BY DEF Peaceful, Good
<1>2. \E t : Leads(r.op, StepOf(r), t)
  BY <1>1, Stand DEF Plain
<1>3. /\ StepOf(r) = "remove" => r.id # d.marker
      /\ Has(d.marker, d) /\ d.marker \in Ids
  BY DEF Agree, Calm, Has
<1>4. /\ e.marker = d.marker /\ e.live = d.live /\ e.tmp = d.tmp
      /\ StepOf(r) # "rename"
      /\ \A i \in Ids : e.profile[i] = d.profile[i] \/
                        (i = r.id /\ e.profile[i] = Absent /\ StepOf(r) = "remove")
      /\ x # None => x.op = r.op /\ (StepOf(x) = "remove" => x.id # e.marker)
  BY <1>2, <1>3, DeleteGoesOn
<1>5. e.profile[d.marker] = d.profile[d.marker] /\ Has(e.marker, e)
  BY <1>3, <1>4 DEF Has
<1>6. \A g \in Requests \ {h} :
        /\ Same(q[g], w[g])
        /\ q[g] # None => w[g].file = IF StepOf(r) = "remove" /\ q[g].file = "profile"
                                         /\ q[g].id = r.id
                                      THEN "gone" ELSE q[g].file
  BY <1>4 DEF Beside
<1>7. ASSUME NEW g \in Requests \ {h}, q[g] # None
      PROVE  Calm(w[g], e)
  <2>1. PICK y, z : y = q[g] /\ z = w[g]
    OBVIOUS
  <2>2. y.op \in {"list", "delete", "save", "create", "import"}
    <3>1. ~Conflict(r.op, y.op) /\ y.op \in Ops /\ y.op # "activate"
      BY <1>7, <2>1, Operations DEF Peaceful, Good
    <3> QED
      BY <3>1 DEF Conflict, Ops
  <2>3. /\ Same(y, z) /\ Calm(y, d) /\ Fits(y, StepOf(y)) /\ Good(y)
        /\ z.file = IF StepOf(r) = "remove" /\ y.file = "profile" /\ y.id = r.id
                    THEN "gone" ELSE y.file
    BY <1>6, <1>7, <2>1 DEF Agree, Peaceful, Good
  <2>4. StepOf(z) = StepOf(y) /\ z.op = y.op /\ z.id = y.id
    BY <2>3, SameStep DEF Same
  <2>5. y.op = "save" => SaveCalm(z, e)
    <3> SUFFICES ASSUME SaveCalm(y, d) PROVE SaveCalm(z, e)
      BY <2>3 DEF Calm
    <3>1. y.file = "profile" => y.id = d.marker
      BY <2>3 DEF SaveCalm, Fits
    <3>2. z.file = y.file
      BY <1>3, <2>3, <3>1
    <3> QED
      BY <1>4, <1>5, <2>3, <3>2, SaveStays
  <2>6. y.op \in {"create", "import"} => NewCalm(z, e)
    <3> SUFFICES ASSUME NewCalm(y, d) PROVE NewCalm(z, e)
      BY <2>3 DEF Calm
    <3>1. StepOf(y) = "open profile" /\ d.profile[y.id] = Absent => e.profile[y.id] = Absent
      BY <1>4, <2>3 DEF Fits
    <3>2. ASSUME StepOf(y) = "write profile", z.file # "gone", d.profile[y.id] = Empty
          PROVE  e.profile[y.id] = Empty
      <4>1. y.file # "gone"
        BY <2>3, <3>2
      <4>3. y.id \in Ids /\ y.file = "profile"
        BY <2>3, <3>2, <4>1, OpenProfile
      <4>2. ~(StepOf(r) = "remove" /\ y.id = r.id)
        BY <2>3, <3>2, <4>3
      <4> QED
        BY <1>4, <3>2, <4>2, <4>3
    <3> QED
      BY <1>4, <2>3, <3>1, <3>2, NewStays
  <2>7. Calm(z, e)
    BY <1>4, <2>2, <2>3, <2>4, <2>5, <2>6 DEF Calm
  <2> QED
    BY <2>1, <2>7
<1>8. x # None => Calm(x, e) /\ x.op # "update" /\ x.op \notin {"create", "import"}
  BY <1>4 DEF Calm
<1>9. ~Between(r, d)
  BY DEF Between
<1>10. \A g \in Requests \ {h} : q[g] # None /\ x # None =>
         /\ Reads(x, w[g]) => x.body = Empty
         /\ Reads(w[g], x) => w[g].body = Empty
  BY <1>8 DEF Reads
<1> QED
  BY <1>4, <1>5, <1>6, <1>7, <1>8, <1>9, <1>10, Assemble

LEMMA ListAgrees ==
  ASSUME NEW q, NEW w, NEW d, NEW e, NEW h \in Requests, NEW r, NEW x,
         r = q[h], x = w[h], r # None, Agree(q, d), Peaceful(q),
         Effect(r, x, d, e), \A g \in Requests \ {h} : Beside(r, q[g], w[g]), r.op = "list"
  PROVE  Agree(w, e)
<1>1. StepOf(r) = "any profile" /\ Has(d.marker, d)
  BY DEF Agree, Calm
<1>2. e = d /\ x = None
  BY <1>1, ListGoesOn
<1>3. \A g \in Requests \ {h} :
        Same(q[g], w[g]) /\ (q[g] # None => w[g].file = q[g].file)
  BY <1>1 DEF Beside
<1>4. ASSUME NEW g \in Requests \ {h}, q[g] # None
      PROVE  Calm(w[g], e)
  <2>1. PICK y, z : y = q[g] /\ z = w[g]
    OBVIOUS
  <2>2. Same(y, z) /\ Calm(y, d) /\ z.file = y.file
    BY <1>3, <1>4, <2>1 DEF Agree
  <2>3. StepOf(z) = StepOf(y) /\ z.op = y.op /\ z.id = y.id
    BY <2>2, SameStep DEF Same
  <2>4. SaveCalm(y, d) => SaveCalm(z, e)
    BY <1>2, <2>2, SaveStays
  <2>5. UpdateCalm(y, d) => UpdateCalm(z, e)
    BY <1>2, <2>2, UpdateStays
  <2>6. NewCalm(y, d) => NewCalm(z, e)
    BY <1>2, <2>2, NewStays
  <2>7. Calm(z, e)
    BY <1>2, <2>2, <2>3, <2>4, <2>5, <2>6 DEF Calm
  <2> QED
    BY <2>1, <2>7
<1>5. ~Between(r, d)
  BY DEF Between
<1> QED
  BY <1>1, <1>2, <1>3, <1>4, <1>5, Assemble

LEMMA AgreesOn ==
  ASSUME NEW q, NEW w, NEW d, NEW e, NEW h \in Requests, NEW r, NEW x,
         r = q[h], x = w[h], r # None, Agree(q, d), Peaceful(q), d.profile \in [Ids -> Files],
         Effect(r, x, d, e), \A g \in Requests \ {h} : Beside(r, q[g], w[g])
  PROVE  Agree(w, e)
<1>1. r.op \in {"save", "list", "create", "import", "update", "delete"}
  BY Operations DEF Peaceful, Good, Ops
<1> QED
  BY <1>1, SaveAgrees, UpdateAgrees, NewAgrees, DeleteAgrees, ListAgrees

-----------------------------------------------------------------------------
(* The invariant behind the agreement of live file and active profile. *)

\* Overlaps are noted, and are accidents.
OverlapInv ==
  /\ \A g, h \in Busy : g # h /\ Conflict(req[g].op, req[h].op) => g \in tainted
  /\ tainted # {} => accidents # 0

WantInv == live # Absent /\ \A h \in Busy : Wants(req[h])

\* An undisturbed activation; without an accident before, all is well until it
\* touches the marker.
ActivateInv ==
  \A h \in Busy : req[h].op = "activate" /\ h \notin tainted =>
    /\ Activates(req[h], Disk)
    /\ StepOf(req[h]) \in {"stat", "open marker"} /\ accidents = 0 => Together(Disk)

CalmInv ==
  accidents = 0 /\ (\A h \in Busy : req[h].op # "activate") => Agree(req, Disk)

UInv == IInv /\ OverlapInv /\ WantInv /\ ActivateInv /\ CalmInv

LEMMA Mutual ==
  /\ \A o, p : Conflict(o, p) => Conflict(p, o)
  /\ \A o : Conflict("activate", o) /\ Conflict(o, "activate")
BY DEF Conflict

LEMMA FirstStep ==
  ASSUME NEW r, r.at = 1
  PROVE  /\ r.op = "save" => StepOf(r) = "open tmp"
         /\ r.op = "activate" => StepOf(r) = "stat"
         /\ r.op \in {"list", "create"} => StepOf(r) = "any profile"
         /\ r.op = "import" => StepOf(r) = "pick id"
         /\ r.op = "update" => StepOf(r) = "read profile"
         /\ r.op = "delete" => StepOf(r) = "not active"
<1>1. /\ SaveSteps[1] = "open tmp" /\ ActivateSteps[1] = "stat"
      /\ ListSteps[1] = "any profile" /\ ImportSteps[1] = "pick id"
      /\ UpdateSteps[1] = "read profile" /\ DeleteSteps[1] = "not active"
  BY DEF SaveSteps, ActivateSteps, ListSteps, ImportSteps, UpdateSteps, DeleteSteps
<1>2. CreateSteps[1] = "any profile"
  BY DEF CreateSteps
<1> QED
  BY <1>1, <1>2, Table DEF StepOf

\* A request that arrives, and what becomes of those it conflicts with.
Arrives(r) ==
  /\ Good(r) /\ Wants(r) /\ r.at = 1 /\ r # None
  /\ r.op = "save" => r.base = marker

LEMMA Arrival ==
  ASSUME IInv, NEW h \in Requests, Arrive(h)
  PROVE  \E r : /\ req[h] = None /\ Arrives(r) /\ UNCHANGED files
                /\ req' = [req EXCEPT ![h] = r]
                /\ \/ /\ \A g \in Busy : ~Conflict(r.op, req[g].op)
                      /\ tainted' = tainted /\ accidents' = accidents
                   \/ /\ tainted' = tainted \cup {h}
                           \cup {g \in Busy : Conflict(r.op, req[g].op)}
                      /\ accidents' # 0
<1>1. PICK op \in Ops, i \in Ids \cup {None}, b \in Bodies,
           base \in Ids \cup {Empty, Torn, None} :
        /\ Start(h, op, i, b, base) /\ (op = "update" => i \in Ids)
        /\ op = "save" => base = marker
        /\ op \in {"update", "delete"} => base = i
  BY DefaultAssumption DEF Arrive, Ops, IInv, FileTypes
<1> DEFINE x == [op |-> op, at |-> 1, id |-> i, src |-> i, body |-> b, file |-> "none",
                 mixed |-> FALSE, base |-> base]
<1>2. /\ x \in Work /\ x.at = 1 /\ x.file = "none" /\ x.op = op /\ x.id = i
      /\ x.body = b /\ x.base = base
  BY DEF Work, Ops, Names, Files
<1>3. req[h] = None /\ req' = [req EXCEPT ![h] = x] /\ UNCHANGED files
  BY <1>1 DEF Start
<1>4. PICK foes :
        /\ foes = {g \in Busy : Conflict(op, req[g].op)}
        /\ tainted' = IF foes = {} THEN tainted ELSE tainted \cup foes \cup {h}
        /\ IF foes = {} THEN UNCHANGED accidents ELSE Accident
  BY <1>1 DEF Start
<1> HIDE DEF x
<1>5. Good(x) /\ x # None
  BY <1>1, <1>2, Fresh, Operations
<1>6. Wants(x)
  BY <1>1, <1>2, NamesAssumption DEF Wants
<1>7. Accident => accidents' # 0
  BY AccidentsAssumption DEF Accident, IInv, FileTypes
<1>8. CASE foes = {}
  <2>1. \A g \in Busy : ~Conflict(x.op, req[g].op)
    BY <1>2, <1>4, <1>8
  <2> QED
    BY <1>1, <1>2, <1>3, <1>4, <1>5, <1>6, <1>8, <2>1 DEF Arrives
<1>9. CASE foes # {}
  <2>1. tainted' = tainted \cup {h} \cup {g \in Busy : Conflict(x.op, req[g].op)}
    BY <1>2, <1>4, <1>9
  <2> QED
    BY <1>1, <1>2, <1>3, <1>4, <1>5, <1>6, <1>7, <1>9, <2>1 DEF Arrives
<1> QED
  BY <1>8, <1>9

LEMMA OverlapStep ==
  ASSUME IInv, OverlapInv, NEW h \in Requests, Step(h) \/ CutShort(h)
  PROVE  OverlapInv'
<1>1. Progresses(h)
  BY Progress
<1>2. ASSUME NEW g \in Requests, req'[g] # None
      PROVE  /\ req[g] # None /\ req'[g].op = req[g].op
             /\ g \in tainted => g \in tainted'
  BY <1>1, <1>2 DEF Progresses, Same, Busy
<1>3. ASSUME NEW g \in Busy', NEW k \in Busy', g # k, Conflict(req'[g].op, req'[k].op)
      PROVE  g \in tainted'
  BY <1>2, <1>3 DEF OverlapInv, Busy
<1>4. ASSUME tainted' # {} PROVE accidents' # 0
  <2>1. PICK g \in tainted : g \in tainted'
    BY <1>1, <1>4 DEF Progresses
  <2>2. accidents # 0
    BY <2>1 DEF OverlapInv
  <2> SUFFICES ASSUME req'[h] = None, req[h].op = "activate", h \notin tainted PROVE FALSE
    BY <1>1, <2>2 DEF Progresses
  <2>3. g \in Busy /\ g # h /\ h \in Busy
    BY <1>1, <2>1 DEF IInv, RequestTypes, Progresses
  <2> QED
    BY <2>3, Mutual DEF OverlapInv
<1> QED
  BY <1>3, <1>4 DEF OverlapInv

LEMMA OverlapArrive ==
  ASSUME IInv, OverlapInv, NEW h \in Requests, Arrive(h)
  PROVE  OverlapInv'
<1>1. PICK r : /\ req[h] = None /\ r # None
               /\ req' = [req EXCEPT ![h] = r]
               /\ \/ /\ \A g \in Busy : ~Conflict(r.op, req[g].op)
                     /\ tainted' = tainted /\ accidents' = accidents
                  \/ /\ tainted' = tainted \cup {h}
                          \cup {g \in Busy : Conflict(r.op, req[g].op)}
                     /\ accidents' # 0
  BY Arrival DEF Arrives
<1>2. \A g \in Requests : req'[g] = IF g = h THEN r ELSE req[g]
  BY <1>1 DEF IInv, RequestTypes
<1>3. ASSUME NEW g \in Busy', NEW k \in Busy', g # k, Conflict(req'[g].op, req'[k].op)
      PROVE  g \in tainted'
  <2>1. CASE g = h
    <3>1. k \in Busy /\ Conflict(r.op, req[k].op)
      BY <1>2, <1>3, <2>1 DEF Busy
    <3> QED
      BY <1>1, <2>1, <3>1
  <2>2. CASE k = h
    <3>1. g \in Busy /\ Conflict(r.op, req[g].op)
      BY <1>2, <1>3, <2>2, Mutual DEF Busy
    <3> QED
      BY <1>1, <3>1
  <2>3. CASE g # h /\ k # h
    <3>1. g \in tainted
      BY <1>2, <1>3, <2>3 DEF OverlapInv, Busy
    <3> QED
      BY <1>1, <3>1
  <2> QED
    BY <2>1, <2>2, <2>3
<1>4. tainted' # {} => accidents' # 0
  BY <1>1 DEF OverlapInv
<1> QED
  BY <1>3, <1>4 DEF OverlapInv

LEMMA WantStep ==
  ASSUME IInv, WantInv, NEW h \in Requests, Step(h)
  PROVE  WantInv'
<1>1. h \in Busy /\ Effective(h)
  BY Effects
<1>2. PICK r, x, d, e : /\ r = req[h] /\ x = req'[h] /\ d = Disk /\ e = Disk'
                        /\ r \in Work /\ r.at \in 1 .. Len(Program(r.op))
  BY <1>1, InService
<1>3. Effect(r, x, d, e) /\ d.live = live /\ e.live = live'
  BY <1>1, <1>2 DEF Effective, Disk
<1>4. Plain(r) => \E t : Leads(r.op, StepOf(r), t)
  BY <1>2, Stand
<1>5. Wants(r) /\ d.live # Absent
  BY <1>1, <1>2, <1>3 DEF WantInv
<1>6. e.live # Absent /\ (x # None => Wants(x))
  BY <1>3, <1>4, <1>5, WantsOn
<1>7. ASSUME NEW g \in Requests \ {h}, req'[g] # None PROVE Wants(req'[g])
  <2>1. Same(req[g], req'[g])
    BY <1>1 DEF Effective, Beside
  <2> QED
    BY <1>7, <2>1 DEF Same, Wants, WantInv, Busy
<1> QED
  BY <1>2, <1>3, <1>6, <1>7 DEF WantInv, Busy

LEMMA WantElse ==
  ASSUME IInv, WantInv, NEW h \in Requests, Arrive(h) \/ CutShort(h)
  PROVE  WantInv'
<1>1. PICK r : /\ r = None \/ Wants(r)
               /\ req' = [req EXCEPT ![h] = r] /\ UNCHANGED files
  BY Arrival DEF Arrives, CutShort
<1>2. \A g \in Requests : req'[g] = IF g = h THEN r ELSE req[g]
  BY <1>1 DEF IInv, RequestTypes
<1> QED
  BY <1>1, <1>2 DEF WantInv, Busy, files

-----------------------------------------------------------------------------
(* An activation that nothing disturbs, and a request that arrives. *)

LEMMA ActivateGoesOn ==
  ASSUME NEW r, NEW x, NEW d, NEW e, r.op = "activate", \E t : Leads(r.op, StepOf(r), t),
         Effect(r, x, d, e), Activates(r, d)
  PROVE  /\ x # None => Activates(x, e) /\ StepOf(x) # "stat"
         /\ x # None /\ StepOf(x) = "open marker" => StepOf(r) = "stat"
         /\ StepOf(r) = "stat" => e = d
         /\ x = None /\ StepOf(r) # "stat" => Together(e)
<1>1. Plain(r)
  BY DEF Plain
<1>2. \A n : Overlay(Empty, n) = {n}
  BY DEF Overlay
<1>3. CASE StepOf(r) = "stat"
  <2>1. TestEffect(r, x, d, e)
    BY <1>3 DEF Effect, ReadEffect, OpenEffect, WriteEffect, MoveEffect
  <2>2. e = d /\ IF Has(r.id, d) THEN Stays(r, x) ELSE x = None
    BY <1>3, <2>1 DEF TestEffect
  <2>3. x # None => Has(r.id, d) /\ x.id = r.id /\ StepOf(x) = "open marker"
    BY <1>1, <1>3, <2>2 DEF Stays, Turns, Leads
  <2>4. x # None => Activates(x, e)
    BY <2>2, <2>3 DEF Activates
  <2> QED
    BY <1>3, <2>2, <2>3, <2>4
<1>4. CASE StepOf(r) = "open marker"
  <2>1. OpenEffect(r, x, d, e)
    BY <1>4 DEF Effect, TestEffect, ReadEffect, WriteEffect, MoveEffect
  <2>2. e.marker = Empty /\ e.profile = d.profile /\ Stays(r, x)
    BY <1>4, <2>1 DEF OpenEffect
  <2>3. x # None /\ x.id = r.id /\ StepOf(x) = "write marker"
    BY <1>1, <1>4, <2>2 DEF Stays, Turns, Leads
  <2>4. Has(x.id, e)
    BY <1>4, <2>2, <2>3 DEF Activates, Has
  <2>5. Activates(x, e)
    BY <2>2, <2>3, <2>4 DEF Activates
  <2> QED
    BY <1>4, <2>3, <2>5
<1>5. CASE StepOf(r) = "write marker"
  <2>1. WriteEffect(r, x, d, e)
    BY <1>5 DEF Effect, TestEffect, ReadEffect, OpenEffect, MoveEffect
  <2>2. e.marker = r.id /\ e.profile = d.profile /\ Stays(r, x)
    <3>1. d.marker = Empty
      BY <1>5 DEF Activates
    <3> QED
      BY <1>2, <1>5, <2>1, <3>1 DEF WriteEffect
  <2>3. x # None /\ x.id = r.id /\ StepOf(x) = "read marker"
    BY <1>1, <1>5, <2>2 DEF Stays, Turns, Leads
  <2>4. Has(x.id, e)
    BY <1>5, <2>2, <2>3 DEF Activates, Has
  <2>5. Activates(x, e)
    BY <2>2, <2>3, <2>4 DEF Activates
  <2> QED
    BY <1>5, <2>3, <2>5
<1>6. CASE StepOf(r) = "read marker"
  <2>1. ReadEffect(r, x, d, e)
    BY <1>6 DEF Effect, TestEffect, OpenEffect, WriteEffect, MoveEffect
  <2>2. d.marker = r.id /\ Has(r.id, d) /\ r.id # Empty
    BY <1>6, NamesAssumption DEF Activates, Has
  <2>3. e = d /\ Turns(r, x, r.id, r.body, r.file)
    BY <1>6, <2>1, <2>2 DEF ReadEffect
  <2>4. x # None /\ x.id = r.id /\ StepOf(x) = "stat active"
    BY <1>1, <1>6, <2>3 DEF Turns, Leads
  <2>5. Activates(x, e)
    BY <2>2, <2>3, <2>4 DEF Activates
  <2> QED
    BY <1>6, <2>4, <2>5
<1>7. CASE StepOf(r) = "stat active"
  <2>1. TestEffect(r, x, d, e)
    BY <1>7 DEF Effect, ReadEffect, OpenEffect, WriteEffect, MoveEffect
  <2>2. d.marker = r.id /\ Has(r.id, d)
    BY <1>7 DEF Activates
  <2>3. e = d /\ Stays(r, x)
    BY <1>7, <2>1, <2>2 DEF TestEffect
  <2>4. x # None /\ x.id = r.id /\ StepOf(x) = "read profile"
    BY <1>1, <1>7, <2>3 DEF Stays, Turns, Leads
  <2>5. Activates(x, e)
    BY <2>2, <2>3, <2>4 DEF Activates
  <2> QED
    BY <1>7, <2>4, <2>5
<1>8. CASE StepOf(r) = "read profile"
  <2>1. ReadEffect(r, x, d, e)
    BY <1>8 DEF Effect, TestEffect, OpenEffect, WriteEffect, MoveEffect
  <2>2. d.marker = r.id /\ Has(r.id, d)
    BY <1>8 DEF Activates
  <2>3. e = d /\ Turns(r, x, r.id, d.profile[r.id], r.file)
    BY <1>8, <2>1, <2>2 DEF ReadEffect
  <2>4. x # None /\ x.id = r.id /\ StepOf(x) = "open tmp" /\ x.body = d.profile[r.id]
    BY <1>1, <1>8, <2>3 DEF Turns, Leads
  <2>5. Activates(x, e)
    BY <2>2, <2>3, <2>4 DEF Activates
  <2> QED
    BY <1>8, <2>4, <2>5
<1>9. CASE StepOf(r) = "open tmp"
  <2>1. OpenEffect(r, x, d, e)
    BY <1>9 DEF Effect, TestEffect, ReadEffect, WriteEffect, MoveEffect
  <2>2. /\ e.marker = d.marker /\ e.profile = d.profile /\ e.tmp = Empty
        /\ Turns(r, x, r.id, r.body, "tmp")
    BY <1>9, <2>1 DEF OpenEffect
  <2>3. /\ x # None /\ x.id = r.id /\ StepOf(x) = "write tmp"
        /\ x.body = r.body /\ x.file = "tmp"
    BY <1>1, <1>9, <2>2 DEF Turns, Leads
  <2>4. d.marker = r.id /\ Has(r.id, d) /\ r.body = d.profile[r.id]
    BY <1>9 DEF Activates
  <2>5. Activates(x, e)
    BY <2>2, <2>3, <2>4 DEF Activates, Has
  <2> QED
    BY <1>9, <2>3, <2>5
<1>10. CASE StepOf(r) = "write tmp"
  <2>1. WriteEffect(r, x, d, e)
    BY <1>10 DEF Effect, TestEffect, ReadEffect, OpenEffect, MoveEffect
  <2>2. /\ d.marker = r.id /\ Has(r.id, d) /\ r.body = d.profile[r.id]
        /\ d.tmp = Empty /\ r.file = "tmp"
    BY <1>10 DEF Activates
  <2>3. /\ e.marker = d.marker /\ e.profile = d.profile /\ e.tmp = r.body
        /\ Turns(r, x, r.id, r.body, "none")
    BY <1>2, <1>10, <2>1, <2>2 DEF WriteEffect
  <2>4. x # None /\ x.id = r.id /\ StepOf(x) = "rename" /\ x.body = r.body
    BY <1>1, <1>10, <2>3 DEF Turns, Leads
  <2>5. Activates(x, e)
    BY <2>2, <2>3, <2>4 DEF Activates, Has
  <2> QED
    BY <1>10, <2>4, <2>5
<1>11. CASE StepOf(r) = "rename"
  <2>1. MoveEffect(r, x, d, e)
    BY <1>11 DEF Effect, TestEffect, ReadEffect, OpenEffect, WriteEffect
  <2>2. /\ d.marker = r.id /\ Has(r.id, d) /\ r.body = d.profile[r.id]
        /\ d.tmp = r.body /\ d.tmp # Absent
    BY <1>11 DEF Activates, Has
  <2>3. /\ e.live = d.tmp /\ e.marker = d.marker /\ e.profile = d.profile
        /\ Turns(r, x, r.id, r.body, "none")
    BY <1>11, <2>1, <2>2 DEF MoveEffect
  <2>4. x = None
    BY <1>1, <1>11, <2>3 DEF Turns, Leads
  <2>5. Together(e)
    BY <2>2, <2>3 DEF Together, Has
  <2> QED
    BY <1>11, <2>4, <2>5
<1> QED
  BY <1>3, <1>4, <1>5, <1>6, <1>7, <1>8, <1>9, <1>10, <1>11 DEF Leads

\* A request that arrives and conflicts with none.
LEMMA Joins ==
  ASSUME NEW q, NEW w, NEW d, NEW h \in Requests, NEW r, q[h] = None, w[h] = r, r # None,
         \A g \in Requests \ {h} : w[g] = q[g], Agree(q, d), r.at = 1,
         r.op \in Ops \ {"activate"}, r.op = "save" => r.base = d.marker,
         \A g \in Requests : q[g] # None => ~Conflict(r.op, q[g].op)
  PROVE  Agree(w, d)
<1>1. /\ r.op = "save" => StepOf(r) = "open tmp"
      /\ r.op \in {"list", "create"} => StepOf(r) = "any profile"
      /\ r.op = "import" => StepOf(r) = "pick id"
      /\ r.op = "update" => StepOf(r) = "read profile"
      /\ r.op = "delete" => StepOf(r) = "not active"
  BY FirstStep
<1>2. (\A g \in Requests : w[g] # None => ~Between(w[g], d)) => d.live = d.profile[d.marker]
  <2>1. (\A g \in Requests : w[g] # None => ~Between(w[g], d))
          => (\A g \in Requests : q[g] # None => ~Between(q[g], d))
    OBVIOUS
  <2> QED
    BY <2>1 DEF Agree
<1>3. r.op = "update" => d.live = d.profile[d.marker]
  <2> SUFFICES ASSUME r.op = "update" PROVE \A g \in Requests : q[g] # None => ~Between(q[g], d)
    BY DEF Agree
  <2> QED
    BY DEF Conflict, Between
<1>4. Calm(r, d)
  <2>1. r.op = "save" => SaveCalm(r, d)
    BY <1>1 DEF SaveCalm
  <2>2. r.op = "update" => UpdateCalm(r, d)
    BY <1>1, <1>3 DEF UpdateCalm
  <2>3. r.op \in {"create", "import"} => NewCalm(r, d)
    BY <1>1 DEF NewCalm
  <2> QED
    BY <1>1, <2>1, <2>2, <2>3 DEF Calm
<1>5. \A g \in Requests : w[g] # None => Calm(w[g], d)
  BY <1>4 DEF Agree
<1>6. \A y : ~Reads(r, y) /\ ~Reads(y, r)
  BY <1>1 DEF Reads
<1>7. \A g, k \in Requests :
        w[g] # None /\ w[k] # None /\ Reads(w[g], w[k]) => w[g].body = Empty
  BY <1>6 DEF Agree
<1> QED
  BY <1>2, <1>5, <1>7 DEF Agree

-----------------------------------------------------------------------------
(* Every step preserves the invariant. *)

LEMMA StatKeeps ==
  ASSUME IInv, NEW h \in Requests, Step(h), req[h].op = "activate", StepOf(req[h]) = "stat"
  PROVE  accidents' = accidents
<1>1. h \in Busy
  BY Effects
<1>2. PICK r, x : /\ r = req[h] /\ x = req'[h] /\ r \in Work /\ Pending(h) = StepOf(r)
  BY <1>1, InService
<1>3. Test(h)
  BY <1>2 DEF Step, Test, ReadMarker, AnyProfile, Read, PickId, Open, WriteConf,
              WriteActiveID, Rename, Remove, At
<1>4. Keep(h) \/ End(h)
  BY <1>3 DEF Test
<1>5. CASE Keep(h)
  <2>1. Stays(r, x)
    BY <1>1, <1>2, <1>5, Keeps
  <2>2. x # None
    BY <1>2, <2>1 DEF Stays, Turns, Plain, Leads
  <2>3. GoOn(h, r, 1)
    BY <1>2, <1>5 DEF Keep
  <2> QED
    BY <1>2, <2>2, <2>3 DEF GoOn, IInv, RequestTypes
<1>6. CASE End(h)
  BY <1>6 DEF End
<1> QED
  BY <1>4, <1>5, <1>6

\* An undisturbed activation is the only request in service.
LEMMA Alone ==
  ASSUME IInv, OverlapInv, NEW h \in Busy, req[h].op = "activate", h \notin tainted
  PROVE  Busy = {h}
BY Mutual DEF OverlapInv

\* What a step of an undisturbed activation makes of it and of the files.
ActivateEffect(r, x, d, e) ==
  /\ x # None => Activates(x, e) /\ StepOf(x) # "stat"
  /\ x # None /\ StepOf(x) = "open marker" => StepOf(r) = "stat"
  /\ StepOf(r) = "stat" => e = d
  /\ x = None /\ StepOf(r) # "stat" => Together(e)

LEMMA ActivateMoves ==
  ASSUME IInv, ActivateInv, NEW h \in Requests, Step(h), req[h].op = "activate",
         h \notin tainted
  PROVE  ActivateEffect(req[h], req'[h], Disk, Disk')
<1>1. h \in Busy /\ Effective(h)
  BY Effects
<1>2. PICK r, x, d, e : /\ r = req[h] /\ x = req'[h] /\ d = Disk /\ e = Disk'
                        /\ r \in Work /\ r.at \in 1 .. Len(Program(r.op))
  BY <1>1, InService
<1>3. Effect(r, x, d, e) /\ Activates(r, d) /\ r.op = "activate"
  BY <1>1, <1>2 DEF Effective, ActivateInv
<1>4. \E t : Leads(r.op, StepOf(r), t)
  BY <1>2, <1>3, Stand DEF Plain
<1>5. ActivateEffect(r, x, d, e)
  BY <1>3, <1>4, ActivateGoesOn DEF ActivateEffect
<1> QED
  BY <1>2, <1>5

LEMMA ActivateStep ==
  ASSUME IInv, OverlapInv, ActivateInv, NEW h \in Requests, Step(h) \/ CutShort(h)
  PROVE  ActivateInv'
<1>1. Progresses(h)
  BY Progress
<1> SUFFICES ASSUME NEW g \in Busy', req'[g].op = "activate", g \notin tainted'
             PROVE  /\ Activates(req'[g], Disk')
                    /\ StepOf(req'[g]) \in {"stat", "open marker"} /\ accidents' = 0
                         => Together(Disk')
  BY DEF ActivateInv
<1>2. g \in Requests /\ g \in Busy /\ req[g].op = "activate" /\ g \notin tainted
  BY <1>1 DEF Progresses, Same, Busy
<1>3. g = h
  BY <1>1, <1>2, Alone DEF Progresses
<1>4. Step(h) /\ req'[h] # None
  BY <1>3 DEF CutShort, IInv, RequestTypes, Busy
<1>5. PICK r, x, d, e : /\ r = req[h] /\ x = req'[h] /\ d = Disk /\ e = Disk'
                        /\ ActivateEffect(r, x, d, e)
  BY <1>2, <1>3, <1>4, ActivateMoves
<1>6. Activates(x, e) /\ StepOf(x) # "stat"
  BY <1>4, <1>5 DEF ActivateEffect
<1>7. ASSUME StepOf(x) = "open marker", accidents' = 0 PROVE Together(e)
  <2>1. StepOf(r) = "stat" /\ e = d
    BY <1>4, <1>5, <1>7 DEF ActivateEffect
  <2>2. accidents = 0
    BY <1>2, <1>3, <1>4, <1>5, <1>7, <2>1, StatKeeps
  <2>3. Together(d)
    BY <1>2, <1>3, <1>5, <2>1, <2>2 DEF ActivateInv
  <2> QED
    BY <2>1, <2>3
<1> QED
  BY <1>3, <1>5, <1>6, <1>7

LEMMA ActivateArrive ==
  ASSUME IInv, OverlapInv, ActivateInv, CalmInv, NEW h \in Requests, Arrive(h)
  PROVE  ActivateInv'
<1>1. PICK r : /\ req[h] = None /\ Arrives(r) /\ UNCHANGED files
               /\ req' = [req EXCEPT ![h] = r]
               /\ \/ /\ \A g \in Busy : ~Conflict(r.op, req[g].op)
                     /\ tainted' = tainted /\ accidents' = accidents
                  \/ /\ tainted' = tainted \cup {h}
                          \cup {g \in Busy : Conflict(r.op, req[g].op)}
                     /\ accidents' # 0
  BY Arrival
<1>2. \A g \in Requests : req'[g] = IF g = h THEN r ELSE req[g]
  BY <1>1 DEF IInv, RequestTypes
<1> SUFFICES ASSUME NEW g \in Busy', req'[g].op = "activate", g \notin tainted'
             PROVE  /\ Activates(req'[g], Disk')
                    /\ StepOf(req'[g]) \in {"stat", "open marker"} /\ accidents' = 0
                         => Together(Disk')
  BY DEF ActivateInv
<1>3. g \in Requests /\ (g # h => g \in Busy /\ req[g].op = "activate")
  BY <1>2 DEF Busy
<1>4. g = h
  BY <1>1, <1>2, <1>3, Mutual
<1>5. /\ \A k \in Busy : ~Conflict(r.op, req[k].op)
      /\ accidents' = accidents /\ r.op = "activate"
  BY <1>1, <1>2, <1>4
<1>6. Busy = {}
  BY <1>5, Mutual
<1>7. Disk' = Disk
  BY <1>1, SameDisk
<1>8. StepOf(r) = "stat"
  BY <1>1, <1>5, FirstStep DEF Arrives
<1>9. Activates(r, Disk)
  BY <1>8 DEF Activates
<1>10. accidents = 0 => Together(Disk)
  <2> SUFFICES ASSUME accidents = 0 PROVE Together(Disk)
    OBVIOUS
  <2>1. PICK q, d : q = req /\ d = Disk /\ Agree(q, d)
    BY <1>6 DEF CalmInv
  <2>2. \A k \in Requests : q[k] = None
    BY <1>6, <2>1 DEF Busy
  <2>3. Together(d)
    BY <2>1, <2>2 DEF Agree, Together
  <2> QED
    BY <2>1, <2>3
<1> QED
  BY <1>2, <1>4, <1>5, <1>7, <1>9, <1>10

LEMMA CalmStep ==
  ASSUME IInv, OverlapInv, WantInv, ActivateInv, CalmInv, NEW h \in Requests, Step(h)
  PROVE  CalmInv'
<1>1. Progresses(h) /\ h \in Busy /\ Effective(h)
  BY Progress, Effects
<1> SUFFICES ASSUME accidents' = 0, \A g \in Busy' : req'[g].op # "activate"
             PROVE  Agree(req', Disk')
  BY DEF CalmInv
<1>2. PICK q, w, d, e, r, x : /\ q = req /\ w = req' /\ d = Disk /\ e = Disk'
                              /\ r = req[h] /\ x = req'[h]
  OBVIOUS
<1>3. \A g \in Requests \ {h} : Same(q[g], w[g]) /\ (q[g] = None <=> w[g] = None)
  BY <1>1, <1>2 DEF Progresses, Same
<1>4. CASE r.op = "activate"
  <2>1. x = None
    BY <1>1, <1>2, <1>4 DEF Progresses, Busy
  <2>2. h \notin tainted
    <3>1. accidents = 0 \/ h \notin tainted
      BY <1>1 DEF Progresses
    <3> QED
      BY <3>1 DEF OverlapInv
  <2>3. Busy = {h}
    BY <1>1, <1>2, <1>4, <2>2, Alone
  <2>4. \A g \in Requests : w[g] = None
    BY <1>2, <1>3, <2>1, <2>3 DEF Busy
  <2>5. ActivateEffect(r, x, d, e)
    BY <1>2, <1>4, <2>2, ActivateMoves
  <2>6. Together(e)
    <3>1. CASE StepOf(r) = "stat"
      <4>1. accidents = 0
        BY <1>2, <1>4, <3>1, StatKeeps
      <4>2. Together(d)
        BY <1>1, <1>2, <1>4, <2>2, <3>1, <4>1 DEF ActivateInv
      <4> QED
        BY <2>5, <3>1, <4>2 DEF ActivateEffect
    <3>2. CASE StepOf(r) # "stat"
      BY <2>1, <2>5, <3>2 DEF ActivateEffect
    <3> QED
      BY <3>1, <3>2
  <2>7. Agree(w, e)
    BY <2>4, <2>6 DEF Agree, Together
  <2> QED
    BY <1>2, <2>7
<1>5. CASE r.op # "activate"
  <2>1. accidents = 0 /\ tainted = {}
    BY <1>1, <1>2, <1>5 DEF Progresses, OverlapInv
  <2>2. \A g \in Busy : req[g].op # "activate"
    BY <1>2, <1>3, <1>5 DEF Same, Busy
  <2>3. Agree(q, d)
    BY <1>2, <2>1, <2>2 DEF CalmInv
  <2>4. Peaceful(q)
    <3>1. \A g \in Requests : q[g] # None =>
            Good(q[g]) /\ Wants(q[g]) /\ q[g].op # "activate"
      BY <1>2, <2>2 DEF IInv, RequestTypes, WantInv, Busy
    <3>2. \A g, k \in Requests : q[g] # None /\ q[k] # None /\ g # k =>
            ~Conflict(q[g].op, q[k].op)
      BY <1>2, <2>1 DEF OverlapInv, Busy
    <3> QED
      BY <3>1, <3>2 DEF Peaceful
  <2>5. d.profile \in [Ids -> Files]
    BY <1>2 DEF Disk, IInv, FileTypes
  <2>6. /\ r = q[h] /\ x = w[h] /\ r # None /\ Effect(r, x, d, e)
        /\ \A g \in Requests \ {h} : Beside(r, q[g], w[g])
    BY <1>1, <1>2 DEF Effective, Busy
  <2>7. Agree(w, e)
    BY <2>3, <2>4, <2>5, <2>6, AgreesOn
  <2> QED
    BY <1>2, <2>7
<1> QED
  BY <1>4, <1>5

LEMMA CalmArrive ==
  ASSUME IInv, CalmInv, NEW h \in Requests, Arrive(h)
  PROVE  CalmInv'
<1>1. PICK r : /\ req[h] = None /\ Arrives(r) /\ UNCHANGED files
               /\ req' = [req EXCEPT ![h] = r]
               /\ \/ /\ \A g \in Busy : ~Conflict(r.op, req[g].op)
                     /\ tainted' = tainted /\ accidents' = accidents
                  \/ /\ tainted' = tainted \cup {h}
                          \cup {g \in Busy : Conflict(r.op, req[g].op)}
                     /\ accidents' # 0
  BY Arrival
<1> SUFFICES ASSUME accidents' = 0, \A g \in Busy' : req'[g].op # "activate"
             PROVE  Agree(req', Disk')
  BY DEF CalmInv
<1>2. PICK q, w, d : q = req /\ w = req' /\ d = Disk /\ d = Disk'
  BY <1>1, SameDisk
<1>3. \A g \in Requests : w[g] = IF g = h THEN r ELSE q[g]
  BY <1>1, <1>2 DEF IInv, RequestTypes
<1>4. accidents = 0 /\ \A g \in Requests : q[g] # None => ~Conflict(r.op, q[g].op)
  BY <1>1, <1>2 DEF Busy
<1>5. /\ r # None /\ r.at = 1 /\ (r.op = "save" => r.base = d.marker)
      /\ r.op \in Ops
  BY <1>1, <1>2, Operations DEF Arrives, Good, Disk
<1>6. r.op # "activate" /\ \A g \in Busy : req[g].op # "activate"
  BY <1>1, <1>2, <1>3, <1>5 DEF Busy
<1>7. Agree(q, d)
  BY <1>2, <1>4, <1>6 DEF CalmInv
<1>8. /\ q[h] = None /\ w[h] = r /\ \A g \in Requests \ {h} : w[g] = q[g]
      /\ r.op \in Ops \ {"activate"}
  BY <1>1, <1>2, <1>3, <1>5, <1>6
<1>9. Agree(w, d)
  BY <1>4, <1>5, <1>7, <1>8, Joins
<1> QED
  BY <1>2, <1>9

LEMMA InitUInv == Init => UInv
<1> SUFFICES ASSUME Init PROVE UInv
  OBVIOUS
<1>1. IInv
  BY InitIInv
<1>2. Busy = {} /\ tainted = {}
  BY DEF Init, Busy
<1>3. OverlapInv /\ ActivateInv
  BY <1>2 DEF OverlapInv, ActivateInv
<1>4. WantInv
  BY <1>2, NamesAssumption DEF Init, WantInv
<1>5. CalmInv
  <2>1. PICK q, d : q = req /\ d = Disk
    OBVIOUS
  <2>2. (\A g \in Requests : q[g] = None)
    BY <2>1 DEF Init
  <2>3. Has(d.marker, d) /\ d.live = d.profile[d.marker]
    BY <2>1, DefaultAssumption, NamesAssumption DEF Init, Has, Disk
  <2>4. Agree(q, d)
    BY <2>2, <2>3 DEF Agree
  <2> QED
    BY <2>1, <2>4 DEF CalmInv
<1> QED
  BY <1>1, <1>3, <1>4, <1>5 DEF UInv

LEMMA NextUInv == UInv /\ [Next]_vars => UInv'
<1> SUFFICES ASSUME UInv, [Next]_vars PROVE UInv'
  OBVIOUS
<1>1. IInv /\ OverlapInv /\ WantInv /\ ActivateInv /\ CalmInv
  BY DEF UInv
<1>2. IInv'
  BY <1>1, NextIInv
<1>3. ASSUME NEW h \in Requests, Arrive(h) PROVE UInv'
  BY <1>1, <1>2, <1>3, OverlapArrive, WantElse, ActivateArrive, CalmArrive DEF UInv
<1>4. ASSUME NEW h \in Requests, Step(h) PROVE UInv'
  BY <1>1, <1>2, <1>4, OverlapStep, WantStep, ActivateStep, CalmStep DEF UInv
<1>5. ASSUME NEW h \in Requests, CutShort(h) PROVE UInv'
  <2>1. CalmInv'
    BY <1>1, <1>5, AccidentsAssumption DEF CutShort, Accident, IInv, FileTypes, CalmInv
  <2> QED
    BY <1>1, <1>2, <1>5, <2>1, OverlapStep, WantElse, ActivateStep DEF UInv
<1>6. CASE UNCHANGED vars
  <2>1. UNCHANGED <<live, tmp, marker, profile, req, tainted, accidents>>
    BY <1>6 DEF vars, files, history
  <2>2. Busy' = Busy /\ Disk' = Disk
    BY <2>1 DEF Busy, Disk
  <2>3. OverlapInv'
    BY <1>1, <2>1, <2>2 DEF OverlapInv
  <2>4. WantInv'
    BY <1>1, <2>1, <2>2 DEF WantInv
  <2>5. ActivateInv'
    BY <1>1, <2>1, <2>2 DEF ActivateInv
  <2>6. CalmInv'
    BY <1>1, <2>1, <2>2 DEF CalmInv
  <2> QED
    BY <1>2, <2>3, <2>4, <2>5, <2>6 DEF UInv
<1> QED
  BY <1>3, <1>4, <1>5, <1>6 DEF Next

\* The inductive invariant of the requests: overlaps of conflicting ones are
\* noted; without one, each request in service finds the files as its own
\* earlier steps have left them, whatever else is in service (profiles.go).
THEOREM Undisturbed == Spec => []UInv
<1>1. Init => UInv
  BY InitUInv
<1>2. UInv /\ [Next]_vars => UInv'
  BY NextUInv
<1> QED
  BY <1>1, <1>2, PTL DEF Spec

\* The live configuration is the active profile whenever no request that writes
\* either is in service, unless conflicting requests have overlapped, or one
\* was cut short, since the last undisturbed activation (handleProfileActivate,
\* the mirror in saveConfig).
THEOREM LiveAgrees == Spec => []LiveIsActive
<1>1. UInv => LiveIsActive
  <2> SUFFICES ASSUME UInv, Settled, accidents = 0
               PROVE  marker \in Ids /\ Exists(marker) /\ live = profile[marker]
    BY DEF LiveIsActive
  <2>1. PICK q, d : q = req /\ d = Disk
    OBVIOUS
  <2>2. \A g \in Requests : q[g] # None => q[g].op \notin {"save", "activate", "update"}
    BY <2>1 DEF Settled, Busy
  <2>3. Agree(q, d)
    BY <2>1, <2>2 DEF UInv, CalmInv, Busy
  <2>4. Has(d.marker, d) /\ d.live = d.profile[d.marker]
    BY <2>2, <2>3 DEF Agree, Between
  <2>5. d.marker = marker /\ d.profile = profile /\ d.live = live
    BY <2>1 DEF Disk
  <2> QED
    BY <2>4, <2>5 DEF Has, Exists
<1> QED
  BY <1>1, Undisturbed, PTL

\* The profile that a step of a request changes.
LEMMA Changes ==
  ASSUME NEW r, NEW x, NEW d, NEW e, NEW i \in Ids, e.profile[i] # d.profile[i],
         d.profile[i] \in Bodies, Effect(r, x, d, e), Good(r), Wants(r), Calm(r, d),
         r.op # "activate", Has(d.marker, d), d.profile \in [Ids -> Files]
  PROVE  r.base = i /\ r.op \in {"save", "update", "delete"}
<1>1. r \in Work /\ r.at \in 1 .. Len(Program(r.op)) /\ r.op \in Ops /\ r.body # Absent
  BY Operations DEF Good, Wants
<1>2. Plain(r) => \E t : Leads(r.op, StepOf(r), t)
  BY <1>1, Stand
<1>3. CASE r.op = "save"
  <2>1. SaveCalm(r, d) /\ r.base = d.marker /\ \E t : Leads(r.op, StepOf(r), t)
    BY <1>2, <1>3 DEF Calm, SaveCalm, Plain
  <2>2. \A j \in Ids : j # d.marker => e.profile[j] = d.profile[j]
    BY <1>1, <1>3, <2>1, SaveGoesOn
  <2> QED
    BY <1>3, <2>1, <2>2
<1>4. CASE r.op = "update"
  <2>1. /\ UpdateCalm(r, d) /\ r.base = r.id /\ r.id \in Ids
        /\ \E t : Leads(r.op, StepOf(r), t)
    BY <1>2, <1>4 DEF Calm, Wants, Plain, Good, Fits
  <2>2. UpdateGoes(r, x, d, e)
    BY <1>1, <1>4, <2>1, UpdateGoesOn
  <2> QED
    BY <1>4, <2>1, <2>2 DEF UpdateGoes
<1>5. CASE r.op = "delete"
  <2>1. /\ r.base = r.id /\ (StepOf(r) = "remove" => r.id # d.marker)
        /\ \E t : Leads(r.op, StepOf(r), t)
    BY <1>2, <1>5 DEF Calm, Wants, Plain
  <2>2. \A j \in Ids : e.profile[j] = d.profile[j] \/
                       (j = r.id /\ e.profile[j] = Absent /\ StepOf(r) = "remove")
    BY <1>5, <2>1, DeleteGoesOn
  <2> QED
    BY <1>5, <2>1, <2>2
<1>6. CASE r.op = "list"
  BY <1>6, ListGoesOn DEF Calm
<1>7. CASE r.op \in {"create", "import"}
  <2>1. NewCalm(r, d)
    BY <1>7 DEF Calm
  <2>2. NewGoes(r, x, d, e)
    <3>1. r.at \in Nat /\ Fits(r, StepOf(r))
      BY <1>1, Operations DEF Good
    <3> QED
      BY <1>1, <1>2, <1>7, <2>1, <3>1, NewGoesOn
  <2>3. i = r.id
    BY <2>2 DEF NewGoes
  <2>4. StepOf(r) \in {"open profile", "write profile"} /\ r.file # "gone"
    <3>1. StepOf(r) # "remove" \/ r.op = "delete"
      BY <2>2 DEF NewGoes
    <3>2. StepOf(r) = "open profile" => r.file = "none"
      BY DEF Good, Fits
    <3>3. CASE TestEffect(r, x, d, e)
      BY <3>3 DEF TestEffect
    <3>4. CASE ReadEffect(r, x, d, e)
      BY <3>4 DEF ReadEffect
    <3>5. CASE OpenEffect(r, x, d, e)
      BY <3>2, <3>5 DEF OpenEffect
    <3>6. CASE WriteEffect(r, x, d, e)
      BY <3>6 DEF WriteEffect
    <3>7. CASE MoveEffect(r, x, d, e)
      BY <1>7, <3>7 DEF MoveEffect
    <3> QED
      BY <3>3, <3>4, <3>5, <3>6, <3>7 DEF Effect
  <2>5. d.profile[i] \in {Absent, Empty}
    BY <2>1, <2>3, <2>4 DEF NewCalm
  <2> QED
    BY <2>5, NamesAssumption
<1> QED
  BY <1>1, <1>3, <1>4, <1>5, <1>6, <1>7 DEF Ops

\* A profile is a snapshot: a whole one changes only by a save while it was
\* active, by its own update or by its own deletion, unless conflicting
\* requests have overlapped (uniqueProfileID, profiles.go).
THEOREM SnapshotsAreKept == Spec => SnapshotsKept
<1> DEFINE Kept ==
      \A i \in Ids :
        profile'[i] # profile[i] /\ profile[i] \in Bodies =>
          \/ accidents' > 0
          \/ \E h \in Busy : /\ req[h].base = i
                             /\ req[h].op \in {"save", "update", "delete"}
<1>1. UInv /\ UInv' /\ [Next]_vars => [Kept]_vars
  <2> SUFFICES ASSUME UInv, UInv', Next, NEW i \in Ids, profile'[i] # profile[i],
                      profile[i] \in Bodies, ~(accidents' > 0)
               PROVE  \E h \in Busy : /\ req[h].base = i
                                      /\ req[h].op \in {"save", "update", "delete"}
    OBVIOUS
  <2>1. accidents' = 0
    BY AccidentsAssumption DEF UInv, IInv, FileTypes
  <2>2. PICK h \in Requests : Step(h)
    <3>1. ~UNCHANGED files
      BY DEF files
    <3> QED
      BY <3>1 DEF Next, Arrive, Start, CutShort
  <2>3. IInv /\ OverlapInv /\ WantInv /\ CalmInv
    BY DEF UInv
  <2>4. h \in Busy /\ Effective(h) /\ Progresses(h)
    BY <2>2, <2>3, Effects, Progress
  <2>5. PICK q, d, e, r, x : /\ q = req /\ d = Disk /\ e = Disk' /\ r = req[h]
                             /\ x = req'[h] /\ Good(r) /\ Wants(r)
    BY <2>3, <2>4 DEF IInv, RequestTypes, WantInv, Busy
  <2>6. Effect(r, x, d, e) /\ d.profile = profile /\ e.profile = profile'
    BY <2>4, <2>5 DEF Effective, Disk
  <2>7. r.op # "activate"
    <3> SUFFICES ASSUME r.op = "activate" PROVE FALSE
      OBVIOUS
    <3>1. \E t : Leads(r.op, StepOf(r), t)
      BY <2>5, Stand DEF Good, Plain
    <3>2. StepOf(r) \notin {"open profile", "write profile", "remove"}
      BY <3>1 DEF Leads
    <3>3. e.profile = d.profile
      BY <2>6, <3>2 DEF Effect, TestEffect, ReadEffect, OpenEffect, WriteEffect, MoveEffect
    <3> QED
      BY <2>6, <3>3
  <2>8. accidents = 0
    BY <2>1, <2>4, <2>5, <2>7 DEF Progresses
  <2>9. \A g \in Busy : req[g].op # "activate"
    BY <2>3, <2>4, <2>5, <2>7, <2>8, Mutual DEF OverlapInv
  <2>10. Agree(q, d)
    BY <2>3, <2>5, <2>8, <2>9 DEF CalmInv
  <2>11. Calm(r, d) /\ Has(d.marker, d)
    BY <2>4, <2>5, <2>10 DEF Agree, Busy
  <2>12. d.profile \in [Ids -> Files]
    BY <2>3, <2>6 DEF IInv, FileTypes
  <2>13. r.base = i /\ r.op \in {"save", "update", "delete"}
    BY <2>5, <2>6, <2>7, <2>11, <2>12, Changes
  <2> QED
    BY <2>4, <2>5, <2>13
<1>2. Spec => []UInv /\ [][Next]_vars
  BY Undisturbed DEF Spec
<1>3. Spec => [][Kept]_vars
  BY <1>1, <1>2, PTL
<1> QED
  BY <1>3 DEF SnapshotsKept
=============================================================================

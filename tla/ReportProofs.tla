---------------------------- MODULE ReportProofs ----------------------------
(***************************************************************************)
(* The reports of mapper.c for any bitmap, cadence, window and ring, and   *)
(* runs of any length: burst phases start with their runs, every press     *)
(* shows, and with one mouse the window misses no frame.                   *)
(***************************************************************************)
EXTENDS Report, FiniteSetTheorems, FunctionTheorems, SequenceTheorems,
        WellFoundedInduction, TLAPS

Entries == [t : Nat, pressed : SUBSET Actions]

Types ==
  /\ now \in 1 .. MaxTime
  /\ pressed \subseteq Actions /\ risen \subseteq Actions
  /\ since \in [Actions -> 0 .. now]
  /\ burst \subseteq Buttons /\ pattern \in Patterns
  /\ frames \in [Mice -> Seq(Nat)]
  /\ \A m \in Mice : \A i \in DOMAIN frames[m] : frames[m][i] <= now
  /\ ring \in [0 .. RingCap - 1 -> 0 .. now]
  /\ head \in 0 .. RingCap - 1 /\ count \in 0 .. RingCap
  /\ motion \subseteq Mice \X (0 .. now)
  /\ report.active \subseteq Actions /\ report.counts \in 0 .. RingCap
  /\ log \in Seq(Entries) /\ \A i \in DOMAIN log : log[i].t \in 1 .. now

\* Nothing is stamped before the first report; after it, the property.
PhaseInv ==
  /\ log = <<>> => \A a \in Actions : since[a] = 0
  /\ PhaseFromRun

\* The samples of one mouse are its last frames, newest first and at least a
\* millisecond apart; what was read and is not in the ring is older; what is
\* not read yet is newer, in order.
RingInv(m) ==
  /\ \A i, j \in 0 .. count - 1 : i <= j => Sample(j) + (j - i) <= Sample(i)
  /\ \A i \in 0 .. count - 1 : <<m, Sample(i)>> \in motion
  /\ \A f \in motion :
       \/ \E i \in 0 .. count - 1 : Sample(i) = f[2]
       \/ count = RingCap /\ f[2] < Sample(RingCap - 1)
  /\ \A i, j \in DOMAIN frames[m] : i < j => frames[m][i] < frames[m][j]
  /\ \A f \in motion : \A i \in DOMAIN frames[m] : f[2] < frames[m][i]

IInv == Types /\ PhaseInv
-----------------------------------------------------------------------------
(* The ring. *)
LEMMA Modulo ==
  ASSUME NEW n \in Nat \ {0}, NEW x \in Int, -n <= x, x < n
  PROVE  (x + n) % n = IF x < 0 THEN x + n ELSE x
<1>1. CASE x < 0
  BY <1>1
<1>2. CASE x >= 0
  BY <1>2
<1> QED
  BY <1>1, <1>2

Slot(h, i) == IF h - 1 - i < 0 THEN h - 1 - i + RingCap ELSE h - 1 - i

LEMMA SampleSlot ==
  ASSUME NEW h \in 0 .. RingCap - 1, NEW i \in 0 .. RingCap - 1
  PROVE  (h - 1 - i + RingCap) % RingCap = Slot(h, i) /\ Slot(h, i) \in 0 .. RingCap - 1
<1>1. RingCap \in Nat \ {0}
  BY WindowAssumption
<1> DEFINE x == h - 1 - i
<1>2. x \in Int /\ -RingCap <= x /\ x < RingCap
  BY <1>1
<1>3. (x + RingCap) % RingCap = Slot(h, i)
  BY <1>1, <1>2, Modulo DEF Slot
<1>4. Slot(h, i) \in 0 .. RingCap - 1
  BY <1>1, <1>2 DEF Slot
<1> QED
  BY <1>3, <1>4

\* Writing at the head makes every sample one older.
LEMMA Rotated ==
  ASSUME NEW h \in 0 .. RingCap - 1, NEW g, g = (h + 1) % RingCap
  PROVE  /\ g \in 0 .. RingCap - 1 /\ Slot(g, 0) = h
         /\ \A i \in 1 .. RingCap - 1 : Slot(g, i) = Slot(h, i - 1) /\ Slot(h, i - 1) # h
<1>1. RingCap \in Nat \ {0}
  BY WindowAssumption
<1>2. g = IF h + 1 < RingCap THEN h + 1 ELSE 0
  <2> DEFINE x == h + 1 - RingCap
  <2>1. x \in Int /\ -RingCap <= x /\ x < RingCap /\ x + RingCap = h + 1
    BY <1>1
  <2>2. (x + RingCap) % RingCap = IF x < 0 THEN x + RingCap ELSE x
    BY <1>1, <2>1, Modulo
  <2>3. ~(x < 0) => x = 0
    BY <1>1
  <2>4. x < 0 <=> h + 1 < RingCap
    BY <1>1
  <2> HIDE DEF x
  <2> QED
    BY <2>1, <2>2, <2>3, <2>4
<1>3. CASE h + 1 < RingCap
  <2>1. g = h + 1
    BY <1>2, <1>3
  <2> QED
    BY <1>1, <1>3, <2>1 DEF Slot
<1>4. CASE ~(h + 1 < RingCap)
  <2>1. g = 0 /\ h = RingCap - 1
    BY <1>1, <1>2, <1>4
  <2> QED
    BY <1>1, <2>1 DEF Slot
<1> QED
  BY <1>3, <1>4

LEMMA Pushed ==
  ASSUME Types, NEW m \in Mice, ReadFrame(m)
  PROVE  /\ Sample(0)' = Head(frames[m])
         /\ \A i \in 1 .. RingCap - 1 : Sample(i)' = Sample(i - 1)
<1>1. /\ ring' = [ring EXCEPT ![head] = Head(frames[m])] /\ head' = (head + 1) % RingCap
      /\ head \in 0 .. RingCap - 1 /\ ring \in [0 .. RingCap - 1 -> 0 .. now]
  BY DEF ReadFrame, Types
<1>2. RingCap \in Nat \ {0}
  BY WindowAssumption
<1>3. /\ head' \in 0 .. RingCap - 1 /\ Slot(head', 0) = head
      /\ \A i \in 1 .. RingCap - 1 : /\ Slot(head', i) = Slot(head, i - 1)
                                     /\ Slot(head, i - 1) # head
  BY <1>1, Rotated
<1>4. ASSUME NEW i \in 0 .. RingCap - 1
      PROVE  Sample(i)' = ring'[Slot(head', i)] /\ Sample(i) = ring[Slot(head, i)]
             /\ Slot(head, i) \in 0 .. RingCap - 1
  <2>1. /\ (head' - 1 - i + RingCap) % RingCap = Slot(head', i)
        /\ (head - 1 - i + RingCap) % RingCap = Slot(head, i)
        /\ Slot(head, i) \in 0 .. RingCap - 1
    BY <1>1, <1>3, SampleSlot
  <2> QED
    BY <2>1 DEF Sample
<1>5. Sample(0)' = Head(frames[m])
  <2>1. 0 \in 0 .. RingCap - 1
    BY <1>2
  <2> QED
    BY <1>1, <1>3, <1>4, <2>1
<1>6. ASSUME NEW i \in 1 .. RingCap - 1 PROVE Sample(i)' = Sample(i - 1)
  <2>1. i \in 0 .. RingCap - 1 /\ i - 1 \in 0 .. RingCap - 1
    BY <1>2
  <2>2. Sample(i)' = ring'[Slot(head, i - 1)] /\ Sample(i - 1) = ring[Slot(head, i - 1)]
        /\ Slot(head, i - 1) # head /\ Slot(head, i - 1) \in 0 .. RingCap - 1
    BY <1>3, <1>4, <2>1
  <2> QED
    BY <1>1, <2>2
<1> QED
  BY <1>5, <1>6
-----------------------------------------------------------------------------
(* The cadence. *)
Any(S) == CHOOSE x \in S : TRUE

\* g is the function that the sum of the first cycles is defined by.
Sums(S, g) ==
  g = [s \in SUBSET S |-> IF s = {} THEN 0 ELSE pattern[Any(s)][1] + g[s \ {Any(s)}]]

LEMMA FirstCycle ==
  ASSUME Types, pattern # <<>>
  PROVE  CycleStart(1) = 0 /\ CycleStart(2) = pattern[1][1] /\ 1 \in DOMAIN pattern
<1>1. pattern \in Seq(Nat \X Nat)
  BY PatternsAssumption DEF Types
<1>2. 1 \in DOMAIN pattern /\ pattern[1][1] \in Nat
  BY <1>1
<1> DEFINE w == pattern[1][1]
           Sol(S) == CHOOSE g : Sums(S, g)
<1>3. \A i : CycleStart(i) = Sol(1 .. i - 1)[1 .. i - 1]
  BY DEF CycleStart, MapThenSumSet, MapThenFoldSet, Sums, Any
<1> HIDE DEF w, Sol
<1>4. 1 .. 1 - 1 = {} /\ 1 .. 2 - 1 = {1}
  OBVIOUS
<1>5. Any({1}) = 1
  <2>1. Any({1}) \in {1}
    BY DEF Any
  <2> QED
    BY <2>1
<1>6. \A s \in SUBSET {1} : s = {} \/ s = {1}
  OBVIOUS
<1>7. {1} \ {1} = {}
  OBVIOUS
<1>8. Sol({})[{}] = 0
  <2>1. Sums({}, [s \in SUBSET {} |-> 0])
    BY DEF Sums
  <2>2. Sums({}, Sol({}))
    BY <2>1 DEF Sol
  <2> QED
    BY <2>2 DEF Sums
<1>9. Sol({1})[{1}] = w
  <2> DEFINE one == [s \in SUBSET {1} |-> IF s = {} THEN 0 ELSE w]
             next(s) == pattern[Any(s)][1] + one[s \ {Any(s)}]
  <2>1. one[{}] = 0
    OBVIOUS
  <2>2. w \in Nat /\ pattern[1][1] = w
    BY <1>2 DEF w
  <2>3. next({1}) = w
    <3>1. next({1}) = pattern[1][1] + one[{}]
      BY <1>5, <1>7
    <3> HIDE DEF one
    <3> QED
      BY <2>1, <2>2, <3>1
  <2>4. one = [s \in SUBSET {1} |-> IF s = {} THEN 0 ELSE next(s)]
    <3> HIDE DEF next
    <3>1. \A s \in SUBSET {1} : s # {} => next(s) = w
      BY <1>6, <2>3
    <3> QED
      BY <3>1
  <2> HIDE DEF one
  <2>5. Sums({1}, one)
    BY <2>4 DEF Sums
  <2>6. Sums({1}, Sol({1}))
    BY <2>5 DEF Sol
  <2>7. ASSUME NEW g, Sums({1}, g) PROVE g[{1}] = w
    <3>1. g[{}] = 0
      BY <2>7 DEF Sums
    <3>2. g[{1}] = pattern[Any({1})][1] + g[{1} \ {Any({1})}]
      <4>1. {1} \in SUBSET {1} /\ {1} # {}
        OBVIOUS
      <4> QED
        BY <2>7, <4>1 DEF Sums
    <3>3. g[{1}] = pattern[1][1] + g[{}]
      BY <1>5, <1>7, <3>2
    <3> QED
      BY <2>2, <3>1, <3>3
  <2> QED
    BY <2>6, <2>7
<1>10. CycleStart(1) = Sol({})[{}] /\ CycleStart(2) = Sol({1})[{1}]
  BY <1>3, <1>4
<1> QED
  BY <1>2, <1>8, <1>9, <1>10 DEF w

\* The oscillator begins with its high half.
LEMMA HighFirst ==
  ASSUME Types, pattern # <<>> => pattern[1][2] > 0
  PROVE  OnPhase(0)
<1>1. CASE pattern = <<>>
  <2>1. DOMAIN pattern = {}
    BY <1>1
  <2>2. 0 % Period < OnTime
    BY CadenceAssumption
  <2> QED
    BY <2>1, <2>2 DEF OnPhase
<1>2. CASE pattern # <<>>
  <2>1. CycleStart(1) = 0 /\ CycleStart(2) = pattern[1][1] /\ 1 \in DOMAIN pattern
    BY <1>2, FirstCycle
  <2>2. /\ pattern[1][1] \in Nat /\ pattern[1][2] \in Nat /\ pattern[1][1] > 0
        /\ pattern[1][2] > 0
    BY <1>2, <2>1, PatternsAssumption DEF Types
  <2>3. CycleStart(1) <= 0 /\ 0 < CycleStart(1 + 1) /\ 0 - CycleStart(1) < pattern[1][2]
    <3>1. CycleStart(1 + 1) = pattern[1][1]
      BY <2>1
    <3> QED
      BY <2>1, <2>2, <3>1
  <2> QED
    BY <2>1, <2>3 DEF OnPhase
<1> QED
  BY <1>1, <1>2
-----------------------------------------------------------------------------
(* Runs of reports. *)
LEMMA LeastExists ==
  ASSUME NEW S \in SUBSET Nat, S # {}
  PROVE  \E x \in S : \A y \in S : x <= y
<1> DEFINE R == OpToRel(<, Nat)
<1>1. IsWellFoundedOn(R, Nat) /\ \A x, y \in Nat : y < x => <<y, x>> \in R
  BY NatLessThanWellFounded DEF OpToRel
<1> HIDE DEF R
<1>2. PICK x \in S : \A y \in S : <<y, x>> \notin R
  BY <1>1, WFMin
<1>3. \A y \in S : ~(y < x)
  BY <1>1, <1>2
<1> QED
  BY <1>3

LEMMA MinLeast ==
  ASSUME NEW S \in SUBSET Nat, S # {}
  PROVE  Min(S) \in S /\ \A y \in S : Min(S) <= y
BY LeastExists DEF Min

\* The reports from which on a is pressed in all of l.
Runs(l, a) == {i \in DOMAIN l : \A j \in i .. Len(l) : a \in l[j].pressed}

LEMMA RunStarts ==
  ASSUME NEW l \in Seq(Entries), NEW e \in Entries, NEW a, a \in e.pressed,
         l = <<>> \/ a \notin l[Len(l)].pressed
  PROVE  Runs(Append(l, e), a) = {Len(l) + 1}
<1> DEFINE n == Len(l)  b == Append(l, e)
<1>1. /\ n \in Nat /\ DOMAIN b = 1 .. n + 1 /\ Len(b) = n + 1 /\ b[n + 1] = e
      /\ \A i \in 1 .. n : b[i] = l[i]
  BY AppendProperties
<1>2. n \in 1 .. n => a \notin b[n].pressed
  BY <1>1
<1> HIDE DEF n, b
<1>3. ASSUME NEW i \in 1 .. n + 1, \A j \in i .. n + 1 : a \in b[j].pressed PROVE i = n + 1
  <2>1. CASE i <= n
    <3>1. n \in i .. n + 1 /\ n \in 1 .. n
      BY <1>1, <2>1
    <3> QED
      BY <1>2, <1>3, <3>1
  <2> QED
    BY <1>1, <2>1
<1>4. \A j \in n + 1 .. n + 1 : j = n + 1
  BY <1>1
<1>5. n + 1 \in 1 .. n + 1
  BY <1>1
<1>6. Runs(b, a) = {i \in 1 .. n + 1 : \A j \in i .. n + 1 : a \in b[j].pressed}
  BY <1>1 DEF Runs
<1>7. Runs(b, a) = {n + 1}
  BY <1>1, <1>3, <1>4, <1>5, <1>6
<1> QED
  BY <1>7 DEF n, b

LEMMA RunGoesOn ==
  ASSUME NEW l \in Seq(Entries), NEW e \in Entries, NEW a, a \in e.pressed,
         l # <<>>, a \in l[Len(l)].pressed
  PROVE  /\ Len(l) \in Runs(l, a) /\ Runs(l, a) \subseteq 1 .. Len(l)
         /\ Runs(Append(l, e), a) = Runs(l, a) \cup {Len(l) + 1}
<1> DEFINE n == Len(l)  b == Append(l, e)
<1>1. /\ n \in Nat \ {0} /\ DOMAIN b = 1 .. n + 1 /\ Len(b) = n + 1 /\ b[n + 1] = e
      /\ DOMAIN l = 1 .. n /\ \A i \in 1 .. n : b[i] = l[i]
  BY AppendProperties
<1>2. a \in l[n].pressed
  OBVIOUS
<1> HIDE DEF n, b
<1>3. /\ Runs(b, a) = {i \in 1 .. n + 1 : \A j \in i .. n + 1 : a \in b[j].pressed}
      /\ Runs(l, a) = {i \in 1 .. n : \A j \in i .. n : a \in l[j].pressed}
  BY <1>1 DEF Runs, n
<1>4. n \in Runs(l, a)
  <2>1. \A j \in n .. n : j = n
    BY <1>1
  <2> QED
    BY <1>1, <1>2, <1>3, <2>1
<1>5. ASSUME NEW i \in 1 .. n
      PROVE  (\A j \in i .. n + 1 : a \in b[j].pressed)
               <=> \A j \in i .. n : a \in l[j].pressed
  <2>1. \A j \in i .. n + 1 : j \in i .. n \/ j = n + 1
    BY <1>1
  <2>2. \A j \in i .. n : j \in i .. n + 1 /\ b[j] = l[j]
    BY <1>1
  <2> QED
    BY <1>1, <2>1, <2>2
<1>6. \A i \in 1 .. n + 1 : i \in 1 .. n \/ i = n + 1
  BY <1>1
<1>7. n + 1 \in Runs(b, a)
  <2>1. (\A j \in n + 1 .. n + 1 : j = n + 1) /\ n + 1 \in 1 .. n + 1
    BY <1>1
  <2> QED
    BY <1>1, <1>3, <2>1
<1>8. \A i \in 1 .. n : i \in 1 .. n + 1 /\ (i \in Runs(b, a) <=> i \in Runs(l, a))
  BY <1>1, <1>3, <1>5
<1>9. Runs(b, a) = Runs(l, a) \cup {n + 1}
  BY <1>3, <1>6, <1>7, <1>8
<1> QED
  BY <1>1, <1>3, <1>4, <1>9 DEF n, b

\* The start of a run stays where it is while the run goes on.
LEMMA StartOfRun ==
  ASSUME NEW l \in Seq(Entries), NEW e \in Entries, NEW a, a \in e.pressed
  PROVE  /\ l = <<>> \/ a \notin l[Len(l)].pressed =>
              Min(Runs(Append(l, e), a)) = Len(l) + 1
         /\ l # <<>> /\ a \in l[Len(l)].pressed =>
              /\ Min(Runs(l, a)) \in 1 .. Len(l)
              /\ Min(Runs(Append(l, e), a)) = Min(Runs(l, a))
<1>1. Len(l) \in Nat
  OBVIOUS
<1>2. ASSUME l = <<>> \/ a \notin l[Len(l)].pressed
      PROVE  Min(Runs(Append(l, e), a)) = Len(l) + 1
  <2>1. Runs(Append(l, e), a) = {Len(l) + 1}
    BY <1>2, RunStarts
  <2>2. {Len(l) + 1} \in SUBSET Nat /\ {Len(l) + 1} # {}
    BY <1>1
  <2>3. Min({Len(l) + 1}) \in {Len(l) + 1}
    BY <2>2, MinLeast
  <2> QED
    BY <2>1, <2>3
<1>3. ASSUME l # <<>>, a \in l[Len(l)].pressed
      PROVE  /\ Min(Runs(l, a)) \in 1 .. Len(l)
             /\ Min(Runs(Append(l, e), a)) = Min(Runs(l, a))
  <2> DEFINE S == Runs(l, a)  T == Runs(Append(l, e), a)
  <2>1. Len(l) \in S /\ S \subseteq 1 .. Len(l) /\ T = S \cup {Len(l) + 1}
    BY <1>3, RunGoesOn
  <2> HIDE DEF S, T
  <2>2. S \in SUBSET Nat /\ S # {} /\ T \in SUBSET Nat /\ T # {}
    <3>1. 1 .. Len(l) \subseteq Nat /\ Len(l) + 1 \in Nat
      BY <1>1
    <3> QED
      BY <2>1, <3>1
  <2>3. Min(S) \in S /\ \A y \in S : Min(S) <= y
    BY <2>2, MinLeast
  <2>4. Min(T) \in T /\ \A y \in T : Min(T) <= y
    BY <2>2, MinLeast
  <2>5. Min(S) \in 1 .. Len(l) /\ Min(S) \in Nat /\ Min(T) \in Nat
    BY <2>1, <2>2, <2>3, <2>4
  <2>6. Min(T) <= Min(S)
    BY <2>1, <2>3, <2>4
  <2>7. Min(T) \in S
    BY <1>1, <2>1, <2>4, <2>5, <2>6
  <2>8. Min(S) <= Min(T)
    BY <2>3, <2>7
  <2> QED
    BY <2>5, <2>6, <2>8 DEF S, T
<1> QED
  BY <1>2, <1>3
-----------------------------------------------------------------------------
(* The steps. *)
LEMMA NowBehind ==
  ASSUME NEW q \in Seq(Nat), NEW n \in Nat, \A i \in DOMAIN q : q[i] <= n
  PROVE  LET r == Append(q, n) IN
           /\ r \in Seq(Nat) /\ \A i \in DOMAIN r : r[i] <= n
           /\ DOMAIN r = 1 .. Len(q) + 1 /\ r[Len(q) + 1] = n
           /\ \A i \in DOMAIN q : i \in DOMAIN r /\ r[i] = q[i]
           /\ \A i \in DOMAIN r : i \in DOMAIN q \/ i = Len(q) + 1
<1> DEFINE r == Append(q, n)
<1>1. /\ r \in Seq(Nat) /\ DOMAIN r = 1 .. Len(q) + 1 /\ r[Len(q) + 1] = n
      /\ \A i \in 1 .. Len(q) : r[i] = q[i]
  BY AppendProperties
<1>2. Len(q) \in Nat /\ DOMAIN q = 1 .. Len(q)
  OBVIOUS
<1> HIDE DEF r
<1>3. \A i \in DOMAIN r : i \in DOMAIN q \/ i = Len(q) + 1
  BY <1>1, <1>2
<1>4. \A i \in DOMAIN q : i \in DOMAIN r /\ r[i] = q[i]
  BY <1>1, <1>2
<1>5. ASSUME NEW i \in DOMAIN r PROVE r[i] <= n
  <2>1. CASE i \in DOMAIN q
    BY <1>4, <2>1
  <2>2. CASE i = Len(q) + 1
    BY <1>1, <2>2
  <2> QED
    BY <1>3, <2>1, <2>2
<1> QED
  BY <1>1, <1>3, <1>4, <1>5 DEF r

LEMMA HeadOff ==
  ASSUME NEW q \in Seq(Nat), q # <<>>, NEW n \in Nat, \A i \in DOMAIN q : q[i] <= n
  PROVE  LET r == Tail(q) IN
           /\ r \in Seq(Nat) /\ \A i \in DOMAIN r : r[i] <= n
           /\ Head(q) \in 0 .. n /\ 1 \in DOMAIN q /\ q[1] = Head(q)
           /\ \A i \in DOMAIN r : i + 1 \in DOMAIN q /\ r[i] = q[i + 1] /\ 1 < i + 1
<1> DEFINE r == Tail(q)
<1>1. /\ r \in Seq(Nat) /\ Len(r) = Len(q) - 1 /\ Head(q) = q[1]
      /\ \A i \in 1 .. Len(r) : r[i] = q[i + 1]
  BY HeadTailProperties
<1>2. Len(q) \in Nat \ {0} /\ DOMAIN q = 1 .. Len(q)
  OBVIOUS
<1> HIDE DEF r
<1>3. DOMAIN r = 1 .. Len(r)
  BY <1>1
<1>4. 1 \in DOMAIN q /\ \A i \in DOMAIN r : i + 1 \in DOMAIN q /\ 1 < i + 1
  BY <1>1, <1>2, <1>3, SMTT(20)
<1>5. Head(q) \in Nat /\ Head(q) <= n
  BY <1>1, <1>4
<1>6. \A i \in DOMAIN r : r[i] = q[i + 1]
  BY <1>1, <1>3
<1>7. \A i \in DOMAIN r : r[i] <= n
  BY <1>4, <1>6
<1> QED
  BY <1>1, <1>4, <1>5, <1>6, <1>7 DEF r

LEMMA WindowBound ==
  ASSUME Types
  PROVE  WindowSum \in 0 .. RingCap
<1>1. count \in Nat /\ count <= RingCap /\ RingCap \in Nat
  BY WindowAssumption DEF Types
<1> DEFINE W == {i \in 0 .. count - 1 : \A j \in 0 .. i : Sample(j) >= Cutoff}
<1>2. IsFiniteSet(0 .. count - 1) /\ Cardinality(0 .. count - 1) = count
  BY <1>1, FS_Interval
<1>3. W \subseteq 0 .. count - 1
  OBVIOUS
<1> HIDE DEF W
<1>4. IsFiniteSet(W) /\ Cardinality(W) <= Cardinality(0 .. count - 1)
  BY <1>2, <1>3, FS_Subset
<1>5. Cardinality(W) \in Nat
  BY <1>4, FS_CardinalityType
<1>6. Cardinality(W) \in 0 .. RingCap
  BY <1>1, <1>2, <1>4, <1>5
<1> QED
  BY <1>6 DEF WindowSum, W

LEMMA TypesStep ==
  ASSUME Types, [Next]_vars
  PROVE  Types'
<1> USE DEF keyVars, burstVars, ringVars, reportVars
<1>0. now \in Nat /\ MaxTime \in Nat
  BY TimeAssumption DEF Types
<1>1. CASE Advance
  <2>1. now < MaxTime /\ now' = now + 1
        /\ UNCHANGED <<pressed, risen, burst, pattern, frames, ring, head, count, motion,
                       since, report, log>>
    BY <1>1 DEF Advance
  <2>2. now' \in 1 .. MaxTime /\ 0 .. now \subseteq 0 .. now' /\ 1 .. now \subseteq 1 .. now'
    BY <1>0, <2>1 DEF Types
  <2>3. since' \in [Actions -> 0 .. now'] /\ ring' \in [0 .. RingCap - 1 -> 0 .. now']
    BY <2>1, <2>2 DEF Types
  <2>4. motion' \subseteq Mice \X (0 .. now') /\ \A i \in DOMAIN log' : log'[i].t \in 1 .. now'
    BY <2>1, <2>2 DEF Types
  <2>5. \A m \in Mice : \A i \in DOMAIN frames'[m] : frames'[m][i] <= now'
    <3> SUFFICES ASSUME NEW m \in Mice, NEW i \in DOMAIN frames[m]
                 PROVE  frames[m][i] <= now + 1
      BY <2>1
    <3>1. frames[m] \in Seq(Nat) /\ frames[m][i] <= now
      BY DEF Types
    <3>2. frames[m][i] \in Nat
      BY <3>1
    <3> QED
      BY <1>0, <3>1, <3>2
  <2> QED
    BY <2>1, <2>2, <2>3, <2>4, <2>5 DEF Types
<1>2. ASSUME NEW a \in Actions, SetAction(a) PROVE Types'
  <2>1. UNCHANGED <<now, burst, pattern, frames, ring, head, count, motion, since, report, log>>
    BY <1>2 DEF SetAction
  <2>2. pressed' \subseteq Actions /\ risen' \subseteq Actions
    BY <1>2 DEF SetAction, Types
  <2> QED
    BY <2>1, <2>2 DEF Types
<1>3. ASSUME NEW m \in Mice, Move(m) PROVE Types'
  <2>1. frames' = [frames EXCEPT ![m] = Append(frames[m], now)]
        /\ UNCHANGED <<now, pressed, risen, burst, pattern, ring, head, count, motion, since,
                       report, log>>
    BY <1>3 DEF Move
  <2>2. frames[m] \in Seq(Nat) /\ \A i \in DOMAIN frames[m] : frames[m][i] <= now
    BY DEF Types
  <2> DEFINE q == Append(frames[m], now)
  <2>3. q \in Seq(Nat) /\ \A i \in DOMAIN q : q[i] <= now
    BY <1>0, <2>2, NowBehind
  <2> HIDE DEF q
  <2>4. frames' = [frames EXCEPT ![m] = q]
    BY <2>1 DEF q
  <2>5. frames' \in [Mice -> Seq(Nat)]
        /\ \A x \in Mice : \A i \in DOMAIN frames'[x] : frames'[x][i] <= now
    BY <2>3, <2>4 DEF Types
  <2> QED
    BY <2>1, <2>5 DEF Types
<1>4. ASSUME NEW m \in Mice, ReadFrame(m) PROVE Types'
  <2>1. /\ frames[m] # <<>> /\ frames' = [frames EXCEPT ![m] = Tail(frames[m])]
        /\ ring' = [ring EXCEPT ![head] = Head(frames[m])] /\ head' = (head + 1) % RingCap
        /\ count' = (IF count < RingCap THEN count + 1 ELSE count)
        /\ motion' = motion \cup {<<m, Head(frames[m])>>}
        /\ UNCHANGED <<now, pressed, risen, burst, pattern, since, report, log>>
    BY <1>4 DEF ReadFrame
  <2>2. frames[m] \in Seq(Nat) /\ \A i \in DOMAIN frames[m] : frames[m][i] <= now
    BY DEF Types
  <2> DEFINE q == Tail(frames[m])
  <2>3. /\ q \in Seq(Nat) /\ Head(frames[m]) \in 0 .. now
        /\ \A i \in DOMAIN q : q[i] <= now
    BY <1>0, <2>1, <2>2, HeadOff
  <2> HIDE DEF q
  <2>4. frames' = [frames EXCEPT ![m] = q]
    BY <2>1 DEF q
  <2>5. frames' \in [Mice -> Seq(Nat)]
        /\ \A x \in Mice : \A i \in DOMAIN frames'[x] : frames'[x][i] <= now
    BY <2>3, <2>4 DEF Types
  <2>6. head' \in 0 .. RingCap - 1
    BY <2>1, Rotated DEF Types
  <2>7. count' \in 0 .. RingCap
    BY <2>1, WindowAssumption DEF Types
  <2>8. ring' \in [0 .. RingCap - 1 -> 0 .. now] /\ motion' \subseteq Mice \X (0 .. now)
    BY <2>1, <2>3 DEF Types
  <2> QED
    BY <2>1, <2>5, <2>6, <2>7, <2>8 DEF Types
<1>5. ASSUME NEW B \in SUBSET Buttons, NEW p \in Patterns, Reload(B, p) PROVE Types'
  <2>1. burst' = B /\ pattern' = p
        /\ UNCHANGED <<now, pressed, risen, frames, ring, head, count, motion, since, report,
                       log>>
    BY <1>5 DEF Reload
  <2> QED
    BY <2>1 DEF Types
<1>6. CASE BuildReport
  <2>1. /\ since' = [a \in Actions |-> SinceAt(a)]
        /\ report' = [active |-> {a \in Buttons : IsActive(a, since'[a])}
                                   \cup (pressed \cap Directions),
                      counts |-> WindowSum]
        /\ log' = Append(log, [t |-> now, pressed |-> pressed]) /\ risen' = {}
        /\ UNCHANGED <<now, pressed, burst, pattern, frames, ring, head, count, motion>>
    BY <1>6 DEF BuildReport
  <2>2. \A a \in Actions : SinceAt(a) \in 0 .. now
    BY <1>0 DEF SinceAt, Types
  <2>3. since' \in [Actions -> 0 .. now]
    BY <2>1, <2>2
  <2>4. report'.active \subseteq Actions /\ report'.counts \in 0 .. RingCap
    BY <2>1, WindowBound DEF Actions
  <2> DEFINE e == [t |-> now, pressed |-> pressed]
  <2>5. e \in Entries /\ e.t \in 1 .. now /\ log \in Seq(Entries)
        /\ \A i \in DOMAIN log : log[i].t \in 1 .. now
    BY <1>0 DEF Types, Entries
  <2>6. log' = Append(log, e)
    BY <2>1
  <2> HIDE DEF e
  <2>7. log' \in Seq(Entries) /\ \A i \in DOMAIN log' : log'[i].t \in 1 .. now
    <3>1. /\ log' \in Seq(Entries) /\ DOMAIN log' = 1 .. Len(log) + 1
          /\ log'[Len(log) + 1] = e /\ \A i \in 1 .. Len(log) : log'[i] = log[i]
      BY <2>5, <2>6, AppendProperties
    <3>2. Len(log) \in Nat /\ DOMAIN log = 1 .. Len(log)
      BY <2>5
    <3>3. \A i \in DOMAIN log' : i \in 1 .. Len(log) \/ i = Len(log) + 1
      BY <3>1, <3>2
    <3> QED
      BY <2>5, <3>1, <3>2, <3>3
  <2> QED
    BY <2>1, <2>3, <2>4, <2>7 DEF Types
<1>7. CASE UNCHANGED vars
  BY <1>7 DEF vars, Types
<1> QED
  BY <1>1, <1>2, <1>3, <1>4, <1>5, <1>6, <1>7 DEF Next

\* What a report that shows no action says of it, and that it has a start.
LEMMA PhaseKnown ==
  ASSUME Types, PhaseInv, NEW a \in Actions
  PROVE  /\ log = <<>> \/ a \notin Last.pressed => since[a] = 0
         /\ log # <<>> /\ a \in Last.pressed =>
              since[a] = log[Min(Runs(log, a))].t /\ since[a] # 0
<1>1. RunStart(a) = Min(Runs(log, a))
  BY DEF RunStart, Runs
<1>2. ASSUME log # <<>>, a \in Last.pressed
      PROVE  since[a] = log[Min(Runs(log, a))].t /\ since[a] # 0
  <2>1. since[a] = log[Min(Runs(log, a))].t
    BY <1>1, <1>2 DEF PhaseInv, PhaseFromRun
  <2>2. log \in Seq(Entries) /\ a \in log[Len(log)].pressed /\ Len(log) \in 1 .. Len(log)
    BY <1>2 DEF Types, Last
  <2>3. log[Len(log)] \in Entries
    BY <2>2
  <2>4. Min(Runs(log, a)) \in 1 .. Len(log)
    BY <1>2, <2>2, <2>3, StartOfRun
  <2>5. log[Min(Runs(log, a))].t \in 1 .. now
    BY <2>2, <2>4 DEF Types
  <2>6. now \in Nat
    BY DEF Types
  <2> QED
    BY <2>1, <2>5, <2>6
<1> QED
  BY <1>2 DEF PhaseInv, PhaseFromRun

LEMMA PhaseStep ==
  ASSUME Types, PhaseInv, [Next]_vars
  PROVE  PhaseInv'
<1> USE DEF keyVars, burstVars, ringVars, reportVars
<1>1. CASE BuildReport
  <2> DEFINE e == [t |-> now, pressed |-> pressed]
  <2>1. /\ since' = [a \in Actions |-> SinceAt(a)] /\ log' = Append(log, e)
        /\ log \in Seq(Entries) /\ pressed \subseteq Actions
    BY <1>1 DEF BuildReport, Types
  <2>2. e \in Entries /\ e.pressed = pressed /\ e.t = now
    BY DEF Types, Entries
  <2> HIDE DEF e
  <2>3. /\ Len(log) \in Nat /\ Len(log') = Len(log) + 1 /\ log'[Len(log) + 1] = e
        /\ log' # <<>> /\ \A i \in 1 .. Len(log) : log'[i] = log[i]
    BY <2>1, <2>2, AppendProperties
  <2>4. Last' = e
    BY <2>3 DEF Last
  <2>5. ASSUME NEW a \in Actions
        PROVE  since'[a] = IF a \in e.pressed THEN log'[Min(Runs(log', a))].t ELSE 0
    <3>1. since'[a] = SinceAt(a)
      BY <2>1
    <3>2. CASE a \notin pressed
      BY <2>2, <3>1, <3>2 DEF SinceAt
    <3>3. CASE a \in pressed /\ (log = <<>> \/ a \notin Last.pressed)
      <4>1. since[a] = 0
        BY <3>3, PhaseKnown
      <4>2. Min(Runs(log', a)) = Len(log) + 1
        BY <2>1, <2>2, <3>3, StartOfRun DEF Last
      <4> QED
        BY <2>2, <2>3, <3>1, <3>3, <4>1, <4>2 DEF SinceAt
    <3>4. CASE a \in pressed /\ log # <<>> /\ a \in Last.pressed
      <4>1. since[a] = log[Min(Runs(log, a))].t /\ since[a] # 0
        BY <3>4, PhaseKnown
      <4>2. Min(Runs(log, a)) \in 1 .. Len(log) /\ Min(Runs(log', a)) = Min(Runs(log, a))
        BY <2>1, <2>2, <3>4, StartOfRun DEF Last
      <4> QED
        BY <2>2, <2>3, <3>1, <3>4, <4>1, <4>2 DEF SinceAt
    <3> QED
      BY <3>2, <3>3, <3>4
  <2>6. \A a \in Actions : RunStart(a)' = Min(Runs(log', a))
    BY DEF RunStart, Runs
  <2>7. \A a \in Actions : since'[a] = IF a \in Last'.pressed THEN log'[RunStart(a)'].t ELSE 0
    BY <2>4, <2>5, <2>6
  <2>8. PhaseFromRun'
    BY <2>7 DEF PhaseFromRun, Actions
  <2> QED
    BY <2>3, <2>8 DEF PhaseInv
<1>2. CASE \/ Advance \/ (\E a \in Actions : SetAction(a))
           \/ (\E m \in Mice : Move(m) \/ ReadFrame(m))
           \/ (\E B \in SUBSET Buttons, p \in Patterns : Reload(B, p)) \/ UNCHANGED vars
  <2>1. UNCHANGED <<since, log>>
    BY <1>2 DEF Advance, SetAction, Move, ReadFrame, Reload, vars
  <2> QED
    BY <2>1 DEF PhaseInv, PhaseFromRun, Last, RunStart, Actions
<1> QED
  BY <1>1, <1>2 DEF Next

LEMMA PressShows ==
  ASSUME Types, PhaseInv, [Next]_vars, log' # log,
         NEW a \in pressed, log = <<>> \/ a \notin Last.pressed,
         pattern # <<>> => pattern[1][2] > 0
  PROVE  a \in report'.active
<1> USE DEF keyVars, burstVars, ringVars, reportVars
<1>1. BuildReport
  BY DEF Next, Advance, SetAction, Move, ReadFrame, Reload, vars
<1>2. a \in Actions /\ now \in Nat
  BY DEF Types
<1>3. since[a] = 0
  BY <1>2, PhaseKnown
<1>4. since'[a] = now
  <2>1. since'[a] = SinceAt(a)
    BY <1>1, <1>2 DEF BuildReport
  <2> QED
    BY <1>3, <2>1 DEF SinceAt
<1>5. now - since'[a] = 0 /\ OnPhase(0)
  BY <1>2, <1>4, HighFirst
<1>6. IsActive(a, since'[a])
  BY <1>5 DEF IsActive
<1>7. report'.active = {b \in Buttons : IsActive(b, since'[b])} \cup (pressed \cap Directions)
  BY <1>1 DEF BuildReport
<1> QED
  BY <1>2, <1>6, <1>7 DEF Actions
-----------------------------------------------------------------------------
(* The window of one mouse. *)
LEMMA SamplesTyped ==
  ASSUME Types
  PROVE  /\ \A i \in 0 .. RingCap - 1 : Sample(i) \in 0 .. now
         /\ RingCap \in Nat \ {0} /\ now \in Nat /\ count \in 0 .. RingCap
<1>1. /\ RingCap \in Nat \ {0} /\ now \in Nat /\ count \in 0 .. RingCap
      /\ head \in 0 .. RingCap - 1 /\ ring \in [0 .. RingCap - 1 -> 0 .. now]
  BY WindowAssumption DEF Types
<1>2. ASSUME NEW i \in 0 .. RingCap - 1 PROVE Sample(i) \in 0 .. now
  <2>1. (head - 1 - i + RingCap) % RingCap \in 0 .. RingCap - 1
    BY <1>1, SampleSlot
  <2> QED
    BY <1>1, <2>1 DEF Sample
<1> QED
  BY <1>1, <1>2

LEMMA RingStep ==
  ASSUME NEW m, Mice = {m}, Types, RingInv(m), [Next]_vars
  PROVE  RingInv(m)'
<1> USE DEF keyVars, burstVars, ringVars, reportVars
<1> DEFINE q == frames[m]
<1>1. /\ \A i, j \in 0 .. count - 1 : i <= j => Sample(j) + (j - i) <= Sample(i)
      /\ \A i \in 0 .. count - 1 : <<m, Sample(i)>> \in motion
      /\ \A f \in motion :
           \/ \E i \in 0 .. count - 1 : Sample(i) = f[2]
           \/ count = RingCap /\ f[2] < Sample(RingCap - 1)
      /\ \A i, j \in DOMAIN q : i < j => q[i] < q[j]
      /\ \A f \in motion : \A i \in DOMAIN q : f[2] < q[i]
  BY DEF RingInv
<1>2. /\ m \in Mice /\ q \in Seq(Nat) /\ \A i \in DOMAIN q : q[i] <= now
  BY DEF Types
<1>3. /\ \A i \in 0 .. RingCap - 1 : Sample(i) \in 0 .. now
      /\ RingCap \in Nat \ {0} /\ now \in Nat /\ count \in 0 .. RingCap
  BY SamplesTyped
<1>4. \A f \in motion : f = <<m, f[2]>> /\ f[2] \in 0 .. now
  BY DEF Types
<1> HIDE DEF q
<1>5. CASE Move(m)
  <2>1. /\ UNCHANGED <<ring, head, count, motion>>
        /\ frames' = [frames EXCEPT ![m] = Append(q, now)]
        /\ (\A i \in DOMAIN q : q[i] # now) /\ <<m, now>> \notin motion
    BY <1>5 DEF Move, q
  <2> DEFINE r == Append(q, now)
  <2>2. frames'[m] = r
    BY <1>2, <2>1 DEF Types
  <2>3. /\ DOMAIN r = 1 .. Len(q) + 1 /\ r[Len(q) + 1] = now
        /\ \A i \in DOMAIN q : i \in DOMAIN r /\ r[i] = q[i]
        /\ \A i \in DOMAIN r : i \in DOMAIN q \/ i = Len(q) + 1
    BY <1>2, <1>3, NowBehind
  <2> HIDE DEF r
  <2>4. Len(q) \in Nat /\ DOMAIN q = 1 .. Len(q) /\ \A i \in DOMAIN q : q[i] \in Nat
    BY <1>2
  <2>5. \A i \in DOMAIN q : q[i] < now
    BY <1>2, <1>3, <2>1, <2>4
  <2>6. \A f \in motion : f[2] < now
    BY <1>3, <1>4, <2>1
  <2>7. \A i, j \in DOMAIN r : i < j => r[i] < r[j]
    <3> SUFFICES ASSUME NEW i \in DOMAIN r, NEW j \in DOMAIN r, i < j PROVE r[i] < r[j]
      OBVIOUS
    <3>1. i \in DOMAIN q
      BY <2>3, <2>4
    <3>2. CASE j \in DOMAIN q
      BY <1>1, <2>3, <3>1, <3>2
    <3>3. CASE j = Len(q) + 1
      BY <2>3, <2>5, <3>1, <3>3
    <3> QED
      BY <2>3, <3>2, <3>3
  <2>8. \A f \in motion : \A i \in DOMAIN r : f[2] < r[i]
    <3> SUFFICES ASSUME NEW f \in motion, NEW i \in DOMAIN r PROVE f[2] < r[i]
      OBVIOUS
    <3>1. CASE i \in DOMAIN q
      BY <1>1, <2>3, <3>1
    <3>2. CASE i = Len(q) + 1
      BY <2>3, <2>6, <3>2
    <3> QED
      BY <2>3, <3>1, <3>2
  <2>9. \A i : Sample(i)' = Sample(i)
    BY <2>1 DEF Sample
  <2> QED
    BY <1>1, <2>1, <2>2, <2>7, <2>8, <2>9 DEF RingInv
<1>6. CASE ReadFrame(m)
  <2> DEFINE t == Head(q)  r == Tail(q)
  <2>1. /\ q # <<>> /\ frames' = [frames EXCEPT ![m] = r]
        /\ count' = (IF count < RingCap THEN count + 1 ELSE count)
        /\ motion' = motion \cup {<<m, t>>}
    BY <1>6 DEF ReadFrame, q
  <2>2. frames'[m] = r
    BY <1>2, <2>1 DEF Types
  <2>3. /\ t \in 0 .. now /\ 1 \in DOMAIN q /\ q[1] = t
        /\ \A i \in DOMAIN r : i + 1 \in DOMAIN q /\ r[i] = q[i + 1] /\ 1 < i + 1
        /\ r \in Seq(Nat)
    BY <1>2, <1>3, <2>1, HeadOff
  <2>4. /\ Sample(0)' = t
        /\ \A i \in 1 .. RingCap - 1 : Sample(i)' = Sample(i - 1)
    BY <1>2, <1>6, Pushed DEF q
  <2> HIDE DEF t, r
  <2>5. \A f \in motion : f[2] < t
    BY <1>1, <2>3
  <2>6. \A i \in 0 .. count - 1 : Sample(i) < t
    <3> SUFFICES ASSUME NEW i \in 0 .. count - 1 PROVE Sample(i) < t
      OBVIOUS
    <3>1. <<m, Sample(i)>> \in motion
      BY <1>1
    <3>2. <<m, Sample(i)>>[2] = Sample(i)
      OBVIOUS
    <3> QED
      BY <2>5, <3>1, <3>2
  <2>7. \A i, j \in 0 .. count' - 1 : i <= j => Sample(j)' + (j - i) <= Sample(i)'
    <3> SUFFICES ASSUME NEW i \in 0 .. count' - 1, NEW j \in 0 .. count' - 1, i <= j
                 PROVE  Sample(j)' + (j - i) <= Sample(i)'
      OBVIOUS
    <3>1. i \in 0 .. RingCap - 1 /\ j \in 0 .. RingCap - 1
      BY <1>3, <2>1
    <3>2. CASE j = 0
      BY <2>3, <2>4, <3>2
    <3>3. CASE j > 0
      <4>1. j - 1 \in 0 .. count - 1 /\ j \in 1 .. RingCap - 1 /\ 0 \in 0 .. count - 1
            /\ j - 1 \in 0 .. RingCap - 1
        BY <1>3, <2>1, <3>1, <3>3
      <4>2. Sample(j)' = Sample(j - 1) /\ Sample(j - 1) \in 0 .. now
        BY <1>3, <2>4, <4>1
      <4>3. CASE i = 0
        <5>1. Sample(j - 1) + (j - 1 - 0) <= Sample(0) /\ Sample(0) < t
          BY <1>1, <2>6, <4>1
        <5>2. Sample(0) \in 0 .. now /\ Sample(i)' = t
          BY <1>3, <2>4, <4>3
        <5> HIDE DEF Sample
        <5> QED
          BY <1>3, <2>3, <3>1, <4>2, <4>3, <5>1, <5>2
      <4>4. CASE i > 0
        <5>1. /\ i - 1 \in 0 .. count - 1 /\ i \in 1 .. RingCap - 1 /\ i - 1 <= j - 1
              /\ (j - 1) - (i - 1) = j - i
          BY <1>3, <2>1, <3>1, <4>1, <4>4
        <5>2. Sample(i)' = Sample(i - 1)
          BY <2>4, <5>1
        <5>3. Sample(j - 1) + ((j - 1) - (i - 1)) <= Sample(i - 1)
          BY <1>1, <4>1, <5>1
        <5> QED
          BY <4>2, <5>1, <5>2, <5>3
      <4> QED
        BY <3>1, <4>3, <4>4
    <3> QED
      BY <3>1, <3>2, <3>3
  <2>8. \A i \in 0 .. count' - 1 : <<m, Sample(i)'>> \in motion'
    <3> SUFFICES ASSUME NEW i \in 0 .. count' - 1 PROVE <<m, Sample(i)'>> \in motion'
      OBVIOUS
    <3>1. CASE i = 0
      BY <2>1, <2>4, <3>1
    <3>2. CASE i > 0
      <4>1. i - 1 \in 0 .. count - 1 /\ i \in 1 .. RingCap - 1
        BY <1>3, <2>1, <3>2
      <4> QED
        BY <1>1, <2>1, <2>4, <4>1
    <3> QED
      BY <1>3, <2>1, <3>1, <3>2
  <2>9. \A f \in motion' :
          \/ \E i \in 0 .. count' - 1 : Sample(i)' = f[2]
          \/ count' = RingCap /\ f[2] < Sample(RingCap - 1)'
    <3> DEFINE Held(x) == \/ \E i \in 0 .. count' - 1 : Sample(i)' = x
                          \/ count' = RingCap /\ x < Sample(RingCap - 1)'
    <3>1. Held(t)
      <4>1. 0 \in 0 .. count' - 1
        BY <1>3, <2>1
      <4> QED
        BY <2>4, <4>1
    <3>2. ASSUME NEW x \in 0 .. now, x < t, count' = RingCap,
                 RingCap > 1 => x < Sample(RingCap - 2)
          PROVE  Held(x)
      <4>1. CASE RingCap = 1
        BY <2>4, <3>2, <4>1
      <4>2. CASE RingCap > 1
        <5>1. RingCap - 1 \in 1 .. RingCap - 1 /\ (RingCap - 1) - 1 = RingCap - 2
          BY <1>3, <4>2
        <5> QED
          BY <2>4, <3>2, <4>2, <5>1
      <4> QED
        BY <1>3, <4>1, <4>2
    <3>3. ASSUME NEW f \in motion PROVE Held(f[2])
      <4> HIDE DEF Held
      <4> SUFFICES ASSUME NEW x, x = f[2] PROVE Held(x)
        OBVIOUS
      <4>1. x \in 0 .. now /\ x < t
        BY <1>4, <2>5
      <4>2. \/ \E i \in 0 .. count - 1 : Sample(i) = x
            \/ count = RingCap /\ x < Sample(RingCap - 1)
        BY <1>1
      <4>3. CASE count = RingCap /\ x < Sample(RingCap - 1)
        <5>1. count' = RingCap
          BY <1>3, <2>1, <4>3
        <5>2. ASSUME RingCap > 1 PROVE x < Sample(RingCap - 2)
          <6>1. /\ RingCap - 2 \in 0 .. count - 1 /\ RingCap - 1 \in 0 .. count - 1
                /\ RingCap - 2 <= RingCap - 1 /\ (RingCap - 1) - (RingCap - 2) = 1
            BY <1>3, <4>3, <5>2
          <6>2. Sample(RingCap - 1) + 1 <= Sample(RingCap - 2)
            BY <1>1, <6>1
          <6>3. Sample(RingCap - 1) \in Nat /\ Sample(RingCap - 2) \in Nat
            BY <1>3, <4>3, <6>1
          <6> QED
            BY <4>1, <4>3, <6>2, <6>3
        <5> QED
          BY <3>2, <4>1, <5>1, <5>2
      <4>4. ASSUME NEW i \in 0 .. count - 1, Sample(i) = x PROVE Held(x)
        <5>1. CASE i + 1 < RingCap
          <6>1. i + 1 \in 0 .. count' - 1 /\ i + 1 \in 1 .. RingCap - 1 /\ (i + 1) - 1 = i
            BY <1>3, <2>1, <5>1
          <6>2. Sample(i + 1)' = x
            BY <2>4, <4>4, <6>1
          <6> QED
            BY <6>1, <6>2 DEF Held
        <5>2. CASE i + 1 = RingCap
          <6>1. count' = RingCap /\ count = RingCap /\ i = RingCap - 1
            BY <1>3, <2>1, <5>2
          <6>2. ASSUME RingCap > 1 PROVE x < Sample(RingCap - 2)
            <7>1. /\ RingCap - 2 \in 0 .. count - 1 /\ RingCap - 2 <= i
                  /\ i - (RingCap - 2) = 1
              BY <1>3, <6>1, <6>2
            <7>2. Sample(i) + 1 <= Sample(RingCap - 2)
              BY <1>1, <7>1
            <7>3. Sample(RingCap - 2) \in Nat
              BY <1>3, <6>1, <7>1
            <7> QED
              BY <4>1, <4>4, <7>2, <7>3
          <6> QED
            BY <3>2, <4>1, <6>1, <6>2
        <5>3. i + 1 < RingCap \/ i + 1 = RingCap
          BY <1>3
        <5> QED
          BY <5>1, <5>2, <5>3
      <4> QED
        BY <4>2, <4>3, <4>4
    <3>4. <<m, t>>[2] = t
      OBVIOUS
    <3> HIDE DEF Held
    <3>5. \A f \in motion' : Held(f[2])
      BY <2>1, <3>1, <3>3, <3>4
    <3> QED
      BY <3>5 DEF Held
  <2>10. DOMAIN q = 1 .. Len(q) /\ Len(q) \in Nat /\ DOMAIN r = 1 .. Len(r) /\ Len(r) \in Nat
    BY <1>2, <2>3
  <2>11. \A i, j \in DOMAIN r : i < j => r[i] < r[j]
    <3> SUFFICES ASSUME NEW i \in DOMAIN r, NEW j \in DOMAIN r, i < j PROVE r[i] < r[j]
      OBVIOUS
    <3>1. i + 1 < j + 1
      BY <2>10
    <3> QED
      BY <1>1, <2>3, <3>1
  <2>12. \A f \in motion' : \A i \in DOMAIN r : f[2] < r[i]
    <3> SUFFICES ASSUME NEW f \in motion', NEW i \in DOMAIN r PROVE f[2] < r[i]
      OBVIOUS
    <3>1. CASE f \in motion
      BY <1>1, <2>3, <3>1
    <3>2. CASE f = <<m, t>>
      <4>1. t < r[i]
        BY <1>1, <2>3
      <4> QED
        BY <3>2, <4>1
    <3> QED
      BY <2>1, <3>1, <3>2
  <2> QED
    BY <2>2, <2>7, <2>8, <2>9, <2>11, <2>12 DEF RingInv
<1>7. CASE \/ Advance \/ (\E a \in Actions : SetAction(a)) \/ BuildReport
           \/ (\E B \in SUBSET Buttons, p \in Patterns : Reload(B, p)) \/ UNCHANGED vars
  <2>1. UNCHANGED <<frames, ring, head, count, motion>>
    BY <1>7 DEF Advance, SetAction, BuildReport, Reload, vars
  <2>2. \A i : Sample(i)' = Sample(i)
    BY <2>1 DEF Sample
  <2> QED
    BY <1>1, <2>1, <2>2 DEF RingInv, q
<1> QED
  BY <1>5, <1>6, <1>7 DEF Next

LEMMA WindowOfOne ==
  ASSUME NEW m, Mice = {m}, Window < RingCap, Types, RingInv(m)
  PROVE  WindowComplete
<1> DEFINE W == {i \in 0 .. count - 1 : \A j \in 0 .. i : Sample(j) >= Cutoff}
           F == {f \in motion : f[2] >= Cutoff}
           g == [i \in W |-> <<m, Sample(i)>>]
<1>1. /\ \A i, j \in 0 .. count - 1 : i <= j => Sample(j) + (j - i) <= Sample(i)
      /\ \A i \in 0 .. count - 1 : <<m, Sample(i)>> \in motion
      /\ \A f \in motion :
           \/ \E i \in 0 .. count - 1 : Sample(i) = f[2]
           \/ count = RingCap /\ f[2] < Sample(RingCap - 1)
  BY DEF RingInv
<1>2. /\ \A i \in 0 .. RingCap - 1 : Sample(i) \in 0 .. now
      /\ RingCap \in Nat \ {0} /\ now \in Nat /\ count \in 0 .. RingCap
  BY SamplesTyped
<1>3. \A f \in motion : f = <<m, f[2]>> /\ f[2] \in 0 .. now
  BY DEF Types
<1>4. Cutoff = now - Window /\ Window \in Nat /\ Cutoff \in Int
  BY <1>2, WindowAssumption DEF Cutoff
<1>5. \A i \in 0 .. count - 1 : i \in 0 .. RingCap - 1 /\ i \in Nat
  BY <1>2
<1>6. g \in [W -> F]
  <2> SUFFICES ASSUME NEW i \in W PROVE <<m, Sample(i)>> \in F
    OBVIOUS
  <2>1. i \in 0 .. i
    BY <1>5
  <2>2. Sample(i) >= Cutoff /\ <<m, Sample(i)>> \in motion
    BY <1>1, <2>1
  <2>3. <<m, Sample(i)>>[2] = Sample(i)
    OBVIOUS
  <2> QED
    BY <2>2, <2>3
<1>7. \A i, j \in W : g[i] = g[j] => i = j
  <2> SUFFICES ASSUME NEW i \in W, NEW j \in W, g[i] = g[j] PROVE i = j
    OBVIOUS
  <2>1. Sample(i) = Sample(j)
    OBVIOUS
  <2>2. i \in Nat /\ j \in Nat /\ Sample(i) \in Nat
    BY <1>2, <1>5
  <2>3. /\ i <= j => Sample(j) + (j - i) <= Sample(i)
        /\ j <= i => Sample(i) + (i - j) <= Sample(j)
    BY <1>1
  <2> QED
    BY <2>1, <2>2, <2>3
<1>8. ASSUME NEW f \in F PROVE \E i \in W : g[i] = f
  <2>1. f \in motion /\ f[2] >= Cutoff /\ f = <<m, f[2]>> /\ f[2] \in 0 .. now
    BY <1>3
  <2>2. ASSUME count = RingCap, f[2] < Sample(RingCap - 1) PROVE FALSE
    <3>1. /\ RingCap - 1 \in 0 .. count - 1 /\ 0 \in 0 .. count - 1 /\ 0 <= RingCap - 1
          /\ RingCap - 1 \in 0 .. RingCap - 1 /\ 0 \in 0 .. RingCap - 1
      BY <1>2, <2>2
    <3>2. Sample(RingCap - 1) + (RingCap - 1 - 0) <= Sample(0)
      BY <1>1, <3>1
    <3>3. Sample(RingCap - 1) \in 0 .. now /\ Sample(0) \in 0 .. now
      BY <1>2, <3>1
    <3> QED
      BY <1>2, <1>4, <2>1, <2>2, <3>2, <3>3
  <2>3. PICK i \in 0 .. count - 1 : Sample(i) = f[2]
    BY <1>1, <2>1, <2>2
  <2>4. ASSUME NEW j \in 0 .. i PROVE Sample(j) >= Cutoff
    <3>1. j \in 0 .. count - 1 /\ j <= i /\ j \in Nat /\ i \in Nat
      BY <1>2
    <3>2. Sample(i) + (i - j) <= Sample(j) /\ Sample(j) \in Nat /\ Sample(i) \in Nat
      BY <1>1, <1>2, <1>5, <3>1
    <3> QED
      BY <1>4, <2>1, <2>3, <3>1, <3>2
  <2>5. i \in W
    BY <2>4
  <2> QED
    BY <2>1, <2>3, <2>5
<1>9. IsFiniteSet(W)
  <2>1. IsFiniteSet(0 .. count - 1)
    BY <1>2, FS_Interval
  <2> QED
    BY <2>1, FS_Subset
<1> HIDE DEF W, F, g
<1>10. ExistsBijection(W, F)
  <2>1. g \in Bijection(W, F)
    BY <1>6, <1>7, <1>8, Fun_IsBij
  <2> QED
    BY <2>1 DEF ExistsBijection
<1>11. Cardinality(F) = Cardinality(W)
  BY <1>9, <1>10, FS_Bijection
<1> QED
  BY <1>11 DEF WindowComplete, WindowSum, W, F
-----------------------------------------------------------------------------
(* The theorems. *)
LEMMA InitIInv == Init => IInv
<1> SUFFICES ASSUME Init PROVE IInv
  OBVIOUS
<1>1. /\ now = 1 /\ pressed = {} /\ risen = {} /\ since = [a \in Actions |-> 0]
      /\ burst \in SUBSET Buttons /\ pattern \in Patterns
      /\ frames = [m \in Mice |-> <<>>] /\ ring = [i \in 0 .. RingCap - 1 |-> 0]
      /\ head = 0 /\ count = 0 /\ motion = {}
      /\ report = [active |-> {}, counts |-> 0] /\ log = <<>>
  BY DEF Init
<1>2. <<>> \in Seq(Nat) /\ <<>> \in Seq(Entries) /\ \A i \in DOMAIN <<>> : FALSE
  OBVIOUS
<1>3. MaxTime \in Nat \ {0} /\ RingCap \in Nat \ {0}
  BY TimeAssumption, WindowAssumption
<1>4. Types
  BY <1>1, <1>2, <1>3 DEF Types
<1>5. PhaseInv
  BY <1>1 DEF PhaseInv, PhaseFromRun
<1> QED
  BY <1>4, <1>5 DEF IInv

LEMMA NextIInv == IInv /\ [Next]_vars => IInv'
BY TypesStep, PhaseStep DEF IInv

\* The inductive invariant holds for any schedule of fingers, mice, reports and
\* reloads.
THEOREM Invariance == Spec => []IInv
BY InitIInv, NextIInv, PTL DEF Spec

\* Timestamps lie in the past, and the ring's indices and the sum of the window
\* within the ring (mapper_handle_event, burst_tick, window_sum).
THEOREM ReportTypes == Spec => []TypeOK
<1>1. IInv => TypeOK
  BY DEF IInv, Types, TypeOK
<1> QED
  BY <1>1, Invariance, PTL

\* burst_tick, which compares neighbouring bitmaps only, keeps for each action
\* the time of the first report of the unbroken run that found it pressed.
THEOREM PhaseOfRun == Spec => []PhaseFromRun
<1>1. IInv => PhaseFromRun
  BY DEF IInv, PhaseInv
<1> QED
  BY <1>1, Invariance, PTL

\* For every cadence whose first cycle is not skipped, the report that first
\* finds an action pressed shows it (is_active under burst_tick's timestamps).
THEOREM PressIsShown == Spec => EveryPressShows
<1>1. IInv /\ [Next]_vars =>
        [\A a \in pressed :
           /\ log' # log
           /\ log = <<>> \/ a \notin Last.pressed
           /\ pattern # <<>> => pattern[1][2] > 0
           => a \in report'.active]_vars
  BY PressShows DEF IInv
<1> QED
  BY <1>1, Invariance, PTL DEF Spec, EveryPressShows

\* With one mouse, and a ring of more samples than the window has
\* milliseconds, the walk that stops at the first old sample sums every frame
\* read that lies in the window (window_sum over the ring of EV_SYN).
THEOREM OneMouseWindow ==
  ASSUME NEW m, Mice = {m}, Window < RingCap
  PROVE  Spec => []WindowComplete
<1>1. Init => RingInv(m)
  BY DEF Init, RingInv
<1>2. IInv /\ RingInv(m) /\ [Next]_vars => RingInv(m)'
  BY RingStep DEF IInv
<1>3. IInv /\ RingInv(m) => WindowComplete
  BY WindowOfOne DEF IInv
<1> QED
  BY <1>1, <1>2, <1>3, Invariance, PTL DEF Spec
=============================================================================

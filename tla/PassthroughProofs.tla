------------------------- MODULE PassthroughProofs -------------------------
(***************************************************************************)
(* The passthrough daemon for every set of devices and codes, any number   *)
(* of key slots, buffers and reports of any size: the types, that keys and *)
(* buttons follow the events read, that the host's keyboard and buttons    *)
(* are the daemon's, and that motion is delivered at most once.            *)
(***************************************************************************)
EXTENDS Passthrough, FiniteSetTheorems, SequenceTheorems, WellFoundedInduction, TLAPS

Events ==
  [type : {"key"}, code : Codes, value : 0 .. 2] \cup [type : {"rel"}, value : Deltas]
    \cup {Syn}

MouseReports == [buttons : SUBSET Buttons, motion : Nat]

\* A device is drained only while the daemon runs, and the keyboard is dirty
\* only while one is; nothing is down before the devices are opened.
LoopInv ==
  /\ held \subseteq Switches
  /\ status \in [Devices -> {"plugged", "gone", "absent"}]
  /\ pc \in {"start", "run", "exit"} /\ draining \in Devices \cup {Nobody}
  /\ dirty \in BOOLEAN /\ configured \in BOOLEAN
  /\ pc # "run" => draining = Nobody
  /\ draining = Nobody => ~dirty
  /\ pc = "start" => Keyboard = NoKeys /\ buttons = {}

BufferInv ==
  /\ queue \in [Devices -> Seq(Events)]
  /\ \A d \in Devices : Len(queue[d]) <= MaxQueue[d]

\* No key takes two slots, and what is down is what the events said.
KeysInv ==
  /\ mods \subseteq Modifiers /\ buttons \subseteq Buttons
  /\ slots \in [Slots -> Usages \cup {Empty}]
  /\ readDown \subseteq Codes /\ rolled \subseteq readDown
  /\ \A i, j \in Slots : slots[i] = slots[j] /\ slots[i] # Empty => i = j
  /\ DownFollowsEvents

\* The keyboard the host has, or will have when it polls.
HostKeys == IF kbdBusy = Idle THEN host.kbd ELSE kbdBusy
HostButtons == IF mouseBusy = Idle THEN host.buttons ELSE mouseBusy.buttons

\* The host's keyboard is the daemon's while the daemon is not between a key
\* event and the report of it.
HostInv ==
  /\ host \in [kbd : Reports, buttons : SUBSET Buttons, motion : Nat]
  /\ kbdBusy \in Reports \cup {Idle} /\ kbdLate \in BOOLEAN
  /\ mouseBusy \in MouseReports \cup {Idle} /\ mouseLate \in BOOLEAN
  /\ ~kbdLate => /\ pc = "run" /\ ~dirty => HostKeys = Keyboard
                 /\ pc = "exit" => HostKeys = NoKeys
  /\ ~mouseLate => /\ pc = "run" => HostButtons = buttons
                   /\ pc = "exit" => HostButtons = {}

MotionInv ==
  /\ pending \in Nat /\ lost \in Nat /\ moved \in 0 .. MaxMotion
  /\ MotionAccounted

IInv == LoopInv /\ BufferInv /\ KeysInv /\ HostInv /\ MotionInv /\ HotkeyTypeOK(Chord)
-----------------------------------------------------------------------------
(* Sums.  A sum over a finite set is a fold, whose definition takes the    *)
(* elements in some fixed order: what is shown is that the order is of no  *)
(* consequence.                                                            *)
Total(f, S) == FoldFunctionOnSet(+, 0, f, S)
Pick(S) == CHOOSE x \in S : TRUE

Summable(f, S) == IsFiniteSet(S) /\ \A x \in S : f[x] \in Nat

\* g is the function the fold defines on the subsets of S.
Sums(f, S, g) ==
  g = [s \in SUBSET S |-> IF s = {} THEN 0 ELSE f[Pick(s)] + g[s \ {Pick(s)}]]

LEMMA LeastExists ==
  ASSUME NEW S \in SUBSET Nat, S # {}
  PROVE  \E x \in S : \A y \in S : x <= y
<1> DEFINE R == OpToRel(<, Nat)
<1>1. IsWellFoundedOn(R, Nat) /\ \A x, y \in Nat : y < x => <<y, x>> \in R
  BY NatLessThanWellFounded DEF OpToRel
<1> HIDE DEF R
<1>2. PICK x \in S : \A y \in S : <<y, x>> \notin R
  BY <1>1, WFMin
<1>3. \A y \in S : ~(y < x)
  BY <1>1, <1>2
<1> QED
  BY <1>3

LEMMA SmallerSet ==
  ASSUME NEW s, IsFiniteSet(s), NEW x \in s
  PROVE  /\ IsFiniteSet(s \ {x}) /\ Cardinality(s) \in Nat
         /\ Cardinality(s \ {x}) \in Nat /\ Cardinality(s \ {x}) < Cardinality(s)
<1> DEFINE r == s \ {x}
<1>1. IsFiniteSet(r) /\ Cardinality(r) = Cardinality(s) - 1
  BY FS_RemoveElement
<1>2. Cardinality(s) \in Nat
  BY FS_CardinalityType
<1>3. Cardinality(r) \in Nat
  BY <1>1, FS_CardinalityType
<1> QED
  BY <1>1, <1>2, <1>3

LEMMA PickIn == \A s : s # {} => Pick(s) \in s
  BY DEF Pick

LEMMA SumsUnique ==
  ASSUME NEW f, NEW T, NEW U, NEW g, NEW h, Sums(f, T, g), Sums(f, U, h),
         NEW s, s \subseteq T, s \subseteq U, IsFiniteSet(s)
  PROVE  g[s] = h[s]
<1> DEFINE Bad == {n \in Nat : \E t \in SUBSET s : Cardinality(t) = n /\ g[t] # h[t]}
<1>1. Bad = {}
  <2> SUFFICES ASSUME Bad # {} PROVE FALSE
    OBVIOUS
  <2>1. PICK n \in Bad : \A m \in Bad : n <= m
    BY LeastExists
  <2>2. PICK t \in SUBSET s : Cardinality(t) = n /\ g[t] # h[t]
    BY <2>1
  <2>3. /\ g[t] = IF t = {} THEN 0 ELSE f[Pick(t)] + g[t \ {Pick(t)}]
        /\ h[t] = IF t = {} THEN 0 ELSE f[Pick(t)] + h[t \ {Pick(t)}]
    <3>1. t \in SUBSET T /\ t \in SUBSET U
      OBVIOUS
    <3> QED
      BY <3>1 DEF Sums
  <2>4. t # {}
    BY <2>2, <2>3
  <2>5. IsFiniteSet(t)
    BY FS_Subset
  <2> DEFINE r == t \ {Pick(t)}
  <2>6. Cardinality(r) \in Nat /\ Cardinality(r) < n
    BY <2>2, <2>4, <2>5, PickIn, SmallerSet
  <2>7. r \in SUBSET s
    OBVIOUS
  <2>8. g[r] = h[r]
    BY <2>1, <2>6, <2>7
  <2> QED
    BY <2>2, <2>3, <2>4, <2>8
<1>2. Cardinality(s) \in Nat
  BY FS_CardinalityType
<1> QED
  BY <1>1, <1>2

LEMMA SumsExist ==
  ASSUME NEW f, NEW S, IsFiniteSet(S)
  PROVE  \E g : Sums(f, S, g)
<1> DEFINE Bad == {n \in Nat : \E t \in SUBSET S : Cardinality(t) = n /\ ~\E g : Sums(f, t, g)}
<1>1. Bad = {}
  <2> SUFFICES ASSUME Bad # {} PROVE FALSE
    OBVIOUS
  <2>1. PICK n \in Bad : \A m \in Bad : n <= m
    BY LeastExists
  <2>2. PICK t \in SUBSET S : Cardinality(t) = n /\ ~\E g : Sums(f, t, g)
    BY <2>1
  <2>3. IsFiniteSet(t)
    BY FS_Subset
  <2> DEFINE Sol(s) == CHOOSE g : Sums(f, s, g)
  <2>4. ASSUME NEW s \in SUBSET t, s # t
        PROVE  Sums(f, s, Sol(s))
    <3>1. PICK x \in t : x \notin s
      BY <2>4
    <3>2. Cardinality(s) \in Nat /\ Cardinality(s) < Cardinality(t)
      <4>1. IsFiniteSet(t \ {x}) /\ Cardinality(t \ {x}) < Cardinality(t)
            /\ Cardinality(t \ {x}) \in Nat /\ Cardinality(t) \in Nat
        BY <2>3, <3>1, SmallerSet
      <4>2. Cardinality(s) <= Cardinality(t \ {x}) /\ IsFiniteSet(s)
        BY <3>1, <4>1, FS_Subset
      <4>3. Cardinality(s) \in Nat
        BY <4>2, FS_CardinalityType
      <4> QED
        BY <4>1, <4>2, <4>3
    <3>3. \E g : Sums(f, s, g)
      BY <2>1, <2>2, <3>2
    <3> QED
      BY <3>3
  <2> HIDE DEF Sol
  <2> DEFINE g == [s \in SUBSET t |->
                     IF s = {} THEN 0
                     ELSE f[Pick(s)] + Sol(s \ {Pick(s)})[s \ {Pick(s)}]]
  <2>5. ASSUME NEW s \in SUBSET t, s # {}
        PROVE  g[s \ {Pick(s)}] = Sol(s \ {Pick(s)})[s \ {Pick(s)}]
    <3> DEFINE r == s \ {Pick(s)}
    <3>1. r \in SUBSET t /\ r # t /\ IsFiniteSet(r) /\ r \in SUBSET r
      BY <2>3, <2>5, PickIn, FS_Subset
    <3>2. Sums(f, r, Sol(r))
      BY <2>4, <3>1
    <3>3. Sol(r)[r] = IF r = {} THEN 0
                      ELSE f[Pick(r)] + Sol(r)[r \ {Pick(r)}]
      BY <3>1, <3>2 DEF Sums
    <3>4. g[r] = IF r = {} THEN 0
                 ELSE f[Pick(r)] + Sol(r \ {Pick(r)})[r \ {Pick(r)}]
      BY <3>1
    <3>5. CASE r = {}
      BY <3>3, <3>4, <3>5
    <3>6. CASE r # {}
      <4> DEFINE p == r \ {Pick(r)}
      <4>1. p \in SUBSET t /\ p # t /\ p \subseteq r /\ IsFiniteSet(p)
        BY <3>1, FS_Subset, <3>6, PickIn
      <4>2. Sums(f, p, Sol(p))
        BY <2>4, <4>1
      <4>3. Sol(r)[p] = Sol(p)[p]
        BY <3>2, <4>1, <4>2, SumsUnique
      <4> QED
        BY <3>3, <3>4, <3>6, <4>3
    <3> QED
      BY <3>5, <3>6
  <2>6. Sums(f, t, g)
    <3>1. \A s \in SUBSET t :
            g[s] = IF s = {} THEN 0 ELSE f[Pick(s)] + g[s \ {Pick(s)}]
      BY <2>5
    <3>2. g = [s \in SUBSET t |-> g[s]]
      OBVIOUS
    <3> HIDE DEF g
    <3>3. [s \in SUBSET t |-> g[s]] =
            [s \in SUBSET t |-> IF s = {} THEN 0 ELSE f[Pick(s)] + g[s \ {Pick(s)}]]
      BY <3>1
    <3> QED
      BY <3>2, <3>3 DEF Sums
  <2> QED
    BY <2>2, <2>6
<1>2. Cardinality(S) \in Nat
  BY FS_CardinalityType
<1> QED
  BY <1>1, <1>2

LEMMA TotalRec ==
  ASSUME NEW f, NEW S, IsFiniteSet(S)
  PROVE  Total(f, S) = IF S = {} THEN 0 ELSE f[Pick(S)] + Total(f, S \ {Pick(S)})
<1> DEFINE Sol(T) == CHOOSE g : Sums(f, T, g)
<1>1. \A T : Total(f, T) = Sol(T)[T]
  <2>1. \A T : Total(f, T) = (CHOOSE iter : iter = [s \in SUBSET T |->
           IF s = {} THEN 0 ELSE f[CHOOSE x \in s : TRUE] + iter[s \ {CHOOSE x \in s : TRUE}]])[T]
    BY DEF Total, FoldFunctionOnSet, MapThenFoldSet
  <2> QED
    BY <2>1 DEF Sums, Pick
<1>2. \A T : IsFiniteSet(T) => Sums(f, T, Sol(T))
  BY SumsExist
<1> HIDE DEF Sol
<1>3. Sol(S)[S] = IF S = {} THEN 0 ELSE f[Pick(S)] + Sol(S)[S \ {Pick(S)}]
  <2>1. S \in SUBSET S
    OBVIOUS
  <2> QED
    BY <1>2, <2>1 DEF Sums
<1>4. IsFiniteSet(S \ {Pick(S)})
  BY FS_Subset
<1>5. Sol(S)[S \ {Pick(S)}] = Sol(S \ {Pick(S)})[S \ {Pick(S)}]
  BY <1>2, <1>4, SumsUnique
<1> QED
  BY <1>1, <1>3, <1>5

LEMMA TotalNat ==
  ASSUME NEW f, NEW S, IsFiniteSet(S), \A x \in S : f[x] \in Nat
  PROVE  Total(f, S) \in Nat
<1> DEFINE Bad == {n \in Nat : \E t \in SUBSET S : Cardinality(t) = n /\ Total(f, t) \notin Nat}
<1>1. Bad = {}
  <2> SUFFICES ASSUME Bad # {} PROVE FALSE
    OBVIOUS
  <2>1. PICK n \in Bad : \A m \in Bad : n <= m
    BY LeastExists
  <2>2. PICK t \in SUBSET S : Cardinality(t) = n /\ Total(f, t) \notin Nat
    BY <2>1
  <2>3. IsFiniteSet(t)
    BY FS_Subset
  <2>4. Total(f, t) = IF t = {} THEN 0 ELSE f[Pick(t)] + Total(f, t \ {Pick(t)})
    BY <2>3, TotalRec
  <2>5. t # {}
    BY <2>2, <2>4
  <2> DEFINE r == t \ {Pick(t)}
  <2>6. Cardinality(r) \in Nat /\ Cardinality(r) < n /\ Pick(t) \in t
    BY <2>2, <2>3, <2>5, PickIn, SmallerSet
  <2>7. Total(f, r) \in Nat
    BY <2>1, <2>6
  <2> QED
    BY <2>2, <2>4, <2>5, <2>6, <2>7
<1>2. Cardinality(S) \in Nat
  BY FS_CardinalityType
<1> QED
  BY <1>1, <1>2

LEMMA TotalZero ==
  ASSUME NEW S, IsFiniteSet(S)
  PROVE  Total([x \in S |-> 0], S) = 0
<1> DEFINE z == [x \in S |-> 0]
           Bad == {n \in Nat : \E t \in SUBSET S : Cardinality(t) = n /\ Total(z, t) # 0}
<1>1. Bad = {}
  <2> SUFFICES ASSUME Bad # {} PROVE FALSE
    OBVIOUS
  <2>1. PICK n \in Bad : \A m \in Bad : n <= m
    BY LeastExists
  <2>2. PICK t \in SUBSET S : Cardinality(t) = n /\ Total(z, t) # 0
    BY <2>1
  <2>3. IsFiniteSet(t)
    BY FS_Subset
  <2> DEFINE r == t \ {Pick(t)}
  <2>4. Total(z, t) = IF t = {} THEN 0 ELSE z[Pick(t)] + Total(z, r)
    BY <2>3, TotalRec
  <2>5. t # {} /\ Pick(t) \in S
    BY <2>2, <2>4, PickIn
  <2>6. Cardinality(r) \in Nat /\ Cardinality(r) < n
    BY <2>2, <2>3, <2>5, PickIn, SmallerSet
  <2>7. Total(z, r) = 0
    BY <2>1, <2>6
  <2> QED
    BY <2>2, <2>4, <2>5, <2>7
<1>2. Cardinality(S) \in Nat
  BY FS_CardinalityType
<1>3. Total(z, S) = 0
  BY <1>1, <1>2
<1> QED
  BY <1>3

LEMMA TotalRemove ==
  ASSUME NEW f, NEW S, Summable(f, S)
  PROVE  \A x \in S : Total(f, S) = f[x] + Total(f, S \ {x})
<1>0. IsFiniteSet(S) /\ \A x \in S : f[x] \in Nat
  BY DEF Summable
<1> DEFINE Wrong(t) == \E y \in t : Total(f, t) # f[y] + Total(f, t \ {y})
           Bad == {n \in Nat : \E t \in SUBSET S : Cardinality(t) = n /\ Wrong(t)}
<1>1. Bad = {}
  <2> SUFFICES ASSUME Bad # {} PROVE FALSE
    OBVIOUS
  <2>1. PICK n \in Bad : \A m \in Bad : n <= m
    BY LeastExists
  <2>2. PICK t \in SUBSET S : Cardinality(t) = n /\ Wrong(t)
    BY <2>1
  <2>3. PICK y \in t : Total(f, t) # f[y] + Total(f, t \ {y})
    BY <2>2
  <2>4. IsFiniteSet(t)
    BY <1>0, FS_Subset
  <2> DEFINE p == Pick(t)  u == t \ {p}  v == t \ {y}
  <2>5. p \in t /\ Total(f, t) = f[p] + Total(f, u)
    BY <2>3, <2>4, TotalRec, PickIn
  <2>6. p # y
    BY <2>3, <2>5
  <2>7. /\ IsFiniteSet(u) /\ Cardinality(u) \in Nat /\ Cardinality(u) < n
        /\ IsFiniteSet(v) /\ Cardinality(v) \in Nat /\ Cardinality(v) < n
    BY <2>2, <2>4, <2>5, SmallerSet
  <2>8. ~Wrong(u) /\ ~Wrong(v)
    BY <2>1, <2>7, SMTT(20)
  <2>9. y \in u /\ p \in v /\ u \ {y} = v \ {p}
    BY <2>5, <2>6
  <2> DEFINE w == v \ {p}
  <2>10. Total(f, u) = f[y] + Total(f, w)
    BY <2>8, <2>9
  <2>11. Total(f, v) = f[p] + Total(f, w)
    BY <2>8, <2>9
  <2>12. f[p] \in Nat /\ f[y] \in Nat /\ Total(f, w) \in Nat
    <3>1. IsFiniteSet(w) /\ w \subseteq S
      BY <2>7, FS_Subset
    <3> QED
      BY <1>0, <2>3, <2>5, <3>1, TotalNat
  <2> HIDE DEF p, u, v, w
  <2>13. Total(f, t) = f[y] + Total(f, v)
    BY <2>5, <2>10, <2>11, <2>12
  <2> QED
    BY <2>3, <2>13 DEF v
<1>2. Cardinality(S) \in Nat
  BY <1>0, FS_CardinalityType
<1>3. ~Wrong(S)
  BY <1>1, <1>2
<1> QED
  BY <1>3

LEMMA TotalSame ==
  ASSUME NEW f, NEW g, NEW S, IsFiniteSet(S), \A x \in S : f[x] = g[x]
  PROVE  Total(f, S) = Total(g, S)
<1> DEFINE Wrong(t) == Total(f, t) # Total(g, t)
           Bad == {n \in Nat : \E t \in SUBSET S : Cardinality(t) = n /\ Wrong(t)}
<1>1. Bad = {}
  <2> SUFFICES ASSUME Bad # {} PROVE FALSE
    OBVIOUS
  <2>1. PICK n \in Bad : \A m \in Bad : n <= m
    BY LeastExists
  <2>2. PICK t \in SUBSET S : Cardinality(t) = n /\ Wrong(t)
    BY <2>1
  <2>3. IsFiniteSet(t)
    BY FS_Subset
  <2> DEFINE r == t \ {Pick(t)}
  <2>4. /\ Total(f, t) = IF t = {} THEN 0 ELSE f[Pick(t)] + Total(f, r)
        /\ Total(g, t) = IF t = {} THEN 0 ELSE g[Pick(t)] + Total(g, r)
    BY <2>3, TotalRec
  <2>5. t # {} /\ Pick(t) \in S
    BY <2>2, <2>4, PickIn
  <2>6. Cardinality(r) \in Nat /\ Cardinality(r) < n
    BY <2>2, <2>3, <2>5, PickIn, SmallerSet
  <2>7. ~Wrong(r)
    BY <2>1, <2>6
  <2> QED
    BY <2>2, <2>4, <2>5, <2>7
<1>2. Cardinality(S) \in Nat
  BY FS_CardinalityType
<1>3. ~Wrong(S)
  BY <1>1, <1>2
<1> QED
  BY <1>3

LEMMA TotalLast ==
  ASSUME NEW f, NEW m \in Nat, NEW n \in Nat, m <= n, \A i \in m .. n : f[i] \in Nat
  PROVE  Total(f, m .. n) = f[n] + Total(f, m .. n - 1)
<1> DEFINE I == m .. n
<1>1. IsFiniteSet(I) /\ n \in I /\ \A x \in I : f[x] \in Nat
  BY FS_Interval
<1>2. I \ {n} = m .. n - 1
  OBVIOUS
<1> HIDE DEF I
<1>3. \A x \in I : Total(f, I) = f[x] + Total(f, I \ {x})
  BY <1>1, TotalRemove, ZenonT(30) DEF Summable
<1> QED
  BY <1>1, <1>2, <1>3 DEF I

\* A sum does not change when its terms are renumbered.
LEMMA TotalShift ==
  ASSUME NEW old, NEW new, NEW n \in Nat,
         \A i \in 1 .. n : new[i] = old[i + 1] /\ new[i] \in Nat
  PROVE  Total(new, 1 .. n) = Total(old, 2 .. n + 1)
<1> DEFINE Bad == {m \in 0 .. n : Total(new, 1 .. m) # Total(old, 2 .. m + 1)}
<1>1. Bad = {}
  <2> SUFFICES ASSUME Bad # {} PROVE FALSE
    OBVIOUS
  <2>0. Bad \in SUBSET Nat
    OBVIOUS
  <2>1. PICK m \in Bad : \A k \in Bad : m <= k
    BY <2>0, LeastExists
  <2>2. CASE m = 0
    <3>1. 1 .. m = {} /\ 2 .. m + 1 = {}
      BY <2>2
    <3>2. Total(new, {}) = 0 /\ Total(old, {}) = 0
      BY TotalRec, FS_EmptySet
    <3> QED
      BY <3>1, <3>2, <2>1
  <2>3. CASE m # 0
    <3>1. m - 1 \in 0 .. n /\ m - 1 \notin Bad /\ m \in 1 .. n
      BY <2>1, <2>3
    <3>2. Total(new, 1 .. m - 1) = Total(old, 2 .. m)
      BY <3>1
    <3>3. Total(new, 1 .. m) = new[m] + Total(new, 1 .. m - 1)
      <4>1. \A i \in 1 .. m : new[i] \in Nat
        BY <3>1
      <4> QED
        BY <3>1, <4>1, TotalLast
    <3>4. Total(old, 2 .. m + 1) = old[m + 1] + Total(old, 2 .. m)
      <4>1. ASSUME NEW i \in 2 .. m + 1 PROVE old[i] \in Nat
        <5>1. i - 1 \in 1 .. n /\ (i - 1) + 1 = i
          BY <3>1
        <5> QED
          BY <5>1
      <4>2. Total(old, 2 .. m + 1) = old[m + 1] + Total(old, 2 .. (m + 1) - 1)
        BY <3>1, <4>1, TotalLast
      <4> QED
        BY <3>1, <4>2
    <3> QED
      BY <2>1, <3>1, <3>2, <3>3, <3>4
  <2> QED
    BY <2>2, <2>3
<1> QED
  BY <1>1

\* Two sums that differ in one term.
LEMMA TotalChange ==
  ASSUME NEW f, NEW g, NEW S, Summable(f, S), Summable(g, S), NEW x \in S,
         \A y \in S \ {x} : f[y] = g[y]
  PROVE  /\ Total(f, S) \in Nat /\ Total(g, S) \in Nat
         /\ Total(g, S) + f[x] = Total(f, S) + g[x]
<1> DEFINE r == S \ {x}
<1>1. Total(f, S) = f[x] + Total(f, r)
  BY TotalRemove
<1>2. Total(g, S) = g[x] + Total(g, r)
  BY TotalRemove
<1>3. IsFiniteSet(S) /\ IsFiniteSet(r) /\ f[x] \in Nat /\ g[x] \in Nat
  BY FS_Subset DEF Summable
<1>4. Total(f, r) = Total(g, r)
  BY <1>3, TotalSame
<1>5. Total(f, r) \in Nat /\ Total(f, S) \in Nat /\ Total(g, S) \in Nat
  BY <1>3, TotalNat DEF Summable
<1> QED
  BY <1>1, <1>2, <1>3, <1>4, <1>5

-----------------------------------------------------------------------------
(* Motion in a buffer. *)
Amount(e) == IF e.type = "rel" THEN e.value ELSE 0
Amounts(q) == [i \in DOMAIN q |-> Amount(q[i])]

LEMMA EventAmount == \A e \in Events : Amount(e) \in Nat
<1> SUFFICES ASSUME NEW e \in Events PROVE Amount(e) \in Nat
  OBVIOUS
<1>1. CASE e.type = "rel"
  <2>1. e \in [type : {"rel"}, value : Deltas]
    BY <1>1 DEF Events, Syn
  <2> QED
    BY <1>1, <2>1, BoundsAssumption DEF Amount
<1>2. CASE e.type # "rel"
  BY <1>2 DEF Amount
<1> QED
  BY <1>1, <1>2

LEMMA NoAmount ==
  /\ Syn \in Events /\ Amount(Syn) = 0
  /\ \A c, v : Amount(Key(c, v)) = 0
  /\ \A n : Amount(Rel(n)) = n
BY DEF Events, Amount, Syn, Key, Rel

LEMMA MotionTotal == \A q : Motion(q) = Total(Amounts(q), DOMAIN q)
BY DEF Motion, Total, Amounts, Amount

LEMMA MotionNat ==
  ASSUME NEW q \in Seq(Events)
  PROVE  /\ Motion(q) \in Nat
         /\ Len(q) \in Nat /\ DOMAIN q = 1 .. Len(q) /\ IsFiniteSet(DOMAIN q)
         /\ \A i \in DOMAIN q : Amounts(q)[i] = Amount(q[i]) /\ Amounts(q)[i] \in Nat
<1>1. Len(q) \in Nat /\ DOMAIN q = 1 .. Len(q) /\ \A i \in DOMAIN q : q[i] \in Events
  OBVIOUS
<1>2. IsFiniteSet(DOMAIN q)
  BY <1>1, FS_Interval
<1>3. \A i \in DOMAIN q : Amounts(q)[i] = Amount(q[i])
  BY DEF Amounts
<1>4. \A i \in DOMAIN q : Amounts(q)[i] \in Nat
  BY <1>1, <1>3, EventAmount
<1>5. Total(Amounts(q), DOMAIN q) \in Nat
  BY <1>2, <1>4, TotalNat
<1> QED
  BY <1>1, <1>2, <1>3, <1>4, <1>5, MotionTotal

LEMMA MotionEmpty == Motion(<<>>) = 0
<1>1. DOMAIN <<>> = {}
  OBVIOUS
<1>2. Total(Amounts(<<>>), {}) = 0
  BY TotalRec, FS_EmptySet
<1> QED
  BY <1>1, <1>2, MotionTotal

LEMMA MotionOne == ASSUME NEW e \in Events PROVE Motion(<<e>>) = Amount(e)
<1> DEFINE q == <<e>>  f == Amounts(q)
<1>1. DOMAIN q = {1} /\ q[1] = e
  OBVIOUS
<1>2. f[1] = Amount(e) /\ Amount(e) \in Nat
  BY <1>1, EventAmount DEF Amounts
<1> HIDE DEF q, f
<1>3. IsFiniteSet({1}) /\ {1} \ {1} = {}
  BY FS_Singleton
<1>4. Total(f, {1}) = f[1] + Total(f, {1} \ {1})
  <2>1. \A x \in {1} : f[x] \in Nat
    BY <1>2
  <2> QED
    BY <1>3, <2>1, TotalRemove DEF Summable
<1>5. Total(f, {}) = 0
  BY TotalRec, FS_EmptySet
<1>6. Motion(q) = Total(f, {1})
  BY <1>1, MotionTotal DEF f
<1> QED
  BY <1>2, <1>3, <1>4, <1>5, <1>6 DEF q

LEMMA MotionAppend ==
  ASSUME NEW q \in Seq(Events), NEW e \in Events
  PROVE  /\ Append(q, e) \in Seq(Events) /\ Len(Append(q, e)) = Len(q) + 1
         /\ Motion(Append(q, e)) = Motion(q) + Amount(e)
<1> DEFINE r == Append(q, e)  n == Len(q)
<1>1. /\ r \in Seq(Events) /\ Len(r) = n + 1 /\ n \in Nat
      /\ r[n + 1] = e /\ \A i \in 1 .. n : r[i] = q[i]
  OBVIOUS
<1> HIDE DEF r, n
<1>2. /\ DOMAIN q = 1 .. n /\ DOMAIN r = 1 .. n + 1
      /\ \A i \in 1 .. n + 1 : Amounts(r)[i] = Amount(r[i]) /\ Amounts(r)[i] \in Nat
      /\ \A i \in 1 .. n : Amounts(q)[i] = Amount(q[i])
  BY <1>1, MotionNat DEF n
<1>3. Total(Amounts(r), 1 .. n + 1) = Amounts(r)[n + 1] + Total(Amounts(r), 1 .. n)
  <2>1. n + 1 \in Nat /\ 1 \in Nat /\ 1 <= n + 1 /\ (n + 1) - 1 = n
    BY <1>1
  <2>2. Total(Amounts(r), 1 .. n + 1) = Amounts(r)[n + 1] + Total(Amounts(r), 1 .. (n + 1) - 1)
    BY <1>2, <2>1, TotalLast, SMTT(20)
  <2> QED
    BY <2>1, <2>2
<1>4. Total(Amounts(r), 1 .. n) = Total(Amounts(q), 1 .. n)
  <2>1. \A i \in 1 .. n : Amounts(r)[i] = Amounts(q)[i]
    BY <1>1, <1>2
  <2>2. IsFiniteSet(1 .. n)
    BY <1>1, FS_Interval
  <2> QED
    BY <2>1, <2>2, TotalSame
<1>5. Amounts(r)[n + 1] = Amount(e)
  BY <1>1, <1>2
<1>6. Motion(r) = Amount(e) + Motion(q)
  BY <1>2, <1>3, <1>4, <1>5, MotionTotal
<1> QED
  BY <1>1, <1>6, MotionNat, EventAmount DEF r, n

LEMMA MotionTail ==
  ASSUME NEW q \in Seq(Events), q # <<>>
  PROVE  /\ Head(q) \in Events /\ Tail(q) \in Seq(Events)
         /\ Len(Tail(q)) = Len(q) - 1
         /\ Motion(q) = Amount(Head(q)) + Motion(Tail(q))
<1> DEFINE t == Tail(q)  n == Len(t)
<1>1. /\ Head(q) \in Events /\ t \in Seq(Events) /\ Len(t) = Len(q) - 1
      /\ \A i \in 1 .. Len(t) : t[i] = q[i + 1]
  BY HeadTailProperties
<1>2. n \in Nat /\ Len(q) = n + 1 /\ Head(q) = q[1]
  BY <1>1
<1> HIDE DEF t, n
<1>3. /\ DOMAIN q = 1 .. n + 1 /\ DOMAIN t = 1 .. n
      /\ \A i \in 1 .. n + 1 : Amounts(q)[i] = Amount(q[i]) /\ Amounts(q)[i] \in Nat
      /\ \A i \in 1 .. n : Amounts(t)[i] = Amount(t[i]) /\ Amounts(t)[i] \in Nat
  <2>1. DOMAIN q = 1 .. n + 1 /\ DOMAIN t = 1 .. n
    BY <1>1, <1>2 DEF n
  <2>2. \A i \in DOMAIN q : Amounts(q)[i] = Amount(q[i]) /\ Amounts(q)[i] \in Nat
    BY MotionNat
  <2>3. \A i \in DOMAIN t : Amounts(t)[i] = Amount(t[i]) /\ Amounts(t)[i] \in Nat
    BY <1>1, MotionNat
  <2> QED
    BY <2>1, <2>2, <2>3
<1>4. Total(Amounts(t), 1 .. n) = Total(Amounts(q), 2 .. n + 1)
  <2>1. \A i \in 1 .. n : Amounts(t)[i] = Amounts(q)[i + 1] /\ Amounts(t)[i] \in Nat
    <3>1. \A i \in 1 .. n : i + 1 \in 1 .. n + 1 /\ t[i] = q[i + 1]
      BY <1>1, <1>2 DEF n
    <3> QED
      BY <1>3, <3>1
  <2> QED
    BY <1>2, <2>1, TotalShift
<1>5. Total(Amounts(q), 1 .. n + 1) = Amounts(q)[1] + Total(Amounts(q), 2 .. n + 1)
  <2> DEFINE I == 1 .. n + 1
  <2>1. IsFiniteSet(I) /\ 1 \in I /\ I \ {1} = 2 .. n + 1
    <3>1. IsFiniteSet(I)
      BY <1>2, FS_Interval
    <3>2. 1 \in I
      BY <1>2
    <3>3. I \ {1} = 2 .. n + 1
      BY <1>2
    <3> QED
      BY <3>1, <3>2, <3>3
  <2>2. \A x \in I : Amounts(q)[x] \in Nat
    BY <1>3
  <2> HIDE DEF I
  <2>3. \A x \in I : Total(Amounts(q), I) = Amounts(q)[x] + Total(Amounts(q), I \ {x})
    BY <2>1, <2>2, TotalRemove DEF Summable
  <2> QED
    BY <2>1, <2>3 DEF I
<1>6. Amounts(q)[1] = Amount(Head(q))
  BY <1>2, <1>3
<1>7. Motion(q) = Amount(Head(q)) + Motion(t)
  BY <1>3, <1>4, <1>5, <1>6, MotionTotal
<1> QED
  BY <1>1, <1>7 DEF t

\* Pushing an event: the buffer keeps its size, and no motion is made.
LEMMA Pushed ==
  ASSUME NEW d \in Devices, NEW q \in Seq(Events), Len(q) <= MaxQueue[d], NEW e \in Events
  PROVE  /\ Push(d, q, e) \in Seq(Events) /\ Len(Push(d, q, e)) <= MaxQueue[d]
         /\ Motion(Push(d, q, e)) \in Nat
         /\ Motion(Push(d, q, e)) <= Motion(q) + Amount(e)
<1>1. MaxQueue[d] \in Nat \ {0} /\ Len(q) \in Nat /\ Motion(q) \in Nat /\ Amount(e) \in Nat
  BY BoundsAssumption, MotionNat, EventAmount
<1>2. CASE Len(q) = MaxQueue[d]
  <2>1. Push(d, q, e) = <<e>> /\ <<e>> \in Seq(Events) /\ Len(<<e>>) = 1
    BY <1>2 DEF Push
  <2>2. Motion(<<e>>) = Amount(e)
    BY MotionOne
  <2> QED
    BY <1>1, <2>1, <2>2
<1>3. CASE Len(q) # MaxQueue[d]
  <2>1. Push(d, q, e) = Append(q, e)
    BY <1>3 DEF Push
  <2>2. /\ Append(q, e) \in Seq(Events) /\ Len(Append(q, e)) = Len(q) + 1
        /\ Motion(Append(q, e)) = Motion(q) + Amount(e)
    BY MotionAppend
  <2> QED
    BY <1>1, <1>3, <2>1, <2>2
<1> QED
  BY <1>2, <1>3

\* A frame is the event and the SYN_REPORT after it.
LEMMA FramePushed ==
  ASSUME BufferInv, NEW d \in Devices, NEW e \in Events
  PROVE  /\ PushFrame(d, e) \in Seq(Events) /\ Len(PushFrame(d, e)) <= MaxQueue[d]
         /\ Motion(PushFrame(d, e)) \in Nat /\ Motion(queue[d]) \in Nat
         /\ Motion(PushFrame(d, e)) <= Motion(queue[d]) + Amount(e)
<1>1. queue[d] \in Seq(Events) /\ Len(queue[d]) <= MaxQueue[d]
  BY DEF BufferInv
<1> DEFINE q == Push(d, queue[d], e)
<1>2. /\ q \in Seq(Events) /\ Len(q) <= MaxQueue[d] /\ Motion(q) \in Nat
      /\ Motion(q) <= Motion(queue[d]) + Amount(e)
  BY <1>1, Pushed
<1>3. PushFrame(d, e) = Push(d, q, Syn)
  BY DEF PushFrame
<1> HIDE DEF q
<1>4. /\ Push(d, q, Syn) \in Seq(Events) /\ Len(Push(d, q, Syn)) <= MaxQueue[d]
      /\ Motion(Push(d, q, Syn)) \in Nat
      /\ Motion(Push(d, q, Syn)) <= Motion(q) + Amount(Syn)
  BY <1>2, NoAmount, Pushed
<1>5. Motion(queue[d]) \in Nat /\ Amount(e) \in Nat
  BY <1>1, MotionNat, EventAmount
<1>6. Motion(Push(d, q, Syn)) <= Motion(queue[d]) + Amount(e)
  BY <1>2, <1>4, <1>5, NoAmount
<1> QED
  BY <1>3, <1>4, <1>5, <1>6

\* The motion in all buffers, when one of them changes.
UnreadOf(qs) == Total([d \in Devices |-> Motion(qs[d])], Devices)

LEMMA UnreadIs == Unread = UnreadOf(queue) /\ Unread' = UnreadOf(queue')
BY DEF Unread, UnreadOf, Total, FoldFunctionOnSet, MapThenFoldSet

LEMMA UnreadChange ==
  ASSUME NEW qs \in [Devices -> Seq(Events)], NEW d \in Devices, NEW q \in Seq(Events)
  PROVE  /\ UnreadOf(qs) \in Nat
         /\ UnreadOf([qs EXCEPT ![d] = q]) \in Nat
         /\ Motion(qs[d]) \in Nat /\ Motion(q) \in Nat
         /\ UnreadOf([qs EXCEPT ![d] = q]) + Motion(qs[d]) = UnreadOf(qs) + Motion(q)
<1> DEFINE rs == [qs EXCEPT ![d] = q]
           f == [c \in Devices |-> Motion(qs[c])]
           g == [c \in Devices |-> Motion(rs[c])]
<1>1. /\ \A c \in Devices : qs[c] \in Seq(Events) /\ rs[c] \in Seq(Events)
      /\ rs[d] = q /\ \A c \in Devices \ {d} : rs[c] = qs[c]
  OBVIOUS
<1>2. /\ UnreadOf(qs) = Total(f, Devices) /\ UnreadOf(rs) = Total(g, Devices)
      /\ \A c \in Devices : f[c] = Motion(qs[c]) /\ g[c] = Motion(rs[c])
  BY DEF UnreadOf
<1> HIDE DEF rs, f, g
<1>3. \A c \in Devices : f[c] \in Nat /\ g[c] \in Nat
  BY <1>1, <1>2, MotionNat
<1>4. Summable(f, Devices) /\ Summable(g, Devices)
  BY <1>3, CodesAssumption DEF Summable
<1>5. \A c \in Devices \ {d} : f[c] = g[c]
  BY <1>1, <1>2
<1>6. /\ Total(f, Devices) \in Nat /\ Total(g, Devices) \in Nat
      /\ Total(g, Devices) + f[d] = Total(f, Devices) + g[d]
  BY <1>4, <1>5, TotalChange
<1>7. f[d] = Motion(qs[d]) /\ g[d] = Motion(q)
  BY <1>1, <1>2
<1> QED
  BY <1>2, <1>3, <1>6, <1>7 DEF rs
-----------------------------------------------------------------------------
(* The steps, as the proofs below distinguish them. *)
LEMMA MinExists ==
  ASSUME NEW S \in SUBSET Nat, S # {}
  PROVE  Min(S) \in S /\ \A x \in S : Min(S) <= x
<1>1. PICK x \in S : \A y \in S : x <= y
  BY LeastExists
<1> QED
  BY <1>1 DEF Min

LEMMA Steps ==
  ASSUME [Next]_vars
  PROVE  \/ UNCHANGED vars
         \/ \E s \in Switches, v \in 0 .. 2 : KeyEvent(s, v)
         \/ \E d \in Devices, n \in Deltas : Move(d, n)
         \/ \E d \in Devices : Unplug(d) \/ Plug(d) \/ StartDrain(d)
         \/ Start \/ ReadEvent \/ EndDrain \/ Shutdown \/ Clock
         \/ PollKbd \/ PollMouse \/ Configure \/ Disconnect
BY DEF Next, Fingers, Mice, HotPlug, Drain, Host, Press, Release, Repeat

\* The event read is a key event, a motion or a SYN_REPORT.
LEMMA ReadSteps ==
  ASSUME LoopInv, BufferInv, ReadEvent
  PROVE  /\ draining \in Devices /\ pc = "run" /\ pc' = "run" /\ draining' = draining
         /\ queue[draining] \in Seq(Events) /\ queue[draining] # <<>>
         /\ queue' = [queue EXCEPT ![draining] = Tail(queue[draining])]
         /\ \/ /\ Head(queue[draining]).type = "key"
               /\ \E c \in Codes, v \in 0 .. 2 : ReadKey(c, v)
            \/ \E n \in Deltas : ReadRel(n) /\ Head(queue[draining]) = Rel(n)
            \/ ReadSyn /\ Head(queue[draining]) = Syn
<1>1. /\ draining \in Devices /\ pc = "run" /\ pc' = "run" /\ draining' = draining
      /\ queue[draining] \in Seq(Events) /\ queue[draining] # <<>>
      /\ queue' = [queue EXCEPT ![draining] = Tail(queue[draining])]
  BY DEF LoopInv, BufferInv, ReadEvent
<1> DEFINE e == Head(queue[draining])
<1>2. e \in Events
  BY <1>1, MotionTail
<1>3. \/ e.type = "key" /\ ReadKey(e.code, e.value)
      \/ e.type = "rel" /\ ReadRel(e.value)
      \/ e.type = "syn" /\ ReadSyn
  BY DEF ReadEvent
<1> HIDE DEF e
<1>4. CASE e.type = "key" /\ ReadKey(e.code, e.value)
  <2>1. e.code \in Codes /\ e.value \in 0 .. 2
    BY <1>2, <1>4 DEF Events, Syn
  <2> QED
    BY <1>1, <1>4, <2>1 DEF e
<1>5. CASE e.type = "rel" /\ ReadRel(e.value)
  <2>1. e.value \in Deltas /\ e = Rel(e.value)
    BY <1>2, <1>5 DEF Events, Syn, Rel
  <2> QED
    BY <1>1, <1>5, <2>1 DEF e
<1>6. CASE e.type = "syn" /\ ReadSyn
  <2>1. e = Syn
    BY <1>2, <1>6 DEF Events
  <2> QED
    BY <1>1, <1>6, <2>1 DEF e
<1> QED
  BY <1>3, <1>4, <1>5, <1>6

\* A key event changes the modifiers, the slots or the buttons, or nothing.
LEMMA KeySteps ==
  ASSUME NEW c \in Codes, NEW v \in 0 .. 2, ReadKey(c, v)
  PROVE  \/ UNCHANGED <<kbdVars, dirty, mouseVars, mouseOut, lost, history>>
         \/ /\ v # 2
            /\ \E down \in BOOLEAN :
                 /\ ModifierEvent(c, down) \/ UsageEvent(c, down) \/ ButtonEvent(c, down)
                 /\ readDown' = SetBit(readDown, c, down)
                 /\ rolled' = IF down /\ c \in Usages /\ At(c) = {} /\ Free = {}
                                THEN rolled \cup {c} ELSE rolled \ {c}
<1>1. CASE v = 2
  BY <1>1 DEF ReadKey
<1>2. CASE v # 2
  <2>1. PICK down \in BOOLEAN : down <=> v = 1
    OBVIOUS
  <2>2. /\ ModifierEvent(c, v = 1) \/ UsageEvent(c, v = 1) \/ ButtonEvent(c, v = 1)
        /\ readDown' = SetBit(readDown, c, v = 1)
        /\ rolled' = SetBit(rolled, c, /\ v = 1 /\ c \in Usages /\ At(c) \cup Free = {})
    BY <1>2 DEF ReadKey
  <2>3. ModifierEvent(c, down) \/ UsageEvent(c, down) \/ ButtonEvent(c, down)
    BY <2>1, <2>2 DEF ModifierEvent, UsageEvent, ButtonEvent, SetBit
  <2>4. readDown' = SetBit(readDown, c, down)
    BY <2>1, <2>2 DEF SetBit
  <2>5. rolled' = IF down /\ c \in Usages /\ At(c) = {} /\ Free = {}
                    THEN rolled \cup {c} ELSE rolled \ {c}
    <3>1. At(c) \cup Free = {} <=> At(c) = {} /\ Free = {}
      OBVIOUS
    <3> QED
      BY <2>1, <2>2, <3>1 DEF SetBit
  <2> QED
    BY <1>2, <2>3, <2>4, <2>5
<1> QED
  BY <1>1, <1>2

\* Reading an event leaves everything but its own part of the state alone.
LEMMA ReadLeaves ==
  ASSUME ReadEvent
  PROVE  UNCHANGED <<held, status, moved, pc, draining, kbdOut, configured, host>>
BY DEF ReadEvent
-----------------------------------------------------------------------------
(* The loop. *)
USE DEF fingerVars, loopVars, kbdVars, mouseVars, kbdOut, mouseOut, usbVars, history

LEMMA LoopStep ==
  ASSUME LoopInv, BufferInv, [Next]_vars
  PROVE  LoopInv'
<1> USE DEF LoopInv, Keyboard
<1>1. CASE UNCHANGED vars
  BY <1>1 DEF vars, NoKeys, Slots
<1>2. ASSUME NEW s \in Switches, NEW v \in 0 .. 2, KeyEvent(s, v)
      PROVE  LoopInv'
  <2>1. /\ UNCHANGED <<status, pc, draining, dirty, mods, slots, buttons, configured>>
        /\ pc = "run" /\ held' \subseteq Switches
    BY <1>2 DEF KeyEvent
  <2> QED
    BY <2>1
<1>3. ASSUME NEW d \in Devices, NEW n \in Deltas, Move(d, n)
      PROVE  LoopInv'
  BY <1>3 DEF Move
<1>4. ASSUME NEW d \in Devices, Unplug(d) \/ Plug(d) \/ StartDrain(d)
      PROVE  LoopInv'
  <2>1. /\ pc = "run" /\ UNCHANGED <<pc, mods, slots, buttons, configured>>
        /\ held' \subseteq Switches
    BY <1>4 DEF Unplug, Plug, StartDrain
  <2>2. status' \in [Devices -> {"plugged", "gone", "absent"}]
    BY <1>4 DEF Unplug, Plug, StartDrain
  <2>3. /\ draining' \in Devices \cup {Nobody} /\ dirty' \in BOOLEAN
        /\ draining' = Nobody => ~dirty'
    <3>1. CASE UNCHANGED <<draining, dirty>>
      BY <3>1
    <3>2. CASE draining' = d /\ dirty' = FALSE
      BY <3>2
    <3> QED
      BY <1>4, <3>1, <3>2 DEF Unplug, Plug, StartDrain
  <2> QED
    BY <2>1, <2>2, <2>3
<1>5. CASE Start
  BY <1>5 DEF Start
<1>6. CASE ReadEvent
  <2>1. dirty' \in BOOLEAN
    <3>1. CASE \E c \in Codes, v \in 0 .. 2 : ReadKey(c, v)
      BY <3>1, KeySteps DEF ModifierEvent, UsageEvent, ButtonEvent
    <3>2. CASE \E n \in Deltas : ReadRel(n)
      BY <3>2 DEF ReadRel
    <3>3. CASE ReadSyn
      BY <3>3 DEF ReadSyn
    <3> QED
      BY <1>6, <3>1, <3>2, <3>3, ReadSteps
  <2> QED
    <3>1. pc' = "run" /\ draining' = draining /\ draining # Nobody
      BY <1>6, ReadSteps DEF ReadEvent
    <3>2. UNCHANGED <<held, status, configured>>
      BY <1>6, ReadLeaves
    <3> QED
      BY <2>1, <3>1, <3>2
<1>7. CASE EndDrain
  BY <1>7 DEF EndDrain
<1>8. CASE Shutdown
  BY <1>8 DEF Shutdown
<1>9. CASE Clock
  BY <1>9 DEF Clock, NoKeys
<1>10. CASE PollKbd \/ PollMouse
  BY <1>10 DEF PollKbd, PollMouse, NoKeys
<1>11. CASE Configure \/ Disconnect
  <2>1. /\ UNCHANGED <<held, status, pc, draining, dirty, mods, slots, buttons>>
        /\ configured' \in BOOLEAN
    BY <1>11 DEF Configure, Disconnect
  <2> QED
    BY <2>1 DEF NoKeys
<1> QED
  BY Steps, <1>1, <1>2, <1>3, <1>4, <1>5, <1>6, <1>7, <1>8, <1>9, <1>10, <1>11

LEMMA BufferStep ==
  ASSUME LoopInv, BufferInv, [Next]_vars
  PROVE  BufferInv'
<1>1. ASSUME NEW d \in Devices, NEW q \in Seq(Events), Len(q) <= MaxQueue[d],
             queue' = [queue EXCEPT ![d] = q]
      PROVE  BufferInv'
  BY <1>1 DEF BufferInv
<1>2. CASE UNCHANGED queue
  BY <1>2 DEF BufferInv
<1>3. ASSUME NEW s \in Switches, NEW v \in 0 .. 2, KeyEvent(s, v)
      PROVE  BufferInv'
  <2>1. s[1] \in Devices /\ Key(s[2], v) \in Events
    BY SwitchesAssumption DEF Events, Key
  <2> DEFINE q == PushFrame(s[1], Key(s[2], v))
  <2>2. q \in Seq(Events) /\ Len(q) <= MaxQueue[s[1]]
    BY <2>1, FramePushed
  <2>3. queue' = [queue EXCEPT ![s[1]] = q]
    BY <1>3 DEF KeyEvent
  <2> HIDE DEF q
  <2> QED
    BY <1>1, <2>1, <2>2, <2>3
<1>4. ASSUME NEW d \in Devices, NEW n \in Deltas, Move(d, n)
      PROVE  BufferInv'
  <2> DEFINE q == PushFrame(d, Rel(n))
  <2>1. Rel(n) \in Events
    BY DEF Events, Rel
  <2>2. q \in Seq(Events) /\ Len(q) <= MaxQueue[d]
    BY <2>1, FramePushed
  <2>3. queue' = [queue EXCEPT ![d] = q]
    BY <1>4 DEF Move
  <2> HIDE DEF q
  <2> QED
    BY <1>1, <2>2, <2>3
<1>5. ASSUME NEW d \in Devices, Unplug(d)
      PROVE  BufferInv'
  <2>1. <<>> \in Seq(Events) /\ Len(<<>>) <= MaxQueue[d]
    BY BoundsAssumption
  <2> QED
    BY <1>1, <1>5, <2>1 DEF Unplug
<1>6. CASE ReadEvent
  <2> DEFINE d == draining  q == Tail(queue[d])
  <2>1. d \in Devices /\ queue[d] \in Seq(Events) /\ queue[d] # <<>>
        /\ queue' = [queue EXCEPT ![d] = q]
    BY <1>6, ReadSteps
  <2>2. q \in Seq(Events) /\ Len(q) = Len(queue[d]) - 1
    BY <2>1, MotionTail
  <2>3. Len(queue[d]) <= MaxQueue[d] /\ Len(queue[d]) \in Nat /\ MaxQueue[d] \in Nat
    <3>1. Len(queue[d]) \in Nat /\ Len(queue[d]) <= MaxQueue[d]
      BY <2>1 DEF BufferInv
    <3>2. MaxQueue[d] \in Nat
      BY <2>1, BoundsAssumption
    <3> QED
      BY <3>1, <3>2
  <2> HIDE DEF d, q
  <2>4. Len(q) <= MaxQueue[d]
    BY <2>2, <2>3
  <2> QED
    BY <1>1, <2>1, <2>2, <2>4
<1> QED
  BY Steps, <1>2, <1>3, <1>4, <1>5, <1>6
  DEF vars, Plug, StartDrain, Start, EndDrain, Shutdown, Clock, PollKbd, PollMouse,
      Configure, Disconnect
-----------------------------------------------------------------------------
(* What is down. *)

\* What is down, as DownFollowsEvents collects it.
Taken == {slots[i] : i \in Slots \ Free}

LEMMA TakenIs ==
  ASSUME KeysInv
  PROVE  /\ Taken \subseteq Usages
         /\ \A u : u \in Taken <=> u # Empty /\ \E i \in Slots : slots[i] = u
         /\ mods \cup Taken \cup buttons = readDown \ rolled
<1>1. \A i \in Slots : slots[i] \in Usages \cup {Empty}
  BY DEF KeysInv
<1>2. \A i : i \in Slots \ Free <=> i \in Slots /\ slots[i] # Empty
  BY DEF Free
<1> QED
  BY <1>1, <1>2 DEF Taken, KeysInv, DownFollowsEvents

\* The codes of keys, modifiers and buttons are not confused.
LEMMA CodeKinds ==
  ASSUME NEW c
  PROVE  /\ c \in Usages => c \notin Modifiers /\ c \notin Buttons /\ c # Empty
         /\ c \in Modifiers => c \notin Usages /\ c \notin Buttons
         /\ c \in Buttons => c \notin Usages /\ c \notin Modifiers
BY CodesAssumption DEF Empty

LEMMA FreeSlot ==
  ASSUME Free # {}
  PROVE  Min(Free) \in Slots /\ slots[Min(Free)] = Empty
<1>1. Free \in SUBSET Nat
  BY BoundsAssumption DEF Free, Slots
<1>2. Min(Free) \in Free
  BY <1>1, MinExists
<1> QED
  BY <1>2 DEF Free

LEMMA KeySlot ==
  ASSUME NEW u, At(u) # {}
  PROVE  Min(At(u)) \in Slots /\ slots[Min(At(u))] = u
<1>1. At(u) \in SUBSET Nat
  BY BoundsAssumption DEF At, Slots
<1>2. Min(At(u)) \in At(u)
  BY <1>1, MinExists
<1> QED
  BY <1>2 DEF At

\* One slot changes: the key is in it, and in no other.
LEMMA SlotSet ==
  ASSUME KeysInv, NEW i \in Slots, NEW u \in Usages \cup {Empty},
         slots' = [slots EXCEPT ![i] = u], \A j \in Slots : slots[j] = u => u = Empty
  PROVE  /\ slots' \in [Slots -> Usages \cup {Empty}]
         /\ \A j, k \in Slots : slots'[j] = slots'[k] /\ slots'[j] # Empty => j = k
         /\ Taken' = (Taken \ {slots[i]}) \cup ({u} \ {Empty})
<1>1. slots \in [Slots -> Usages \cup {Empty}]
  BY DEF KeysInv
<1>2. \A j, k \in Slots : slots[j] = slots[k] /\ slots[j] # Empty => j = k
  BY DEF KeysInv
<1>3. slots'[i] = u /\ \A j \in Slots : j # i => slots'[j] = slots[j]
  BY <1>1
<1>4. slots' \in [Slots -> Usages \cup {Empty}]
  BY <1>1
<1>5. \A j, k \in Slots : slots'[j] = slots'[k] /\ slots'[j] # Empty => j = k
  BY <1>2, <1>3
<1>6. \A w : w \in Taken <=> w # Empty /\ \E j \in Slots : slots[j] = w
  BY TakenIs
<1>7. \A w : w \in Taken' <=> w # Empty /\ \E j \in Slots : slots'[j] = w
  <2>1. \A j : j \in (Slots \ Free)' <=> j \in Slots /\ slots'[j] # Empty
    BY DEF Free, Slots
  <2> QED
    BY <2>1 DEF Taken
<1>8. ASSUME NEW w PROVE w \in Taken' <=> w \in (Taken \ {slots[i]}) \cup ({u} \ {Empty})
  <2>1. CASE w = Empty
    BY <2>1, <1>6, <1>7
  <2>2. CASE w # Empty /\ w = u
    BY <2>2, <1>3, <1>7
  <2>3. CASE w # Empty /\ w # u
    <3>1. w \in Taken' <=> \E j \in Slots : j # i /\ slots[j] = w
      BY <1>3, <1>7, <2>3
    <3>2. w \in Taken /\ w # slots[i] <=> \E j \in Slots : j # i /\ slots[j] = w
      BY <1>2, <1>6, <2>3
    <3> QED
      BY <2>3, <3>1, <3>2
  <2> QED
    BY <2>1, <2>2, <2>3
<1> QED
  BY <1>4, <1>5, <1>8

LEMMA SlotsSame ==
  ASSUME UNCHANGED slots
  PROVE  Taken' = Taken /\ Free' = Free
BY DEF Taken, Free, Slots

\* What a key event does to the slots.
LEMMA UsageStep ==
  ASSUME KeysInv, NEW c \in Usages, NEW down \in BOOLEAN,
         IF down THEN KbdPress(c) ELSE KbdRelease(c)
  PROVE  /\ slots' \in [Slots -> Usages \cup {Empty}]
         /\ \A j, k \in Slots : slots'[j] = slots'[k] /\ slots'[j] # Empty => j = k
         /\ Taken' = IF ~down THEN Taken \ {c}
                     ELSE IF At(c) = {} /\ Free = {} THEN Taken ELSE Taken \cup {c}
         /\ down /\ At(c) = {} /\ Free = {} => c \notin Taken
<1>1. c # Empty /\ (c \in Taken <=> At(c) # {})
  BY TakenIs, CodeKinds DEF At
<1>2. ASSUME UNCHANGED slots
      PROVE  /\ slots' \in [Slots -> Usages \cup {Empty}]
             /\ \A j, k \in Slots : slots'[j] = slots'[k] /\ slots'[j] # Empty => j = k
             /\ Taken' = Taken
  BY <1>2, SlotsSame DEF KeysInv
<1>3. CASE down /\ At(c) = {} /\ Free # {}
  <2> DEFINE i == Min(Free)
  <2>1. i \in Slots /\ slots[i] = Empty
    BY <1>3, FreeSlot
  <2>2. slots' = [slots EXCEPT ![i] = c]
    BY <1>3 DEF KbdPress
  <2>3. \A j \in Slots : slots[j] = c => c = Empty
    BY <1>3 DEF At
  <2> HIDE DEF i
  <2>4. /\ slots' \in [Slots -> Usages \cup {Empty}]
        /\ \A j, k \in Slots : slots'[j] = slots'[k] /\ slots'[j] # Empty => j = k
        /\ Taken' = (Taken \ {slots[i]}) \cup ({c} \ {Empty})
    BY <2>1, <2>2, <2>3, SlotSet
  <2>5. Taken' = Taken \cup {c}
    BY <1>1, <2>1, <2>4, TakenIs
  <2> QED
    BY <1>3, <2>4, <2>5
<1>4. CASE down /\ At(c) = {} /\ Free = {}
  <2>1. UNCHANGED slots
    BY <1>4 DEF KbdPress
  <2> QED
    BY <1>1, <1>2, <1>4, <2>1
<1>5. CASE down /\ At(c) # {}
  <2>1. UNCHANGED slots
    BY <1>5 DEF KbdPress
  <2> QED
    BY <1>1, <1>2, <1>5, <2>1
<1>6. CASE ~down /\ At(c) # {}
  <2> DEFINE i == Min(At(c))
  <2>1. i \in Slots /\ slots[i] = c
    BY <1>6, KeySlot
  <2>2. slots' = [slots EXCEPT ![i] = Empty]
    BY <1>6 DEF KbdRelease
  <2> HIDE DEF i
  <2>3. /\ slots' \in [Slots -> Usages \cup {Empty}]
        /\ \A j, k \in Slots : slots'[j] = slots'[k] /\ slots'[j] # Empty => j = k
        /\ Taken' = (Taken \ {slots[i]}) \cup ({Empty} \ {Empty})
    BY <2>1, <2>2, SlotSet
  <2> QED
    BY <1>6, <2>1, <2>3
<1>7. CASE ~down /\ At(c) = {}
  <2>1. UNCHANGED slots
    BY <1>7 DEF KbdRelease
  <2> QED
    BY <1>1, <1>2, <1>7, <2>1
<1> QED
  BY <1>3, <1>4, <1>5, <1>6, <1>7

LEMMA KeysRead ==
  ASSUME KeysInv, NEW c \in Codes, NEW down \in BOOLEAN,
         ModifierEvent(c, down) \/ UsageEvent(c, down) \/ ButtonEvent(c, down),
         readDown' = SetBit(readDown, c, down),
         rolled' = IF down /\ c \in Usages /\ At(c) = {} /\ Free = {}
                     THEN rolled \cup {c} ELSE rolled \ {c}
  PROVE  KeysInv'
<1>1. /\ mods \subseteq Modifiers /\ buttons \subseteq Buttons
      /\ slots \in [Slots -> Usages \cup {Empty}]
      /\ readDown \subseteq Codes /\ rolled \subseteq readDown
      /\ \A i, j \in Slots : slots[i] = slots[j] /\ slots[i] # Empty => i = j
  BY DEF KeysInv
<1>2. Taken \subseteq Usages /\ mods \cup Taken \cup buttons = readDown \ rolled
  BY TakenIs
<1>3. readDown' = IF down THEN readDown \cup {c} ELSE readDown \ {c}
  BY DEF SetBit
<1>4. readDown' \subseteq Codes /\ rolled' \subseteq readDown'
  BY <1>1, <1>3
<1>5. CASE ModifierEvent(c, down)
  <2>1. /\ c \in Modifiers /\ UNCHANGED <<slots, buttons>>
        /\ mods' = IF down THEN mods \cup {c} ELSE mods \ {c}
    BY <1>5 DEF ModifierEvent, SetBit
  <2>2. c \notin Usages /\ c \notin Buttons /\ rolled' = rolled \ {c}
    BY <2>1, CodeKinds
  <2>3. Taken' = Taken
    BY <2>1, SlotsSame
  <2>4. mods' \cup Taken' \cup buttons' = readDown' \ rolled'
    BY <1>1, <1>2, <1>3, <2>1, <2>2, <2>3
  <2>5. mods' \subseteq Modifiers
    BY <1>1, <2>1
  <2> QED
    BY <1>1, <1>4, <2>1, <2>4, <2>5 DEF KeysInv, DownFollowsEvents, Taken, Slots
<1>6. CASE UsageEvent(c, down)
  <2>1. /\ c \in Usages /\ UNCHANGED <<mods, buttons>>
        /\ IF down THEN KbdPress(c) ELSE KbdRelease(c)
    BY <1>6 DEF UsageEvent
  <2>2. c \notin Modifiers /\ c \notin Buttons
    BY <2>1, CodeKinds
  <2>3. /\ slots' \in [Slots -> Usages \cup {Empty}]
        /\ \A j, k \in Slots : slots'[j] = slots'[k] /\ slots'[j] # Empty => j = k
        /\ Taken' = IF ~down THEN Taken \ {c}
                    ELSE IF At(c) = {} /\ Free = {} THEN Taken ELSE Taken \cup {c}
        /\ down /\ At(c) = {} /\ Free = {} => c \notin Taken
    BY <2>1, UsageStep
  <2>4. mods' \cup Taken' \cup buttons' = readDown' \ rolled'
    BY <1>1, <1>2, <1>3, <2>1, <2>2, <2>3
  <2> QED
    BY <1>1, <1>4, <2>1, <2>3, <2>4 DEF KeysInv, DownFollowsEvents, Taken, Slots
<1>7. CASE ButtonEvent(c, down)
  <2>1. /\ c \in Buttons /\ UNCHANGED <<slots, mods>>
        /\ buttons' = IF down THEN buttons \cup {c} ELSE buttons \ {c}
    BY <1>7 DEF ButtonEvent, SetBit
  <2>2. c \notin Usages /\ c \notin Modifiers /\ rolled' = rolled \ {c}
    BY <2>1, CodeKinds
  <2>3. Taken' = Taken
    BY <2>1, SlotsSame
  <2>4. mods' \cup Taken' \cup buttons' = readDown' \ rolled'
    BY <1>1, <1>2, <1>3, <2>1, <2>2, <2>3
  <2>5. buttons' \subseteq Buttons
    BY <1>1, <2>1
  <2> QED
    BY <1>1, <1>4, <2>1, <2>4, <2>5 DEF KeysInv, DownFollowsEvents, Taken, Slots
<1> QED
  BY <1>5, <1>6, <1>7

LEMMA KeysStep ==
  ASSUME LoopInv, BufferInv, KeysInv, [Next]_vars
  PROVE  KeysInv'
<1>1. CASE UNCHANGED <<mods, slots, buttons, readDown, rolled>>
  BY <1>1 DEF KeysInv, DownFollowsEvents, Free, Slots
<1>2. CASE ReadEvent
  <2>1. CASE \E c \in Codes, v \in 0 .. 2 : ReadKey(c, v)
    BY <1>1, <2>1, KeySteps, KeysRead
  <2>2. CASE \E n \in Deltas : ReadRel(n)
    BY <1>1, <2>2 DEF ReadRel
  <2>3. CASE ReadSyn
    BY <1>1, <2>3 DEF ReadSyn
  <2> QED
    BY <1>2, <2>1, <2>2, <2>3, ReadSteps
<1>3. ASSUME NEW s \in Switches, NEW v \in 0 .. 2, KeyEvent(s, v)
      PROVE  KeysInv'
  BY <1>1, <1>3 DEF KeyEvent
<1>4. ASSUME NEW d \in Devices, NEW n \in Deltas, Move(d, n)
      PROVE  KeysInv'
  BY <1>1, <1>4 DEF Move
<1>5. ASSUME NEW d \in Devices, Unplug(d) \/ Plug(d) \/ StartDrain(d)
      PROVE  KeysInv'
  BY <1>1, <1>5 DEF Unplug, Plug, StartDrain
<1> QED
  BY Steps, <1>1, <1>2, <1>3, <1>4, <1>5
  DEF vars, Start, EndDrain, Shutdown, Clock, PollKbd, PollMouse, Configure, Disconnect
-----------------------------------------------------------------------------
(* The host. *)
LEMMA Baseline ==
  /\ NoKeys \in Reports /\ NoKeys # Idle
  /\ [buttons |-> {}, motion |-> 0] \in MouseReports
  /\ Idle \notin Reports /\ Idle \notin MouseReports
<1>1. NoKeys \in Reports /\ [buttons |-> {}, motion |-> 0] \in MouseReports
  BY DEF NoKeys, Reports, MouseReports
<1>2. Idle \notin Reports /\ Idle \notin MouseReports
  BY IdleAssumption DEF Reports, MouseReports, Slots, Empty
<1> QED
  BY <1>1, <1>2

LEMMA KeyboardIsReport == ASSUME KeysInv PROVE Keyboard \in Reports
BY DEF KeysInv, Keyboard, Reports

\* After a write the host's keyboard is the report written, or the daemon
\* knows that it is late.
LEMMA KbdWritten ==
  ASSUME HostInv, NEW r \in Reports, WriteKbd(r), host' = host
  PROVE  /\ kbdBusy' \in Reports \cup {Idle} /\ kbdLate' \in BOOLEAN
         /\ ~kbdLate' => HostKeys' = r
<1>1. r # Idle
  BY Baseline
<1> QED
  BY <1>1 DEF WriteKbd, HostInv, HostKeys

LEMMA MouseWritten ==
  ASSUME HostInv, NEW b \in SUBSET Buttons, NEW n \in Nat, host' = host,
         WriteMouse([buttons |-> b, motion |-> n])
  PROVE  /\ mouseBusy' \in MouseReports \cup {Idle} /\ mouseLate' \in BOOLEAN
         /\ ~mouseLate' => HostButtons' = b
<1> DEFINE r == [buttons |-> b, motion |-> n]
<1>1. r \in MouseReports /\ r.buttons = b
  BY DEF MouseReports
<1>2. r # Idle
  BY <1>1, Baseline
<1>3. \/ mouseBusy' = r /\ mouseLate' = FALSE
      \/ mouseBusy' = mouseBusy /\ mouseLate' = TRUE
  BY DEF WriteMouse
<1> HIDE DEF r
<1> QED
  BY <1>1, <1>2, <1>3 DEF HostInv, HostButtons

\* The motion a report carries.
LEMMA Carried ==
  ASSUME pending \in Nat
  PROVE  Min({pending, Clamp}) \in Nat /\ Min({pending, Clamp}) <= pending
<1>1. {pending, Clamp} \in SUBSET Nat /\ {pending, Clamp} # {}
  BY BoundsAssumption
<1> QED
  BY <1>1, MinExists

\* A report with the buttons b and the motion that fits.
LEMMA Flushed ==
  ASSUME HostInv, pending \in Nat, NEW b \in SUBSET Buttons, Flush(b), host' = host
  PROVE  /\ mouseBusy' \in MouseReports \cup {Idle} /\ mouseLate' \in BOOLEAN
         /\ ~mouseLate' => HostButtons' = b
<1>1. PICK n \in Nat : n = Min({pending, Clamp})
  BY Carried
<1>2. WriteMouse([buttons |-> b, motion |-> n])
  BY <1>1 DEF Flush, WriteMouse
<1> QED
  BY <1>1, <1>2, MouseWritten

\* The parts of HostInv, when host does not change.
LEMMA HostParts ==
  ASSUME HostInv, host' = host,
         kbdBusy' \in Reports \cup {Idle} /\ kbdLate' \in BOOLEAN,
         mouseBusy' \in MouseReports \cup {Idle} /\ mouseLate' \in BOOLEAN,
         ~kbdLate' => /\ pc' = "run" /\ ~dirty' => HostKeys' = Keyboard'
                      /\ pc' = "exit" => HostKeys' = NoKeys,
         ~mouseLate' => /\ pc' = "run" => HostButtons' = buttons'
                        /\ pc' = "exit" => HostButtons' = {}
  PROVE  HostInv'
<1>1. host' \in [kbd : Reports, buttons : SUBSET Buttons, motion : Nat]
  BY DEF HostInv
<1>2. Reports' = Reports /\ MouseReports' = MouseReports /\ NoKeys' = NoKeys
  BY DEF Reports, MouseReports, NoKeys, Slots
<1> QED
  BY <1>1, <1>2 DEF HostInv

LEMMA HostButtonsRead ==
  ASSUME LoopInv, KeysInv, HostInv, pending \in Nat, KeysInv', ReadEvent,
         NEW c \in Codes, NEW down \in BOOLEAN, ButtonEvent(c, down)
  PROVE  HostInv'
<1>1. /\ pc = "run" /\ UNCHANGED <<pc, host, kbdBusy, kbdLate, mods, slots, dirty>>
      /\ Flush(buttons')
  BY ReadLeaves DEF ButtonEvent, LoopInv, ReadEvent
<1>2. PICK b \in SUBSET Buttons : b = buttons'
  BY DEF KeysInv
<1>3. Flush(b)
  BY <1>1, <1>2 DEF Flush, WriteMouse
<1>4. /\ mouseBusy' \in MouseReports \cup {Idle} /\ mouseLate' \in BOOLEAN
      /\ ~mouseLate' => HostButtons' = b
  BY <1>1, <1>3, Flushed
<1>5. HostKeys' = HostKeys /\ Keyboard' = Keyboard
  BY <1>1 DEF HostKeys, Keyboard
<1>6. /\ kbdBusy' \in Reports \cup {Idle} /\ kbdLate' \in BOOLEAN
      /\ ~kbdLate' => (~dirty' => HostKeys' = Keyboard')
  BY <1>1, <1>5 DEF HostInv
<1> QED
  BY <1>1, <1>2, <1>4, <1>6, HostParts

LEMMA HostRead ==
  ASSUME LoopInv, BufferInv, KeysInv, HostInv, pending \in Nat, KeysInv', ReadEvent
  PROVE  HostInv'
<1>1. pc = "run" /\ pc' = "run" /\ UNCHANGED <<host, kbdBusy, kbdLate>>
  BY ReadSteps, ReadLeaves
<1>2. HostKeys' = HostKeys
  BY <1>1 DEF HostKeys
<1>3. kbdBusy' \in Reports \cup {Idle} /\ kbdLate' \in BOOLEAN
  BY <1>1 DEF HostInv
<1>4. ASSUME dirty' = TRUE \/ UNCHANGED <<mods, slots, dirty>>
      PROVE  ~kbdLate' => (~dirty' => HostKeys' = Keyboard')
  BY <1>1, <1>2, <1>4 DEF HostInv, Keyboard
<1>5. ASSUME UNCHANGED <<mouseBusy, mouseLate, buttons>>
      PROVE  /\ mouseBusy' \in MouseReports \cup {Idle} /\ mouseLate' \in BOOLEAN
             /\ ~mouseLate' => HostButtons' = buttons'
  BY <1>1, <1>5 DEF HostInv, HostButtons
<1>6. ASSUME dirty' = TRUE \/ UNCHANGED <<mods, slots, dirty>>,
             UNCHANGED <<mouseBusy, mouseLate, buttons>>
      PROVE  HostInv'
  BY <1>1, <1>3, <1>4, <1>5, <1>6, HostParts
<1>7. CASE \E c \in Codes, v \in 0 .. 2 : ReadKey(c, v)
  <2>1. PICK c \in Codes, v \in 0 .. 2 : ReadKey(c, v)
    BY <1>7
  <2>2. CASE UNCHANGED <<kbdVars, dirty, mouseVars, mouseOut, lost, history>>
    BY <1>6, <2>2
  <2>3. CASE \E down \in BOOLEAN :
               ModifierEvent(c, down) \/ UsageEvent(c, down) \/ ButtonEvent(c, down)
    <3>1. PICK down \in BOOLEAN :
             ModifierEvent(c, down) \/ UsageEvent(c, down) \/ ButtonEvent(c, down)
      BY <2>3
    <3>2. CASE ModifierEvent(c, down)
      BY <1>6, <3>2 DEF ModifierEvent
    <3>3. CASE UsageEvent(c, down)
      BY <1>6, <3>3 DEF UsageEvent
    <3>4. CASE ButtonEvent(c, down)
      BY <3>4, HostButtonsRead
    <3> QED
      BY <3>1, <3>2, <3>3, <3>4
  <2> QED
    BY <2>1, <2>2, <2>3, KeySteps
<1>8. CASE \E n \in Deltas : ReadRel(n)
  BY <1>6, <1>8 DEF ReadRel
<1>9. CASE ReadSyn
  <2>1. UNCHANGED <<mods, slots, dirty, buttons>>
    BY <1>9 DEF ReadSyn
  <2>2. CASE pending = 0
    BY <1>6, <1>9, <2>1, <2>2 DEF ReadSyn
  <2>3. CASE pending # 0
    <3>1. PICK b \in SUBSET Buttons : b = buttons
      BY DEF KeysInv
    <3>2. Flush(b)
      BY <1>9, <2>3, <3>1 DEF ReadSyn
    <3>3. /\ mouseBusy' \in MouseReports \cup {Idle} /\ mouseLate' \in BOOLEAN
          /\ ~mouseLate' => HostButtons' = b
      BY <1>1, <3>2, Flushed
    <3> QED
      BY <1>1, <1>3, <1>4, <2>1, <3>1, <3>3, HostParts
  <2> QED
    BY <2>2, <2>3
<1> QED
  BY <1>7, <1>8, <1>9, ReadSteps

LEMMA HostStep ==
  ASSUME LoopInv, BufferInv, KeysInv, HostInv, pending \in Nat, KeysInv', [Next]_vars
  PROVE  HostInv'
<1>1. CASE UNCHANGED <<pc, dirty, mods, slots, buttons, host, kbdBusy, kbdLate,
                       mouseBusy, mouseLate>>
  <2>1. HostKeys' = HostKeys /\ HostButtons' = HostButtons /\ Keyboard' = Keyboard
    BY <1>1 DEF HostKeys, HostButtons, Keyboard
  <2> QED
    BY <1>1, <2>1, HostParts DEF HostInv
<1>2. ASSUME NEW s \in Switches, NEW v \in 0 .. 2, KeyEvent(s, v)
      PROVE  HostInv'
  BY <1>1, <1>2 DEF KeyEvent
<1>3. ASSUME NEW d \in Devices, NEW n \in Deltas, Move(d, n)
      PROVE  HostInv'
  BY <1>1, <1>3 DEF Move
<1>4. ASSUME NEW d \in Devices, Unplug(d) \/ Plug(d)
      PROVE  HostInv'
  BY <1>1, <1>4 DEF Unplug, Plug
<1>5. ASSUME NEW d \in Devices, StartDrain(d)
      PROVE  HostInv'
  <2>1. ~dirty /\ ~dirty'
    BY <1>5 DEF StartDrain, LoopInv
  <2>2. UNCHANGED <<pc, mods, slots, buttons, host, kbdBusy, kbdLate, mouseBusy, mouseLate>>
    BY <1>5 DEF StartDrain
  <2>3. HostKeys' = HostKeys /\ HostButtons' = HostButtons /\ Keyboard' = Keyboard
    BY <2>2 DEF HostKeys, HostButtons, Keyboard
  <2> QED
    BY <2>1, <2>2, <2>3, HostParts DEF HostInv
<1>6. CASE Start \/ Shutdown
  <2>1. /\ WriteKbd(NoKeys) /\ WriteMouse([buttons |-> {}, motion |-> 0])
        /\ UNCHANGED <<mods, slots, buttons, host>>
    BY <1>6 DEF Start, Shutdown
  <2>2. /\ kbdBusy' \in Reports \cup {Idle} /\ kbdLate' \in BOOLEAN
        /\ ~kbdLate' => HostKeys' = NoKeys
    BY <2>1, Baseline, KbdWritten
  <2>3. /\ mouseBusy' \in MouseReports \cup {Idle} /\ mouseLate' \in BOOLEAN
        /\ ~mouseLate' => HostButtons' = {}
    <3>1. {} \in SUBSET Buttons /\ 0 \in Nat
      OBVIOUS
    <3> QED
      BY <2>1, <3>1, MouseWritten
  <2>4. pc' = "run" => Keyboard' = NoKeys /\ buttons' = {}
    BY <1>6, <2>1 DEF Start, Shutdown, LoopInv, Keyboard
  <2> QED
    BY <2>1, <2>2, <2>3, <2>4, HostParts
<1>7. CASE ReadEvent
  BY <1>7, HostRead
<1>8. CASE EndDrain
  <2>1. /\ pc = "run" /\ dirty' = FALSE
        /\ UNCHANGED <<pc, mods, slots, buttons, host, mouseBusy, mouseLate>>
    BY <1>8 DEF EndDrain, LoopInv
  <2>2. HostButtons' = HostButtons /\ Keyboard' = Keyboard
    BY <2>1 DEF HostButtons, Keyboard
  <2>3. /\ kbdBusy' \in Reports \cup {Idle} /\ kbdLate' \in BOOLEAN
        /\ ~kbdLate' => HostKeys' = Keyboard
    <3>1. CASE dirty
      <4>1. PICK r \in Reports : r = Keyboard
        BY KeyboardIsReport
      <4>2. WriteKbd(r)
        BY <1>8, <3>1, <4>1 DEF EndDrain, WriteKbd
      <4> QED
        BY <2>1, <4>1, <4>2, KbdWritten
    <3>2. CASE ~dirty
      <4>1. UNCHANGED <<kbdBusy, kbdLate>>
        BY <1>8, <3>2 DEF EndDrain
      <4>2. HostKeys' = HostKeys
        BY <2>1, <4>1 DEF HostKeys
      <4> QED
        BY <2>1, <3>2, <4>1, <4>2 DEF HostInv
    <3> QED
      BY <3>1, <3>2
  <2> QED
    BY <2>1, <2>2, <2>3, HostParts DEF HostInv
<1>9. CASE PollKbd
  <2>1. /\ kbdBusy # Idle /\ host' = [host EXCEPT !.kbd = kbdBusy] /\ kbdBusy' = Idle
        /\ UNCHANGED <<pc, dirty, mods, slots, buttons, kbdLate, mouseBusy, mouseLate>>
    BY <1>9 DEF PollKbd
  <2>2. /\ host' \in [kbd : Reports, buttons : SUBSET Buttons, motion : Nat]
        /\ host'.kbd = kbdBusy /\ host'.buttons = host.buttons
    BY <2>1 DEF HostInv
  <2>3. HostKeys' = HostKeys /\ HostButtons' = HostButtons /\ Keyboard' = Keyboard
    BY <2>1, <2>2 DEF HostKeys, HostButtons, Keyboard
  <2>4. Reports' = Reports /\ MouseReports' = MouseReports /\ NoKeys' = NoKeys
    BY DEF Reports, MouseReports, NoKeys, Slots
  <2> QED
    BY <2>1, <2>2, <2>3, <2>4 DEF HostInv
<1>10. CASE PollMouse
  <2>1. /\ mouseBusy # Idle /\ mouseBusy' = Idle
        /\ host' = [host EXCEPT !.buttons = mouseBusy.buttons,
                                !.motion = host.motion + mouseBusy.motion]
        /\ UNCHANGED <<pc, dirty, mods, slots, buttons, kbdLate, kbdBusy, mouseLate>>
    BY <1>10 DEF PollMouse
  <2>2. mouseBusy.buttons \in SUBSET Buttons /\ mouseBusy.motion \in Nat
    BY <2>1 DEF HostInv, MouseReports
  <2>3. /\ host' \in [kbd : Reports, buttons : SUBSET Buttons, motion : Nat]
        /\ host'.kbd = host.kbd /\ host'.buttons = mouseBusy.buttons
    <3>1. PICK b \in SUBSET Buttons, n \in Nat :
            b = mouseBusy.buttons /\ n = mouseBusy.motion
      BY <2>2
    <3>2. host \in [kbd : Reports, buttons : SUBSET Buttons, motion : Nat]
      BY DEF HostInv
    <3>3. host' = [host EXCEPT !.buttons = b, !.motion = host.motion + n]
      BY <2>1, <3>1
    <3>4. host.motion + n \in Nat
      BY <3>1, <3>2
    <3>5. host'.kbd = host.kbd /\ host'.buttons = b
      BY <3>2, <3>3
    <3>6. host' \in [kbd : Reports, buttons : SUBSET Buttons, motion : Nat]
      BY <3>1, <3>2, <3>3, <3>4
    <3> QED
      BY <3>1, <3>5, <3>6
  <2>4. HostKeys' = HostKeys /\ HostButtons' = HostButtons /\ Keyboard' = Keyboard
    BY <2>1, <2>3 DEF HostKeys, HostButtons, Keyboard
  <2>5. Reports' = Reports /\ MouseReports' = MouseReports /\ NoKeys' = NoKeys
    BY DEF Reports, MouseReports, NoKeys, Slots
  <2> QED
    BY <2>1, <2>3, <2>4, <2>5 DEF HostInv
<1>11. CASE Disconnect
  <2>1. /\ kbdBusy' = Idle /\ mouseBusy' = Idle /\ kbdLate' = TRUE /\ mouseLate' = TRUE
        /\ host' = [host EXCEPT !.kbd = NoKeys, !.buttons = {}]
    BY <1>11 DEF Disconnect
  <2>2. host' \in [kbd : Reports, buttons : SUBSET Buttons, motion : Nat]
    BY <2>1, Baseline DEF HostInv
  <2>3. Reports' = Reports
    BY DEF Reports, Slots
  <2> QED
    BY <2>1, <2>2, <2>3 DEF HostInv
<1> QED
  BY Steps, <1>1, <1>2, <1>3, <1>4, <1>5, <1>6, <1>7, <1>8, <1>9, <1>10, <1>11
  DEF vars, Clock, Configure
-----------------------------------------------------------------------------
(* Motion. *)

\* The motion a report on its way carries.
OnTheWay == IF mouseBusy = Idle THEN 0 ELSE mouseBusy.motion

LEMMA MotionTypes ==
  ASSUME BufferInv, HostInv, MotionInv
  PROVE  /\ pending \in Nat /\ lost \in Nat /\ moved \in Nat /\ moved <= MaxMotion
         /\ MaxMotion \in Nat
         /\ host.motion \in Nat /\ OnTheWay \in Nat /\ UnreadOf(queue) \in Nat
         /\ moved = host.motion + lost + pending + UnreadOf(queue) + OnTheWay
<1>1. pending \in Nat /\ lost \in Nat /\ moved \in Nat /\ moved <= MaxMotion /\ MaxMotion \in Nat
  BY BoundsAssumption DEF MotionInv
<1>2. host.motion \in Nat /\ OnTheWay \in Nat
  BY DEF HostInv, OnTheWay, MouseReports
<1>3. UnreadOf(queue) \in Nat
  <2>1. queue \in [Devices -> Seq(Events)]
    BY DEF BufferInv
  <2>2. CASE Devices # {}
    <3>1. PICK d \in Devices : TRUE
      BY <2>2
    <3> QED
      BY <2>1, <3>1, UnreadChange
  <2>3. CASE Devices = {}
    <3>1. Total([d \in Devices |-> Motion(queue[d])], {}) = 0
      BY TotalRec, FS_EmptySet
    <3> QED
      BY <2>3, <3>1 DEF UnreadOf
  <2> QED
    BY <2>2, <2>3
<1>4. moved = host.motion + lost + pending + UnreadOf(queue) + OnTheWay
  BY UnreadIs DEF MotionInv, MotionAccounted, OnTheWay
<1> QED
  BY <1>1, <1>2, <1>3, <1>4

LEMMA MotionParts ==
  ASSUME pending' \in Nat, lost' \in Nat, moved' \in 0 .. MaxMotion,
         moved' = host'.motion + lost' + pending' + UnreadOf(queue') + OnTheWay'
  PROVE  MotionInv'
BY UnreadIs DEF MotionInv, MotionAccounted, OnTheWay

\* A report is written or not; what it does not carry is lost.
LEMMA FlushMotion ==
  ASSUME pending \in Nat, lost \in Nat, OnTheWay \in Nat,
         NEW b \in SUBSET Buttons, Flush(b)
  PROVE  /\ pending' = 0 /\ lost' \in Nat /\ OnTheWay' \in Nat
         /\ lost' + OnTheWay' = lost + pending + OnTheWay
<1>1. PICK n \in Nat : n = Min({pending, Clamp})
  BY Carried
<1>2. n <= pending
  BY <1>1, Carried
<1> DEFINE r == [buttons |-> b, motion |-> n]
<1>3. /\ pending' = 0
      /\ lost' = lost + pending - (IF configured /\ mouseBusy = Idle THEN n ELSE 0)
      /\ IF configured /\ mouseBusy = Idle THEN mouseBusy' = r
         ELSE mouseBusy' = mouseBusy
  BY <1>1 DEF Flush, WriteMouse
<1>4. CASE configured /\ mouseBusy = Idle
  <2>1. OnTheWay = 0
    BY <1>4 DEF OnTheWay
  <2>2. OnTheWay' = IF r = Idle THEN 0 ELSE n
    BY <1>3, <1>4 DEF OnTheWay
  <2>3. r # Idle
    BY Baseline DEF MouseReports
  <2> QED
    BY <1>2, <1>3, <1>4, <2>1, <2>2, <2>3
<1>5. CASE ~(configured /\ mouseBusy = Idle)
  <2>1. OnTheWay' = OnTheWay
    BY <1>3, <1>5 DEF OnTheWay
  <2> QED
    BY <1>3, <1>5, <2>1
<1> QED
  BY <1>4, <1>5

\* The arithmetic of a buffer that gives one event, and of one that takes a
\* frame and may be emptied for it.
LEMMA Given ==
  \A u, v, m, t, a \in Nat : v + m = u + t /\ m = a + t => v + a = u
OBVIOUS

LEMMA Dropped ==
  ASSUME NEW mv \in Nat, NEW h \in Nat, NEW l \in Nat, NEW p \in Nat, NEW u \in Nat,
         NEW w \in Nat, NEW v \in Nat, NEW m \in Nat, NEW t \in Nat, NEW n \in Nat,
         mv = h + l + p + u + w, v + m = u + t, t <= m + n
  PROVE  /\ l + n + m - t \in Nat
         /\ mv + n = h + (l + n + m - t) + p + v + w
OBVIOUS

LEMMA ReadMotion ==
  ASSUME LoopInv, BufferInv, KeysInv, KeysInv', HostInv, MotionInv, ReadEvent
  PROVE  MotionInv'
<1> DEFINE d == draining  q == queue[d]  e == Head(q)
<1>1. /\ d \in Devices /\ q \in Seq(Events) /\ q # <<>>
      /\ queue' = [queue EXCEPT ![d] = Tail(q)]
      /\ UNCHANGED <<moved, host>> /\ moved \in 0 .. MaxMotion
  BY ReadSteps, ReadLeaves DEF MotionInv
<1>2. /\ e \in Events /\ Tail(q) \in Seq(Events)
      /\ Motion(q) = Amount(e) + Motion(Tail(q))
  BY <1>1, MotionTail
<1>3. UnreadOf(queue') \in Nat /\ UnreadOf(queue') + Amount(e) = UnreadOf(queue)
  <2>1. queue \in [Devices -> Seq(Events)]
    BY DEF BufferInv
  <2>2. /\ UnreadOf(queue) \in Nat /\ UnreadOf([queue EXCEPT ![d] = Tail(q)]) \in Nat
        /\ Motion(queue[d]) \in Nat /\ Motion(Tail(q)) \in Nat
        /\ UnreadOf([queue EXCEPT ![d] = Tail(q)]) + Motion(queue[d])
             = UnreadOf(queue) + Motion(Tail(q))
    BY <1>1, <1>2, <2>1, UnreadChange
  <2>3. Amount(e) \in Nat
    BY <1>2, EventAmount
  <2>4. UnreadOf(queue') \in Nat /\ UnreadOf(queue') + Motion(q) = UnreadOf(queue) + Motion(Tail(q))
    BY <1>1, <2>2
  <2>5. Motion(q) \in Nat /\ Motion(Tail(q)) \in Nat /\ UnreadOf(queue) \in Nat
    BY <2>2
  <2> HIDE DEF e, q, d
  <2> QED
    BY <1>2, <2>3, <2>4, <2>5, Given
<1>4. /\ pending \in Nat /\ lost \in Nat /\ OnTheWay \in Nat /\ host.motion \in Nat
      /\ moved = host.motion + lost + pending + UnreadOf(queue) + OnTheWay
      /\ UnreadOf(queue) \in Nat /\ moved \in Nat
  BY MotionTypes
<1> HIDE DEF d, q, e
<1>5. ASSUME Amount(e) = 0, UNCHANGED <<pending, lost, mouseBusy>>
      PROVE  MotionInv'
  <2>1. OnTheWay' = OnTheWay
    BY <1>5 DEF OnTheWay
  <2> QED
    BY <1>1, <1>3, <1>4, <1>5, <2>1, MotionParts
<1>6. ASSUME Amount(e) = 0, NEW b \in SUBSET Buttons, Flush(b)
      PROVE  MotionInv'
  <2>1. /\ pending' = 0 /\ lost' \in Nat /\ OnTheWay' \in Nat
        /\ lost' + OnTheWay' = lost + pending + OnTheWay
    BY <1>4, <1>6, FlushMotion
  <2>2. moved' = host'.motion + lost' + pending' + UnreadOf(queue') + OnTheWay'
    <3>1. UnreadOf(queue') = UnreadOf(queue)
      BY <1>3, <1>4, <1>6
    <3>2. PICK u \in Nat, h \in Nat : u = UnreadOf(queue) /\ h = host.motion
      BY <1>4
    <3>3. moved = h + lost' + 0 + u + OnTheWay'
      <4>1. PICK l \in Nat, p \in Nat, w \in Nat, k \in Nat, x \in Nat :
              /\ l = lost /\ p = pending /\ w = OnTheWay
              /\ k = lost' /\ x = OnTheWay'
        BY <1>4, <2>1
      <4>2. moved = h + l + p + u + w /\ k + x = l + p + w
        BY <1>4, <2>1, <3>2, <4>1
      <4>3. h + l + p + u + w = h + k + 0 + u + x
        BY <4>2
      <4> QED
        BY <4>1, <4>2, <4>3
    <3> QED
      BY <1>1, <2>1, <3>1, <3>2, <3>3
  <2> QED
    BY <1>1, <2>1, <2>2, MotionParts
<1>7. CASE e.type = "key" /\ \E c \in Codes, v \in 0 .. 2 : ReadKey(c, v)
  <2>1. Amount(e) = 0
    BY <1>7 DEF Amount
  <2>2. PICK c \in Codes, v \in 0 .. 2 : ReadKey(c, v)
    BY <1>7
  <2>3. CASE UNCHANGED <<kbdVars, dirty, mouseVars, mouseOut, lost, history>>
    BY <1>5, <2>1, <2>3
  <2>4. CASE \E down \in BOOLEAN :
               ModifierEvent(c, down) \/ UsageEvent(c, down) \/ ButtonEvent(c, down)
    <3>1. PICK down \in BOOLEAN :
             ModifierEvent(c, down) \/ UsageEvent(c, down) \/ ButtonEvent(c, down)
      BY <2>4
    <3>2. CASE ModifierEvent(c, down)
      BY <1>5, <2>1, <3>2 DEF ModifierEvent
    <3>3. CASE UsageEvent(c, down)
      BY <1>5, <2>1, <3>3 DEF UsageEvent
    <3>4. CASE ButtonEvent(c, down)
      <4>1. PICK b \in SUBSET Buttons : b = buttons'
        BY DEF KeysInv
      <4>2. Flush(b)
        BY <3>4, <4>1 DEF ButtonEvent, Flush, WriteMouse
      <4> QED
        BY <1>6, <2>1, <4>2
    <3> QED
      BY <3>1, <3>2, <3>3, <3>4
  <2> QED
    BY <2>2, <2>3, <2>4, KeySteps
<1>8. CASE \E n \in Deltas : ReadRel(n) /\ e = Rel(n)
  <2>1. PICK n \in Deltas : ReadRel(n) /\ e = Rel(n)
    BY <1>8
  <2>2. n \in Nat /\ Amount(e) = n
    BY <2>1, BoundsAssumption, NoAmount
  <2>3. pending' = pending + n /\ UNCHANGED <<lost, mouseBusy>>
    BY <2>1 DEF ReadRel
  <2>4. OnTheWay' = OnTheWay
    BY <2>3 DEF OnTheWay
  <2>5. moved' = host'.motion + lost' + pending' + UnreadOf(queue') + OnTheWay'
    <3>1. PICK u \in Nat, v \in Nat, p \in Nat, r \in Nat :
            /\ u = UnreadOf(queue) /\ v = UnreadOf(queue') /\ p = pending
            /\ r = host.motion + lost
      BY <1>3, <1>4
    <3>2. moved = r + p + u + OnTheWay /\ v + n = u
      BY <1>3, <1>4, <2>2, <3>1
    <3>3. moved = r + (p + n) + v + OnTheWay
      BY <1>4, <2>2, <3>2
    <3> QED
      BY <1>1, <2>3, <2>4, <3>1, <3>3
  <2> QED
    BY <1>1, <1>4, <2>2, <2>3, <2>5, MotionParts
<1>9. CASE ReadSyn /\ e = Syn
  <2>1. Amount(e) = 0
    BY <1>9, NoAmount
  <2>2. CASE pending = 0
    BY <1>5, <1>9, <2>1, <2>2 DEF ReadSyn
  <2>3. CASE pending # 0
    <3>1. PICK b \in SUBSET Buttons : b = buttons
      BY DEF KeysInv
    <3>2. Flush(b)
      BY <1>9, <2>3, <3>1 DEF ReadSyn
    <3> QED
      BY <1>6, <2>1, <3>2
  <2> QED
    BY <2>2, <2>3
<1> QED
  BY <1>7, <1>8, <1>9, ReadSteps DEF d, q, e

LEMMA MotionStep ==
  ASSUME LoopInv, BufferInv, KeysInv, KeysInv', HostInv, MotionInv, [Next]_vars
  PROVE  MotionInv'
<1>1. /\ pending \in Nat /\ lost \in Nat /\ moved \in Nat /\ moved <= MaxMotion
      /\ MaxMotion \in Nat /\ moved \in 0 .. MaxMotion
      /\ host.motion \in Nat /\ OnTheWay \in Nat /\ UnreadOf(queue) \in Nat
      /\ moved = host.motion + lost + pending + UnreadOf(queue) + OnTheWay
  BY MotionTypes DEF MotionInv
<1>2. ASSUME UNCHANGED <<queue, pending, lost, moved>>,
             host'.motion = host.motion, OnTheWay' = OnTheWay
      PROVE  MotionInv'
  BY <1>1, <1>2, MotionParts
<1>3. CASE UNCHANGED <<queue, pending, lost, moved, host, mouseBusy>>
  BY <1>2, <1>3 DEF OnTheWay
<1>4. ASSUME NEW d \in Devices, NEW q \in Seq(Events), queue' = [queue EXCEPT ![d] = q]
      PROVE  /\ Motion(queue[d]) \in Nat /\ Motion(q) \in Nat /\ UnreadOf(queue') \in Nat
             /\ UnreadOf(queue') + Motion(queue[d]) = UnreadOf(queue) + Motion(q)
  <2>1. queue \in [Devices -> Seq(Events)]
    BY DEF BufferInv
  <2> QED
    BY <1>4, <2>1, UnreadChange
<1>5. ASSUME NEW s \in Switches, NEW v \in 0 .. 2, KeyEvent(s, v)
      PROVE  MotionInv'
  <2> DEFINE d == s[1]  q == PushFrame(d, Key(s[2], v))
  <2>1. d \in Devices /\ Key(s[2], v) \in Events
    BY SwitchesAssumption DEF Events, Key
  <2>2. /\ q \in Seq(Events) /\ Motion(q) \in Nat /\ Motion(queue[d]) \in Nat
        /\ Motion(q) <= Motion(queue[d]) + Amount(Key(s[2], v))
    BY <2>1, FramePushed
  <2>3. /\ queue' = [queue EXCEPT ![d] = q]
        /\ lost' = lost + Motion(queue[d]) - Motion(q)
        /\ UNCHANGED <<pending, moved, host, mouseBusy>>
    BY <1>5 DEF KeyEvent
  <2> HIDE DEF d, q
  <2>4. /\ UnreadOf(queue') \in Nat
        /\ UnreadOf(queue') + Motion(queue[d]) = UnreadOf(queue) + Motion(q)
    BY <1>4, <2>1, <2>2, <2>3
  <2>5. OnTheWay' = OnTheWay
    BY <2>3 DEF OnTheWay
  <2>6. Motion(q) <= Motion(queue[d])
    BY <2>2, NoAmount
  <2>7. PICK l \in Nat, p \in Nat, x \in Nat, y \in Nat, u \in Nat :
          l = lost /\ p = pending /\ x = Motion(queue[d]) /\ y = Motion(q) /\ u = UnreadOf(queue')
    BY <1>1, <2>2, <2>4
  <2>8. /\ l + 0 + x - y \in Nat
        /\ moved + 0 = host.motion + (l + 0 + x - y) + p + u + OnTheWay
    <3>1. moved = host.motion + l + p + UnreadOf(queue) + OnTheWay
      BY <1>1, <2>7
    <3>2. u + x = UnreadOf(queue) + y /\ y <= x + 0
      BY <2>4, <2>6, <2>7
    <3> QED
      BY <1>1, <3>1, <3>2, Dropped
  <2>9. lost' = l + 0 + x - y /\ moved' = moved + 0 /\ host' = host /\ pending' = p
    BY <1>1, <2>3, <2>7
  <2> QED
    BY <1>1, <2>3, <2>5, <2>7, <2>8, <2>9, MotionParts
<1>6. ASSUME NEW d \in Devices, NEW n \in Deltas, Move(d, n)
      PROVE  MotionInv'
  <2> DEFINE q == PushFrame(d, Rel(n))
  <2>1. n \in Nat /\ Rel(n) \in Events /\ Amount(Rel(n)) = n
    BY BoundsAssumption, NoAmount DEF Events, Rel
  <2>2. /\ q \in Seq(Events) /\ Motion(q) \in Nat /\ Motion(queue[d]) \in Nat
        /\ Motion(q) <= Motion(queue[d]) + Amount(Rel(n))
    BY <2>1, FramePushed
  <2>3. /\ queue' = [queue EXCEPT ![d] = q]
        /\ lost' = lost + n + Motion(queue[d]) - Motion(q)
        /\ moved' = moved + n /\ moved + n <= MaxMotion
        /\ UNCHANGED <<pending, host, mouseBusy>>
    BY <1>6 DEF Move
  <2> HIDE DEF q
  <2>4. /\ UnreadOf(queue') \in Nat
        /\ UnreadOf(queue') + Motion(queue[d]) = UnreadOf(queue) + Motion(q)
    BY <1>4, <2>2, <2>3
  <2>5. OnTheWay' = OnTheWay
    BY <2>3 DEF OnTheWay
  <2>6. PICK l \in Nat, p \in Nat, x \in Nat, y \in Nat, v \in Nat :
          l = lost /\ p = pending /\ x = Motion(queue[d]) /\ y = Motion(q) /\ v = UnreadOf(queue')
    BY <1>1, <2>2, <2>4
  <2>7. /\ l + n + x - y \in Nat
        /\ moved + n = host.motion + (l + n + x - y) + p + v + OnTheWay
    <3>1. moved = host.motion + l + p + UnreadOf(queue) + OnTheWay
      BY <1>1, <2>6
    <3>2. v + x = UnreadOf(queue) + y /\ y <= x + n
      BY <2>1, <2>2, <2>4, <2>6
    <3>3. PICK mv \in Nat, h \in Nat, u \in Nat, w \in Nat :
            mv = moved /\ h = host.motion /\ u = UnreadOf(queue) /\ w = OnTheWay
      BY <1>1
    <3>4. mv = h + l + p + u + w /\ v + x = u + y
      BY <3>1, <3>2, <3>3
    <3>5. l + n + x - y \in Nat /\ mv + n = h + (l + n + x - y) + p + v + w
      BY <2>1, <3>2, <3>4
    <3> QED
      BY <3>3, <3>5
  <2>8. lost' = l + n + x - y /\ moved' = moved + n /\ moved' \in 0 .. MaxMotion
    BY <1>1, <2>1, <2>3, <2>6
  <2> QED
    BY <1>1, <2>3, <2>5, <2>6, <2>7, <2>8, MotionParts
<1>7. ASSUME NEW d \in Devices, Unplug(d)
      PROVE  MotionInv'
  <2> DEFINE q == <<>>
  <2>1. q \in Seq(Events) /\ Motion(q) = 0
    BY MotionEmpty
  <2>2. /\ queue' = [queue EXCEPT ![d] = q] /\ lost' = lost + Motion(queue[d])
        /\ UNCHANGED <<pending, moved, host, mouseBusy>>
    BY <1>7 DEF Unplug
  <2> HIDE DEF q
  <2>3. /\ Motion(queue[d]) \in Nat /\ UnreadOf(queue') \in Nat
        /\ UnreadOf(queue') + Motion(queue[d]) = UnreadOf(queue) + Motion(q)
    BY <1>4, <2>1, <2>2
  <2>4. OnTheWay' = OnTheWay
    BY <2>2 DEF OnTheWay
  <2>5. moved' = host'.motion + lost' + pending' + UnreadOf(queue') + OnTheWay'
    BY <1>1, <2>1, <2>2, <2>3, <2>4
  <2> QED
    BY <1>1, <2>2, <2>3, <2>5, MotionParts
<1>8. ASSUME NEW d \in Devices, Plug(d) \/ StartDrain(d)
      PROVE  MotionInv'
  BY <1>3, <1>8 DEF Plug, StartDrain
<1>9. CASE Start \/ Shutdown
  <2>1. /\ WriteMouse([buttons |-> {}, motion |-> 0])
        /\ UNCHANGED <<queue, pending, lost, moved, host>>
    BY <1>9 DEF Start, Shutdown
  <2>2. OnTheWay' = OnTheWay
    <3>1. CASE configured /\ mouseBusy = Idle
      BY <2>1, <3>1 DEF WriteMouse, OnTheWay
    <3>2. CASE ~(configured /\ mouseBusy = Idle)
      BY <2>1, <3>2 DEF WriteMouse, OnTheWay
    <3> QED
      BY <3>1, <3>2
  <2> QED
    BY <1>2, <2>1, <2>2
<1>10. CASE ReadEvent
  BY <1>10, ReadMotion
<1>11. CASE EndDrain \/ Clock \/ PollKbd \/ Configure
  <2>1. UNCHANGED <<queue, pending, lost, moved, mouseBusy>> /\ host'.motion = host.motion
    BY <1>11 DEF EndDrain, Clock, PollKbd, Configure, HostInv
  <2>2. OnTheWay' = OnTheWay
    BY <2>1 DEF OnTheWay
  <2> QED
    BY <1>2, <2>1, <2>2
<1>12. CASE PollMouse
  <2>1. /\ mouseBusy # Idle /\ mouseBusy' = Idle
        /\ UNCHANGED <<queue, pending, lost, moved>>
        /\ host'.motion = host.motion + mouseBusy.motion
    BY <1>12 DEF PollMouse, HostInv
  <2>2. OnTheWay = mouseBusy.motion /\ OnTheWay' = 0
    BY <2>1 DEF OnTheWay
  <2>3. moved' = host'.motion + lost' + pending' + UnreadOf(queue') + OnTheWay'
    BY <1>1, <2>1, <2>2
  <2> QED
    BY <1>1, <2>1, <2>3, MotionParts
<1>13. CASE Disconnect
  <2>1. /\ mouseBusy' = Idle /\ UNCHANGED <<queue, pending, moved>>
        /\ host'.motion = host.motion /\ lost' = lost + OnTheWay
    BY <1>13 DEF Disconnect, HostInv, OnTheWay
  <2>2. OnTheWay' = 0
    BY <2>1 DEF OnTheWay
  <2>3. moved' = host'.motion + lost' + pending' + UnreadOf(queue') + OnTheWay'
    BY <1>1, <2>1, <2>2
  <2> QED
    BY <1>1, <2>1, <2>3, MotionParts
<1> QED
  BY Steps, <1>3, <1>5, <1>6, <1>7, <1>8, <1>9, <1>10, <1>11, <1>12, <1>13 DEF vars
-----------------------------------------------------------------------------
(* The chord. *)
LEMMA ChordRead ==
  ASSUME HotkeyTypeOK(Chord), NEW c, NEW v, ReadKey(c, v)
  PROVE  HotkeyTypeOK(Chord)'
<1>1. PICK down \in BOOLEAN : down <=> v # 0
  OBVIOUS
<1>2. IF Positions(Chord, c) = {} THEN UNCHANGED hotkeyVars
      ELSE LET i == Min(Positions(Chord, c)) IN
        /\ chordDown' = IF down THEN chordDown \cup {i} ELSE chordDown \ {i}
        /\ allSince' = IF chordDown' # DOMAIN Chord THEN "never"
                       ELSE IF allSince = "never" THEN "recent" ELSE allSince
        /\ fired' = (fired /\ chordDown' = DOMAIN Chord)
  BY <1>1 DEF ReadKey, HotkeyUpdate
<1>3. CASE Positions(Chord, c) = {}
  BY <1>2, <1>3 DEF hotkeyVars, HotkeyTypeOK
<1>4. CASE Positions(Chord, c) # {}
  <2> DEFINE m == Min(Positions(Chord, c))
  <2>1. m \in DOMAIN Chord
    <3>1. Positions(Chord, c) \in SUBSET Nat /\ Positions(Chord, c) \subseteq DOMAIN Chord
      BY ChordAssumption DEF Positions
    <3> QED
      BY <1>4, <3>1, MinExists
  <2>2. /\ chordDown' = IF down THEN chordDown \cup {m} ELSE chordDown \ {m}
        /\ allSince' = IF chordDown' # DOMAIN Chord THEN "never"
                       ELSE IF allSince = "never" THEN "recent" ELSE allSince
        /\ fired' = (fired /\ chordDown' = DOMAIN Chord)
    BY <1>2, <1>4
  <2> HIDE DEF m
  <2>3. chordDown' \subseteq DOMAIN Chord
    BY <2>1, <2>2 DEF HotkeyTypeOK
  <2>4. /\ allSince' \in {"never", "recent", "long ago"}
        /\ allSince' # "never" => chordDown' = DOMAIN Chord
    BY <2>2 DEF HotkeyTypeOK
  <2>5. fired' \in BOOLEAN /\ (fired' => allSince' = "long ago")
    BY <2>2 DEF HotkeyTypeOK
  <2> QED
    BY <2>3, <2>4, <2>5 DEF HotkeyTypeOK
<1> QED
  BY <1>3, <1>4

LEMMA ChordStep ==
  ASSUME LoopInv, BufferInv, HotkeyTypeOK(Chord), [Next]_vars
  PROVE  HotkeyTypeOK(Chord)'
<1>1. CASE UNCHANGED hotkeyVars
  BY <1>1 DEF hotkeyVars, HotkeyTypeOK
<1>2. CASE ReadEvent
  BY <1>1, <1>2, ReadSteps, ChordRead DEF ReadRel, ReadSyn
<1>3. CASE EndDrain
  <2>1. /\ UNCHANGED <<chordDown, allSince>>
        /\ fired' = (fired \/ (~fired /\ allSince = "long ago"))
    BY <1>3 DEF EndDrain, HotkeyPoll, ShouldFire
  <2>2. fired' \in BOOLEAN /\ (fired' => allSince' = "long ago")
    BY <2>1 DEF HotkeyTypeOK
  <2> QED
    BY <2>1, <2>2 DEF HotkeyTypeOK
<1>4. CASE Clock
  BY <1>4 DEF Clock, SecondPasses, HotkeyTypeOK
<1>5. ASSUME NEW s \in Switches, NEW v \in 0 .. 2, KeyEvent(s, v)
      PROVE  HotkeyTypeOK(Chord)'
  BY <1>1, <1>5 DEF KeyEvent
<1>6. ASSUME NEW d \in Devices, NEW n \in Deltas, Move(d, n)
      PROVE  HotkeyTypeOK(Chord)'
  BY <1>1, <1>6 DEF Move
<1>7. ASSUME NEW d \in Devices, Unplug(d) \/ Plug(d) \/ StartDrain(d)
      PROVE  HotkeyTypeOK(Chord)'
  BY <1>1, <1>7 DEF Unplug, Plug, StartDrain
<1> QED
  BY Steps, <1>1, <1>2, <1>3, <1>4, <1>5, <1>6, <1>7
  DEF vars, Start, Shutdown, PollKbd, PollMouse, Configure, Disconnect
-----------------------------------------------------------------------------
LEMMA InitIInv == Init => IInv
<1> SUFFICES ASSUME Init PROVE IInv
  OBVIOUS
<1>1. LoopInv
  BY SwitchesAssumption DEF Init, LoopInv, Keyboard, NoKeys
<1>2. BufferInv
  <2>1. <<>> \in Seq(Events) /\ Len(<<>>) = 0
    OBVIOUS
  <2>2. \A d \in Devices : queue[d] = <<>> /\ 0 <= MaxQueue[d]
    BY BoundsAssumption DEF Init
  <2> QED
    BY <2>1, <2>2 DEF Init, BufferInv
<1>3. KeysInv
  <2>1. /\ mods = {} /\ buttons = {} /\ readDown = {} /\ rolled = {}
        /\ slots = [i \in Slots |-> Empty]
    BY DEF Init, NoKeys
  <2>2. \A i \in Slots : slots[i] = Empty
    BY <2>1
  <2>3. Slots \ Free = {}
    BY <2>2 DEF Free
  <2>4. DownFollowsEvents
    BY <2>1, <2>3 DEF DownFollowsEvents
  <2> QED
    BY <2>1, <2>2, <2>4 DEF KeysInv
<1>4. HostInv
  <2>1. /\ host = [kbd |-> NoKeys, buttons |-> {}, motion |-> 0] /\ pc = "start"
        /\ kbdBusy = Idle /\ mouseBusy = Idle /\ kbdLate = FALSE /\ mouseLate = FALSE
    BY DEF Init
  <2>2. host \in [kbd : Reports, buttons : SUBSET Buttons, motion : Nat]
    BY <2>1, Baseline
  <2> QED
    BY <2>1, <2>2 DEF HostInv
<1>5. MotionInv
  <2>1. /\ pending = 0 /\ lost = 0 /\ moved = 0 /\ OnTheWay = 0 /\ host.motion = 0
    BY DEF Init, OnTheWay
  <2>2. UnreadOf(queue) = 0
    <3> DEFINE f == [d \in Devices |-> Motion(queue[d])]
               z == [d \in Devices |-> 0]
    <3>1. \A d \in Devices : queue[d] = <<>>
      BY DEF Init
    <3>2. f = z
      BY <3>1, MotionEmpty
    <3>3. Total(z, Devices) = 0
      BY CodesAssumption, TotalZero
    <3> QED
      BY <3>2, <3>3 DEF UnreadOf
  <2>3. moved = host.motion + lost + pending + Unread + OnTheWay
    BY <2>1, <2>2, UnreadIs
  <2> QED
    BY <2>1, <2>3, BoundsAssumption DEF MotionInv, MotionAccounted, OnTheWay
<1>6. HotkeyTypeOK(Chord)
  BY DEF Init, HotkeyInit, HotkeyTypeOK
<1> QED
  BY <1>1, <1>2, <1>3, <1>4, <1>5, <1>6 DEF IInv

LEMMA NextIInv == IInv /\ [Next]_vars => IInv'
<1> SUFFICES ASSUME IInv, [Next]_vars PROVE IInv'
  OBVIOUS
<1>1. /\ LoopInv /\ BufferInv /\ KeysInv /\ HostInv /\ MotionInv /\ HotkeyTypeOK(Chord)
      /\ pending \in Nat
  BY DEF IInv, MotionInv
<1>2. LoopInv' /\ BufferInv' /\ KeysInv' /\ HotkeyTypeOK(Chord)'
  BY <1>1, LoopStep, BufferStep, KeysStep, ChordStep
<1>3. HostInv' /\ MotionInv'
  BY <1>1, <1>2, HostStep, MotionStep
<1> QED
  BY <1>2, <1>3 DEF IInv

(* The inductive invariant of the passthrough daemon: its loop, its        *)
(* buffers, what is down, what the host has of it, and the motion.         *)
THEOREM Invariance == Spec => []IInv
BY InitIInv, NextIInv, PTL DEF Spec

(* The data keeps its types for every set of devices and codes; a key      *)
(* never takes two slots, and no more motion is pending than was made.     *)
THEOREM PassthroughTypes == Spec => []TypeOK
<1>1. IInv => TypeOK
  <2> SUFFICES ASSUME IInv PROVE TypeOK
    OBVIOUS
  <2>1. pending \in 0 .. MaxMotion
    <3>1. /\ pending \in Nat /\ lost \in Nat /\ moved \in Nat /\ moved <= MaxMotion
          /\ MaxMotion \in Nat
          /\ host.motion \in Nat /\ OnTheWay \in Nat /\ UnreadOf(queue) \in Nat
          /\ moved = host.motion + lost + pending + UnreadOf(queue) + OnTheWay
      BY MotionTypes DEF IInv
    <3> QED
      BY <3>1
  <2>2. ASSUME NEW u \in Usages PROVE Cardinality(At(u)) <= 1
    <3>1. \A i, j \in At(u) : i = j
      BY <2>2, CodeKinds DEF At, IInv, KeysInv
    <3>2. CASE At(u) = {}
      BY <3>2, FS_EmptySet
    <3>3. CASE At(u) # {}
      <4>1. PICK i : At(u) = {i}
        BY <3>1, <3>3
      <4>2. Cardinality({i}) = 1
        BY FS_Singleton
      <4> QED
        BY <4>1, <4>2
    <3> QED
      BY <3>2, <3>3
  <2>3. Keyboard \in Reports
    BY KeyboardIsReport DEF IInv
  <2> QED
    BY <2>1, <2>2, <2>3 DEF IInv, LoopInv, BufferInv, KeysInv, HostInv, TypeOK
<1> QED
  BY <1>1, Invariance, PTL

(* A key or button is down exactly when the last event read of it was a    *)
(* press that found a slot, for any number of keys and slots.              *)
THEOREM DownIsWhatWasRead == Spec => []DownFollowsEvents
<1>1. IInv => DownFollowsEvents
  BY DEF IInv, KeysInv
<1> QED
  BY <1>1, Invariance, PTL

(* Between two drains the host's keyboard is the daemon's, or a report was *)
(* refused or the bus reset since: no change goes unreported.              *)
THEOREM HostKeyboard == Spec => []HostFollowsKeyboard
<1>1. IInv => HostFollowsKeyboard
  BY DEF IInv, LoopInv, HostInv, HostKeys, HostFollowsKeyboard
<1> QED
  BY <1>1, Invariance, PTL

(* The host's mouse buttons are the daemon's in the same way, at any time. *)
THEOREM HostMouse == Spec => []HostFollowsButtons
<1>1. IInv => HostFollowsButtons
  BY DEF IInv, LoopInv, HostInv, HostButtons, HostFollowsButtons
<1> QED
  BY <1>1, Invariance, PTL

(* Motion is delivered at most once, and what is not delivered was counted *)
(* as thrown away, for buffers and reports of any size.                    *)
THEOREM MotionOnce == Spec => []MotionAccounted
<1>1. IInv => MotionAccounted
  BY DEF IInv, MotionInv
<1> QED
  BY <1>1, Invariance, PTL
=============================================================================

---------------------------- MODULE SettingsProofs ---------------------------
(***************************************************************************)
(* The configuration file and its readers and writers, for any names,      *)
(* tables, files and forms.                                                *)
(***************************************************************************)
EXTENDS Settings, SequenceTheorems, FiniteSetTheorems, WellFoundedInduction, TLAPS
-----------------------------------------------------------------------------
(* Numbers: the least of a set, and facts along the lines of a file.       *)
LEMMA LeastExists ==
  ASSUME NEW S \in SUBSET Nat, S # {}
  PROVE  \E x \in S : \A y \in S : x <= y
<1> DEFINE R == OpToRel(<, Nat)
<1>1. IsWellFoundedOn(R, Nat) /\ \A x, y \in Nat : y < x => <<y, x>> \in R
  BY NatLessThanWellFounded DEF OpToRel
<1> HIDE DEF R
<1>2. PICK x \in S : \A y \in S : <<y, x>> \notin R
  BY <1>1, WFMin
<1>3. \A y \in S : ~(y < x)
  BY <1>1, <1>2
<1> QED
  BY <1>3

\* What holds before the first line and is kept by each line holds to the end.
LEMMA Along ==
  ASSUME NEW N \in Nat, NEW S, 0 \in S,
         \A n \in Nat : n < N /\ n \in S => n + 1 \in S
  PROVE  \A n \in 0 .. N : n \in S
<1> DEFINE Bad == {n \in 0 .. N : n \notin S}
<1>1. SUFFICES ASSUME Bad # {} PROVE FALSE
  OBVIOUS
<1>2. Bad \in SUBSET Nat
  OBVIOUS
<1>3. PICK x \in Bad : \A y \in Bad : x <= y
  BY <1>1, <1>2, LeastExists
<1>4. x - 1 \in 0 .. N /\ x - 1 \notin Bad
  BY <1>3
<1>5. x - 1 \in Nat /\ x - 1 < N /\ x - 1 \in S
  BY <1>3, <1>4
<1>6. (x - 1) + 1 \in S
  BY <1>5
<1> QED
  BY <1>3, <1>6

LEMMA MaxIs ==
  ASSUME NEW I \in SUBSET Int, NEW m \in I, \A i \in I : i <= m
  PROVE  Max(I) = m
<1>1. \A i \in I : m >= i
  OBVIOUS
<1>2. \A x \in I : (\A i \in I : x >= i) => x = m
  OBVIOUS
<1> QED
  BY <1>1, <1>2 DEF Max

LEMMA MinIs ==
  ASSUME NEW I \in SUBSET Int, NEW m \in I, \A i \in I : m <= i
  PROVE  Min(I) = m
<1>2. \A x \in I : (\A i \in I : x <= i) => x = m
  OBVIOUS
<1> QED
  BY <1>2 DEF Min

\* Some line is the last of those that count.
LEMMA MaxExists ==
  ASSUME NEW n \in Nat, NEW I \in SUBSET (1 .. n), I # {}
  PROVE  Max(I) \in I /\ \A i \in I : i <= Max(I)
<1> DEFINE S == {n - i : i \in I}
<1>1. S \in SUBSET Nat /\ S # {}
  <2>1. \A i \in I : i \in 1 .. n
    OBVIOUS
  <2>2. \A i \in I : n - i \in Nat
    BY <2>1
  <2> QED
    BY <2>2
<1>2. PICK x \in S : \A y \in S : x <= y
  BY <1>1, LeastExists
<1>3. PICK m \in I : x = n - m
  BY <1>2
<1>4. \A i \in I : n - m <= n - i
  BY <1>2, <1>3
<1>5. \A i \in I : i <= m
  BY <1>4
<1> QED
  BY <1>5, MaxIs
-----------------------------------------------------------------------------
(* InOrder enumerates a set in the given order.                            *)

\* R orders I strictly and totally.
Orders(R, I) ==
  /\ \A i \in I : <<i, i>> \notin R
  /\ \A i, j \in I : i # j => <<i, j>> \in R \/ <<j, i>> \in R
  /\ \A i, j, k \in I : <<i, j>> \in R /\ <<j, k>> \in R => <<i, k>> \in R

\* at runs through I in the order R.
Enumerates(at, I, R) ==
  /\ at \in [1 .. Cardinality(I) -> I]
  /\ \A i \in I : \E n \in 1 .. Cardinality(I) : at[n] = i
  /\ \A m, n \in 1 .. Cardinality(I) : m < n => <<at[m], at[n]>> \in R

LEMMA InOrderEnumerates ==
  ASSUME NEW I, IsFiniteSet(I), NEW R, Orders(R, I)
  PROVE  Enumerates(InOrder(I, R), I, R)
<1> DEFINE B(i)  == {j \in I : <<j, i>> \in R}
           rank  == [i \in I |-> Cardinality(B(i))]
           c     == Cardinality(I)
           at    == InOrder(I, R)
<1>1. c \in Nat
  BY FS_CardinalityType
<1>2. ASSUME NEW i \in I
      PROVE  IsFiniteSet(B(i)) /\ rank[i] \in Nat /\ rank[i] < c
  <2>1. B(i) \in SUBSET I
    OBVIOUS
  <2>2. IsFiniteSet(B(i)) /\ Cardinality(B(i)) <= c /\ (Cardinality(B(i)) = c => I = B(i))
    BY <2>1, FS_Subset
  <2>3. i \notin B(i)
    BY DEF Orders
  <2>4. Cardinality(B(i)) \in Nat
    BY <2>2, FS_CardinalityType
  <2> QED
    BY <1>1, <2>2, <2>3, <2>4
<1>3. ASSUME NEW i \in I, NEW j \in I, <<i, j>> \in R
      PROVE  rank[i] < rank[j]
  <2>1. B(i) \in SUBSET B(j)
    BY <1>3 DEF Orders
  <2>2. i \in B(j) /\ i \notin B(i)
    BY <1>3 DEF Orders
  <2>3. Cardinality(B(i)) <= Cardinality(B(j))
        /\ (Cardinality(B(j)) = Cardinality(B(i)) => B(j) = B(i))
    BY <1>2, <2>1, FS_Subset
  <2>4. rank[i] \in Nat /\ rank[j] \in Nat /\ rank[i] = Cardinality(B(i)) /\ rank[j] = Cardinality(B(j))
    BY <1>2
  <2>5. B(i) # B(j)
    BY <2>2
  <2> HIDE DEF B, rank
  <2> QED
    BY <2>3, <2>4, <2>5
<1> DEFINE place == [i \in I |-> rank[i] + 1]
<1>4. \A i \in I : rank[i] \in Nat /\ rank[i] < c
  BY <1>2
<1>5. \A i, j \in I : <<i, j>> \in R => rank[i] < rank[j]
  BY <1>3
<1>6. at = [n \in 1 .. c |-> CHOOSE i \in I : Cardinality(B(i)) = n - 1]
  BY DEF InOrder
<1>7. \A i \in I : rank[i] = Cardinality(B(i))
  OBVIOUS
<1> HIDE DEF B, rank, c, at
<1>7a. \A i, j \in I : rank[i] = rank[j] => i = j
  <2>1. \A i, j \in I : i # j => rank[i] < rank[j] \/ rank[j] < rank[i]
    BY <1>5 DEF Orders
  <2> QED
    BY <1>4, <2>1
<1>8. place \in [I -> 1 .. c] /\ \A i, j \in I : place[i] = place[j] => i = j
  BY <1>1, <1>4, <1>7a
<1>9. IsFiniteSet(1 .. c) /\ Cardinality(1 .. c) = c
  BY <1>1, FS_Interval
<1>10. place \in Injection(I, 1 .. c)
  BY <1>8 DEF Injection, IsInjective
<1>11. place \in Surjection(I, 1 .. c)
  <2> HIDE DEF place
  <2> QED
    BY <1>9, <1>10, FS_Injection DEF c
<1>12. \A n \in 1 .. c : \E i \in I : rank[i] = n - 1
  <2>1. \A n \in 1 .. c : \E i \in I : place[i] = n
    <3> HIDE DEF place
    <3> QED
      BY <1>11 DEF Surjection
  <2>2. \A i \in I : place[i] = rank[i] + 1
    OBVIOUS
  <2> TAKE n \in 1 .. c
  <2>3. PICK i \in I : place[i] = n
    BY <2>1
  <2>4. rank[i] = n - 1
    BY <2>2, <2>3, <1>4, <1>1
  <2> QED
    BY <2>4
<1>13. \A n \in 1 .. c : at[n] \in I /\ rank[at[n]] = n - 1
  <2> TAKE n \in 1 .. c
  <2>1. \E i \in I : Cardinality(B(i)) = n - 1
    BY <1>12, <1>7
  <2>2. at[n] = CHOOSE i \in I : Cardinality(B(i)) = n - 1
    BY <1>6
  <2>3. at[n] \in I /\ Cardinality(B(at[n])) = n - 1
    BY <2>1, <2>2
  <2> QED
    BY <2>3, <1>7
<1>14. at \in [1 .. c -> I]
  BY <1>6, <1>13
<1>15. \A i \in I : \E n \in 1 .. c : at[n] = i
  <2> TAKE i \in I
  <2>1. rank[i] + 1 \in 1 .. c /\ (rank[i] + 1) - 1 = rank[i]
    BY <1>1, <1>4
  <2>2. at[rank[i] + 1] = i
    BY <2>1, <1>13, <1>7a
  <2> QED
    BY <2>1, <2>2
<1>16. \A m, n \in 1 .. c : m < n => <<at[m], at[n]>> \in R
  <2> SUFFICES ASSUME NEW m \in 1 .. c, NEW n \in 1 .. c, m < n
               PROVE  <<at[m], at[n]>> \in R
    OBVIOUS
  <2>1. at[m] \in I /\ at[n] \in I /\ rank[at[m]] < rank[at[n]]
    BY <1>1, <1>13
  <2>2. at[m] # at[n] /\ <<at[n], at[m]>> \notin R
    BY <2>1, <1>4, <1>5
  <2> QED
    BY <2>1, <2>2 DEF Orders
<1> QED
  BY <1>14, <1>15, <1>16 DEF Enumerates, c, at

Less(I) == {p \in I \X I : p[1] < p[2]}

LEMMA LessOrders ==
  ASSUME NEW I \in SUBSET Int
  PROVE  Orders(Less(I), I)
<1>1. \A i, j \in I : <<i, j>> \in Less(I) <=> i < j
  BY DEF Less
<1>2. \A i \in I : i \in Int
  OBVIOUS
<1> QED
  BY <1>1, <1>2 DEF Orders

\* at runs through the picked indices.
PicksAt(at, s, I) ==
  /\ Picked(s, I) = [n \in 1 .. Cardinality(I) |-> s[at[n]]]
  /\ \A i \in I : \E n \in 1 .. Cardinality(I) : at[n] = i

\* What is picked are the elements at the picked indices, in their order.
LEMMA PickedIs ==
  ASSUME NEW N \in Nat, NEW I \in SUBSET (1 .. N), NEW s
  PROVE  /\ Cardinality(I) \in Nat
         /\ \E at \in [1 .. Cardinality(I) -> I] : PicksAt(at, s, I)
<1>1. IsFiniteSet(1 .. N)
  BY FS_Interval
<1>2. IsFiniteSet(I) /\ Cardinality(I) \in Nat
  BY <1>1, FS_Subset, FS_CardinalityType
<1>3. Enumerates(InOrder(I, Less(I)), I, Less(I))
  BY <1>2, LessOrders, InOrderEnumerates
<1> DEFINE at == InOrder(I, Less(I))
<1>4. Picked(s, I) = [n \in 1 .. Cardinality(I) |-> s[at[n]]]
  BY DEF Picked, Less
<1> HIDE DEF at
<1>5. /\ at \in [1 .. Cardinality(I) -> I]
      /\ \A i \in I : \E n \in 1 .. Cardinality(I) : at[n] = i
  BY <1>3 DEF Enumerates, at
<1> QED
  BY <1>2, <1>4, <1>5 DEF PicksAt

LEMMA PickedTypes ==
  ASSUME NEW T, NEW s \in Seq(T), NEW I \in SUBSET (DOMAIN s)
  PROVE  /\ Picked(s, I) \in Seq(T) /\ Len(Picked(s, I)) = Cardinality(I)
         /\ \A n \in DOMAIN Picked(s, I) : \E i \in I : Picked(s, I)[n] = s[i]
         /\ \A i \in I : \E n \in DOMAIN Picked(s, I) : Picked(s, I)[n] = s[i]
<1> DEFINE c == Cardinality(I)
           r == Picked(s, I)
<1>1. PICK N \in Nat : N = Len(s) /\ DOMAIN s = 1 .. N
  OBVIOUS
<1>1a. I \in SUBSET (1 .. N)
  BY <1>1
<1>2. c \in Nat /\ \E at \in [1 .. c -> I] : PicksAt(at, s, I)
  BY <1>1, <1>1a, PickedIs
<1>2a. PICK at \in [1 .. c -> I] : PicksAt(at, s, I)
  BY <1>2
<1>3. /\ r = [n \in 1 .. c |-> s[at[n]]]
      /\ \A i \in I : \E n \in 1 .. c : at[n] = i
  BY <1>2a DEF PicksAt
<1> HIDE DEF c, r
<1>4. \A n \in 1 .. c : at[n] \in I /\ s[at[n]] \in T
  <2>1. \A i \in 1 .. N : s[i] \in T
    BY <1>1
  <2> QED
    BY <1>1, <2>1
<1>5. r \in [1 .. c -> T] /\ DOMAIN r = 1 .. c
  BY <1>3, <1>4
<1>6. r \in Seq(T) /\ Len(r) = c
  BY <1>2, <1>5
<1>7. \A n \in DOMAIN r : \E i \in I : r[n] = s[i]
  BY <1>3, <1>4, <1>5
<1>8. \A i \in I : \E n \in DOMAIN r : r[n] = s[i]
  BY <1>3, <1>5
<1> QED
  BY <1>6, <1>7, <1>8 DEF c, r
-----------------------------------------------------------------------------
(* Chords.                                                                 *)

LEMMA CapitalsTypes ==
  ASSUME NEW ws \in Seq(Names)
  PROVE  /\ Capitals(ws) \in Seq(Names) /\ Len(Capitals(ws)) = Len(ws)
         /\ \A i \in 1 .. Len(ws) : Capitals(ws)[i] = Upper[ws[i]]
         /\ Capitals(Capitals(ws)) = Capitals(ws)
<1>1. PICK N \in Nat : N = Len(ws) /\ DOMAIN ws = 1 .. N
  OBVIOUS
<1>2. \A i \in 1 .. N : ws[i] \in Names
  BY <1>1
<1>3. \A i \in 1 .. N : Upper[ws[i]] \in Names /\ Upper[Upper[ws[i]]] = Upper[ws[i]]
  BY <1>2, SpellingAssumption
<1>4. Capitals(ws) = [i \in 1 .. N |-> Upper[ws[i]]]
  BY <1>1 DEF Capitals
<1>5. Capitals(ws) \in [1 .. N -> Names]
  BY <1>3, <1>4
<1>6. Capitals(ws) \in Seq(Names) /\ Len(Capitals(ws)) = N /\ DOMAIN Capitals(ws) = 1 .. N
  BY <1>5
<1>7. Capitals(Capitals(ws)) = [i \in 1 .. N |-> Upper[Capitals(ws)[i]]]
  BY <1>6 DEF Capitals
<1>8. \A i \in 1 .. N : Upper[Capitals(ws)[i]] = Upper[ws[i]]
  BY <1>3, <1>4
<1>9. Capitals(Capitals(ws)) = Capitals(ws)
  BY <1>4, <1>7, <1>8
<1> QED
  BY <1>1, <1>4, <1>6, <1>9

\* What is kept of a chord are known names, at least one if there is one, and
\* no more than fit.
LEMMA CutKnown ==
  ASSUME NEW ws \in Seq(Names), NEW names
  PROVE  /\ Known(ws, names) \in Seq(Names)
         /\ Cut(Known(ws, names)) \in Seq(Names \cap names)
         /\ Len(Cut(Known(ws, names))) <= MaxChord
         /\ Known(ws, names) # <<>> => Len(Cut(Known(ws, names))) >= 1
<1> DEFINE I == {i \in DOMAIN ws : ws[i] \in names}
           k == Known(ws, names)
<1>1. I \in SUBSET (DOMAIN ws) /\ k = Picked(ws, I)
  BY DEF Known
<1>2. \A i \in I : ws[i] \in Names \cap names
  OBVIOUS
<1> HIDE DEF I, k
<1>3. k \in Seq(Names) /\ \A n \in DOMAIN k : \E i \in I : k[n] = ws[i]
  BY <1>1, PickedTypes
<1>4. PICK m \in Nat : m = Len(k) /\ DOMAIN k = 1 .. m
  BY <1>3
<1>5. k \in [1 .. m -> Names \cap names]
  <2>1. \A n \in 1 .. m : k[n] \in Names \cap names
    BY <1>2, <1>3, <1>4
  <2>2. k = [n \in 1 .. m |-> k[n]]
    BY <1>3, <1>4
  <2> QED
    BY <2>1, <2>2
<1>6. k \in Seq(Names \cap names)
  BY <1>5
<1> DEFINE e == IF m < 8 THEN m ELSE 8
<1>7. Cut(k) = SubSeq(k, 1, e)
  BY <1>4 DEF Cut, MaxChord
<1>8. e \in Nat /\ e <= m /\ e <= 8 /\ (m # 0 => e >= 1)
  OBVIOUS
<1> HIDE DEF e
<1>9. SubSeq(k, 1, e) \in Seq(Names \cap names) /\ Len(SubSeq(k, 1, e)) = e
  BY <1>4, <1>6, <1>8
<1>10. k # <<>> => m # 0
  BY <1>3, <1>4
<1> QED
  BY <1>3, <1>7, <1>8, <1>9, <1>10 DEF k, MaxChord
-----------------------------------------------------------------------------
(* What a reader knows is determined line by line.                         *)

LEMMA MapperReading ==
  ASSUME NEW f, Len(f) \in Nat
  PROVE  \E g : /\ g[0] = Defaults
                /\ \A n \in 1 .. Len(f) : g[n] = MapperLine(g[n - 1], f[n])
                /\ MapperReads(f) = g[Len(f)]
<1> DEFINE Reads(g, m) ==
             g = [n \in 0 .. m |-> IF n = 0 THEN Defaults
                                   ELSE MapperLine(g[n - 1], f[n])]
           S == {m \in Nat : \E g : Reads(g, m)}
<1>1. PICK N \in Nat : N = Len(f)
  OBVIOUS
<1>2. 0 \in S
  <2> DEFINE g == [n \in 0 .. 0 |-> Defaults]
  <2>1. Reads(g, 0)
    OBVIOUS
  <2> QED
    BY <2>1
<1>3. ASSUME NEW n \in Nat, n \in S
      PROVE  n + 1 \in S
  <2>1. PICK g : Reads(g, n)
    BY <1>3
  <2> DEFINE h == [k \in 0 .. n + 1 |-> IF k = n + 1 THEN MapperLine(g[n], f[n + 1]) ELSE g[k]]
  <2>2. \A k \in 0 .. n : h[k] = g[k]
    OBVIOUS
  <2>3. \A k \in 0 .. n + 1 : h[k] = IF k = 0 THEN Defaults ELSE MapperLine(h[k - 1], f[k])
    <3> TAKE k \in 0 .. n + 1
    <3>1. CASE k = 0
      BY <2>1, <2>2, <3>1
    <3>2. CASE k \in 1 .. n
      <4>1. h[k] = g[k] /\ h[k - 1] = g[k - 1] /\ k \in 0 .. n /\ k # 0
        BY <2>2, <3>2
      <4>2. g[k] = MapperLine(g[k - 1], f[k])
        BY <2>1, <4>1
      <4> QED
        BY <4>1, <4>2
    <3>3. CASE k = n + 1
      <4>1. h[k] = MapperLine(g[n], f[n + 1]) /\ h[k - 1] = g[n] /\ k # 0
        BY <2>2, <3>3
      <4> QED
        BY <3>3, <4>1
    <3> QED
      BY <3>1, <3>2, <3>3
  <2>4. h = [k \in 0 .. n + 1 |-> h[k]]
    OBVIOUS
  <2> HIDE DEF h
  <2>5. Reads(h, n + 1)
    BY <2>3, <2>4
  <2> QED
    BY <2>5
<1>4. N \in S
  <2> HIDE DEF S
  <2>1. \A n \in Nat : n < N /\ n \in S => n + 1 \in S
    BY <1>3
  <2>2. \A n \in 0 .. N : n \in S
    BY <1>2, <2>1, Along
  <2> QED
    BY <2>2
<1>5. \E g : Reads(g, N)
  BY <1>4
<1> DEFINE read == CHOOSE g : Reads(g, N)
<1>6. Reads(read, N)
  BY <1>5
<1>7. MapperReads(f) = read[N]
  BY <1>1 DEF MapperReads
<1> HIDE DEF read
<1>8. /\ read[0] = Defaults
      /\ \A n \in 1 .. N : read[n] = MapperLine(read[n - 1], f[n])
  BY <1>6
<1> QED
  BY <1>1, <1>7, <1>8

(* The lines about a key, and among them those that name a known action.   *)
About(f, k) == {i \in DOMAIN f : f[i].key = k}
Named(f, k) == {i \in About(f, k) : f[i].words[1] \in Actions}
Bound(f, c) == {i \in DOMAIN f : /\ f[i].key \in Sources
                                 /\ <<f[i].key, Upper[f[i].of]>> = c
                                 /\ f[i].words[1] \in Actions}
Upto(P, n)  == P \cap (1 .. n)

LEMMA Grows ==
  ASSUME NEW P, NEW n \in Nat \ {0}
  PROVE  /\ n \in P => Upto(P, n) # {} /\ Max(Upto(P, n)) = n
         /\ n \notin P => Upto(P, n) = Upto(P, n - 1)
<1>1. Upto(P, n) \in SUBSET Int /\ \A i \in Upto(P, n) : i <= n
  BY DEF Upto
<1>2. ASSUME n \in P
      PROVE  Upto(P, n) # {} /\ Max(Upto(P, n)) = n
  <2>1. n \in Upto(P, n)
    BY <1>2 DEF Upto
  <2> QED
    BY <1>1, <2>1, MaxIs
<1>3. ASSUME n \notin P
      PROVE  Upto(P, n) = Upto(P, n - 1)
  BY <1>3 DEF Upto
<1> QED
  BY <1>2, <1>3

\* The keys are of four kinds.
LEMMA KeyKinds ==
  /\ NumKeys \cap WordKeys = {} /\ NumKeys \cap Sources = {} /\ WordKeys \cap Sources = {}
  /\ "hotkey" \notin NumKeys \cup WordKeys \cup Sources
  /\ Keys = NumKeys \cup WordKeys \cup Sources \cup {"hotkey"}
BY DEF Keys, NumKeys, WordKeys, Sources, Tunings, Pulls, Scales, BurstFields, Shares

LEMMA FirstOf ==
  ASSUME NEW T, NEW w \in Seq(T), w # <<>>
  PROVE  w[1] \in T /\ 1 \in DOMAIN w
<1>1. PICK m \in Nat : m = Len(w) /\ w \in [1 .. m -> T]
  OBVIOUS
<1>2. m # 0
  BY <1>1
<1> QED
  BY <1>1, <1>2

LEMMA LineTypes ==
  ASSUME NEW l \in Lines
  PROVE  /\ l.key \in Keys /\ l.num \in Int /\ l.words \in Seq(STRING)
         /\ l.noted \in BOOLEAN /\ l.tight \in BOOLEAN /\ l.cr \in BOOLEAN /\ l.of \in Names \cup {""}
         /\ l.key \in WordKeys \cup Sources => l.words # <<>> /\ l.words[1] \in STRING
         /\ l.key \in Sources => l.of \in Names /\ Upper[l.of] \in Names
         /\ l.key = "hotkey" => l.words \in Seq(Names)
<1>1. /\ l.key \in Keys /\ l.num \in Int /\ l.words \in Seq(STRING)
      /\ l.noted \in BOOLEAN /\ l.tight \in BOOLEAN /\ l.cr \in BOOLEAN /\ l.of \in Names \cup {""}
      /\ l.key \in WordKeys \cup Sources => l.words # <<>>
      /\ l.key \in Sources => l.of \in Names
      /\ l.key = "hotkey" => l.words \in Seq(Names)
  BY DEF Lines
<1>2. l.words # <<>> => l.words[1] \in STRING
  BY <1>1, FirstOf
<1> QED
  BY <1>1, <1>2, SpellingAssumption

\* What one line does, by its key.
MapperTakes(c, l, d) ==
  /\ l.key \in NumKeys => d = [c EXCEPT !.num[l.key] = Clamp(l.key, l.num)]
  /\ l.key \in WordKeys =>
       d = IF l.words[1] \in Actions THEN [c EXCEPT !.word[l.key] = l.words[1]] ELSE c
  /\ l.key \in Sources =>
       d = IF <<l.key, Upper[l.of]>> \in Bindable /\ l.words[1] \in Actions
           THEN [c EXCEPT !.bind[<<l.key, Upper[l.of]>>] = l.words[1]] ELSE c
  /\ l.key = "hotkey" => d = [c EXCEPT !.chord = MapperChord(l.words)]

LEMMA MapperLineTakes ==
  ASSUME NEW c, NEW l, l.key \in Keys
  PROVE  MapperTakes(c, l, MapperLine(c, l))
<1>1. CASE l.key \in NumKeys
  BY <1>1, KeyKinds DEF MapperTakes, MapperLine
<1>2. CASE l.key \in WordKeys
  BY <1>2, KeyKinds DEF MapperTakes, MapperLine
<1>3. CASE l.key \in Sources
  BY <1>3, KeyKinds DEF MapperTakes, MapperLine
<1>4. CASE l.key = "hotkey"
  BY <1>4, KeyKinds DEF MapperTakes, MapperLine
<1> QED
  BY <1>1, <1>2, <1>3, <1>4, KeyKinds

\* Whatever may name an action; the prover does not know its own literals.
Texts == STRING \cup {"", NoAction, "lstick_up", "r2"}

Confs ==
  [num : [NumKeys -> Int], word : [WordKeys -> Texts],
   bind : [Bindable -> Texts], chord : Seq(MapperCodes["key"])]

LEMMA ConfChanges ==
  ASSUME NEW c \in Confs
  PROVE  /\ \A k \in NumKeys, n \in Int : [c EXCEPT !.num[k] = n] \in Confs
         /\ \A k \in WordKeys, a \in Texts : [c EXCEPT !.word[k] = a] \in Confs
         /\ \A b \in Bindable, a \in Texts : [c EXCEPT !.bind[b] = a] \in Confs
         /\ \A ws \in Seq(MapperCodes["key"]) : [c EXCEPT !.chord = ws] \in Confs
<1>1. \A k \in NumKeys, n \in Int : [c EXCEPT !.num[k] = n] \in Confs
  BY DEF Confs
<1>2. \A k \in WordKeys, a \in Texts : [c EXCEPT !.word[k] = a] \in Confs
  BY DEF Confs
<1>3. \A b \in Bindable, a \in Texts : [c EXCEPT !.bind[b] = a] \in Confs
  BY DEF Confs
<1>4. \A ws \in Seq(MapperCodes["key"]) : [c EXCEPT !.chord = ws] \in Confs
  BY DEF Confs
<1> QED
  BY <1>1, <1>2, <1>3, <1>4

\* What dualsense-ffsd knows after n lines: for each key the last line that
\* counts, or the default.
KnowsNum(c, f, n) ==
  \A k \in NumKeys :
    c.num[k] = IF Upto(About(f, k), n) = {} THEN DefaultNum(k)
               ELSE Clamp(k, f[Max(Upto(About(f, k), n))].num)
KnowsWord(c, f, n) ==
  \A k \in WordKeys :
    c.word[k] = IF Upto(Named(f, k), n) = {} THEN NoAction
                ELSE f[Max(Upto(Named(f, k), n))].words[1]
KnowsBind(c, f, n) ==
  \A b \in Bindable :
    c.bind[b] = IF Upto(Bound(f, b), n) = {} THEN DefaultBind(b)
                ELSE f[Max(Upto(Bound(f, b), n))].words[1]
KnowsChord(c, f, n) ==
  c.chord = IF Upto(About(f, "hotkey"), n) = {} THEN DefaultChord
            ELSE MapperChord(f[Max(Upto(About(f, "hotkey"), n))].words)

MapperKnows(c, f, n) ==
  /\ c \in Confs
  /\ KnowsNum(c, f, n) /\ KnowsWord(c, f, n) /\ KnowsBind(c, f, n) /\ KnowsChord(c, f, n)

LEMMA DefaultChordTypes ==
  /\ DefaultChord \in Seq(MapperCodes["key"]) /\ DefaultChord \in Seq(PassNames)
  /\ DefaultChord \in Seq(Names) /\ Len(DefaultChord) = 2
  /\ Capitals(DefaultChord) = DefaultChord
<1>1. /\ DefaultChord = <<"LEFTCTRL", "ESC">> /\ DOMAIN DefaultChord = {1, 2}
      /\ DefaultChord[1] = "LEFTCTRL" /\ DefaultChord[2] = "ESC"
  BY DEF DefaultChord
<1>2. ToSet(DefaultChord) = {"LEFTCTRL", "ESC"}
  BY <1>1 DEF ToSet
<1>3. /\ {"LEFTCTRL", "ESC"} \subseteq MapperCodes["key"] \cap PassNames \cap Names
      /\ Upper["LEFTCTRL"] = "LEFTCTRL" /\ Upper["ESC"] = "ESC"
  BY <1>2, TablesAssumption
<1>4. /\ DefaultChord \in Seq(MapperCodes["key"]) /\ DefaultChord \in Seq(PassNames)
      /\ DefaultChord \in Seq(Names) /\ Len(DefaultChord) = 2
  <2>1. \A T : "LEFTCTRL" \in T /\ "ESC" \in T => <<"LEFTCTRL", "ESC">> \in Seq(T)
    OBVIOUS
  <2>2. Len(<<"LEFTCTRL", "ESC">>) = 2
    OBVIOUS
  <2> QED
    BY <2>1, <2>2, <1>1, <1>3
<1>5. Capitals(DefaultChord) = [i \in {1, 2} |-> Upper[DefaultChord[i]]]
  BY <1>1 DEF Capitals
<1>6. /\ Upper[DefaultChord[1]] = DefaultChord[1]
      /\ Upper[DefaultChord[2]] = DefaultChord[2]
  BY <1>1, <1>3
<1>7. \A i \in {1, 2} : Upper[DefaultChord[i]] = DefaultChord[i]
  BY <1>6
<1>8. DefaultChord \in [1 .. 2 -> Names] /\ 1 .. 2 = {1, 2}
  BY <1>1, <1>4
<1> QED
  BY <1>1, <1>4, <1>5, <1>7, <1>8

LEMMA DefaultsTypes ==
  /\ \A k \in NumKeys : DefaultNum(k) \in Int
  /\ \A k \in NumKeys, n \in Int : Clamp(k, n) \in Int
  /\ \A k \in Scales, n \in Int : Clamp(k, n) \in 1 .. 400
  /\ \A k \in Scales : DefaultNum(k) = 100
  /\ \A b \in Bindable : DefaultBind(b) \in Texts
  /\ Defaults \in Confs /\ Len(Defaults.chord) = 2
<1>1. \A k \in NumKeys : DefaultNum(k) \in Int
  BY DEF DefaultNum
<1>2. \A k \in NumKeys, n \in Int : Clamp(k, n) \in Int
  BY DEF Clamp, Within
<1>3. \A k \in Scales, n \in Int : Clamp(k, n) \in 1 .. 400
  <2> TAKE k \in Scales, n \in Int
  <2>1. k \notin Pulls /\ k \notin Shares
    BY DEF Scales, Pulls, Shares
  <2>2. Clamp(k, n) = Within(1, n, 400)
    BY <2>1 DEF Clamp
  <2> QED
    BY <2>2 DEF Within
<1>4. \A k \in Scales : DefaultNum(k) = 100
  BY DEF DefaultNum, Scales
<1>5. \A b \in Bindable : DefaultBind(b) \in Texts
  BY DEF DefaultBind, Texts
<1>6. DefaultChord \in Seq(MapperCodes["key"]) /\ Len(DefaultChord) = 2
  BY DefaultChordTypes
<1>7. Defaults \in Confs /\ Defaults.chord = DefaultChord
  <2>1. [k \in NumKeys |-> DefaultNum(k)] \in [NumKeys -> Int]
    BY <1>1
  <2>2. [k \in WordKeys |-> NoAction] \in [WordKeys -> Texts]
    BY DEF Texts
  <2>3. [b \in Bindable |-> DefaultBind(b)] \in [Bindable -> Texts]
    BY <1>5
  <2> QED
    BY <2>1, <2>2, <2>3, <1>6 DEF Defaults, Confs
<1> QED
  BY <1>1, <1>2, <1>3, <1>4, <1>5, <1>6, <1>7

LEMMA MapperChordTypes ==
  ASSUME NEW ws \in Seq(Names)
  PROVE  MapperChord(ws) \in Seq(MapperCodes["key"]) /\ Len(MapperChord(ws)) <= MaxChord
<1>1. Capitals(ws) \in Seq(Names)
  BY CapitalsTypes
<1>2. MapperChord(ws) = Cut(Known(Capitals(ws), MapperCodes["key"]))
  BY DEF MapperChord
<1>3. /\ MapperChord(ws) \in Seq(Names \cap MapperCodes["key"])
      /\ Len(MapperChord(ws)) <= MaxChord
  BY <1>1, <1>2, CutKnown
<1> QED
  BY <1>3

LEMMA NothingKnown == ASSUME NEW f PROVE MapperKnows(Defaults, f, 0)
<1>1. \A P : Upto(P, 0) = {}
  BY DEF Upto
<1>2. /\ KnowsNum(Defaults, f, 0) /\ KnowsWord(Defaults, f, 0)
      /\ KnowsBind(Defaults, f, 0) /\ KnowsChord(Defaults, f, 0)
  BY <1>1 DEF KnowsNum, KnowsWord, KnowsBind, KnowsChord, Defaults
<1> QED
  BY <1>2, DefaultsTypes DEF MapperKnows

LEMMA MapperLearns ==
  ASSUME NEW f \in Seq(Lines), NEW n \in 1 .. Len(f), NEW c,
         MapperKnows(c, f, n - 1)
  PROVE  MapperKnows(MapperLine(c, f[n]), f, n)
<1> DEFINE l == f[n]
           d == MapperLine(c, l)
<1>1. n \in Nat \ {0} /\ n \in DOMAIN f /\ l \in Lines
  <2>1. PICK N \in Nat : N = Len(f) /\ f \in [1 .. N -> Lines]
    OBVIOUS
  <2> QED
    BY <2>1
<1> HIDE DEF l
<1>2. /\ l.key \in Keys /\ l.num \in Int
      /\ l.key \in WordKeys \cup Sources => l.words[1] \in STRING
      /\ l.key = "hotkey" => l.words \in Seq(Names)
  BY <1>1, LineTypes
<1>3. MapperTakes(c, l, d)
  BY <1>2, MapperLineTakes
<1> HIDE DEF d
<1>4. /\ c \in Confs
      /\ KnowsNum(c, f, n - 1) /\ KnowsWord(c, f, n - 1)
      /\ KnowsBind(c, f, n - 1) /\ KnowsChord(c, f, n - 1)
  BY DEF MapperKnows
<1>5. d \in Confs
  <2>1. CASE l.key \in NumKeys
    BY <2>1, <1>2, <1>3, <1>4, DefaultsTypes, ConfChanges DEF MapperTakes
  <2>2. CASE l.key \in WordKeys
    <3>1. d = c \/ d = [c EXCEPT !.word[l.key] = l.words[1]]
      BY <2>2, <1>3 DEF MapperTakes
    <3>2. l.words[1] \in Texts
      BY <2>2, <1>2 DEF Texts
    <3> QED
      BY <2>2, <3>1, <3>2, <1>4, ConfChanges
  <2>3. CASE l.key \in Sources
    <3>1. \/ d = c
          \/ /\ <<l.key, Upper[l.of]>> \in Bindable
             /\ d = [c EXCEPT !.bind[<<l.key, Upper[l.of]>>] = l.words[1]]
      BY <2>3, <1>3 DEF MapperTakes
    <3>2. l.words[1] \in Texts
      BY <2>3, <1>2 DEF Texts
    <3> QED
      BY <3>1, <3>2, <1>4, ConfChanges
  <2>4. CASE l.key = "hotkey"
    <3>1. d = [c EXCEPT !.chord = MapperChord(l.words)]
      BY <2>4, <1>3 DEF MapperTakes
    <3>2. MapperChord(l.words) \in Seq(MapperCodes["key"])
      BY <2>4, <1>2, MapperChordTypes
    <3> QED
      BY <3>1, <3>2, <1>4, ConfChanges
  <2> QED
    BY <2>1, <2>2, <2>3, <2>4, <1>2, KeyKinds
<1>6. KnowsNum(d, f, n)
  <2> SUFFICES ASSUME NEW k \in NumKeys
               PROVE  d.num[k] = IF Upto(About(f, k), n) = {} THEN DefaultNum(k)
                                 ELSE Clamp(k, f[Max(Upto(About(f, k), n))].num)
    BY DEF KnowsNum
  <2>1. n \in About(f, k) <=> l.key = k
    BY <1>1 DEF About, l
  <2>2. CASE l.key = k
    <3>1. d.num[k] = Clamp(k, l.num)
      BY <2>2, <1>3, <1>4 DEF MapperTakes, Confs
    <3>2. Upto(About(f, k), n) # {} /\ Max(Upto(About(f, k), n)) = n
      BY <2>1, <2>2, <1>1, Grows
    <3> QED
      BY <3>1, <3>2 DEF l
  <2>3. CASE l.key # k
    <3>1. d.num[k] = c.num[k]
      BY <2>3, <1>2, <1>3, <1>4, KeyKinds DEF MapperTakes, Confs
    <3>2. Upto(About(f, k), n) = Upto(About(f, k), n - 1)
      BY <2>1, <2>3, <1>1, Grows
    <3> QED
      BY <3>1, <3>2, <1>4 DEF KnowsNum
  <2> QED
    BY <2>2, <2>3
<1>7. KnowsWord(d, f, n)
  <2> SUFFICES ASSUME NEW k \in WordKeys
               PROVE  d.word[k] = IF Upto(Named(f, k), n) = {} THEN NoAction
                                  ELSE f[Max(Upto(Named(f, k), n))].words[1]
    BY DEF KnowsWord
  <2>1. n \in Named(f, k) <=> l.key = k /\ l.words[1] \in Actions
    BY <1>1 DEF About, Named, l
  <2>2. CASE l.key = k /\ l.words[1] \in Actions
    <3>1. d.word[k] = l.words[1]
      BY <2>2, <1>3, <1>4 DEF MapperTakes, Confs
    <3>2. Upto(Named(f, k), n) # {} /\ Max(Upto(Named(f, k), n)) = n
      BY <2>1, <2>2, <1>1, Grows
    <3> QED
      BY <3>1, <3>2 DEF l
  <2>3. CASE ~(l.key = k /\ l.words[1] \in Actions)
    <3>1. d.word[k] = c.word[k]
      <4>1. CASE l.key \in WordKeys
        BY <4>1, <2>3, <1>3, <1>4 DEF MapperTakes, Confs
      <4>2. CASE l.key \notin WordKeys
        BY <4>2, <1>2, <1>3, <1>4, KeyKinds DEF MapperTakes, Confs
      <4> QED
        BY <4>1, <4>2
    <3>2. Upto(Named(f, k), n) = Upto(Named(f, k), n - 1)
      BY <2>1, <2>3, <1>1, Grows
    <3> QED
      BY <3>1, <3>2, <1>4 DEF KnowsWord
  <2> QED
    BY <2>2, <2>3
<1>8. KnowsBind(d, f, n)
  <2> SUFFICES ASSUME NEW b \in Bindable
               PROVE  d.bind[b] = IF Upto(Bound(f, b), n) = {} THEN DefaultBind(b)
                                  ELSE f[Max(Upto(Bound(f, b), n))].words[1]
    BY DEF KnowsBind
  <2> DEFINE hit == l.key \in Sources /\ <<l.key, Upper[l.of]>> = b /\ l.words[1] \in Actions
  <2>1. n \in Bound(f, b) <=> hit
    BY <1>1 DEF Bound, l
  <2>2. CASE hit
    <3>1. d = [c EXCEPT !.bind[b] = l.words[1]]
      BY <2>2, <1>3 DEF MapperTakes
    <3>1a. d.bind[b] = l.words[1]
      BY <3>1, <1>4 DEF Confs
    <3>2. Upto(Bound(f, b), n) # {} /\ Max(Upto(Bound(f, b), n)) = n
      BY <2>1, <2>2, <1>1, Grows
    <3> QED
      BY <3>1a, <3>2 DEF l
  <2>3. CASE ~hit
    <3>1. d.bind[b] = c.bind[b]
      BY <2>3, <1>2, <1>3, <1>4, KeyKinds DEF MapperTakes, Confs
    <3>2. Upto(Bound(f, b), n) = Upto(Bound(f, b), n - 1)
      BY <2>1, <2>3, <1>1, Grows
    <3> QED
      BY <3>1, <3>2, <1>4 DEF KnowsBind
  <2> QED
    BY <2>2, <2>3
<1>9. KnowsChord(d, f, n)
  <2>1. n \in About(f, "hotkey") <=> l.key = "hotkey"
    BY <1>1 DEF About, l
  <2>2. CASE l.key = "hotkey"
    <3>1. d.chord = MapperChord(l.words)
      BY <2>2, <1>3, <1>4 DEF MapperTakes, Confs
    <3>2. Upto(About(f, "hotkey"), n) # {} /\ Max(Upto(About(f, "hotkey"), n)) = n
      BY <2>1, <2>2, <1>1, Grows
    <3> QED
      BY <3>1, <3>2 DEF l, KnowsChord
  <2>3. CASE l.key # "hotkey"
    <3>1. d.chord = c.chord
      BY <2>3, <1>2, <1>3, <1>4, KeyKinds DEF MapperTakes, Confs
    <3>2. Upto(About(f, "hotkey"), n) = Upto(About(f, "hotkey"), n - 1)
      BY <2>1, <2>3, <1>1, Grows
    <3> QED
      BY <3>1, <3>2, <1>4 DEF KnowsChord
  <2> QED
    BY <2>2, <2>3
<1> QED
  BY <1>5, <1>6, <1>7, <1>8, <1>9 DEF MapperKnows, d, l

LEMMA MapperKnowsFile ==
  ASSUME NEW f \in Seq(Lines)
  PROVE  MapperKnows(MapperReads(f), f, Len(f))
<1>1. PICK N \in Nat : N = Len(f)
  OBVIOUS
<1>2. PICK g : /\ g[0] = Defaults
               /\ \A n \in 1 .. N : g[n] = MapperLine(g[n - 1], f[n])
               /\ MapperReads(f) = g[N]
  BY <1>1, MapperReading
<1> DEFINE S == {n \in 0 .. N : MapperKnows(g[n], f, n)}
<1>3. 0 \in S
  BY <1>2, NothingKnown
<1>4. ASSUME NEW n \in Nat, n < N, n \in S
      PROVE  n + 1 \in S
  <2>1. n + 1 \in 1 .. Len(f) /\ (n + 1) - 1 = n /\ MapperKnows(g[n], f, n)
    BY <1>1, <1>4
  <2>2. MapperKnows(MapperLine(g[n], f[n + 1]), f, n + 1)
    BY <2>1, MapperLearns
  <2>3. g[n + 1] = MapperLine(g[n], f[n + 1])
    BY <1>1, <1>2, <2>1
  <2> QED
    BY <1>1, <2>1, <2>2, <2>3
<1>5. N \in S
  <2> HIDE DEF S
  <2>1. \A n \in 0 .. N : n \in S
    BY <1>3, <1>4, Along
  <2> QED
    BY <2>1
<1> QED
  BY <1>1, <1>2, <1>5

LEMMA LinesOf ==
  ASSUME NEW f \in Seq(Lines)
  PROVE  /\ \A P \in SUBSET (DOMAIN f) : Upto(P, Len(f)) = P
         /\ \A P \in SUBSET (DOMAIN f) :
              P # {} => Max(P) \in P /\ \A i \in P : i <= Max(P)
         /\ \A k : About(f, k) \in SUBSET (DOMAIN f) /\ Named(f, k) \in SUBSET (DOMAIN f)
         /\ \A b : Bound(f, b) \in SUBSET (DOMAIN f)
         /\ \A i \in DOMAIN f : f[i] \in Lines
<1>1. PICK N \in Nat : N = Len(f) /\ f \in [1 .. N -> Lines]
  OBVIOUS
<1>2. \A P \in SUBSET (DOMAIN f) : P # {} => Max(P) \in P /\ \A i \in P : i <= Max(P)
  BY <1>1, MaxExists
<1> QED
  BY <1>1, <1>2 DEF Upto, About, Named, Bound

\* What dualsense-ffsd reads: for each key the last line that counts, within
\* its limits, or the default.
LEMMA MapperReadsLast ==
  ASSUME NEW f \in Seq(Lines)
  PROVE  /\ MapperReads(f) \in Confs
         /\ \A k \in NumKeys :
              MapperReads(f).num[k] = IF About(f, k) = {} THEN DefaultNum(k)
                                      ELSE Clamp(k, f[Max(About(f, k))].num)
         /\ \A k \in WordKeys :
              MapperReads(f).word[k] = IF Named(f, k) = {} THEN NoAction
                                       ELSE f[Max(Named(f, k))].words[1]
         /\ \A b \in Bindable :
              MapperReads(f).bind[b] = IF Bound(f, b) = {} THEN DefaultBind(b)
                                       ELSE f[Max(Bound(f, b))].words[1]
         /\ MapperReads(f).chord = IF About(f, "hotkey") = {} THEN DefaultChord
                                   ELSE MapperChord(f[Max(About(f, "hotkey"))].words)
<1> DEFINE c == MapperReads(f)
           N == Len(f)
<1>1. /\ c \in Confs /\ KnowsNum(c, f, N) /\ KnowsWord(c, f, N)
      /\ KnowsBind(c, f, N) /\ KnowsChord(c, f, N)
  BY MapperKnowsFile DEF MapperKnows
<1>2. /\ \A k : Upto(About(f, k), N) = About(f, k) /\ Upto(Named(f, k), N) = Named(f, k)
      /\ \A b : Upto(Bound(f, b), N) = Bound(f, b)
  BY LinesOf
<1> HIDE DEF c, N
<1> QED
  BY <1>1, <1>2 DEF KnowsNum, KnowsWord, KnowsBind, KnowsChord, c, N

LEMMA MapperLimits ==
  ASSUME NEW f \in Seq(Lines)
  PROVE  /\ MapperReads(f).chord \in Seq(MapperCodes["key"])
         /\ Len(MapperReads(f).chord) <= MaxChord
         /\ \A k \in Scales : MapperReads(f).num[k] \in 1 .. 400
<1> DEFINE c == MapperReads(f)
<1>1. c.chord \in Seq(MapperCodes["key"])
  BY MapperReadsLast DEF Confs
<1>1a. c.chord = IF About(f, "hotkey") = {} THEN DefaultChord
                 ELSE MapperChord(f[Max(About(f, "hotkey"))].words)
  BY MapperReadsLast
<1>1b. \A k \in NumKeys :
         c.num[k] = IF About(f, k) = {} THEN DefaultNum(k)
                    ELSE Clamp(k, f[Max(About(f, k))].num)
  BY MapperReadsLast
<1> HIDE DEF c
<1>2. Len(c.chord) <= MaxChord
  <2>1. CASE About(f, "hotkey") = {}
    <3>1. c.chord = DefaultChord
      BY <2>1, <1>1a
    <3> QED
      BY <3>1, DefaultChordTypes DEF MaxChord
  <2>2. CASE About(f, "hotkey") # {}
    <3> DEFINE m == Max(About(f, "hotkey"))
    <3>1. m \in About(f, "hotkey") /\ f[m] \in Lines /\ c.chord = MapperChord(f[m].words)
      BY <2>2, LinesOf, <1>1a
    <3>2. f[m].key = "hotkey"
      BY <3>1 DEF About
    <3>3. f[m].words \in Seq(Names)
      BY <3>1, <3>2, LineTypes
    <3>4. Len(MapperChord(f[m].words)) <= MaxChord
      BY <3>3, MapperChordTypes
    <3> QED
      BY <3>1, <3>4
  <2> QED
    BY <2>1, <2>2
<1>3. ASSUME NEW k \in Scales
      PROVE  c.num[k] \in 1 .. 400
  <2>1. k \in NumKeys
    BY DEF NumKeys
  <2>2. CASE About(f, k) = {}
    <3>1. c.num[k] = DefaultNum(k)
      BY <2>1, <2>2, <1>1b
    <3>2. DefaultNum(k) = 100
      BY DefaultsTypes
    <3> QED
      BY <3>1, <3>2
  <2>3. CASE About(f, k) # {}
    <3> DEFINE m == Max(About(f, k))
    <3>1. f[m] \in Lines /\ c.num[k] = Clamp(k, f[m].num)
      BY <2>1, <2>3, LinesOf, <1>1b
    <3>2. f[m].num \in Int
      BY <3>1, LineTypes
    <3>3. \A n \in Int : Clamp(k, n) \in 1 .. 400
      BY DefaultsTypes
    <3> HIDE DEF m
    <3> QED
      BY <3>1, <3>2, <3>3
  <2> QED
    BY <2>2, <2>3
<1> QED
  BY <1>1, <1>2, <1>3 DEF c
-----------------------------------------------------------------------------
(* kbm-passthrough.                                                        *)

LEMMA HeardTypes ==
  ASSUME NEW l, l.words \in Seq(Names)
  PROVE  Heard(l) \in Seq(Names)
<1> DEFINE ws == l.words
           noted == {i \in DOMAIN ws : Bare[ws[i]] # ws[i]}
           upto == IF noted # {} THEN Min(noted)
                   ELSE IF l.cr THEN Len(ws) - 1 ELSE Len(ws)
<1>1. PICK N \in Nat : N = Len(ws) /\ DOMAIN ws = 1 .. N /\ ws \in [1 .. N -> Names]
  OBVIOUS
<1>2. \A i \in 1 .. N : Bare[ws[i]] \in Names
  BY <1>1, SpellingAssumption
<1>3. upto \in Int /\ upto <= N
  <2>1. CASE noted # {}
    <3>1. noted \in SUBSET Nat /\ noted \in SUBSET Int /\ noted \in SUBSET (1 .. N)
      BY <1>1
    <3> HIDE DEF noted
    <3>2. PICK x \in noted : \A y \in noted : x <= y
      BY <2>1, <3>1, LeastExists
    <3>3. Min(noted) = x
      BY <3>1, <3>2, MinIs
    <3> QED
      BY <2>1, <3>1, <3>2, <3>3
  <2>2. CASE noted = {}
    BY <1>1, <2>2
  <2> QED
    BY <2>1, <2>2
<1>4. Heard(l) = [i \in 1 .. upto |-> Bare[ws[i]]]
  BY DEF Heard
<1> HIDE DEF upto, ws, noted
<1>5. PICK M \in Nat : M <= N /\ M = IF upto < 0 THEN 0 ELSE upto
  BY <1>3
<1>6. 1 .. M = 1 .. upto
  BY <1>3, <1>5
<1>7. Heard(l) \in [1 .. M -> Names]
  BY <1>2, <1>4, <1>5, <1>6
<1> QED
  BY <1>7

LEMMA PassLimits ==
  ASSUME NEW f \in Seq(Lines)
  PROVE  PassReads(f) \in Seq(PassNames) /\ Len(PassReads(f)) \in 1 .. MaxChord
<1> DEFINE about == {i \in DOMAIN f : f[i].key = "hotkey" /\ f[i].tight}
           m == Min(about)
           ws == Capitals(Heard(f[m]))
           known == Known(ws, PassNames)
<1>0. known = Known(ws, PassNames)
  OBVIOUS
<1>1. PassReads(f) = IF about = {} \/ known = <<>> THEN DefaultChord ELSE Cut(known)
  BY DEF PassReads
<1> HIDE DEF known
<1>2. CASE about = {} \/ known = <<>>
  <2>1. PassReads(f) = DefaultChord
    BY <1>1, <1>2
  <2> QED
    BY <2>1, DefaultChordTypes DEF MaxChord
<1>3. CASE about # {} /\ known # <<>>
  <2>1. PassReads(f) = Cut(known)
    BY <1>1, <1>3
  <2>2. m \in about
    <3>1. about \in SUBSET Nat /\ about \in SUBSET Int
      OBVIOUS
    <3> HIDE DEF about, m
    <3>2. PICK x \in about : \A y \in about : x <= y
      BY <1>3, <3>1, LeastExists
    <3>3. Min(about) = x
      BY <3>1, <3>2, MinIs
    <3> QED
      BY <3>2, <3>3 DEF m
  <2>3. f[m] \in Lines /\ f[m].key = "hotkey"
    BY <2>2, LinesOf
  <2> HIDE DEF m
  <2>4. f[m].words \in Seq(Names)
    BY <2>3, LineTypes
  <2>5. ws \in Seq(Names)
    BY <2>4, HeardTypes, CapitalsTypes
  <2> HIDE DEF ws
  <2>6. /\ Cut(known) \in Seq(Names \cap PassNames)
        /\ Len(Cut(known)) <= MaxChord /\ Len(Cut(known)) >= 1
    BY <1>0, <1>3, <2>5, CutKnown
  <2>7. Cut(known) \in Seq(PassNames)
    BY <2>6
  <2>8. PICK e \in Nat : e = Len(Cut(known))
    BY <2>7
  <2>9. e \in 1 .. MaxChord
    <3>1. e <= MaxChord /\ 1 <= e
      BY <2>6, <2>8
    <3> QED
      BY <3>1 DEF MaxChord
  <2> QED
    BY <2>1, <2>7, <2>8, <2>9
<1> QED
  BY <1>2, <1>3
-----------------------------------------------------------------------------
(* One chord, two readers.                                                 *)

\* A chord whose names are all known is kept whole.
LEMMA AllKnown ==
  ASSUME NEW ws \in Seq(Names), NEW names, \A i \in DOMAIN ws : ws[i] \in names
  PROVE  /\ Known(ws, names) = Picked(ws, DOMAIN ws)
         /\ ws # <<>> => Known(ws, names) # <<>>
<1>1. {i \in DOMAIN ws : ws[i] \in names} = DOMAIN ws
  OBVIOUS
<1>2. Known(ws, names) = Picked(ws, DOMAIN ws)
  BY <1>1 DEF Known
<1>3. ASSUME ws # <<>>
      PROVE  Picked(ws, DOMAIN ws) # <<>>
  <2>1. 1 \in DOMAIN ws
    BY <1>3, FirstOf
  <2>2. \E n \in DOMAIN Picked(ws, DOMAIN ws) : TRUE
    BY <2>1, PickedTypes
  <2> QED
    BY <2>2
<1> QED
  BY <1>2, <1>3

LEMMA ReadAlike ==
  ASSUME NEW f \in Seq(Lines),
         \A i, j \in About(f, "hotkey") : i = j,
         \A i \in About(f, "hotkey") :
           /\ f[i].tight /\ ~f[i].cr /\ f[i].words # <<>>
           /\ \A w \in ToSet(f[i].words) :
                Upper[w] \in MapperCodes["key"] \cap PassNames
  PROVE  MapperReads(f).chord = PassReads(f)
<1> DEFINE about == {i \in DOMAIN f : f[i].key = "hotkey" /\ f[i].tight}
           m == Min(about)
           read == Capitals(Heard(f[m]))
<1>1. PassReads(f) = IF about = {} \/ Known(read, PassNames) = <<>> THEN DefaultChord
                     ELSE Cut(Known(read, PassNames))
  BY DEF PassReads
<1>2. MapperReads(f).chord = IF About(f, "hotkey") = {} THEN DefaultChord
                             ELSE MapperChord(f[Max(About(f, "hotkey"))].words)
  BY MapperReadsLast
<1>3. about = About(f, "hotkey")
  BY DEF About
<1> HIDE DEF about
<1>4. CASE about = {}
  BY <1>1, <1>2, <1>3, <1>4
<1>5. CASE about # {}
  <2>1. PICK i \in about : about = {i}
    BY <1>3, <1>5
  <2>2. PICK N \in Nat : DOMAIN f = 1 .. N
    OBVIOUS
  <2>3. i \in DOMAIN f /\ i \in Int /\ f[i].key = "hotkey"
    BY <2>1, <2>2 DEF about
  <2>4. Max(About(f, "hotkey")) = i /\ m = i
    <3>1. about \in SUBSET Int /\ (\A j \in about : j <= i) /\ (\A j \in about : i <= j)
      BY <2>1, <2>3
    <3> QED
      BY <1>3, <3>1, MaxIs, MinIs
  <2> DEFINE ws == f[i].words
             names == MapperCodes["key"] \cap PassNames
  <2>5. ws # <<>> /\ ~f[i].cr /\ \A w \in ToSet(ws) : Upper[w] \in names
    BY <1>3, <2>1
  <2>6. f[i] \in Lines
    BY <2>3, LinesOf
  <2>7. ws \in Seq(Names)
    BY <2>3, <2>6, LineTypes
  <2>8. read = Capitals(Heard(f[i]))
    BY <2>4
  <2> HIDE DEF ws, m, read
  <2>9. \A n \in DOMAIN ws : ws[n] \in Names /\ Upper[ws[n]] \in names
    BY <2>5, <2>7 DEF ToSet
  <2>10. Heard(f[i]) = ws
    <3>1. \A n \in DOMAIN ws : Bare[ws[n]] = ws[n]
      BY <2>9, SpellingAssumption
    <3>2. ws = [n \in 1 .. Len(ws) |-> Bare[ws[n]]]
      BY <2>7, <3>1
    <3>3. {n \in DOMAIN ws : Bare[ws[n]] # ws[n]} = {}
      BY <3>1
    <3>4. Heard(f[i]) = [n \in 1 .. Len(ws) |-> Bare[ws[n]]]
      BY <2>5, <3>3 DEF Heard, ws
    <3> QED
      BY <3>2, <3>4
  <2>11. /\ read = Capitals(ws) /\ read \in Seq(Names) /\ read # <<>>
         /\ \A n \in DOMAIN read : read[n] \in names
    <3>1. PICK M \in Nat : M = Len(ws) /\ DOMAIN ws = 1 .. M /\ M # 0
      BY <2>5, <2>7
    <3>2. /\ Capitals(ws) \in Seq(Names) /\ Len(Capitals(ws)) = M
          /\ \A n \in 1 .. M : Capitals(ws)[n] = Upper[ws[n]]
      BY <2>7, <3>1, CapitalsTypes
    <3>3. DOMAIN Capitals(ws) = 1 .. M /\ Capitals(ws) # <<>>
      BY <3>1, <3>2
    <3> QED
      BY <2>8, <2>9, <2>10, <3>1, <3>2, <3>3
  <2>12. /\ Known(read, PassNames) = Picked(read, DOMAIN read)
         /\ Known(read, PassNames) # <<>>
         /\ Known(read, MapperCodes["key"]) = Picked(read, DOMAIN read)
    <3>1. /\ \A n \in DOMAIN read : read[n] \in PassNames
          /\ \A n \in DOMAIN read : read[n] \in MapperCodes["key"]
      BY <2>11
    <3> QED
      BY <2>11, <3>1, AllKnown
  <2>13. MapperReads(f).chord = MapperChord(ws)
    BY <1>2, <1>3, <1>5, <2>4 DEF ws
  <2>14. MapperChord(ws) = Cut(Known(read, MapperCodes["key"]))
    BY <2>11 DEF MapperChord
  <2> QED
    BY <1>1, <1>5, <2>12, <2>13, <2>14
<1> QED
  BY <1>4, <1>5
-----------------------------------------------------------------------------
(* kbm-web: reading.                                                       *)

LEMMA WebReading ==
  ASSUME NEW f, Len(f) \in Nat
  PROVE  \E g : /\ g[0] = Blank
                /\ \A n \in 1 .. Len(f) : g[n] = WebLine(g[n - 1], f[n])
                /\ WebReads(f) =
                     [g[Len(f)] EXCEPT !.binds = Sorted(@),
                                       !.chord = IF @ = <<>> THEN DefaultChord ELSE @]
<1> DEFINE Reads(g, m) ==
             g = [n \in 0 .. m |-> IF n = 0 THEN Blank
                                   ELSE WebLine(g[n - 1], f[n])]
           S == {m \in Nat : \E g : Reads(g, m)}
<1>1. PICK N \in Nat : N = Len(f)
  OBVIOUS
<1>2. 0 \in S
  <2> DEFINE g == [n \in 0 .. 0 |-> Blank]
  <2>1. Reads(g, 0)
    OBVIOUS
  <2> QED
    BY <2>1
<1>3. ASSUME NEW n \in Nat, n \in S
      PROVE  n + 1 \in S
  <2>1. PICK g : Reads(g, n)
    BY <1>3
  <2> DEFINE h == [k \in 0 .. n + 1 |-> IF k = n + 1 THEN WebLine(g[n], f[n + 1]) ELSE g[k]]
  <2>2. \A k \in 0 .. n : h[k] = g[k]
    OBVIOUS
  <2>3. \A k \in 0 .. n + 1 : h[k] = IF k = 0 THEN Blank ELSE WebLine(h[k - 1], f[k])
    <3> TAKE k \in 0 .. n + 1
    <3>1. CASE k = 0
      BY <2>1, <2>2, <3>1
    <3>2. CASE k \in 1 .. n
      <4>1. h[k] = g[k] /\ h[k - 1] = g[k - 1] /\ k \in 0 .. n /\ k # 0
        BY <2>2, <3>2
      <4>2. g[k] = WebLine(g[k - 1], f[k])
        BY <2>1, <4>1
      <4> QED
        BY <4>1, <4>2
    <3>3. CASE k = n + 1
      <4>1. h[k] = WebLine(g[n], f[n + 1]) /\ h[k - 1] = g[n] /\ k # 0
        BY <2>2, <3>3
      <4> QED
        BY <3>3, <4>1
    <3> QED
      BY <3>1, <3>2, <3>3
  <2>4. h = [k \in 0 .. n + 1 |-> h[k]]
    OBVIOUS
  <2> HIDE DEF h
  <2>5. Reads(h, n + 1)
    BY <2>3, <2>4
  <2> QED
    BY <2>5
<1>4. N \in S
  <2> HIDE DEF S
  <2>1. \A n \in Nat : n < N /\ n \in S => n + 1 \in S
    BY <1>3
  <2>2. \A n \in 0 .. N : n \in S
    BY <1>2, <2>1, Along
  <2> QED
    BY <2>2
<1>5. \E g : Reads(g, N)
  BY <1>4
<1> DEFINE read == CHOOSE g : Reads(g, N)
<1>6. Reads(read, N)
  BY <1>5
<1>7. WebReads(f) = [read[N] EXCEPT !.binds = Sorted(@),
                                    !.chord = IF @ = <<>> THEN DefaultChord ELSE @]
  BY <1>1 DEF WebReads
<1> HIDE DEF read
<1>8. /\ read[0] = Blank
      /\ \A n \in 1 .. N : read[n] = WebLine(read[n - 1], f[n])
  BY <1>6
<1> QED
  BY <1>1, <1>7, <1>8

Bindings == [key : Sources, of : Names, words : Seq(STRING) \ {<<>>}]
Forms ==
  [num : [NumKeys -> Int], word : [WordKeys -> STRING \cup {""}],
   binds : Seq(Bindings), chord : Seq(Names)]

BindingOf(l) == [key |-> l.key, of |-> l.of, words |-> l.words]

\* What one line does, by its key.
WebTakes(c, l, d) ==
  /\ l.key \in NumKeys =>
       d = [c EXCEPT !.num[l.key] = IF l.noted THEN 0 ELSE l.num]
  /\ l.key \in WordKeys => d = [c EXCEPT !.word[l.key] = l.words[1]]
  /\ l.key \in Sources => d = [c EXCEPT !.binds = Append(c.binds, BindingOf(l))]
  /\ l.key = "hotkey" => d = [c EXCEPT !.chord = Capitals(l.words)]

LEMMA WebLineTakes ==
  ASSUME NEW c, NEW l, l.key \in Keys
  PROVE  WebTakes(c, l, WebLine(c, l))
<1>1. CASE l.key \in NumKeys
  BY <1>1, KeyKinds DEF WebTakes, WebLine
<1>2. CASE l.key \in WordKeys
  BY <1>2, KeyKinds DEF WebTakes, WebLine
<1>3. CASE l.key \in Sources
  BY <1>3, KeyKinds DEF WebTakes, WebLine, BindingOf
<1>4. CASE l.key = "hotkey"
  BY <1>4, KeyKinds DEF WebTakes, WebLine
<1> QED
  BY <1>1, <1>2, <1>3, <1>4, KeyKinds

LEMMA FormChanges ==
  ASSUME NEW c \in Forms
  PROVE  /\ \A k \in NumKeys, n \in Int : [c EXCEPT !.num[k] = n] \in Forms
         /\ \A k \in WordKeys, a \in STRING : [c EXCEPT !.word[k] = a] \in Forms
         /\ \A bs \in Seq(Bindings) : [c EXCEPT !.binds = bs] \in Forms
         /\ \A ws \in Seq(Names) : [c EXCEPT !.chord = ws] \in Forms
<1>1. \A k \in NumKeys, n \in Int : [c EXCEPT !.num[k] = n] \in Forms
  BY DEF Forms
<1>2. \A k \in WordKeys, a \in STRING : [c EXCEPT !.word[k] = a] \in Forms
  BY DEF Forms
<1>3. \A bs \in Seq(Bindings) : [c EXCEPT !.binds = bs] \in Forms
  BY DEF Forms
<1>4. \A ws \in Seq(Names) : [c EXCEPT !.chord = ws] \in Forms
  BY DEF Forms
<1> QED
  BY <1>1, <1>2, <1>3, <1>4

\* What one line does to each part of the form.
FieldsAfter(c, l, d) ==
  /\ \A k \in NumKeys :
       d.num[k] = IF l.key = k THEN IF l.noted THEN 0 ELSE l.num ELSE c.num[k]
  /\ \A k \in WordKeys :
       d.word[k] = IF l.key = k THEN l.words[1] ELSE c.word[k]
  /\ d.binds = IF l.key \in Sources THEN Append(c.binds, BindingOf(l)) ELSE c.binds
  /\ d.chord = IF l.key = "hotkey" THEN Capitals(l.words) ELSE c.chord

LEMMA FormFields ==
  ASSUME NEW c \in Forms, NEW l, l.key \in Keys, NEW d, WebTakes(c, l, d)
  PROVE  FieldsAfter(c, l, d)
<1>1. /\ c = [num |-> c.num, word |-> c.word, binds |-> c.binds, chord |-> c.chord]
      /\ DOMAIN c.num = NumKeys /\ DOMAIN c.word = WordKeys
  BY DEF Forms
<1>2. CASE l.key \in NumKeys
  <2>1. l.key \notin WordKeys /\ l.key \notin Sources /\ l.key # "hotkey"
    BY <1>2, KeyKinds
  <2>2. d = [c EXCEPT !.num[l.key] = IF l.noted THEN 0 ELSE l.num]
    BY <1>2 DEF WebTakes
  <2>3. /\ d.num = [c.num EXCEPT ![l.key] = IF l.noted THEN 0 ELSE l.num]
        /\ d.word = c.word /\ d.binds = c.binds /\ d.chord = c.chord
    BY <1>1, <2>2
  <2> QED
    BY <1>1, <2>1, <2>3 DEF FieldsAfter
<1>3. CASE l.key \in WordKeys
  <2>1. l.key \notin NumKeys /\ l.key \notin Sources /\ l.key # "hotkey"
    BY <1>3, KeyKinds
  <2>2. d = [c EXCEPT !.word[l.key] = l.words[1]]
    BY <1>3 DEF WebTakes
  <2>3. /\ d.word = [c.word EXCEPT ![l.key] = l.words[1]]
        /\ d.num = c.num /\ d.binds = c.binds /\ d.chord = c.chord
    BY <1>1, <2>2
  <2> QED
    BY <1>1, <2>1, <2>3 DEF FieldsAfter
<1>4. CASE l.key \in Sources
  <2>1. l.key \notin NumKeys /\ l.key \notin WordKeys /\ l.key # "hotkey"
    BY <1>4, KeyKinds
  <2>2. d = [c EXCEPT !.binds = Append(c.binds, BindingOf(l))]
    BY <1>4 DEF WebTakes
  <2>3. /\ d.binds = Append(c.binds, BindingOf(l))
        /\ d.num = c.num /\ d.word = c.word /\ d.chord = c.chord
    BY <1>1, <2>2
  <2> QED
    BY <1>4, <2>1, <2>3 DEF FieldsAfter
<1>5. CASE l.key = "hotkey"
  <2>1. l.key \notin NumKeys /\ l.key \notin WordKeys /\ l.key \notin Sources
    BY <1>5, KeyKinds
  <2>2. d = [c EXCEPT !.chord = Capitals(l.words)]
    BY <1>5 DEF WebTakes
  <2>3. /\ d.chord = Capitals(l.words)
        /\ d.num = c.num /\ d.word = c.word /\ d.binds = c.binds
    BY <1>1, <2>2
  <2> QED
    BY <1>5, <2>1, <2>3 DEF FieldsAfter
<1> QED
  BY <1>2, <1>3, <1>4, <1>5, KeyKinds

\* The lines with bindings, and the bindings read from them: one from each.
Sourced(f) == {i \in DOMAIN f : f[i].key \in Sources}
Traces(p, bs, f, S) ==
  /\ p \in [DOMAIN bs -> S]
  /\ \A i \in S : \E j \in DOMAIN bs : p[j] = i
  /\ \A j \in DOMAIN bs : bs[j] = BindingOf(f[p[j]])
InTurn(p, bs) == \A j, k \in DOMAIN bs : j < k => p[j] < p[k]

\* What the form knows after n lines.
FormNum(c, f, n) ==
  \A k \in NumKeys :
    c.num[k] = IF Upto(About(f, k), n) = {} THEN DefaultNum(k)
               ELSE IF f[Max(Upto(About(f, k), n))].noted THEN 0
               ELSE f[Max(Upto(About(f, k), n))].num
FormWord(c, f, n) ==
  \A k \in WordKeys :
    c.word[k] = IF Upto(About(f, k), n) = {} THEN ""
                ELSE f[Max(Upto(About(f, k), n))].words[1]
FormBinds(c, f, n) ==
  \E p : Traces(p, c.binds, f, Upto(Sourced(f), n)) /\ InTurn(p, c.binds)
FormChord(c, f, n) ==
  c.chord = IF Upto(About(f, "hotkey"), n) = {} THEN <<>>
            ELSE Capitals(f[Max(Upto(About(f, "hotkey"), n))].words)

FormKnows(c, f, n) ==
  /\ c \in Forms
  /\ FormNum(c, f, n) /\ FormWord(c, f, n) /\ FormBinds(c, f, n) /\ FormChord(c, f, n)

LEMMA BlankForm == ASSUME NEW f PROVE FormKnows(Blank, f, 0)
<1>1. \A P : Upto(P, 0) = {}
  BY DEF Upto
<1>2. /\ FormNum(Blank, f, 0) /\ FormWord(Blank, f, 0) /\ FormChord(Blank, f, 0)
  BY <1>1 DEF FormNum, FormWord, FormChord, Blank
<1>3. FormBinds(Blank, f, 0)
  <2> DEFINE p == [j \in {} |-> 0]
  <2>1. DOMAIN Blank.binds = {} /\ p \in [{} -> {}]
    BY DEF Blank
  <2>2. Traces(p, Blank.binds, f, {}) /\ InTurn(p, Blank.binds)
    BY <2>1 DEF Traces, InTurn
  <2> HIDE DEF p
  <2> QED
    BY <1>1, <2>2 DEF FormBinds
<1>4. Blank \in Forms
  <2>1. [k \in NumKeys |-> DefaultNum(k)] \in [NumKeys -> Int]
    BY DefaultsTypes
  <2>2. [k \in WordKeys |-> ""] \in [WordKeys -> STRING \cup {""}]
    OBVIOUS
  <2>3. <<>> \in Seq(Bindings) /\ <<>> \in Seq(Names)
    OBVIOUS
  <2> QED
    BY <2>1, <2>2, <2>3 DEF Blank, Forms
<1> QED
  BY <1>2, <1>3, <1>4 DEF FormKnows

LEMMA BindingTypes ==
  ASSUME NEW l \in Lines, l.key \in Sources
  PROVE  BindingOf(l) \in Bindings
<1>1. l.of \in Names /\ l.words \in Seq(STRING) /\ l.words # <<>>
  BY LineTypes
<1> QED
  BY <1>1 DEF BindingOf, Bindings

\* One more binding, from the next line.
LEMMA TracesGrow ==
  ASSUME NEW f \in Seq(Lines), NEW n \in 1 .. Len(f), f[n].key \in Sources,
         NEW bs \in Seq(Bindings), NEW p,
         Traces(p, bs, f, Upto(Sourced(f), n - 1)), InTurn(p, bs)
  PROVE  \E q : /\ Traces(q, Append(bs, BindingOf(f[n])), f, Upto(Sourced(f), n))
                /\ InTurn(q, Append(bs, BindingOf(f[n])))
<1> DEFINE S == Upto(Sourced(f), n - 1)
           T == Upto(Sourced(f), n)
           b == BindingOf(f[n])
           cs == Append(bs, b)
<1>1. PICK N \in Nat : N = Len(f) /\ DOMAIN f = 1 .. N
  OBVIOUS
<1>2. PICK m \in Nat : m = Len(bs) /\ DOMAIN bs = 1 .. m
  OBVIOUS
<1>3. /\ DOMAIN cs = 1 .. m + 1 /\ cs[m + 1] = b
      /\ \A j \in 1 .. m : cs[j] = bs[j]
  BY <1>2
<1>4. n \in Sourced(f) /\ n \in Nat /\ n \in T
  BY <1>1 DEF Sourced, Upto
<1>5. T = S \cup {n} /\ \A i \in S : i < n
  BY <1>4 DEF Upto
<1>6. /\ p \in [1 .. m -> S]
      /\ \A i \in S : \E j \in 1 .. m : p[j] = i
      /\ \A j \in 1 .. m : bs[j] = BindingOf(f[p[j]])
      /\ \A j, k \in 1 .. m : j < k => p[j] < p[k]
  BY <1>2 DEF Traces, InTurn
<1> DEFINE q == [j \in 1 .. m + 1 |-> IF j = m + 1 THEN n ELSE p[j]]
<1> HIDE DEF S, T, b, cs
<1>7. q[m + 1] = n /\ \A j \in 1 .. m : q[j] = p[j]
  BY <1>2
<1>8. q \in [1 .. m + 1 -> T]
  BY <1>2, <1>5, <1>6
<1> HIDE DEF q
<1>9. \A i \in T : \E j \in 1 .. m + 1 : q[j] = i
  <2> TAKE i \in T
  <2>1. CASE i = n
    BY <2>1, <1>7, <1>2
  <2>2. CASE i \in S
    <3>1. PICK j \in 1 .. m : p[j] = i
      BY <2>2, <1>6
    <3> QED
      BY <3>1, <1>7, <1>2
  <2> QED
    BY <2>1, <2>2, <1>5
<1>10. \A j \in 1 .. m + 1 : cs[j] = BindingOf(f[q[j]])
  <2> TAKE j \in 1 .. m + 1
  <2>1. CASE j = m + 1
    BY <2>1, <1>3, <1>7 DEF b
  <2>2. CASE j \in 1 .. m
    BY <2>2, <1>3, <1>6, <1>7
  <2> QED
    BY <2>1, <2>2, <1>2
<1>11. \A j, k \in 1 .. m + 1 : j < k => q[j] < q[k]
  <2> SUFFICES ASSUME NEW j \in 1 .. m + 1, NEW k \in 1 .. m + 1, j < k
               PROVE  q[j] < q[k]
    OBVIOUS
  <2>1. j \in 1 .. m /\ q[j] = p[j] /\ p[j] \in S
    BY <1>2, <1>6, <1>7, SMTT(20)
  <2>2. CASE k = m + 1
    BY <2>1, <2>2, <1>5, <1>7
  <2>3. CASE k \in 1 .. m
    BY <2>1, <2>3, <1>6, <1>7
  <2> QED
    BY <2>2, <2>3, <1>2
<1>12. Traces(q, cs, f, T) /\ InTurn(q, cs)
  BY <1>3, <1>8, <1>9, <1>10, <1>11 DEF Traces, InTurn
<1> QED
  BY <1>12 DEF cs, T, b

LEMMA FormLearns ==
  ASSUME NEW f \in Seq(Lines), NEW n \in 1 .. Len(f), NEW c,
         FormKnows(c, f, n - 1)
  PROVE  FormKnows(WebLine(c, f[n]), f, n)
<1> DEFINE l == f[n]
           d == WebLine(c, l)
<1>1. n \in Nat \ {0} /\ n \in DOMAIN f /\ l \in Lines
  <2>1. PICK N \in Nat : N = Len(f) /\ f \in [1 .. N -> Lines]
    OBVIOUS
  <2> QED
    BY <2>1
<1> HIDE DEF l
<1>2. /\ l.key \in Keys /\ l.num \in Int
      /\ l.key \in WordKeys \cup Sources => l.words[1] \in STRING
      /\ l.key = "hotkey" => l.words \in Seq(Names)
  BY <1>1, LineTypes
<1>3. WebTakes(c, l, d)
  BY <1>2, WebLineTakes
<1> HIDE DEF d
<1>4. /\ c \in Forms
      /\ FormNum(c, f, n - 1) /\ FormWord(c, f, n - 1)
      /\ FormBinds(c, f, n - 1) /\ FormChord(c, f, n - 1)
  BY DEF FormKnows
<1>4a. FieldsAfter(c, l, d)
  BY <1>2, <1>3, <1>4, FormFields
<1>5. d \in Forms
  <2>1. CASE l.key \in NumKeys
    <3>1. d = [c EXCEPT !.num[l.key] = IF l.noted THEN 0 ELSE l.num]
      BY <2>1, <1>3 DEF WebTakes
    <3>2. (IF l.noted THEN 0 ELSE l.num) \in Int
      BY <1>2
    <3> QED
      BY <2>1, <3>1, <3>2, <1>4, FormChanges
  <2>2. CASE l.key \in WordKeys
    <3>1. d = [c EXCEPT !.word[l.key] = l.words[1]] /\ l.words[1] \in STRING
      BY <2>2, <1>2, <1>3 DEF WebTakes
    <3> QED
      BY <2>2, <3>1, <1>4, FormChanges
  <2>3. CASE l.key \in Sources
    <3>1. d = [c EXCEPT !.binds = Append(c.binds, BindingOf(l))]
      BY <2>3, <1>3 DEF WebTakes
    <3>2. c.binds \in Seq(Bindings) /\ BindingOf(l) \in Bindings
      BY <2>3, <1>1, <1>4, BindingTypes DEF Forms
    <3>3. Append(c.binds, BindingOf(l)) \in Seq(Bindings)
      BY <3>2
    <3> QED
      BY <3>1, <3>3, <1>4, FormChanges
  <2>4. CASE l.key = "hotkey"
    <3>1. d = [c EXCEPT !.chord = Capitals(l.words)]
      BY <2>4, <1>3 DEF WebTakes
    <3>2. Capitals(l.words) \in Seq(Names)
      BY <2>4, <1>2, CapitalsTypes
    <3> QED
      BY <3>1, <3>2, <1>4, FormChanges
  <2> QED
    BY <2>1, <2>2, <2>3, <2>4, <1>2, KeyKinds
<1>6. FormNum(d, f, n)
  <2> SUFFICES ASSUME NEW k \in NumKeys
               PROVE  d.num[k] = IF Upto(About(f, k), n) = {} THEN DefaultNum(k)
                                 ELSE IF f[Max(Upto(About(f, k), n))].noted THEN 0
                                 ELSE f[Max(Upto(About(f, k), n))].num
    BY DEF FormNum
  <2>1. n \in About(f, k) <=> l.key = k
    BY <1>1 DEF About, l
  <2>2. CASE l.key = k
    <3>1. d.num[k] = IF l.noted THEN 0 ELSE l.num
      BY <2>2, <1>4a DEF FieldsAfter
    <3>2. Upto(About(f, k), n) # {} /\ Max(Upto(About(f, k), n)) = n
      BY <2>1, <2>2, <1>1, Grows
    <3> QED
      BY <3>1, <3>2 DEF l
  <2>3. CASE l.key # k
    <3>1. d.num[k] = c.num[k]
      BY <2>3, <1>4a DEF FieldsAfter
    <3>2. Upto(About(f, k), n) = Upto(About(f, k), n - 1)
      BY <2>1, <2>3, <1>1, Grows
    <3> QED
      BY <3>1, <3>2, <1>4 DEF FormNum
  <2> QED
    BY <2>2, <2>3
<1>7. FormWord(d, f, n)
  <2> SUFFICES ASSUME NEW k \in WordKeys
               PROVE  d.word[k] = IF Upto(About(f, k), n) = {} THEN ""
                                  ELSE f[Max(Upto(About(f, k), n))].words[1]
    BY DEF FormWord
  <2>1. n \in About(f, k) <=> l.key = k
    BY <1>1 DEF About, l
  <2>2. CASE l.key = k
    <3>1. d.word[k] = l.words[1]
      BY <2>2, <1>4a DEF FieldsAfter
    <3>2. Upto(About(f, k), n) # {} /\ Max(Upto(About(f, k), n)) = n
      BY <2>1, <2>2, <1>1, Grows
    <3> QED
      BY <3>1, <3>2 DEF l
  <2>3. CASE l.key # k
    <3>1. d.word[k] = c.word[k]
      BY <2>3, <1>4a DEF FieldsAfter
    <3>2. Upto(About(f, k), n) = Upto(About(f, k), n - 1)
      BY <2>1, <2>3, <1>1, Grows
    <3> QED
      BY <3>1, <3>2, <1>4 DEF FormWord
  <2> QED
    BY <2>2, <2>3
<1>8. FormBinds(d, f, n)
  <2>1. n \in Sourced(f) <=> l.key \in Sources
    BY <1>1 DEF Sourced, l
  <2>2. PICK p : Traces(p, c.binds, f, Upto(Sourced(f), n - 1)) /\ InTurn(p, c.binds)
    BY <1>4 DEF FormBinds
  <2>3. CASE l.key \in Sources
    <3>1. d.binds = Append(c.binds, BindingOf(l)) /\ c.binds \in Seq(Bindings)
      BY <2>3, <1>4, <1>4a DEF FieldsAfter, Forms
    <3>2. \E q : /\ Traces(q, Append(c.binds, BindingOf(f[n])), f, Upto(Sourced(f), n))
                 /\ InTurn(q, Append(c.binds, BindingOf(f[n])))
      <4>1. f[n].key \in Sources
        BY <2>3 DEF l
      <4> QED
        BY <2>2, <3>1, <4>1, TracesGrow
    <3> QED
      BY <3>1, <3>2 DEF FormBinds, l
  <2>4. CASE l.key \notin Sources
    <3>1. d.binds = c.binds
      BY <2>4, <1>4a DEF FieldsAfter
    <3>2. Upto(Sourced(f), n) = Upto(Sourced(f), n - 1)
      BY <2>1, <2>4, <1>1, Grows
    <3> QED
      BY <3>1, <3>2, <1>4 DEF FormBinds
  <2> QED
    BY <2>3, <2>4
<1>9. FormChord(d, f, n)
  <2>1. n \in About(f, "hotkey") <=> l.key = "hotkey"
    BY <1>1 DEF About, l
  <2>2. CASE l.key = "hotkey"
    <3>1. d.chord = Capitals(l.words)
      BY <2>2, <1>4a DEF FieldsAfter
    <3>2. Upto(About(f, "hotkey"), n) # {} /\ Max(Upto(About(f, "hotkey"), n)) = n
      BY <2>1, <2>2, <1>1, Grows
    <3> QED
      BY <3>1, <3>2 DEF l, FormChord
  <2>3. CASE l.key # "hotkey"
    <3>1. d.chord = c.chord
      BY <2>3, <1>4a DEF FieldsAfter
    <3>2. Upto(About(f, "hotkey"), n) = Upto(About(f, "hotkey"), n - 1)
      BY <2>1, <2>3, <1>1, Grows
    <3> QED
      BY <3>1, <3>2, <1>4 DEF FormChord
  <2> QED
    BY <2>2, <2>3
<1> QED
  BY <1>5, <1>6, <1>7, <1>8, <1>9 DEF FormKnows, d, l

LEMMA FormKnowsFile ==
  ASSUME NEW f \in Seq(Lines)
  PROVE  \E c : /\ FormKnows(c, f, Len(f))
                /\ WebReads(f) = [c EXCEPT !.binds = Sorted(@),
                                           !.chord = IF @ = <<>> THEN DefaultChord ELSE @]
<1>1. PICK N \in Nat : N = Len(f)
  OBVIOUS
<1>2. PICK g : /\ g[0] = Blank
               /\ \A n \in 1 .. N : g[n] = WebLine(g[n - 1], f[n])
               /\ WebReads(f) =
                    [g[N] EXCEPT !.binds = Sorted(@),
                                 !.chord = IF @ = <<>> THEN DefaultChord ELSE @]
  BY <1>1, WebReading
<1> DEFINE S == {n \in 0 .. N : FormKnows(g[n], f, n)}
<1>3. 0 \in S
  BY <1>2, BlankForm
<1>4. ASSUME NEW n \in Nat, n < N, n \in S
      PROVE  n + 1 \in S
  <2>1. n + 1 \in 1 .. Len(f) /\ (n + 1) - 1 = n /\ FormKnows(g[n], f, n)
    BY <1>1, <1>4
  <2>2. FormKnows(WebLine(g[n], f[n + 1]), f, n + 1)
    BY <2>1, FormLearns
  <2>3. g[n + 1] = WebLine(g[n], f[n + 1])
    BY <1>1, <1>2, <2>1
  <2> QED
    BY <1>1, <2>1, <2>2, <2>3
<1>5. N \in S
  <2> HIDE DEF S
  <2>1. \A n \in 0 .. N : n \in S
    BY <1>3, <1>4, Along
  <2> QED
    BY <2>1
<1>6. FormKnows(g[N], f, Len(f))
  BY <1>1, <1>5
<1> QED
  BY <1>2, <1>6
-----------------------------------------------------------------------------
(* kbm-web: the stable sort.                                               *)

LEMMA PlaceType ==
  ASSUME NEW b \in Bindings
  PROVE  Place(b) \in Int
<1>1. b.of \in Names
  BY DEF Bindings
<1>2. PICK N \in Nat : N = Len(Order) /\ DOMAIN Order = 1 .. N
  BY SpellingAssumption
<1>3. \E i \in DOMAIN Order : Order[i] = b.of
  BY <1>1, SpellingAssumption DEF ToSet
<1> DEFINE n == CHOOSE i \in DOMAIN Order : Order[i] = b.of
<1>4. n \in DOMAIN Order
  BY <1>3
<1>5. Place(b) = (IF b.key = "mouse" THEN N ELSE 0) + n
  BY <1>2 DEF Place
<1> HIDE DEF n
<1> QED
  BY <1>2, <1>4, <1>5

\* at puts bs in order; what has the same place keeps its turn.
Sorts(at, bs) ==
  /\ at \in [DOMAIN bs -> DOMAIN bs]
  /\ \A i \in DOMAIN bs : \E j \in DOMAIN bs : at[j] = i
  /\ Sorted(bs) = [j \in DOMAIN bs |-> bs[at[j]]]
  /\ \A j, k \in DOMAIN bs :
       j < k /\ Place(bs[at[j]]) = Place(bs[at[k]]) => at[j] < at[k]

LEMMA SortedIs ==
  ASSUME NEW bs \in Seq(Bindings)
  PROVE  \E at : Sorts(at, bs)
<1> DEFINE all == DOMAIN bs
           before(i, j) == \/ Place(bs[i]) < Place(bs[j])
                           \/ Place(bs[i]) = Place(bs[j]) /\ i < j
           R == {p \in all \X all : before(p[1], p[2])}
           at == InOrder(all, R)
<1>1. PICK N \in Nat : N = Len(bs) /\ all = 1 .. N
  OBVIOUS
<1>2. IsFiniteSet(all) /\ Cardinality(all) = N
  <2>1. N \in Nat
    BY <1>1
  <2>2. IsFiniteSet(1 .. N) /\ Cardinality(1 .. N) = N
    BY <2>1, FS_Interval
  <2> QED
    BY <1>1, <2>2
<1>3. \A i \in all : i \in Int /\ bs[i] \in Bindings
  BY <1>1
<1>4. \A i \in all : Place(bs[i]) \in Int
  BY <1>3, PlaceType
<1>5. \A i, j \in all : <<i, j>> \in R <=> before(i, j)
  OBVIOUS
<1>6. Sorted(bs) = [i \in all |-> bs[at[i]]]
  BY DEF Sorted
<1> HIDE DEF R, at
<1>7. Orders(R, all)
  <2> HIDE DEF all
  <2>1. \A i \in all : <<i, i>> \notin R
    BY <1>3, <1>4, <1>5
  <2>2. \A i, j \in all : i # j => <<i, j>> \in R \/ <<j, i>> \in R
    BY <1>3, <1>4, <1>5
  <2>3. \A i, j, k \in all : <<i, j>> \in R /\ <<j, k>> \in R => <<i, k>> \in R
    BY <1>3, <1>4, <1>5
  <2> QED
    BY <2>1, <2>2, <2>3 DEF Orders
<1>8. Enumerates(at, all, R)
  <2> HIDE DEF all
  <2> QED
    BY <1>2, <1>7, InOrderEnumerates DEF at
<1>9. /\ at \in [all -> all]
      /\ \A i \in all : \E j \in all : at[j] = i
      /\ \A j, k \in all : j < k => <<at[j], at[k]>> \in R
  BY <1>1, <1>2, <1>8 DEF Enumerates
<1>10. \A j, k \in all : j < k /\ Place(bs[at[j]]) = Place(bs[at[k]]) => at[j] < at[k]
  <2> SUFFICES ASSUME NEW j \in all, NEW k \in all, j < k,
                      Place(bs[at[j]]) = Place(bs[at[k]])
               PROVE  at[j] < at[k]
    OBVIOUS
  <2> HIDE DEF all
  <2>1. at[j] \in all /\ at[k] \in all /\ <<at[j], at[k]>> \in R
    BY <1>9
  <2>2. before(at[j], at[k]) /\ Place(bs[at[j]]) \in Int /\ Place(bs[at[k]]) \in Int
    BY <2>1, <1>4, <1>5
  <2> QED
    BY <2>2
<1> QED
  BY <1>6, <1>9, <1>10 DEF Sorts

\* Bindings for one spelling come in the order of their lines.
SpellingsInTurn(p, bs) ==
  \A j, k \in DOMAIN bs :
    j < k /\ bs[j].key = bs[k].key /\ bs[j].of = bs[k].of => p[j] < p[k]

LEMMA SortedTraces ==
  ASSUME NEW f, NEW bs \in Seq(Bindings), NEW p, NEW S \in SUBSET Int,
         Traces(p, bs, f, S), InTurn(p, bs)
  PROVE  /\ Sorted(bs) \in Seq(Bindings)
         /\ \E q : Traces(q, Sorted(bs), f, S) /\ SpellingsInTurn(q, Sorted(bs))
<1>1. PICK N \in Nat : N = Len(bs) /\ DOMAIN bs = 1 .. N /\ bs \in [1 .. N -> Bindings]
  OBVIOUS
<1>2. PICK at : Sorts(at, bs)
  BY SortedIs
<1> DEFINE cs == Sorted(bs)
<1>3. /\ at \in [1 .. N -> 1 .. N]
      /\ \A i \in 1 .. N : \E j \in 1 .. N : at[j] = i
      /\ cs = [j \in 1 .. N |-> bs[at[j]]]
      /\ \A j, k \in 1 .. N :
           j < k /\ Place(bs[at[j]]) = Place(bs[at[k]]) => at[j] < at[k]
  BY <1>1, <1>2 DEF Sorts
<1>4. /\ p \in [1 .. N -> S]
      /\ \A i \in S : \E j \in 1 .. N : p[j] = i
      /\ \A j \in 1 .. N : bs[j] = BindingOf(f[p[j]])
      /\ \A j, k \in 1 .. N : j < k => p[j] < p[k]
  BY <1>1 DEF Traces, InTurn
<1> HIDE DEF cs
<1>5. cs \in [1 .. N -> Bindings] /\ DOMAIN cs = 1 .. N
  BY <1>1, <1>3
<1> DEFINE q == [j \in 1 .. N |-> p[at[j]]]
<1>6. q \in [1 .. N -> S] /\ \A j \in 1 .. N : q[j] = p[at[j]] /\ at[j] \in 1 .. N
  BY <1>3, <1>4
<1> HIDE DEF q
<1>7. \A i \in S : \E j \in 1 .. N : q[j] = i
  <2> TAKE i \in S
  <2>1. PICK m \in 1 .. N : p[m] = i
    BY <1>4
  <2>2. PICK j \in 1 .. N : at[j] = m
    BY <1>3
  <2> QED
    BY <2>1, <2>2, <1>6
<1>8. \A j \in 1 .. N : cs[j] = BindingOf(f[q[j]])
  BY <1>3, <1>4, <1>6
<1>9. \A j, k \in 1 .. N :
        j < k /\ cs[j].key = cs[k].key /\ cs[j].of = cs[k].of => q[j] < q[k]
  <2> SUFFICES ASSUME NEW j \in 1 .. N, NEW k \in 1 .. N, j < k,
                      cs[j].key = cs[k].key, cs[j].of = cs[k].of
               PROVE  q[j] < q[k]
    OBVIOUS
  <2>1. Place(cs[j]) = Place(cs[k])
    BY DEF Place
  <2>2. at[j] < at[k]
    BY <2>1, <1>3
  <2> QED
    BY <2>2, <1>4, <1>6
<1>10. Traces(q, cs, f, S) /\ SpellingsInTurn(q, cs)
  BY <1>5, <1>6, <1>7, <1>8, <1>9 DEF Traces, SpellingsInTurn
<1>11. cs \in Seq(Bindings)
  BY <1>5
<1> QED
  BY <1>10, <1>11 DEF cs

\* What kbm-web reads: for each key the last line about it, the bindings of all
\* lines, and a chord that is never empty.
LEMMA WebReadsLast ==
  ASSUME NEW f \in Seq(Lines)
  PROVE  /\ WebReads(f) \in Forms
         /\ \A k \in NumKeys :
              WebReads(f).num[k] = IF About(f, k) = {} THEN DefaultNum(k)
                                   ELSE IF f[Max(About(f, k))].noted THEN 0
                                   ELSE f[Max(About(f, k))].num
         /\ \A k \in WordKeys :
              WebReads(f).word[k] = IF About(f, k) = {} THEN ""
                                    ELSE f[Max(About(f, k))].words[1]
         /\ \E p : /\ Traces(p, WebReads(f).binds, f, Sourced(f))
                   /\ SpellingsInTurn(p, WebReads(f).binds)
         /\ \E ws : /\ WebReads(f).chord = IF ws = <<>> THEN DefaultChord ELSE ws
                    /\ ws = IF About(f, "hotkey") = {} THEN <<>>
                            ELSE Capitals(f[Max(About(f, "hotkey"))].words)
<1> DEFINE N == Len(f)
           w == WebReads(f)
<1>1. PICK c : /\ FormKnows(c, f, N)
               /\ w = [c EXCEPT !.binds = Sorted(@),
                                !.chord = IF @ = <<>> THEN DefaultChord ELSE @]
  BY FormKnowsFile
<1>2. /\ c \in Forms /\ FormNum(c, f, N) /\ FormWord(c, f, N)
      /\ FormBinds(c, f, N) /\ FormChord(c, f, N)
  BY <1>1 DEF FormKnows
<1>3. /\ \A k : Upto(About(f, k), N) = About(f, k)
      /\ Upto(Sourced(f), N) = Sourced(f) /\ Sourced(f) \in SUBSET Int
  <2>1. Sourced(f) \in SUBSET (DOMAIN f)
    BY DEF Sourced
  <2>2. PICK M \in Nat : DOMAIN f = 1 .. M
    OBVIOUS
  <2> QED
    BY <2>1, <2>2, LinesOf
<1> HIDE DEF N, w
<1>4. c = [num |-> c.num, word |-> c.word, binds |-> c.binds, chord |-> c.chord]
  BY <1>2 DEF Forms
<1>5. /\ w.num = c.num /\ w.word = c.word /\ w.binds = Sorted(c.binds)
      /\ w.chord = IF c.chord = <<>> THEN DefaultChord ELSE c.chord
      /\ w = [num |-> w.num, word |-> w.word, binds |-> w.binds, chord |-> w.chord]
  BY <1>1, <1>4
<1>6. PICK p : Traces(p, c.binds, f, Sourced(f)) /\ InTurn(p, c.binds)
  BY <1>2, <1>3 DEF FormBinds
<1>7. c.binds \in Seq(Bindings)
  BY <1>2 DEF Forms
<1>8. /\ Sorted(c.binds) \in Seq(Bindings)
      /\ \E q : Traces(q, Sorted(c.binds), f, Sourced(f)) /\ SpellingsInTurn(q, Sorted(c.binds))
  BY <1>3, <1>6, <1>7, SortedTraces
<1>9. w \in Forms
  <2>1. w.num \in [NumKeys -> Int] /\ w.word \in [WordKeys -> STRING \cup {""}]
    BY <1>2, <1>5 DEF Forms
  <2>2. w.chord \in Seq(Names)
    BY <1>2, <1>5, DefaultChordTypes DEF Forms
  <2> QED
    BY <1>5, <1>8, <2>1, <2>2 DEF Forms
<1>10. \A k \in NumKeys :
         w.num[k] = IF About(f, k) = {} THEN DefaultNum(k)
                    ELSE IF f[Max(About(f, k))].noted THEN 0
                    ELSE f[Max(About(f, k))].num
  BY <1>2, <1>3, <1>5 DEF FormNum
<1>11. \A k \in WordKeys :
         w.word[k] = IF About(f, k) = {} THEN "" ELSE f[Max(About(f, k))].words[1]
  BY <1>2, <1>3, <1>5 DEF FormWord
<1>12. c.chord = IF About(f, "hotkey") = {} THEN <<>>
                 ELSE Capitals(f[Max(About(f, "hotkey"))].words)
  BY <1>2, <1>3 DEF FormChord
<1>13. \E ws : /\ w.chord = IF ws = <<>> THEN DefaultChord ELSE ws
               /\ ws = IF About(f, "hotkey") = {} THEN <<>>
                       ELSE Capitals(f[Max(About(f, "hotkey"))].words)
  BY <1>5, <1>12
<1> QED
  BY <1>5, <1>8, <1>9, <1>10, <1>11, <1>13 DEF w
-----------------------------------------------------------------------------
(* kbm-web: what it writes.                                                *)

\* f consists of the four parts one after the other.
Joins(f, A, B, C, D) ==
  /\ \A i \in DOMAIN A : i \in DOMAIN f /\ f[i] = A[i]
  /\ \A i \in DOMAIN B : Len(A) + i \in DOMAIN f /\ f[Len(A) + i] = B[i]
  /\ \A i \in DOMAIN C :
       Len(A) + Len(B) + i \in DOMAIN f /\ f[Len(A) + Len(B) + i] = C[i]
  /\ \A i \in DOMAIN D :
       /\ Len(A) + Len(B) + Len(C) + i \in DOMAIN f
       /\ f[Len(A) + Len(B) + Len(C) + i] = D[i]
  /\ \A j \in DOMAIN f :
       \/ \E i \in DOMAIN A : j = i
       \/ \E i \in DOMAIN B : j = Len(A) + i
       \/ \E i \in DOMAIN C : j = Len(A) + Len(B) + i
       \/ \E i \in DOMAIN D : j = Len(A) + Len(B) + Len(C) + i

LEMMA TwoParts ==
  ASSUME NEW T, NEW X \in Seq(T), NEW Y \in Seq(T)
  PROVE  /\ X \o Y \in Seq(T) /\ Len(X \o Y) = Len(X) + Len(Y)
         /\ \A i \in 1 .. Len(X) : (X \o Y)[i] = X[i]
         /\ \A i \in 1 .. Len(Y) : (X \o Y)[Len(X) + i] = Y[i]
OBVIOUS

LEMMA FourParts ==
  ASSUME NEW T, NEW A \in Seq(T), NEW B \in Seq(T), NEW C \in Seq(T), NEW D \in Seq(T)
  PROVE  /\ A \o B \o C \o D \in Seq(T)
         /\ Joins(A \o B \o C \o D, A, B, C, D)
<1>1. PICK a \in Nat : a = Len(A) /\ DOMAIN A = 1 .. a
  OBVIOUS
<1>2. PICK b \in Nat : b = Len(B) /\ DOMAIN B = 1 .. b
  OBVIOUS
<1>3. PICK m \in Nat : m = Len(C) /\ DOMAIN C = 1 .. m
  OBVIOUS
<1>4. PICK d \in Nat : d = Len(D) /\ DOMAIN D = 1 .. d
  OBVIOUS
<1> DEFINE AB == A \o B
           ABC == AB \o C
           F == ABC \o D
<1>5. /\ AB \in Seq(T) /\ Len(AB) = a + b
      /\ \A i \in 1 .. a : AB[i] = A[i]
      /\ \A i \in 1 .. b : AB[a + i] = B[i]
  BY <1>1, <1>2
<1> HIDE DEF AB
<1>6. /\ ABC \in Seq(T) /\ Len(ABC) = a + b + m
      /\ \A i \in 1 .. a + b : ABC[i] = AB[i]
      /\ \A i \in 1 .. m : ABC[a + b + i] = C[i]
  <2>1. /\ ABC \in Seq(T) /\ Len(ABC) = Len(AB) + Len(C)
        /\ \A i \in 1 .. Len(AB) : ABC[i] = AB[i]
        /\ \A i \in 1 .. Len(C) : ABC[Len(AB) + i] = C[i]
    <3>1. AB \in Seq(T)
      BY <1>5
    <3> QED
      BY ONLY <3>1, C \in Seq(T), TwoParts
  <2> HIDE DEF ABC
  <2> QED
    BY <2>1, <1>3, <1>5
<1> HIDE DEF ABC
<1>7. /\ F \in Seq(T) /\ Len(F) = a + b + m + d
      /\ \A i \in 1 .. a + b + m : F[i] = ABC[i]
      /\ \A i \in 1 .. d : F[a + b + m + i] = D[i]
  <2>1. /\ F \in Seq(T) /\ Len(F) = Len(ABC) + Len(D)
        /\ \A i \in 1 .. Len(ABC) : F[i] = ABC[i]
        /\ \A i \in 1 .. Len(D) : F[Len(ABC) + i] = D[i]
    <3>1. ABC \in Seq(T)
      BY <1>6
    <3> QED
      BY ONLY <3>1, D \in Seq(T), TwoParts
  <2> HIDE DEF F
  <2> QED
    BY <2>1, <1>4, <1>6
<1>8. F = A \o B \o C \o D
  BY DEF AB, ABC
<1> HIDE DEF F
<1>9. DOMAIN F = 1 .. a + b + m + d
  BY <1>7
<1>10. \A i \in 1 .. a : i \in DOMAIN F /\ F[i] = A[i]
  BY <1>5, <1>6, <1>7, <1>9
<1>11. \A i \in 1 .. b : a + i \in DOMAIN F /\ F[a + i] = B[i]
  BY <1>5, <1>6, <1>7, <1>9
<1>12. \A i \in 1 .. m : a + b + i \in DOMAIN F /\ F[a + b + i] = C[i]
  <2> TAKE i \in 1 .. m
  <2>1. a + b + i \in 1 .. a + b + m
    OBVIOUS
  <2>2. F[a + b + i] = ABC[a + b + i] /\ ABC[a + b + i] = C[i]
    BY <2>1, <1>6, <1>7
  <2> QED
    BY <2>1, <2>2, <1>9
<1>13. \A i \in 1 .. d : a + b + m + i \in DOMAIN F /\ F[a + b + m + i] = D[i]
  <2> TAKE i \in 1 .. d
  <2>1. a + b + m + i \in 1 .. a + b + m + d
    OBVIOUS
  <2>2. F[a + b + m + i] = D[i]
    BY <1>7
  <2> QED
    BY <2>1, <2>2, <1>9
<1>14. \A j \in DOMAIN F :
         \/ \E i \in 1 .. a : j = i
         \/ \E i \in 1 .. b : j = a + i
         \/ \E i \in 1 .. m : j = a + b + i
         \/ \E i \in 1 .. d : j = a + b + m + i
  <2> TAKE j \in DOMAIN F
  <2>1. j \in 1 .. a + b + m + d
    BY <1>9
  <2>2. CASE j <= a
    BY <2>1, <2>2
  <2>3. CASE j > a /\ j <= a + b
    <3>1. j - a \in 1 .. b /\ j = a + (j - a)
      BY <2>1, <2>3
    <3> QED
      BY <3>1
  <2>4. CASE j > a + b /\ j <= a + b + m
    <3>1. j - a - b \in 1 .. m /\ j = a + b + (j - a - b)
      BY <2>1, <2>4
    <3> QED
      BY <3>1
  <2>5. CASE j > a + b + m
    <3>1. j - a - b - m \in 1 .. d /\ j = a + b + m + (j - a - b - m)
      BY <2>1, <2>5
    <3> QED
      BY <3>1
  <2> QED
    BY <2>1, <2>2, <2>3, <2>4, <2>5
<1>15. Joins(F, A, B, C, D)
  <2>1. /\ a = Len(A) /\ b = Len(B) /\ m = Len(C)
        /\ DOMAIN A = 1 .. a /\ DOMAIN B = 1 .. b /\ DOMAIN C = 1 .. m /\ DOMAIN D = 1 .. d
    BY <1>1, <1>2, <1>3, <1>4
  <2> QED
    BY ONLY <2>1, <1>10, <1>11, <1>12, <1>13, <1>14 DEF Joins
<1> QED
  BY <1>7, <1>8, <1>15

LEMMA OrderTypes ==
  /\ NumOrder \in Seq(NumKeys)
  /\ \A k \in NumKeys : \E i \in DOMAIN NumOrder : NumOrder[i] = k
  /\ WordOrder \in Seq(WordKeys)
  /\ \A k \in WordKeys : \E i \in DOMAIN WordOrder : WordOrder[i] = k
<1>1. NumOrder \in Seq(NumKeys)
  BY DEF NumOrder, NumKeys, Tunings, Pulls, Scales, BurstFields, Shares
<1>2. \A k \in NumKeys : \E i \in DOMAIN NumOrder : NumOrder[i] = k
  BY DEF NumOrder, NumKeys, Tunings, Pulls, Scales, BurstFields, Shares
<1>3. WordOrder \in Seq(WordKeys)
  BY DEF WordOrder, WordKeys
<1>4. \A k \in WordKeys : \E i \in DOMAIN WordOrder : WordOrder[i] = k
  BY DEF WordOrder, WordKeys
<1> QED
  BY <1>1, <1>2, <1>3, <1>4

\* What the file written from c says.
WroteNums(c, f) ==
  \A k \in NumKeys :
    /\ Written(c, k) => About(f, k) # {}
    /\ \A i \in About(f, k) : Written(c, k) /\ f[i].num = c.num[k]
WroteWords(c, f) ==
  \A k \in WordKeys :
    /\ c.word[k] # "" => About(f, k) # {}
    /\ \A i \in About(f, k) : c.word[k] # "" /\ f[i].words[1] = c.word[k]
WroteBinds(c, f, off) ==
  /\ \A i \in DOMAIN c.binds :
       /\ off + i \in Sourced(f) /\ f[off + i].key = c.binds[i].key
       /\ f[off + i].of = Upper[c.binds[i].of]
       /\ f[off + i].words[1] = c.binds[i].words[1]
  /\ \A j \in Sourced(f) : \E i \in DOMAIN c.binds : j = off + i
WroteChord(c, f) ==
  /\ c.chord # <<>> => About(f, "hotkey") # {}
  /\ \A i \in About(f, "hotkey") : c.chord # <<>> /\ f[i].words = c.chord

Wrote(c, f) ==
  /\ WroteNums(c, f) /\ WroteWords(c, f) /\ WroteChord(c, f)
  /\ \E off \in Nat : WroteBinds(c, f, off)

LEMMA DomainIs ==
  ASSUME NEW T, NEW s \in Seq(T)
  PROVE  /\ \E N \in Nat : N = Len(s) /\ DOMAIN s = 1 .. N
         /\ \A i \in DOMAIN s : s[i] \in T
OBVIOUS

LEMMA Single ==
  ASSUME NEW T, NEW a \in T
  PROVE  <<a>> \in Seq(T) /\ <<a>> # <<>> /\ <<a>>[1] = a
OBVIOUS

LEMMA IsLine ==
  ASSUME NEW l \in [key : Keys, of : Names \cup {""}, num : Int, words : Seq(STRING),
                    noted : BOOLEAN, tight : BOOLEAN, cr : BOOLEAN],
         l.key \in WordKeys \cup Sources => l.words # <<>>,
         l.key \in Sources => l.of \in Names,
         l.key = "hotkey" => l.words \in Seq(Names)
  PROVE  l \in Lines
BY DEF Lines

LEMMA WrittenLines ==
  /\ \A k \in NumKeys, n \in Int : Number(k, n) \in Lines
  /\ \A k \in WordKeys, a \in STRING : Word(k, "", a) \in Lines
  /\ \A k \in Sources, n \in Names, a \in STRING : Word(k, n, a) \in Lines
  /\ \A ws \in Seq(Names) : Chord(ws) \in Lines
<1>1. \A k \in NumKeys, n \in Int : Number(k, n) \in Lines
  <2> TAKE k \in NumKeys, n \in Int
  <2>1. k \in Keys /\ k \notin WordKeys \cup Sources /\ k # "hotkey"
    BY KeyKinds
  <2>2. <<>> \in Seq(STRING)
    OBVIOUS
  <2> QED
    BY <2>1, <2>2, KeyKinds DEF Number, Lines
<1>2. \A k \in WordKeys, a \in STRING : Word(k, "", a) \in Lines
  <2> TAKE k \in WordKeys, a \in STRING
  <2>1. k \in Keys /\ k \notin Sources /\ k # "hotkey"
    BY KeyKinds
  <2>2. PICK w \in Seq(STRING) : w = <<a>> /\ w # <<>>
    BY Single
  <2>3. /\ Word(k, "", a) \in [key : Keys, of : Names \cup {""}, num : Int,
                               words : Seq(STRING), noted : BOOLEAN, tight : BOOLEAN, cr : BOOLEAN]
        /\ Word(k, "", a).key = k /\ Word(k, "", a).words = w
    BY <2>1, <2>2 DEF Word
  <2> QED
    BY <2>1, <2>2, <2>3, IsLine
<1>3. \A k \in Sources, n \in Names, a \in STRING : Word(k, n, a) \in Lines
  <2> TAKE k \in Sources, n \in Names, a \in STRING
  <2>1. k \in Keys /\ k # "hotkey"
    BY KeyKinds
  <2>2. PICK w \in Seq(STRING) : w = <<a>> /\ w # <<>>
    BY Single
  <2> DEFINE l == Word(k, n, a)
             spellings == Names \cup {""}
  <2>3. n \in spellings
    OBVIOUS
  <2> HIDE DEF l, spellings
  <2>4. l = [key |-> k, of |-> n, num |-> 0, words |-> w,
             noted |-> FALSE, tight |-> TRUE, cr |-> FALSE]
    BY <2>2, Zenon DEF l, Word
  <2>5. l \in [key : Keys, of : spellings, num : Int, words : Seq(STRING),
               noted : BOOLEAN, tight : BOOLEAN, cr : BOOLEAN]
    BY <2>1, <2>3, <2>4, w \in Seq(STRING)
  <2>6. l.key = k /\ l.words = w /\ l.of = n
    BY <2>4
  <2> QED
    BY <2>1, <2>2, <2>5, <2>6, IsLine DEF l, spellings
<1>4. \A ws \in Seq(Names) : Chord(ws) \in Lines
  <2> TAKE ws \in Seq(Names)
  <2>1. "hotkey" \in Keys /\ "hotkey" \notin WordKeys \cup Sources
    BY KeyKinds
  <2>2. ws \in Seq(STRING)
    <3>1. PICK N \in Nat : ws \in [1 .. N -> Names]
      OBVIOUS
    <3>2. ws \in [1 .. N -> STRING]
      BY <3>1, SpellingAssumption
    <3> QED
      BY <3>2
  <2> QED
    <3>1. /\ Chord(ws) \in [key : Keys, of : Names \cup {""}, num : Int,
                            words : Seq(STRING), noted : BOOLEAN, tight : BOOLEAN, cr : BOOLEAN]
          /\ Chord(ws).key = "hotkey" /\ Chord(ws).words = ws
      BY <2>1, <2>2 DEF Chord
    <3> QED
      BY <2>1, <2>2, <3>1, IsLine
<1> QED
  BY <1>1, <1>2, <1>3, <1>4

LEMMA WebWritesIs ==
  ASSUME NEW c \in Forms
  PROVE  WebWrites(c) \in Seq(Lines) /\ Wrote(c, WebWrites(c))
<1> DEFINE NI == {i \in DOMAIN NumOrder : Written(c, NumOrder[i])}
           WI == {i \in DOMAIN WordOrder : c.word[WordOrder[i]] # ""}
           nums == Picked(NumOrder, NI)
           words == Picked(WordOrder, WI)
           A == [i \in DOMAIN nums |-> Number(nums[i], c.num[nums[i]])]
           B == [i \in DOMAIN words |-> Word(words[i], "", c.word[words[i]])]
           C == [i \in DOMAIN c.binds |->
                   Word(c.binds[i].key, Upper[c.binds[i].of], c.binds[i].words[1])]
           D == IF c.chord = <<>> THEN <<>> ELSE <<Chord(c.chord)>>
           f == A \o B \o C \o D
<1>1. WebWrites(c) = f
  BY DEF WebWrites
<1>2. /\ c.num \in [NumKeys -> Int] /\ c.word \in [WordKeys -> STRING \cup {""}]
      /\ c.binds \in Seq(Bindings) /\ c.chord \in Seq(Names)
  BY DEF Forms
<1>3. /\ nums \in Seq(NumKeys)
      /\ \A n \in DOMAIN nums : \E i \in NI : nums[n] = NumOrder[i]
      /\ \A i \in NI : \E n \in DOMAIN nums : nums[n] = NumOrder[i]
  <2>1. NumOrder \in Seq(NumKeys) /\ NI \in SUBSET (DOMAIN NumOrder)
    BY OrderTypes
  <2> HIDE DEF NI
  <2> QED
    BY <2>1, PickedTypes
<1>4. /\ words \in Seq(WordKeys)
      /\ \A n \in DOMAIN words : \E i \in WI : words[n] = WordOrder[i]
      /\ \A i \in WI : \E n \in DOMAIN words : words[n] = WordOrder[i]
  <2>1. WordOrder \in Seq(WordKeys) /\ WI \in SUBSET (DOMAIN WordOrder)
    BY OrderTypes
  <2> HIDE DEF WI
  <2> QED
    BY <2>1, PickedTypes
<1>5. /\ \A n \in DOMAIN nums : nums[n] \in NumKeys /\ Written(c, nums[n])
      /\ \A k \in NumKeys : Written(c, k) => \E n \in DOMAIN nums : nums[n] = k
  <2>1. \A n \in DOMAIN nums : nums[n] \in NumKeys /\ Written(c, nums[n])
    <3> HIDE DEF nums
    <3> QED
      BY <1>3
  <2>2. ASSUME NEW k \in NumKeys, Written(c, k)
        PROVE  \E n \in DOMAIN nums : nums[n] = k
    <3>1. PICK i \in DOMAIN NumOrder : NumOrder[i] = k
      BY OrderTypes
    <3>2. i \in NI
      BY <3>1, <2>2
    <3> HIDE DEF nums, NI
    <3> QED
      BY <3>1, <3>2, <1>3
  <2> QED
    BY <2>1, <2>2
<1>6. /\ \A n \in DOMAIN words : words[n] \in WordKeys /\ c.word[words[n]] # ""
      /\ \A k \in WordKeys : c.word[k] # "" => \E n \in DOMAIN words : words[n] = k
  <2>1. \A n \in DOMAIN words : words[n] \in WordKeys /\ c.word[words[n]] # ""
    <3> HIDE DEF words, WI
    <3> TAKE n \in DOMAIN words
    <3>1. PICK i \in WI : words[n] = WordOrder[i]
      BY <1>4
    <3>2. i \in DOMAIN WordOrder /\ c.word[WordOrder[i]] # ""
      BY Zenon DEF WI
    <3>3. WordOrder[i] \in WordKeys
      BY <3>2, OrderTypes, DomainIs
    <3> QED
      BY <3>1, <3>2, <3>3, Zenon
  <2>2. ASSUME NEW k \in WordKeys, c.word[k] # ""
        PROVE  \E n \in DOMAIN words : words[n] = k
    <3>1. PICK i \in DOMAIN WordOrder : WordOrder[i] = k
      BY OrderTypes
    <3>2. i \in WI
      BY <3>1, <2>2
    <3> HIDE DEF words, WI
    <3> QED
      BY <3>1, <3>2, <1>4
  <2> QED
    BY <2>1, <2>2
<1> HIDE DEF nums, words, NI, WI
<1>7. A \in Seq(Lines)
  <2>1. PICK N \in Nat : N = Len(nums) /\ DOMAIN nums = 1 .. N
    BY <1>3
  <2>2. \A n \in 1 .. N : Number(nums[n], c.num[nums[n]]) \in Lines
    BY <2>1, <1>2, <1>5, WrittenLines
  <2> QED
    BY <2>1, <2>2
<1>8. B \in Seq(Lines)
  <2>1. PICK N \in Nat : N = Len(words) /\ DOMAIN words = 1 .. N
    BY <1>4
  <2>2. \A n \in 1 .. N : words[n] \in WordKeys /\ c.word[words[n]] \in STRING
    BY <2>1, <1>2, <1>6
  <2>3. \A n \in 1 .. N : Word(words[n], "", c.word[words[n]]) \in Lines
    BY <2>2, WrittenLines
  <2>4. B \in [1 .. N -> Lines]
    BY <2>1, <2>3
  <2> HIDE DEF B
  <2> QED
    BY <2>4
<1>9. /\ C \in Seq(Lines)
      /\ \A i \in DOMAIN c.binds : c.binds[i].key \in Sources
  <2>0. c.binds \in Seq(Bindings)
    BY <1>2
  <2>1. PICK N \in Nat : N = Len(c.binds) /\ DOMAIN c.binds = 1 .. N
    BY <2>0, DomainIs
  <2>2. \A i \in 1 .. N : c.binds[i] \in Bindings
    BY ONLY <2>0, <2>1, DomainIs
  <2>3. \A i \in 1 .. N : /\ c.binds[i].key \in Sources /\ c.binds[i].of \in Names
                          /\ c.binds[i].words \in Seq(STRING) /\ c.binds[i].words # <<>>
    BY <2>2 DEF Bindings
  <2>4. \A i \in 1 .. N : /\ c.binds[i].words[1] \in STRING
                          /\ Upper[c.binds[i].of] \in Names
    BY <2>3, FirstOf, SpellingAssumption
  <2>5. \A i \in 1 .. N :
          Word(c.binds[i].key, Upper[c.binds[i].of], c.binds[i].words[1]) \in Lines
    BY <2>3, <2>4, WrittenLines
  <2> QED
    BY <2>1, <2>3, <2>5
<1>10. D \in Seq(Lines)
  <2>1. Chord(c.chord) \in Lines
    BY <1>2, WrittenLines
  <2> QED
    BY <2>1
<1>11. /\ DOMAIN A = DOMAIN nums
       /\ \A i \in DOMAIN A :
            A[i].key = nums[i] /\ A[i].num = c.num[nums[i]]
  BY DEF Number
<1>12. /\ DOMAIN B = DOMAIN words
       /\ \A i \in DOMAIN B :
            B[i].key = words[i] /\ B[i].words[1] = c.word[words[i]]
  BY DEF Word
<1>13. /\ DOMAIN C = DOMAIN c.binds
       /\ \A i \in DOMAIN C :
            /\ C[i].key = c.binds[i].key /\ C[i].of = Upper[c.binds[i].of]
            /\ C[i].words[1] = c.binds[i].words[1]
  BY DEF Word
<1>14. /\ \A i \in DOMAIN D : c.chord # <<>> /\ D[i].key = "hotkey" /\ D[i].words = c.chord
       /\ c.chord # <<>> => 1 \in DOMAIN D
  <2>1. CASE c.chord = <<>>
    BY <2>1
  <2>2. CASE c.chord # <<>>
    <3> DEFINE l == Chord(c.chord)
    <3>1. l.key = "hotkey" /\ l.words = c.chord
      BY DEF Chord
    <3>2. D = <<l>>
      BY <2>2
    <3> HIDE DEF l, D
    <3>3. DOMAIN D = {1} /\ D[1] = l
      BY <3>2
    <3> QED
      BY <2>2, <3>1, <3>3
  <2> QED
    BY <2>1, <2>2
<1> HIDE DEF A, B, C, D
<1>15. f \in Seq(Lines) /\ Joins(f, A, B, C, D)
  BY <1>7, <1>8, <1>9, <1>10, FourParts
<1> HIDE DEF f
<1>16. /\ Len(A) \in Nat /\ Len(B) \in Nat /\ Len(C) \in Nat
  BY <1>7, <1>8, <1>9
<1>17. \A j \in DOMAIN f :
         \/ \E i \in DOMAIN A : f[j] = A[i] /\ f[j].key \in NumKeys
         \/ \E i \in DOMAIN B : f[j] = B[i] /\ f[j].key \in WordKeys
         \/ \E i \in DOMAIN C : /\ j = Len(A) + Len(B) + i
                                /\ f[j] = C[i] /\ f[j].key \in Sources
         \/ \E i \in DOMAIN D : f[j] = D[i] /\ f[j].key = "hotkey"
  <2> TAKE j \in DOMAIN f
  <2>1. /\ \A i \in DOMAIN A : f[i] = A[i] /\ A[i].key \in NumKeys
        /\ \A i \in DOMAIN B : f[Len(A) + i] = B[i] /\ B[i].key \in WordKeys
        /\ \A i \in DOMAIN C : f[Len(A) + Len(B) + i] = C[i] /\ C[i].key \in Sources
        /\ \A i \in DOMAIN D :
             f[Len(A) + Len(B) + Len(C) + i] = D[i] /\ D[i].key = "hotkey"
    <3>1. \A i \in DOMAIN A : A[i].key \in NumKeys
      BY <1>5, <1>11
    <3>2. \A i \in DOMAIN B : B[i].key \in WordKeys
      BY <1>6, <1>12
    <3>3. \A i \in DOMAIN C : C[i].key \in Sources
      BY <1>9, <1>13
    <3> QED
      BY <1>15, <3>1, <3>2, <3>3, <1>14 DEF Joins
  <2>2. \/ \E i \in DOMAIN A : j = i
        \/ \E i \in DOMAIN B : j = Len(A) + i
        \/ \E i \in DOMAIN C : j = Len(A) + Len(B) + i
        \/ \E i \in DOMAIN D : j = Len(A) + Len(B) + Len(C) + i
    BY <1>15 DEF Joins
  <2>3. ASSUME NEW i \in DOMAIN A, j = i
        PROVE  f[j] = A[i] /\ f[j].key \in NumKeys
    BY <2>1, <2>3
  <2>4. ASSUME NEW i \in DOMAIN B, j = Len(A) + i
        PROVE  f[j] = B[i] /\ f[j].key \in WordKeys
    BY <2>1, <2>4
  <2>5. ASSUME NEW i \in DOMAIN C, j = Len(A) + Len(B) + i
        PROVE  f[j] = C[i] /\ f[j].key \in Sources
    BY <2>1, <2>5
  <2>6. ASSUME NEW i \in DOMAIN D, j = Len(A) + Len(B) + Len(C) + i
        PROVE  f[j] = D[i] /\ f[j].key = "hotkey"
    BY <2>1, <2>6
  <2> QED
    BY <2>2, <2>3, <2>4, <2>5, <2>6, Zenon
<1>18. WroteNums(c, f)
  <2>1. ASSUME NEW k \in NumKeys, Written(c, k)
        PROVE  About(f, k) # {}
    <3>1. PICK n \in DOMAIN A : A[n].key = k
      BY <2>1, <1>5, <1>11
    <3>2. n \in DOMAIN f /\ f[n] = A[n]
      BY <3>1, <1>15 DEF Joins
    <3> QED
      BY <3>1, <3>2 DEF About
  <2>2. ASSUME NEW k \in NumKeys, NEW j \in About(f, k)
        PROVE  Written(c, k) /\ f[j].num = c.num[k]
    <3>1. j \in DOMAIN f /\ f[j].key = k
      BY <2>2 DEF About
    <3>2. PICK i \in DOMAIN A : f[j] = A[i]
      BY <3>1, <2>2, <1>17, KeyKinds
    <3> QED
      BY <3>1, <3>2, <1>5, <1>11
  <2> QED
    BY <2>1, <2>2 DEF WroteNums
<1>19. WroteWords(c, f)
  <2>1. ASSUME NEW k \in WordKeys, c.word[k] # ""
        PROVE  About(f, k) # {}
    <3>0. PICK n \in DOMAIN words : words[n] = k
      BY <2>1, <1>6, Zenon
    <3>1. n \in DOMAIN B /\ B[n].key = k
      BY <3>0, <1>12
    <3>2. Len(A) + n \in DOMAIN f /\ f[Len(A) + n] = B[n]
      BY <3>1, <1>15 DEF Joins
    <3> QED
      BY <3>1, <3>2 DEF About
  <2>2. ASSUME NEW k \in WordKeys, NEW j \in About(f, k)
        PROVE  c.word[k] # "" /\ f[j].words[1] = c.word[k]
    <3>1. j \in DOMAIN f /\ f[j].key = k
      BY <2>2 DEF About
    <3>2. PICK i \in DOMAIN B : f[j] = B[i]
      BY <3>1, <2>2, <1>17, KeyKinds
    <3>3. words[i] = k /\ f[j].words[1] = c.word[words[i]] /\ c.word[words[i]] # ""
      BY <3>1, <3>2, <1>6, <1>12, Zenon
    <3> QED
      BY <3>3, Zenon
  <2> QED
    BY <2>1, <2>2 DEF WroteWords
<1>20. WroteChord(c, f)
  <2>1. ASSUME c.chord # <<>>
        PROVE  About(f, "hotkey") # {}
    <3>1. 1 \in DOMAIN D /\ D[1].key = "hotkey"
      BY <2>1, <1>14
    <3>2. \E n : n \in DOMAIN f /\ f[n] = D[1]
      BY <3>1, <1>15 DEF Joins
    <3> QED
      BY <3>1, <3>2 DEF About
  <2>2. ASSUME NEW j \in About(f, "hotkey")
        PROVE  c.chord # <<>> /\ f[j].words = c.chord
    <3>1. j \in DOMAIN f /\ f[j].key = "hotkey"
      BY <2>2 DEF About
    <3>2. PICK i \in DOMAIN D : f[j] = D[i]
      BY <3>1, <1>17, KeyKinds
    <3> QED
      BY <3>1, <3>2, <1>14
  <2> QED
    BY <2>1, <2>2 DEF WroteChord
<1>21. WroteBinds(c, f, Len(A) + Len(B))
  <2>1. ASSUME NEW i \in DOMAIN c.binds
        PROVE  /\ Len(A) + Len(B) + i \in Sourced(f)
               /\ f[Len(A) + Len(B) + i] = C[i]
    <3>1. /\ Len(A) + Len(B) + i \in DOMAIN f
          /\ f[Len(A) + Len(B) + i] = C[i]
      BY <1>13, <1>15 DEF Joins
    <3> QED
      BY <3>1, <1>9, <1>13 DEF Sourced
  <2>2. ASSUME NEW j \in Sourced(f)
        PROVE  \E i \in DOMAIN c.binds : j = Len(A) + Len(B) + i
    <3>1. j \in DOMAIN f /\ f[j].key \in Sources
      BY <2>2 DEF Sourced
    <3> QED
      BY <3>1, <1>13, <1>17, KeyKinds
  <2> QED
    BY <2>1, <2>2, <1>13 DEF WroteBinds
<1> QED
  BY <1>1, <1>15, <1>16, <1>18, <1>19, <1>20, <1>21 DEF Wrote, f

-----------------------------------------------------------------------------
(* What the mapper makes of a file that kbm-web wrote.                     *)

LEMMA NumKinds ==
  ASSUME NEW k \in NumKeys
  PROVE  /\ k \in Tunings \/ k \in Pulls \/ k \in Scales \/ k = "burst.hz"
              \/ k = "burst.duty" \/ k \in Shares
         /\ k \in Tunings \cup Pulls \cup Scales =>
              k \notin BurstFields /\ k # "burst.duty" /\ k # "burst.hz"
         /\ k \in Tunings => k \notin Pulls \cup Scales \cup Shares
         /\ k \in Pulls => k \notin Scales
         /\ k \in BurstFields => k \notin Tunings \cup Pulls \cup Scales
         /\ k \in Shares => k \in BurstFields /\ k # "burst.duty" /\ k # "burst.hz"
         /\ k \in {"burst.hz", "burst.duty"} => k \in BurstFields /\ k \notin Shares
         /\ "burst.hz" \in NumKeys
BY DEF NumKeys, Tunings, Pulls, Scales, BurstFields, Shares

LEMMA NumRules ==
  ASSUME NEW k \in NumKeys, NEW n \in Int
  PROVE  /\ Clamp(k, n) = IF k \in Pulls THEN Within(-100, n, 100)
                          ELSE IF k \in Scales THEN Within(1, n, 400)
                          ELSE IF k \in Shares THEN Within(0, n, 100) ELSE n
         /\ k \in Pulls \cup BurstFields => DefaultNum(k) = 0
         /\ k \in Scales => DefaultNum(k) = 100
         /\ Clamp(k, DefaultNum(k)) = DefaultNum(k)
<1>1. CASE k \in Pulls
  <2>1. k \notin Scales /\ k \notin BurstFields
    BY <1>1, NumKinds
  <2>2. Clamp(k, n) = Within(-100, n, 100) /\ Clamp(k, 0) = Within(-100, 0, 100)
    BY <1>1 DEF Clamp, Pulls, Scales, Shares
  <2>3. DefaultNum(k) = 0
    BY <1>1 DEF DefaultNum, Pulls, Scales
  <2> QED
    BY <1>1, <2>1, <2>2, <2>3 DEF Within
<1>2. CASE k \in Scales
  <2>1. k \notin Pulls /\ k \notin BurstFields
    BY <1>2, NumKinds
  <2>2. Clamp(k, n) = Within(1, n, 400) /\ Clamp(k, 100) = Within(1, 100, 400)
    BY <1>2 DEF Clamp, Pulls, Scales, Shares
  <2>3. DefaultNum(k) = 100
    BY <1>2 DEF DefaultNum, Scales
  <2> QED
    BY <1>2, <2>1, <2>2, <2>3 DEF Within
<1>3. CASE k \in Shares
  <2>1. k \notin Pulls /\ k \notin Scales /\ k \in BurstFields
    BY <1>3, NumKinds
  <2>2. Clamp(k, n) = Within(0, n, 100) /\ Clamp(k, 0) = Within(0, 0, 100)
    BY <1>3 DEF Clamp, Pulls, Scales, Shares
  <2>3. DefaultNum(k) = 0
    BY <1>3 DEF DefaultNum, Shares, Scales
  <2> QED
    BY <1>3, <2>1, <2>2, <2>3 DEF Within
<1>4. CASE k \notin Pulls \cup Scales \cup Shares
  <2>1. \A i \in Int : Clamp(k, i) = i
    BY <1>4 DEF Clamp
  <2>2. k \in BurstFields => DefaultNum(k) = 0
    BY <1>4 DEF DefaultNum, BurstFields, Shares, Scales
  <2> QED
    BY <1>4, <2>1, <2>2, DefaultsTypes
<1> QED
  BY <1>1, <1>2, <1>3, <1>4

LEMMA WrittenRules ==
  ASSUME NEW c \in Forms, NEW k \in NumKeys
  PROVE  /\ k \in Tunings => Written(c, k)
         /\ k \in Pulls => (Written(c, k) <=> c.num[k] # 0)
         /\ k \in Scales => (Written(c, k) <=> c.num[k] > 0 /\ c.num[k] # 100)
         /\ k \in BurstFields =>
              (Written(c, k) <=> c.num["burst.hz"] > 0 /\ c.num[k] > 0)
<1>1. CASE k \in Tunings
  BY <1>1, NumKinds DEF Written
<1>2. CASE k \in Pulls
  <2>1. k \notin Tunings /\ k \notin Scales /\ k \notin BurstFields
    BY <1>2, NumKinds
  <2> QED
    BY <1>2, <2>1 DEF Written
<1>3. CASE k \in Scales
  <2>1. k \notin Tunings /\ k \notin Pulls /\ k \notin BurstFields
    BY <1>3, NumKinds
  <2> QED
    BY <1>3, <2>1 DEF Written
<1>4. CASE k \in BurstFields
  <2>1. k \notin Tunings /\ k \notin Pulls /\ k \notin Scales
    BY <1>4, NumKinds
  <2> QED
    BY <1>4, <2>1 DEF Written
<1> QED
  BY <1>1, <1>2, <1>3, <1>4

\* The numbers the mapper acts on.
ActsOn(num, k) ==
  IF \/ k \in BurstFields /\ num["burst.hz"] <= 0
     \/ k = "burst.duty" /\ num[k] <= 0
  THEN 0 ELSE num[k]

LEMMA SaidNums ==
  ASSUME NEW c \in Forms, NEW f \in Seq(Lines), WroteNums(c, f),
         NEW k \in NumKeys
  PROVE  ActsOn(MapperReads(f).num, k) = ActsOn(Says(c).num, k)
<1> DEFINE x == MapperReads(f).num
           y == Says(c).num
           w == c.num
<1>1. w \in [NumKeys -> Int]
  BY DEF Forms
<1>2. \A j \in NumKeys : x[j] = IF Written(c, j) THEN Clamp(j, w[j]) ELSE DefaultNum(j)
  <2> TAKE j \in NumKeys
  <2>1. x[j] = IF About(f, j) = {} THEN DefaultNum(j)
               ELSE Clamp(j, f[Max(About(f, j))].num)
    BY MapperReadsLast
  <2>2. /\ Written(c, j) => About(f, j) # {}
        /\ \A i \in About(f, j) : Written(c, j) /\ f[i].num = w[j]
    BY DEF WroteNums
  <2>3. About(f, j) # {} => Max(About(f, j)) \in About(f, j)
    BY LinesOf
  <2> HIDE DEF x, w
  <2> QED
    BY <2>1, <2>2, <2>3
<1>3. \A j \in NumKeys : y[j] = IF j \in Scales /\ w[j] <= 0 THEN 100 ELSE Clamp(j, w[j])
  BY DEF Says
<1>4. /\ w[k] \in Int /\ w["burst.hz"] \in Int /\ "burst.hz" \in NumKeys
      /\ "burst.hz" \in BurstFields
  BY <1>1, NumKinds DEF BurstFields
<1>5. /\ k \in Tunings => Written(c, k)
      /\ k \in Pulls => (Written(c, k) <=> w[k] # 0)
      /\ k \in Scales => (Written(c, k) <=> w[k] > 0 /\ w[k] # 100)
      /\ k \in BurstFields => (Written(c, k) <=> w["burst.hz"] > 0 /\ w[k] > 0)
      /\ Written(c, "burst.hz") <=> w["burst.hz"] > 0
  <2>1. Written(c, "burst.hz") <=> w["burst.hz"] > 0
    BY <1>4, WrittenRules
  <2> QED
    BY <2>1, WrittenRules
<1> HIDE DEF x, y, w
<1>6. /\ x[k] = IF Written(c, k) THEN Clamp(k, w[k]) ELSE DefaultNum(k)
      /\ y[k] = IF k \in Scales /\ w[k] <= 0 THEN 100 ELSE Clamp(k, w[k])
  BY <1>2, <1>3
<1>7. /\ x["burst.hz"] = IF w["burst.hz"] > 0 THEN w["burst.hz"] ELSE 0
      /\ y["burst.hz"] = w["burst.hz"]
  <2>1. /\ "burst.hz" \notin Pulls /\ "burst.hz" \notin Scales
        /\ "burst.hz" \notin Shares
    BY DEF Pulls, Scales, Shares
  <2>2. Clamp("burst.hz", w["burst.hz"]) = w["burst.hz"] /\ DefaultNum("burst.hz") = 0
    BY <2>1, <1>4, NumRules
  <2> QED
    BY <2>1, <2>2, <1>2, <1>3, <1>4, <1>5
<1>8. CASE k \in Tunings \cup Pulls \cup Scales
  <2>1. k \notin BurstFields /\ k # "burst.duty"
    BY <1>8, NumKinds
  <2>2. x[k] = y[k]
    <3>1. CASE k \in Tunings
      BY <3>1, <1>5, <1>6, NumKinds
    <3>2. CASE k \in Pulls
      <4>1. k \notin Scales /\ DefaultNum(k) = 0 /\ Clamp(k, 0) = 0
        BY <3>2, NumKinds, NumRules
      <4> QED
        BY <3>2, <4>1, <1>4, <1>5, <1>6
    <3>3. CASE k \in Scales
      <4>1. DefaultNum(k) = 100 /\ Clamp(k, 100) = 100
        BY <3>3, NumRules
      <4> QED
        BY <3>3, <4>1, <1>4, <1>5, <1>6
    <3> QED
      BY <1>8, <3>1, <3>2, <3>3
  <2> QED
    BY <2>1, <2>2 DEF ActsOn, x, y
<1>9. CASE k \in BurstFields
  <2>1. k \notin Scales /\ y[k] = Clamp(k, w[k]) /\ DefaultNum(k) = 0
    BY <1>9, <1>6, NumKinds, NumRules, <1>4
  <2>2. CASE w["burst.hz"] <= 0
    <3>1. x["burst.hz"] <= 0 /\ y["burst.hz"] <= 0
      BY <2>2, <1>4, <1>7
    <3> QED
      BY <1>9, <3>1 DEF ActsOn, x, y
  <2>3. CASE w["burst.hz"] > 0
    <3>1. ~(x["burst.hz"] <= 0) /\ ~(y["burst.hz"] <= 0)
      BY <2>3, <1>4, <1>7
    <3>2. x[k] = IF w[k] > 0 THEN Clamp(k, w[k]) ELSE 0
      BY <1>9, <2>1, <2>3, <1>5, <1>6
    <3>3. CASE k \in Shares
      <4>1. k # "burst.duty" /\ k \notin Pulls /\ Clamp(k, w[k]) = Within(0, w[k], 100)
        BY <3>3, <1>4, <2>1, NumRules, NumKinds DEF Pulls, Shares
      <4>2. x[k] = y[k]
        BY <4>1, <3>2, <2>1, <1>4 DEF Within
      <4> QED
        BY <3>1, <4>1, <4>2 DEF ActsOn, x, y
    <3>4. CASE k \notin Shares
      <4>1. k \notin Pulls /\ Clamp(k, w[k]) = w[k]
        BY <3>4, <1>4, <1>9, <2>1, NumRules, NumKinds
      <4>2. k = "burst.hz" \/ k = "burst.duty"
        BY <3>4, <1>9 DEF BurstFields
      <4>3. /\ x[k] = IF w[k] > 0 THEN w[k] ELSE 0
            /\ y[k] = w[k]
        BY <4>1, <3>2, <2>1
      <4>4. k = "burst.hz" => x[k] = y[k]
        BY <4>3, <2>3
      <4> QED
        BY <4>2, <4>3, <4>4, <3>1, <1>4 DEF ActsOn, x, y
    <3> QED
      BY <3>3, <3>4
  <2> QED
    BY <2>2, <2>3, <1>4
<1> QED
  BY <1>8, <1>9 DEF x, y, NumKeys

\* Shifting a set of indices shifts the last of them.
LEMMA MaxShifted ==
  ASSUME NEW n \in Nat, NEW I \in SUBSET (1 .. n), I # {}, NEW off \in Nat,
         NEW J, \A i \in I : off + i \in J, \A j \in J : \E i \in I : j = off + i
  PROVE  Max(J) = off + Max(I)
<1>1. Max(I) \in I /\ \A i \in I : i <= Max(I)
  BY MaxExists
<1>2. PICK m : m = Max(I)
  OBVIOUS
<1>3. m \in I /\ m \in Int /\ \A i \in I : i <= m /\ i \in Int
  <2>1. \A i \in I : i \in Int
    OBVIOUS
  <2>2. m \in I /\ \A i \in I : i <= m
    BY <1>1, <1>2
  <2> QED
    BY <2>1, <2>2
<1>4. off + m \in J /\ J \in SUBSET Int /\ \A j \in J : j <= off + m
  BY <1>3
<1>5. Max(J) = off + m
  BY <1>4, MaxIs
<1> QED
  BY <1>2, <1>5

\* The bindings of a form that give b an action.
LastFor(c, b) == {i \in DOMAIN c.binds :
                    /\ <<c.binds[i].key, Upper[c.binds[i].of]>> = b
                    /\ c.binds[i].words[1] \in Actions}

LEMMA SaysIs ==
  ASSUME NEW c \in Forms
  PROVE  /\ \A b \in Bindable :
              /\ LastFor(c, b) = {} => Says(c).bind[b] = DefaultBind(b)
              /\ LastFor(c, b) # {} =>
                   Says(c).bind[b] = c.binds[Max(LastFor(c, b))].words[1]
         /\ \A k \in WordKeys :
              Says(c).word[k] = IF c.word[k] \in Actions THEN c.word[k] ELSE NoAction
         /\ Says(c).chord = MapperChord(c.chord)
         /\ Says(c) = [num |-> Says(c).num, word |-> Says(c).word,
                       bind |-> Says(c).bind, chord |-> Says(c).chord]
         /\ DOMAIN Says(c).word = WordKeys /\ DOMAIN Says(c).bind = Bindable
         /\ Says(c).word = [k \in WordKeys |-> Says(c).word[k]]
         /\ Says(c).bind = [b \in Bindable |-> Says(c).bind[b]]
<1>1. ASSUME NEW b \in Bindable
      PROVE  /\ LastFor(c, b) = {} => Says(c).bind[b] = DefaultBind(b)
             /\ LastFor(c, b) # {} =>
                  Says(c).bind[b] = c.binds[Max(LastFor(c, b))].words[1]
  <2> DEFINE I == LastFor(c, b)
             last == CHOOSE i \in I : \A j \in I : j <= i
  <2>1. Says(c).bind[b] = IF I = {} THEN DefaultBind(b) ELSE c.binds[last].words[1]
    BY <1>1 DEF Says, LastFor
  <2>2. ASSUME I # {}
        PROVE  Max(I) = last
    <3>0. c.binds \in Seq(Bindings)
      BY DEF Forms
    <3>1. PICK N \in Nat : DOMAIN c.binds = 1 .. N
      BY <3>0, DomainIs
    <3>2. I \in SUBSET (1 .. N)
      BY <3>1 DEF LastFor
    <3> HIDE DEF I
    <3>3. Max(I) \in I /\ \A i \in I : i <= Max(I)
      BY <3>2, <2>2, MaxExists
    <3>4. last \in I /\ \A j \in I : j <= last
      BY <3>3
    <3> HIDE DEF last
    <3>5. I \in SUBSET Int
      BY <3>2
    <3> QED
      BY <3>4, <3>5, MaxIs
  <2> HIDE DEF last
  <2> QED
    BY <2>1, <2>2
<1>2. \A k \in WordKeys :
        Says(c).word[k] = IF c.word[k] \in Actions THEN c.word[k] ELSE NoAction
  BY DEF Says
<1>3. Says(c).chord = MapperChord(c.chord)
  BY DEF Says
<1>4. /\ Says(c) = [num |-> Says(c).num, word |-> Says(c).word,
                    bind |-> Says(c).bind, chord |-> Says(c).chord]
      /\ DOMAIN Says(c).word = WordKeys /\ DOMAIN Says(c).bind = Bindable
      /\ Says(c).word = [k \in WordKeys |-> Says(c).word[k]]
      /\ Says(c).bind = [b \in Bindable |-> Says(c).bind[b]]
  <2> DEFINE nums == [k \in NumKeys |-> IF k \in Scales /\ c.num[k] <= 0 THEN 100
                                        ELSE Clamp(k, c.num[k])]
             words == [k \in WordKeys |->
                        IF c.word[k] \in Actions THEN c.word[k] ELSE NoAction]
             lastFor(b) == LastFor(c, b)
             binds == [b \in Bindable |->
                        IF lastFor(b) = {} THEN DefaultBind(b)
                        ELSE c.binds[CHOOSE i \in lastFor(b) :
                                       \A j \in lastFor(b) : j <= i].words[1]]
             keys == MapperChord(c.chord)
  <2>1. Says(c) = [num |-> nums, word |-> words, bind |-> binds, chord |-> keys]
    BY DEF Says, LastFor
  <2>2. /\ DOMAIN words = WordKeys /\ DOMAIN binds = Bindable
        /\ words = [k \in WordKeys |-> words[k]]
        /\ binds = [b \in Bindable |-> binds[b]]
    <3> HIDE DEF lastFor
    <3> QED
      OBVIOUS
  <2> HIDE DEF nums, words, binds, keys
  <2> QED
    BY <2>1, <2>2
<1> QED
  BY <1>1, <1>2, <1>3, <1>4

\* The last line that binds b comes from the last binding that does.
LEMMA SaidBinds ==
  ASSUME NEW c \in Forms, NEW f \in Seq(Lines), NEW off \in Nat, WroteBinds(c, f, off),
         NEW b \in Bindable
  PROVE  MapperReads(f).bind[b] = Says(c).bind[b]
<1> DEFINE I == LastFor(c, b)
           J == Bound(f, b)
<1>0. c.binds \in Seq(Bindings)
  BY DEF Forms
<1>1. PICK N \in Nat : DOMAIN c.binds = 1 .. N
  BY <1>0, DomainIs
<1>2. \A i \in 1 .. N : /\ c.binds[i].key \in Sources
                        /\ Upper[Upper[c.binds[i].of]] = Upper[c.binds[i].of]
  <2>1. \A i \in 1 .. N : c.binds[i] \in Bindings
    BY <1>0, <1>1, DomainIs
  <2>2. \A i \in 1 .. N : c.binds[i].key \in Sources /\ c.binds[i].of \in Names
    BY <2>1 DEF Bindings
  <2> QED
    BY <2>2, SpellingAssumption
<1>3. /\ \A i \in 1 .. N :
           /\ off + i \in DOMAIN f /\ f[off + i].key = c.binds[i].key
           /\ f[off + i].of = Upper[c.binds[i].of]
           /\ f[off + i].words[1] = c.binds[i].words[1]
      /\ \A j \in DOMAIN f : f[j].key \in Sources => \E i \in 1 .. N : j = off + i
  BY <1>1 DEF WroteBinds, Sourced
<1>4. \A i \in 1 .. N : i \in I <=> off + i \in J
  BY <1>1, <1>2, <1>3 DEF LastFor, Bound
<1>5. \A j \in J : \E i \in 1 .. N : j = off + i
  BY <1>3 DEF Bound
<1>6. I \in SUBSET (1 .. N)
  BY <1>1 DEF LastFor
<1>7. MapperReads(f).bind[b] = IF J = {} THEN DefaultBind(b) ELSE f[Max(J)].words[1]
  BY MapperReadsLast
<1>8. /\ I = {} => Says(c).bind[b] = DefaultBind(b)
      /\ I # {} => Says(c).bind[b] = c.binds[Max(I)].words[1]
  BY SaysIs
<1> HIDE DEF I, J
<1>9. CASE I = {}
  <2>1. J = {}
    BY <1>9, <1>4, <1>5
  <2> QED
    BY <1>7, <1>8, <1>9, <2>1
<1>10. CASE I # {}
  <2>1. (\A i \in I : off + i \in J) /\ \A j \in J : \E i \in I : j = off + i
    BY <1>4, <1>5, <1>6
  <2>2. Max(J) = off + Max(I)
    BY <2>1, <1>6, <1>10, MaxShifted
  <2>3. Max(I) \in 1 .. N
    BY <1>6, <1>10, MaxExists
  <2>4. J # {}
    BY <2>1, <1>10
  <2> QED
    BY <2>2, <2>3, <2>4, <1>3, <1>7, <1>8, <1>10
<1> QED
  BY <1>9, <1>10

LEMMA SaidWords ==
  ASSUME NEW c \in Forms, NEW f \in Seq(Lines), WroteWords(c, f),
         NEW k \in WordKeys
  PROVE  MapperReads(f).word[k] = Says(c).word[k]
<1>1. MapperReads(f).word[k] = IF Named(f, k) = {} THEN NoAction
                               ELSE f[Max(Named(f, k))].words[1]
  BY MapperReadsLast
<1>2. Says(c).word[k] = IF c.word[k] \in Actions THEN c.word[k] ELSE NoAction
  BY SaysIs
<1>3. /\ c.word[k] # "" => About(f, k) # {}
      /\ \A i \in About(f, k) : f[i].words[1] = c.word[k]
  BY DEF WroteWords
<1>4. CASE c.word[k] \in Actions
  <2>1. PICK i \in About(f, k) : TRUE
    BY <1>3, <1>4, TablesAssumption
  <2>2. i \in Named(f, k)
    BY <2>1, <1>3, <1>4 DEF Named
  <2>3. Max(Named(f, k)) \in Named(f, k)
    BY <2>2, LinesOf
  <2>4. Max(Named(f, k)) \in About(f, k)
    BY <2>3 DEF Named
  <2> QED
    BY <2>2, <2>4, <1>1, <1>2, <1>3, <1>4
<1>5. CASE c.word[k] \notin Actions
  <2>1. Named(f, k) = {}
    BY <1>3, <1>5 DEF Named
  <2> QED
    BY <2>1, <1>1, <1>2, <1>5
<1> QED
  BY <1>4, <1>5

LEMMA SaidChord ==
  ASSUME NEW c \in Forms, c.chord # <<>>, NEW f \in Seq(Lines), WroteChord(c, f)
  PROVE  MapperReads(f).chord = Says(c).chord
<1>1. MapperReads(f).chord = IF About(f, "hotkey") = {} THEN DefaultChord
                             ELSE MapperChord(f[Max(About(f, "hotkey"))].words)
  BY MapperReadsLast
<1>2. Says(c).chord = MapperChord(c.chord)
  BY SaysIs
<1>3. /\ c.chord # <<>> => About(f, "hotkey") # {}
      /\ \A i \in About(f, "hotkey") : c.chord # <<>> /\ f[i].words = c.chord
  BY DEF WroteChord
<1>4. About(f, "hotkey") # {} => Max(About(f, "hotkey")) \in About(f, "hotkey")
  BY LinesOf
<1> QED
  BY <1>1, <1>2, <1>3, <1>4, Zenon

\* Configurations alike in what the mapper acts on have the same effect.
LEMMA EffectAlike ==
  ASSUME NEW x, NEW y,
         x = [num |-> x.num, word |-> x.word, bind |-> x.bind, chord |-> x.chord],
         y = [num |-> y.num, word |-> y.word, bind |-> y.bind, chord |-> y.chord],
         \A k \in NumKeys : ActsOn(x.num, k) = ActsOn(y.num, k),
         x.word = y.word, x.bind = y.bind, x.chord = y.chord
  PROVE  Effect(x) = Effect(y)
<1>1. \A z : z = [num |-> z.num, word |-> z.word, bind |-> z.bind, chord |-> z.chord]
        => Effect(z) = [num |-> [k \in NumKeys |-> ActsOn(z.num, k)], word |-> z.word,
                        bind |-> z.bind, chord |-> z.chord]
  BY DEF Effect, ActsOn
<1>2. [k \in NumKeys |-> ActsOn(x.num, k)] = [k \in NumKeys |-> ActsOn(y.num, k)]
  OBVIOUS
<1>3. /\ Effect(x) = [num |-> [k \in NumKeys |-> ActsOn(x.num, k)], word |-> x.word,
                      bind |-> x.bind, chord |-> x.chord]
      /\ Effect(y) = [num |-> [k \in NumKeys |-> ActsOn(y.num, k)], word |-> y.word,
                      bind |-> y.bind, chord |-> y.chord]
  BY <1>1, Zenon
<1> QED
  BY <1>2, <1>3, Zenon

LEMMA ConfParts ==
  ASSUME NEW c \in Confs
  PROVE  /\ c = [num |-> c.num, word |-> c.word, bind |-> c.bind, chord |-> c.chord]
         /\ c.word = [k \in WordKeys |-> c.word[k]]
         /\ c.bind = [b \in Bindable |-> c.bind[b]]
BY DEF Confs

\* The mapper runs what the form says once kbm-web has written it, unless it
\* says that there is no chord.
LEMMA WritesWhatItSays ==
  ASSUME NEW c \in Forms, c.chord # <<>>
  PROVE  Effect(MapperReads(WebWrites(c))) = Effect(Says(c))
<1>1. PICK f \in Seq(Lines) : f = WebWrites(c) /\ Wrote(c, f)
  BY WebWritesIs
<1>2. PICK off \in Nat : WroteBinds(c, f, off)
  BY <1>1 DEF Wrote
<1>3. WroteNums(c, f) /\ WroteWords(c, f) /\ WroteChord(c, f)
  BY <1>1 DEF Wrote
<1> DEFINE x == MapperReads(f)
           y == Says(c)
<1>4. x \in Confs
  BY MapperReadsLast
<1>5. /\ \A k \in NumKeys : ActsOn(x.num, k) = ActsOn(y.num, k)
      /\ \A k \in WordKeys : x.word[k] = y.word[k]
      /\ \A b \in Bindable : x.bind[b] = y.bind[b]
      /\ x.chord = y.chord
  BY <1>2, <1>3, SaidNums, SaidWords, SaidBinds, SaidChord
<1>6. /\ y = [num |-> y.num, word |-> y.word, bind |-> y.bind, chord |-> y.chord]
      /\ y.word = [k \in WordKeys |-> y.word[k]]
      /\ y.bind = [b \in Bindable |-> y.bind[b]]
  BY SaysIs
<1> HIDE DEF x, y
<1>7. /\ x = [num |-> x.num, word |-> x.word, bind |-> x.bind, chord |-> x.chord]
      /\ x.word = [k \in WordKeys |-> x.word[k]]
      /\ x.bind = [b \in Bindable |-> x.bind[b]]
  BY <1>4, ConfParts
<1>8. x.word = y.word /\ x.bind = y.bind
  BY <1>5, <1>6, <1>7
<1>9. Effect(x) = Effect(y)
  BY <1>5, <1>6, <1>7, <1>8, EffectAlike
<1> QED
  BY <1>1, <1>9 DEF x, y

-----------------------------------------------------------------------------
(* What the mapper makes of a file that kbm-web read and wrote again.      *)

\* Picking everything changes nothing.
LEMMA PickedAll ==
  ASSUME NEW T, NEW s \in Seq(T)
  PROVE  Picked(s, DOMAIN s) = s
<1>1. PICK N \in Nat : N = Len(s) /\ DOMAIN s = 1 .. N
  BY DomainIs
<1> DEFINE I == 1 .. N
           R == {q \in I \X I : q[1] < q[2]}
           B(i) == {j \in I : <<j, i>> \in R}
<1>2. \A i \in I : Cardinality(B(i)) = i - 1
  <2> TAKE i \in I
  <2>1. B(i) = 1 .. i - 1
    <3>1. \A j \in I : <<j, i>> \in R <=> j < i
      OBVIOUS
    <3> QED
      BY <3>1
  <2>2. i - 1 \in Nat /\ 1 \in Nat
    OBVIOUS
  <2>3. Cardinality(1 .. i - 1) = IF 1 > i - 1 THEN 0 ELSE (i - 1) - 1 + 1
    BY <2>2, FS_Interval
  <2> HIDE DEF B
  <2> QED
    BY <2>1, <2>2, <2>3
<1>3. Cardinality(I) = N
  <2>1. Cardinality(1 .. N) = IF 1 > N THEN 0 ELSE N - 1 + 1
    BY FS_Interval
  <2> QED
    BY <2>1
<1>4. InOrder(I, R) = [n \in 1 .. N |-> CHOOSE i \in I : Cardinality(B(i)) = n - 1]
  BY <1>3 DEF InOrder
<1> HIDE DEF R, B
<1>5. ASSUME NEW n \in I
      PROVE  InOrder(I, R)[n] = n
  <2>1. InOrder(I, R)[n] = CHOOSE i \in I : Cardinality(B(i)) = n - 1
    BY <1>4
  <2>2. Cardinality(B(n)) = n - 1 /\ \A i \in I : Cardinality(B(i)) = n - 1 => i = n
    BY <1>2
  <2> DEFINE x == CHOOSE i \in I : Cardinality(B(i)) = n - 1
  <2>3. x \in I /\ Cardinality(B(x)) = n - 1
    BY <2>2
  <2> HIDE DEF x
  <2>4. x = n
    BY <2>2, <2>3
  <2> QED
    BY <2>1, <2>4 DEF x
<1>6. Picked(s, I) = [n \in 1 .. N |-> s[InOrder(I, R)[n]]]
  BY <1>3 DEF Picked, R
<1>7. Picked(s, I) = [n \in 1 .. N |-> s[n]]
  BY <1>5, <1>6
<1>8. s = [n \in 1 .. N |-> s[n]]
  BY <1>1
<1> QED
  BY <1>1, <1>7, <1>8, Zenon

LEMMA DefaultStays == MapperChord(DefaultChord) = DefaultChord
<1>1. /\ DefaultChord \in Seq(Names) /\ DefaultChord \in Seq(MapperCodes["key"])
      /\ Len(DefaultChord) = 2 /\ Capitals(DefaultChord) = DefaultChord
  BY DefaultChordTypes
<1>2. PICK d \in Seq(Names) : d = DefaultChord
  BY <1>1
<1>3. /\ Len(d) = 2 /\ Capitals(d) = d /\ \A i \in DOMAIN d : d[i] \in MapperCodes["key"]
  BY <1>1, <1>2, DomainIs
<1>4. Known(d, MapperCodes["key"]) = Picked(d, DOMAIN d)
  BY <1>3, AllKnown
<1>5. Known(d, MapperCodes["key"]) = d
  BY <1>4, PickedAll
<1>6. Cut(d) = d
  <2>1. Cut(d) = SubSeq(d, 1, 2)
    BY <1>3 DEF Cut, MaxChord
  <2> QED
    BY <2>1, <1>3
<1>7. MapperChord(d) = d
  BY <1>3, <1>5, <1>6 DEF MapperChord
<1> QED
  BY <1>2, <1>7

LEMMA KeptNums ==
  ASSUME NEW f \in Seq(Lines), Kept(f), NEW k \in NumKeys
  PROVE  Says(WebReads(f)).num[k] = MapperReads(f).num[k]
<1> DEFINE w == WebReads(f).num[k]
           x == MapperReads(f).num[k]
           m == Max(About(f, k))
<1>1. w = IF About(f, k) = {} THEN DefaultNum(k)
          ELSE IF f[m].noted THEN 0 ELSE f[m].num
  BY WebReadsLast
<1>2. x = IF About(f, k) = {} THEN DefaultNum(k) ELSE Clamp(k, f[m].num)
  BY MapperReadsLast
<1>3. Says(WebReads(f)).num[k] = IF k \in Scales /\ w <= 0 THEN 100 ELSE Clamp(k, w)
  BY DEF Says
<1>4. About(f, k) # {} =>
        /\ m \in DOMAIN f /\ f[m].key = k /\ ~f[m].noted /\ f[m].num \in Int
        /\ k \in Scales => f[m].num > 0
  <2> SUFFICES ASSUME About(f, k) # {}
               PROVE  /\ m \in DOMAIN f /\ f[m].key = k /\ ~f[m].noted /\ f[m].num \in Int
                      /\ k \in Scales => f[m].num > 0
    OBVIOUS
  <2>1. m \in About(f, k)
    BY LinesOf
  <2>2. m \in DOMAIN f /\ f[m].key = k
    BY <2>1 DEF About
  <2>3. f[m] \in Lines
    BY <2>2, LinesOf
  <2>4. f[m].num \in Int
    BY <2>3, LineTypes
  <2> HIDE DEF m
  <2> QED
    BY <2>2, <2>4 DEF Kept
<1>5. k \in Scales => DefaultNum(k) = 100
  BY DefaultsTypes
<1>6. Clamp(k, DefaultNum(k)) = DefaultNum(k)
  <2>1. 0 \in Int
    OBVIOUS
  <2> QED
    BY <2>1, NumRules
<1> HIDE DEF w, x, m
<1>7. Says(WebReads(f)).num[k] = x
  BY <1>1, <1>2, <1>3, <1>4, <1>5, <1>6
<1> QED
  BY <1>7 DEF x

LEMMA KeptWords ==
  ASSUME NEW f \in Seq(Lines), Kept(f), NEW k \in WordKeys
  PROVE  Says(WebReads(f)).word[k] = MapperReads(f).word[k]
<1> DEFINE w == WebReads(f)
<1>1. w \in Forms /\ w.word[k] = IF About(f, k) = {} THEN "" ELSE f[Max(About(f, k))].words[1]
  BY WebReadsLast
<1>2. MapperReads(f).word[k] = IF Named(f, k) = {} THEN NoAction
                               ELSE f[Max(Named(f, k))].words[1]
  BY MapperReadsLast
<1> HIDE DEF w
<1>3. Says(w).word[k] = IF w.word[k] \in Actions THEN w.word[k] ELSE NoAction
  BY <1>1, SaysIs
<1>4. Named(f, k) = About(f, k)
  BY DEF Kept, Named, About
<1>5. About(f, k) # {} => f[Max(About(f, k))].words[1] \in Actions
  <2>1. About(f, k) # {} => Max(About(f, k)) \in About(f, k)
    BY LinesOf
  <2> QED
    BY <2>1, <1>4 DEF Named
<1>6. "" \notin Actions
  BY TablesAssumption
<1>7. Says(w).word[k] = MapperReads(f).word[k]
  <2>1. CASE About(f, k) = {}
    <3>1. w.word[k] \notin Actions /\ MapperReads(f).word[k] = NoAction
      BY <1>1, <1>2, <1>4, <1>6, <2>1, Zenon
    <3> QED
      BY <3>1, <1>3
  <2>2. CASE About(f, k) # {}
    <3>1. /\ w.word[k] = f[Max(About(f, k))].words[1] /\ w.word[k] \in Actions
          /\ MapperReads(f).word[k] = f[Max(About(f, k))].words[1]
      BY <1>1, <1>2, <1>4, <1>5, <2>2, Zenon
    <3> QED
      BY <3>1, <1>3
  <2> QED
    BY <2>1, <2>2
<1> QED
  BY <1>7 DEF w

LEMMA KeptChord ==
  ASSUME NEW f \in Seq(Lines), Kept(f)
  PROVE  Says(WebReads(f)).chord = MapperReads(f).chord
<1> DEFINE w == WebReads(f)
           m == Max(About(f, "hotkey"))
<1>1. PICK ws : /\ w.chord = IF ws = <<>> THEN DefaultChord ELSE ws
                /\ ws = IF About(f, "hotkey") = {} THEN <<>> ELSE Capitals(f[m].words)
  BY WebReadsLast
<1>2. w \in Forms
  BY WebReadsLast
<1>3. MapperReads(f).chord = IF About(f, "hotkey") = {} THEN DefaultChord
                             ELSE MapperChord(f[m].words)
  BY MapperReadsLast
<1> HIDE DEF w, m
<1>4. Says(w).chord = MapperChord(w.chord)
  BY <1>2, SaysIs
<1>5. CASE About(f, "hotkey") = {}
  <2>1. w.chord = DefaultChord
    BY <1>1, <1>5
  <2> QED
    BY <2>1, <1>3, <1>4, <1>5, DefaultStays DEF w
<1>6. CASE About(f, "hotkey") # {}
  <2>1. m \in About(f, "hotkey")
    BY <1>6, LinesOf DEF m
  <2>2. m \in DOMAIN f /\ f[m].key = "hotkey"
    BY <2>1 DEF About
  <2>3. f[m] \in Lines /\ f[m].words # <<>>
    BY <2>2, LinesOf DEF Kept
  <2>4. PICK us \in Seq(Names) : us = f[m].words /\ us # <<>>
    BY <2>2, <2>3, LineTypes
  <2>5. /\ Capitals(us) \in Seq(Names) /\ Len(Capitals(us)) = Len(us)
        /\ Capitals(Capitals(us)) = Capitals(us)
    BY CapitalsTypes
  <2>6. Capitals(us) # <<>>
    BY <2>4, <2>5
  <2>7. MapperChord(Capitals(us)) = MapperChord(us)
    BY <2>5 DEF MapperChord
  <2>8. w.chord = Capitals(us)
    BY <1>1, <1>6, <2>4, <2>6
  <2> QED
    BY <1>3, <1>4, <1>6, <2>4, <2>6, <2>7, <2>8 DEF w
<1> QED
  BY <1>5, <1>6

\* Among the lines that bind b the last one stays the last in the form's order,
\* because they all spell it alike.
LEMMA KeptBinds ==
  ASSUME NEW f \in Seq(Lines), Kept(f), NEW b \in Bindable
  PROVE  Says(WebReads(f)).bind[b] = MapperReads(f).bind[b]
<1> DEFINE w == WebReads(f)
           bs == w.binds
           I == LastFor(w, b)
           J == Bound(f, b)
<1>1. PICK p : Traces(p, bs, f, Sourced(f)) /\ SpellingsInTurn(p, bs)
  BY WebReadsLast
<1>2. w \in Forms
  BY WebReadsLast
<1> HIDE DEF w
<1>3. bs \in Seq(Bindings)
  BY <1>2 DEF Forms
<1>4. PICK N \in Nat : DOMAIN bs = 1 .. N
  BY <1>3, DomainIs
<1>5. PICK M \in Nat : DOMAIN f = 1 .. M
  BY DomainIs
<1>6. I = {j \in 1 .. N : <<bs[j].key, Upper[bs[j].of]>> = b /\ bs[j].words[1] \in Actions}
  BY <1>4 DEF LastFor
<1>7. /\ I = {} => Says(w).bind[b] = DefaultBind(b)
      /\ I # {} => Says(w).bind[b] = bs[Max(I)].words[1]
  BY <1>2, SaysIs
<1>8. MapperReads(f).bind[b] = IF J = {} THEN DefaultBind(b) ELSE f[Max(J)].words[1]
  BY MapperReadsLast
<1> HIDE DEF bs, I, J
<1>9. /\ \A j \in 1 .. N : p[j] \in Sourced(f)
      /\ \A i \in Sourced(f) : \E j \in 1 .. N : p[j] = i
      /\ \A j \in 1 .. N : bs[j] = BindingOf(f[p[j]])
      /\ \A j, k \in 1 .. N :
           j < k /\ bs[j].key = bs[k].key /\ bs[j].of = bs[k].of => p[j] < p[k]
  BY <1>1, <1>4 DEF Traces, SpellingsInTurn
<1>10. \A j \in 1 .. N : /\ bs[j].key = f[p[j]].key /\ bs[j].of = f[p[j]].of
                         /\ bs[j].words = f[p[j]].words
                         /\ p[j] \in 1 .. M /\ f[p[j]].key \in Sources
  <2> TAKE j \in 1 .. N
  <2>1. p[j] \in Sourced(f) /\ bs[j] = BindingOf(f[p[j]])
    BY <1>9
  <2>2. p[j] \in 1 .. M /\ f[p[j]].key \in Sources
    BY <2>1, <1>5 DEF Sourced
  <2>3. /\ bs[j].key = f[p[j]].key /\ bs[j].of = f[p[j]].of
        /\ bs[j].words = f[p[j]].words
    BY <2>1 DEF BindingOf
  <2> QED
    BY <2>2, <2>3
<1>11. \A j \in 1 .. N : j \in I <=> p[j] \in J
  BY <1>5, <1>6, <1>10 DEF Bound, J
<1>12. \A i \in J : \E j \in I : p[j] = i
  <2> TAKE i \in J
  <2>1. i \in Sourced(f)
    BY DEF J, Bound, Sourced
  <2> QED
    BY <2>1, <1>9, <1>11
<1>13. I \in SUBSET (1 .. N)
  BY <1>6
<1>14. CASE I = {}
  <2>1. J = {}
    BY <1>14, <1>12
  <2> QED
    BY <2>1, <1>7, <1>8, <1>14 DEF w
<1>15. CASE I # {}
  <2>1. Max(I) \in I /\ \A j \in I : j <= Max(I)
    BY <1>13, <1>15, MaxExists
  <2>2. PICK m \in I : m = Max(I)
    BY <2>1
  <2>3. m \in 1 .. N /\ \A j \in I : j <= m /\ j \in 1 .. N
    BY <2>1, <2>2, <1>13
  <2>4. p[m] \in J /\ p[m] \in Int
    BY <2>3, <1>10, <1>11
  <2>5. \A i \in J : i <= p[m] /\ i \in Int
    <3> TAKE i \in J
    <3>1. PICK j \in I : p[j] = i
      BY <1>12
    <3>2. j \in 1 .. N /\ j <= m /\ p[j] \in 1 .. M
      BY <2>3, <1>10
    <3>3. CASE j = m
      BY <3>1, <3>2, <3>3, <1>10
    <3>4. CASE j < m
      <4>1. /\ f[p[j]].key \in Sources /\ f[p[j]].key = f[p[m]].key
            /\ Upper[f[p[j]].of] = Upper[f[p[m]].of]
        <5>1. /\ <<bs[j].key, Upper[bs[j].of]>> = b
              /\ <<bs[m].key, Upper[bs[m].of]>> = b
          BY <1>6
        <5>2. /\ bs[j].key = f[p[j]].key /\ bs[j].of = f[p[j]].of
              /\ bs[m].key = f[p[m]].key /\ bs[m].of = f[p[m]].of
              /\ f[p[j]].key \in Sources
          BY <1>10, <2>3, <3>2
        <5>3. bs[j].key = bs[m].key /\ Upper[bs[j].of] = Upper[bs[m].of]
          BY <5>1
        <5> QED
          BY <5>2, <5>3
      <4>2. f[p[j]].of = f[p[m]].of
        BY <4>1, <1>5, <1>10, <2>3, <3>2 DEF Kept
      <4>3. p[j] < p[m]
        BY <4>1, <4>2, <3>4, <3>2, <2>3, <1>9, <1>10
      <4> QED
        BY <4>3, <3>1, <3>2, <2>4
    <3> QED
      BY <3>2, <3>3, <3>4, <2>3
  <2>6. Max(J) = p[m]
    BY <2>4, <2>5, MaxIs
  <2>7. f[p[m]].words[1] = bs[m].words[1]
    BY <2>3, <1>10
  <2> QED
    BY <2>2, <2>4, <2>6, <2>7, <1>7, <1>8, <1>15 DEF w
<1> QED
  BY <1>14, <1>15

\* The form of a file always has a chord.
LEMMA FormHasChord ==
  ASSUME NEW f \in Seq(Lines)
  PROVE  WebReads(f).chord # <<>>
<1>1. PICK ws : WebReads(f).chord = IF ws = <<>> THEN DefaultChord ELSE ws
  BY WebReadsLast
<1>2. DefaultChord # <<>>
  BY DEF DefaultChord
<1> QED
  BY <1>1, <1>2

\* Loading and saving keeps what the mapper acts on.
LEMMA SavedUntouched ==
  ASSUME NEW f \in Seq(Lines), Kept(f)
  PROVE  Effect(MapperReads(WebWrites(WebReads(f)))) = Effect(MapperReads(f))
<1> DEFINE y == Says(WebReads(f))
           x == MapperReads(f)
<1>1. PICK w \in Forms : w = WebReads(f) /\ w.chord # <<>>
  BY WebReadsLast, FormHasChord
<1>2. Effect(MapperReads(WebWrites(w))) = Effect(Says(w))
  BY <1>1, WritesWhatItSays
<1>3. /\ \A k \in NumKeys : y.num[k] = x.num[k]
      /\ \A k \in WordKeys : y.word[k] = x.word[k]
      /\ \A b \in Bindable : y.bind[b] = x.bind[b]
      /\ y.chord = x.chord
  BY KeptNums, KeptWords, KeptBinds, KeptChord
<1>4. x \in Confs
  BY MapperReadsLast
<1>5. /\ y = [num |-> y.num, word |-> y.word, bind |-> y.bind, chord |-> y.chord]
      /\ y.word = [k \in WordKeys |-> y.word[k]]
      /\ y.bind = [b \in Bindable |-> y.bind[b]]
  BY <1>1, SaysIs
<1> HIDE DEF x, y
<1>6. /\ x = [num |-> x.num, word |-> x.word, bind |-> x.bind, chord |-> x.chord]
      /\ x.word = [k \in WordKeys |-> x.word[k]]
      /\ x.bind = [b \in Bindable |-> x.bind[b]]
  BY <1>4, ConfParts
<1>7. y.word = x.word /\ y.bind = x.bind
  BY <1>3, <1>5, <1>6
<1>8. \A k \in NumKeys : ActsOn(y.num, k) = ActsOn(x.num, k)
  BY <1>3, NumKinds DEF ActsOn
<1>9. Effect(y) = Effect(x)
  BY <1>3, <1>5, <1>6, <1>7, <1>8, EffectAlike
<1> QED
  BY <1>1, <1>2, <1>9 DEF x, y

-----------------------------------------------------------------------------
(* The file and the form, at any time.                                     *)

\* The form holds bindings of the right type whatever is changed in it, and
\* until an editor opens the file it is what kbm-web wrote last.
FileInv ==
  /\ file \in Seq(Lines) /\ editing \subseteq Seq(Lines)
  /\ editing # {} => saved = NoForm
  /\ form # NoForm => form \in Forms
  /\ saved # NoForm => saved \in Forms /\ file = WebWrites(saved)

LEMMA RebindTypes ==
  ASSUME NEW bs \in Seq(Bindings), NEW b \in Bindings
  PROVE  Rebind(bs, b) \in Seq(Bindings)
<1> DEFINE same(i) == bs[i].key = b.key /\ bs[i].of = b.of
           at == CHOOSE i \in DOMAIN bs : same(i) /\ \A j \in 1 .. i - 1 : ~same(j)
<1>1. Rebind(bs, b) = IF \E i \in DOMAIN bs : same(i) THEN [bs EXCEPT ![at] = b]
                      ELSE Append(bs, b)
  BY DEF Rebind
<1> HIDE DEF at
<1>2. [bs EXCEPT ![at] = b] \in Seq(Bindings)
  <2>1. PICK N \in Nat : bs \in [1 .. N -> Bindings]
    OBVIOUS
  <2>2. [bs EXCEPT ![at] = b] \in [1 .. N -> Bindings]
    BY <2>1
  <2> HIDE DEF same
  <2> QED
    BY <2>2
<1>3. Append(bs, b) \in Seq(Bindings)
  OBVIOUS
<1> QED
  BY <1>1, <1>2, <1>3

LEMMA RemoveTypes ==
  ASSUME NEW bs \in Seq(Bindings), NEW i \in DOMAIN bs
  PROVE  RemoveAt(bs, i) \in Seq(Bindings)
<1>1. PICK N \in Nat : N = Len(bs) /\ DOMAIN bs = 1 .. N
  BY DomainIs
<1>2. SubSeq(bs, 1, i - 1) \in Seq(Bindings)
  <2>1. i - 1 \in 0 .. N /\ 1 \in 1 .. N + 1
    BY <1>1
  <2> QED
    BY <1>1, <2>1
<1>3. SubSeq(bs, i + 1, Len(bs)) \in Seq(Bindings)
  <2>1. i + 1 \in 1 .. N + 1
    BY <1>1
  <2> QED
    BY <1>1, <2>1
<1>4. SubSeq(bs, 1, i - 1) \o SubSeq(bs, i + 1, Len(bs)) \in Seq(Bindings)
  BY <1>2, <1>3, TwoParts
<1> QED
  BY <1>4 DEF RemoveAt

LEMMA ChangedTypes ==
  ASSUME NEW c \in Forms, NEW e \in Edits
  PROVE  Changed(c, e) \in Forms
<1> DEFINE l == Line(e)
<1>1. l \in Lines
  BY EditsAssumption
<1>2. l.key = e.key /\ l.of = e.of /\ l.num = e.num /\ l.words = e.words
  BY DEF Line
<1> HIDE DEF l
<1>3. /\ e.key \in Keys /\ e.num \in Int
      /\ e.key \in WordKeys => e.words[1] \in STRING
      /\ e.key = "hotkey" => e.words \in Seq(Names)
      /\ e.key \in Sources => e.of \in Names /\ e.words \in Seq(STRING) /\ e.words # <<>>
  BY <1>1, <1>2, LineTypes
<1>4. CASE e.key \in NumKeys
  <2>1. Changed(c, e) = [c EXCEPT !.num[e.key] = e.num]
    BY <1>4, KeyKinds DEF Changed
  <2> QED
    BY <2>1, <1>3, <1>4, FormChanges
<1>5. CASE e.key \in WordKeys
  <2>1. Changed(c, e) = [c EXCEPT !.word[e.key] = e.words[1]]
    BY <1>5, KeyKinds DEF Changed
  <2> QED
    BY <2>1, <1>3, <1>5, FormChanges
<1>6. CASE e.key \in Sources
  <2> DEFINE b == [key |-> e.key, of |-> e.of, words |-> e.words]
  <2>1. Changed(c, e) = [c EXCEPT !.binds = Rebind(c.binds, b)]
    BY <1>6, KeyKinds DEF Changed
  <2>2. b \in Bindings
    BY <1>3, <1>6 DEF Bindings
  <2>3. c.binds \in Seq(Bindings)
    BY DEF Forms
  <2> HIDE DEF b
  <2>4. Rebind(c.binds, b) \in Seq(Bindings)
    BY <2>2, <2>3, RebindTypes
  <2> QED
    BY <2>1, <2>4, FormChanges
<1>7. CASE e.key = "hotkey"
  <2>1. Changed(c, e) = [c EXCEPT !.chord = e.words]
    BY <1>7, KeyKinds DEF Changed
  <2> QED
    BY <2>1, <1>3, <1>7, FormChanges
<1> QED
  BY <1>3, <1>4, <1>5, <1>6, <1>7, KeyKinds

LEMMA FileInit == SettingsInit => FileInv
BY EditsAssumption DEF SettingsInit, FileInv

LEMMA FileStep ==
  ASSUME FileInv, [SettingsNext]_settingsVars
  PROVE  FileInv'
<1>0. /\ file \in Seq(Lines) /\ editing \subseteq Seq(Lines)
      /\ editing # {} => saved = NoForm
      /\ form # NoForm => form \in Forms
      /\ saved # NoForm => saved \in Forms /\ file = WebWrites(saved)
  BY DEF FileInv
<1>1. CASE EditorOpens
  <2>1. /\ file' = <<>> /\ saved' = NoForm /\ form' = form
        /\ \E f \in Drafts : editing' = {f}
    BY <1>1 DEF EditorOpens
  <2>2. <<>> \in Seq(Lines)
    OBVIOUS
  <2>3. editing' \subseteq Seq(Lines)
    BY <2>1, EditsAssumption
  <2> QED
    BY <1>0, <2>1, <2>2, <2>3 DEF FileInv
<1>2. CASE EditorCloses
  <2>1. /\ file' \in editing /\ editing' = {} /\ saved' = saved /\ form' = form
        /\ editing # {}
    BY <1>2 DEF EditorCloses
  <2> QED
    BY <1>0, <2>1 DEF FileInv
<1>3. CASE FormLoads
  <2>1. /\ form' = WebReads(file) /\ UNCHANGED <<file, editing, saved>>
    BY <1>3 DEF FormLoads
  <2>2. PICK f \in Seq(Lines) : f = file
    BY <1>0
  <2>3. WebReads(f) \in Forms
    BY WebReadsLast
  <2> QED
    BY <1>0, <2>1, <2>2, <2>3 DEF FileInv
<1>4. CASE FormEdited
  <2>1. /\ form # NoForm /\ UNCHANGED <<file, editing, saved>>
        /\ \E e \in Edits : form' = Changed(form, e)
    BY <1>4 DEF FormEdited
  <2>2. PICK c \in Forms : c = form
    BY <1>0, <2>1
  <2>3. PICK e \in Edits : form' = Changed(c, e)
    BY <2>1, <2>2
  <2>4. form' \in Forms
    BY <2>3, ChangedTypes
  <2> QED
    BY <1>0, <2>1, <2>4 DEF FileInv
<1>5. CASE BindingDeleted
  <2>1. /\ form # NoForm /\ UNCHANGED <<file, editing, saved>>
        /\ \E i \in DOMAIN form.binds :
             form' = [form EXCEPT !.binds = RemoveAt(form.binds, i)]
    BY <1>5 DEF BindingDeleted
  <2>2. PICK c \in Forms : c = form
    BY <1>0, <2>1
  <2>3. PICK i \in DOMAIN c.binds : form' = [c EXCEPT !.binds = RemoveAt(c.binds, i)]
    BY <2>1, <2>2
  <2>4. c.binds \in Seq(Bindings)
    BY DEF Forms
  <2>5. RemoveAt(c.binds, i) \in Seq(Bindings)
    BY <2>4, RemoveTypes
  <2>6. form' \in Forms
    BY <2>3, <2>5, FormChanges
  <2> QED
    BY <1>0, <2>1, <2>6 DEF FileInv
<1>6. CASE FormSaved
  <2>1. /\ form # NoForm /\ file' = WebWrites(form) /\ saved' = form
        /\ editing' = {} /\ form' = form
    BY <1>6 DEF FormSaved
  <2>2. PICK c \in Forms : c = form
    BY <1>0, <2>1
  <2>3. WebWrites(c) \in Seq(Lines)
    BY WebWritesIs
  <2> QED
    BY <1>0, <2>1, <2>2, <2>3 DEF FileInv
<1>7. CASE MapperStarts \/ MapperWatches \/ MapperReloads \/ PassStarts \/ DaemonStops
           \/ UNCHANGED settingsVars
  <2>1. UNCHANGED <<file, editing, form, saved>>
    BY <1>7 DEF MapperStarts, MapperWatches, MapperReloads, PassStarts, DaemonStops,
                settingsVars
  <2> QED
    BY <1>0, <2>1 DEF FileInv
<1> QED
  BY <1>1, <1>2, <1>3, <1>4, <1>5, <1>6, <1>7 DEF SettingsNext

\* Each daemon runs something it may run.
DaemonInv ==
  /\ daemon \in {"off", "mapper loaded", "mapper", "passthrough"}
  /\ notified => daemon = "mapper"
  /\ conf.chord \in Seq(MapperCodes["key"]) /\ Len(conf.chord) <= MaxChord
  /\ \A k \in Scales : conf.num[k] \in 1 .. 400
  /\ chord \in Seq(PassNames) /\ Len(chord) \in 1 .. MaxChord

LEMMA DefaultLimits ==
  /\ Defaults.chord \in Seq(MapperCodes["key"]) /\ Len(Defaults.chord) <= MaxChord
  /\ \A k \in Scales : Defaults.num[k] \in 1 .. 400
  /\ DefaultChord \in Seq(PassNames) /\ Len(DefaultChord) \in 1 .. MaxChord
<1>1. Defaults.chord = DefaultChord /\ \A k \in NumKeys : Defaults.num[k] = DefaultNum(k)
  BY DEF Defaults
<1>2. \A k \in Scales : k \in NumKeys /\ DefaultNum(k) = 100
  BY DefaultsTypes DEF NumKeys
<1>3. Len(DefaultChord) = 2
  BY DefaultChordTypes
<1>4. Len(DefaultChord) \in 1 .. MaxChord
  BY <1>3 DEF MaxChord
<1>5. \A k \in Scales : Defaults.num[k] \in 1 .. 400
  <2> TAKE k \in Scales
  <2>1. Defaults.num[k] = 100
    BY <1>1, <1>2
  <2> QED
    BY <2>1
<1>6. Len(Defaults.chord) <= MaxChord
  BY <1>1, <1>3 DEF MaxChord
<1> QED
  BY <1>1, <1>4, <1>5, <1>6, DefaultChordTypes

LEMMA DaemonStep ==
  ASSUME FileInv, DaemonInv, [SettingsNext]_settingsVars
  PROVE  DaemonInv'
<1>0. PICK f \in Seq(Lines) : f = file
  BY DEF FileInv
<1>1. CASE EditorOpens \/ FormLoads \/ FormEdited \/ BindingDeleted
           \/ UNCHANGED settingsVars
  <2>1. UNCHANGED <<daemon, conf, chord, notified>>
    BY <1>1 DEF EditorOpens, FormLoads, FormEdited, BindingDeleted, settingsVars
  <2> QED
    BY <2>1 DEF DaemonInv
<1>2. CASE EditorCloses \/ FormSaved
  <2>1. UNCHANGED <<daemon, conf, chord>> /\ Announce
    BY <1>2 DEF EditorCloses, FormSaved
  <2> QED
    BY <2>1 DEF DaemonInv, Announce
<1>3. CASE MapperStarts \/ MapperReloads
  <2>1. /\ conf' = MapperReads(f) /\ UNCHANGED chord
        /\ daemon' \in {"mapper loaded", "mapper"} /\ (notified' => daemon' = "mapper")
    <3>1. CASE MapperStarts
      <4>1. /\ daemon = "off" /\ daemon' = "mapper loaded"
            /\ conf' = MapperReads(file) /\ UNCHANGED <<chord, notified>>
        BY <3>1 DEF MapperStarts
      <4>2. ~notified
        BY <4>1 DEF DaemonInv
      <4> QED
        BY <4>1, <4>2, <1>0
    <3>2. CASE MapperReloads
      <4>1. /\ daemon = "mapper" /\ daemon' = daemon /\ conf' = MapperReads(file)
            /\ UNCHANGED chord
        BY <3>2 DEF MapperReloads
      <4> QED
        BY <4>1, <1>0
    <3> QED
      BY <1>3, <3>1, <3>2
  <2>2. /\ conf'.chord \in Seq(MapperCodes["key"]) /\ Len(conf'.chord) <= MaxChord
        /\ \A k \in Scales : conf'.num[k] \in 1 .. 400
    BY <2>1, MapperLimits
  <2> QED
    BY <2>1, <2>2 DEF DaemonInv
<1>4. CASE MapperWatches
  BY <1>4 DEF MapperWatches, DaemonInv
<1>5. CASE PassStarts
  <2>1. /\ daemon = "off" /\ daemon' = "passthrough" /\ chord' = PassReads(f)
        /\ UNCHANGED <<conf, notified>>
    BY <1>0, <1>5 DEF PassStarts
  <2>2. chord' \in Seq(PassNames) /\ Len(chord') \in 1 .. MaxChord
    BY <2>1, PassLimits
  <2> QED
    BY <2>1, <2>2 DEF DaemonInv
<1>6. CASE DaemonStops
  <2>1. /\ daemon' = "off" /\ notified' = FALSE
        /\ conf' = Defaults /\ chord' = DefaultChord
    BY <1>6 DEF DaemonStops
  <2> QED
    BY <2>1, DefaultLimits DEF DaemonInv
<1> QED
  BY <1>1, <1>2, <1>3, <1>4, <1>5, <1>6 DEF SettingsNext

SettingsInv == FileInv /\ DaemonInv

\* The inductive invariant: the file is always lines, the form always a form,
\* what was saved is what was written, and the daemons run something they may
\* run, whatever is edited, saved, started and stopped.
THEOREM SettingsInvariance == SettingsSpec => []SettingsInv
<1>1. SettingsInit => SettingsInv
  <2>1. SettingsInit => DaemonInv
    BY DefaultLimits DEF SettingsInit, DaemonInv
  <2> QED
    BY <2>1, FileInit DEF SettingsInv
<1>2. SettingsInv /\ [SettingsNext]_settingsVars => SettingsInv'
  BY FileStep, DaemonStep DEF SettingsInv
<1> QED
  BY <1>1, <1>2, PTL DEF SettingsSpec
-----------------------------------------------------------------------------
(* What holds for every file, every sequence of edits and every table of   *)
(* names.                                                                  *)

\* Whatever the file says, a daemon runs a chord of at most eight keys of its own
\* table, kbm-passthrough never an empty one, and a sensitivity scale is
\* never zero; only a watching dualsense-ffsd is notified (config_load, lookup_ci,
\* hotkey_load).
THEOREM SettingsTypes == SettingsSpec => []SettingsTypeOK
<1>1. SettingsInv => SettingsTypeOK
  <2> SUFFICES ASSUME SettingsInv PROVE SettingsTypeOK
    OBVIOUS
  <2>1. ToSet(conf.chord) \subseteq MapperCodes["key"] /\ ToSet(chord) \subseteq PassNames
    <3>1. conf.chord \in Seq(MapperCodes["key"]) /\ chord \in Seq(PassNames)
      BY DEF SettingsInv, DaemonInv
    <3>2. /\ \A i \in DOMAIN conf.chord : conf.chord[i] \in MapperCodes["key"]
          /\ \A i \in DOMAIN chord : chord[i] \in PassNames
      BY <3>1, DomainIs
    <3> QED
      BY <3>2 DEF ToSet
  <2> QED
    BY <2>1 DEF SettingsInv, DaemonInv, SettingsTypeOK
<1> QED
  BY <1>1, SettingsInvariance, PTL

\* The two daemons, which read the file with two parsers and look names up in two
\* tables, watch for the same chord whenever the file says it once, without
\* a blank before the '=', in names that both know, and its lines end in LF
\* (config_load, hotkey_load).
THEOREM DaemonsAgree == SettingsSpec => []ChordsAgree
<1>1. SettingsInv => ChordsAgree
  <2> SUFFICES ASSUME SettingsInv,
                      \A i, j \in About(file, "hotkey") : i = j,
                      \A i \in About(file, "hotkey") :
                        /\ file[i].tight /\ ~file[i].cr /\ file[i].words # <<>>
                        /\ \A w \in ToSet(file[i].words) :
                             Upper[w] \in MapperCodes["key"] \cap PassNames
               PROVE  MapperReads(file).chord = PassReads(file)
    BY DEF ChordsAgree, PlainChord, About
  <2>1. PICK f \in Seq(Lines) : f = file
    BY DEF SettingsInv, FileInv
  <2>2. /\ \A i, j \in About(f, "hotkey") : i = j
        /\ \A i \in About(f, "hotkey") :
             /\ f[i].tight /\ ~f[i].cr /\ f[i].words # <<>>
             /\ \A w \in ToSet(f[i].words) :
                  Upper[w] \in MapperCodes["key"] \cap PassNames
    BY <2>1
  <2>3. MapperReads(f).chord = PassReads(f)
    BY <2>2, ReadAlike
  <2> QED
    BY <2>1, <2>3
<1> QED
  BY <1>1, SettingsInvariance, PTL

\* What kbm-web writes, and config.c reads back with a parser and defaults of its
\* own, is what the form said, after any changes of the form: nothing that is
\* left out of the file, sorted or clamped makes a difference to the mapper,
\* except for an empty chord.
THEOREM SavedFormRuns == SettingsSpec => []FormRuns
<1>1. SettingsInv => FormRuns
  <2> SUFFICES ASSUME SettingsInv, saved # NoForm, saved.chord # <<>>
               PROVE  Effect(MapperReads(file)) = Effect(Says(saved))
    BY DEF FormRuns
  <2>1. PICK c \in Forms : c = saved /\ file = WebWrites(c) /\ c.chord # <<>>
    BY DEF SettingsInv, FileInv
  <2>2. Effect(MapperReads(WebWrites(c))) = Effect(Says(c))
    BY <2>1, WritesWhatItSays
  <2> QED
    BY <2>1, <2>2
<1> QED
  BY <1>1, SettingsInvariance, PTL

\* Opening the form and saving it untouched never changes what the mapper does,
\* for any file that kbm-web can keep (loadConfig, saveConfig, config_load).
THEOREM UntouchedSave == SettingsSpec => []UntouchedSaveKeepsMapper
<1>1. SettingsInv => UntouchedSaveKeepsMapper
  <2> SUFFICES ASSUME SettingsInv, Kept(file)
               PROVE  Effect(MapperReads(WebWrites(WebReads(file))))
                        = Effect(MapperReads(file))
    BY DEF UntouchedSaveKeepsMapper
  <2>1. PICK f \in Seq(Lines) : f = file
    BY DEF SettingsInv, FileInv
  <2>2. Kept(f)
    BY <2>1
  <2>3. Effect(MapperReads(WebWrites(WebReads(f)))) = Effect(MapperReads(f))
    BY <2>2, SavedUntouched
  <2> QED
    BY <2>1, <2>3
<1> QED
  BY <1>1, SettingsInvariance, PTL
-----------------------------------------------------------------------------
(* The file and the running daemon.                                        *)

\* Between the reading of the file and the watch a change is missed; from the
\* watch on it is notified.
WatchInv ==
  daemon \in {"mapper loaded", "mapper"} /\ ~notified /\ editing = {} /\ ~missed
    => conf = MapperReads(file)

LEMMA WatchStep ==
  ASSUME WatchInv, [SettingsNext]_settingsVars
  PROVE  WatchInv'
<1> USE DEF WatchInv
<1>1. CASE EditorOpens
  <2>1. editing' # {}
    BY <1>1 DEF EditorOpens
  <2> QED
    BY <2>1
<1>2. CASE EditorCloses \/ FormSaved
  <2>1. Announce /\ UNCHANGED daemon
    BY <1>2 DEF EditorCloses, FormSaved
  <2> QED
    BY <2>1 DEF Announce
<1>3. CASE FormLoads \/ FormEdited \/ BindingDeleted \/ UNCHANGED settingsVars
  <2>1. UNCHANGED <<file, editing, daemon, conf, notified, missed>>
    BY <1>3 DEF FormLoads, FormEdited, BindingDeleted, settingsVars
  <2> QED
    BY <2>1
<1>4. CASE MapperStarts \/ MapperReloads
  <2>1. conf' = MapperReads(file') /\ UNCHANGED file
    BY <1>4 DEF MapperStarts, MapperReloads
  <2> QED
    BY <2>1
<1>5. CASE MapperWatches
  BY <1>5 DEF MapperWatches
<1>6. CASE PassStarts \/ DaemonStops
  <2>1. daemon' \in {"passthrough", "off"}
    BY <1>6 DEF PassStarts, DaemonStops
  <2> QED
    BY <2>1
<1> QED
  BY <1>1, <1>2, <1>3, <1>4, <1>5, <1>6 DEF SettingsNext

\* dualsense-ffsd runs the file as it is once it has read its notifications,
\* for all files and any number of saves, hand edits and reloads in any order
\* (config_load, reload_config_if_changed).
THEOREM RunsTheFile == SettingsSpec => []MapperRunsFile
<1>1. SettingsInit => WatchInv
  BY DEF SettingsInit, WatchInv
<1>2. WatchInv /\ [SettingsNext]_settingsVars => WatchInv'
  BY WatchStep
<1>3. WatchInv => MapperRunsFile
  BY DEF WatchInv, MapperRunsFile
<1> QED
  BY <1>1, <1>2, <1>3, PTL DEF SettingsSpec
=============================================================================

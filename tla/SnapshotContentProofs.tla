------------------------ MODULE SnapshotContentProofs ------------------------
(***************************************************************************)
(* Lemmas about what a reader of a chain finds, ContentFrom of             *)
(* SnapshotQuery: the data of the first file that has the cluster, whether *)
(* the chain ends or leads back to one of its files.                       *)
(***************************************************************************)
EXTENDS SnapshotQuery, FiniteSetTheorems, WellFoundedInduction, TLAPS

-----------------------------------------------------------------------------
(* Induction over the naturals, from their well-foundedness.               *)

LEMMA Least ==
    ASSUME NEW T \in SUBSET Nat, T # {}
    PROVE  \E m \in T : \A k \in T : m <= k
<1>1. \E x \in T : \A y \in T : ~ (<<y, x>> \in OpToRel(<, Nat))
  BY NatLessThanWellFounded, WFMin
<1>2. \A x, y \in Nat : x < y => <<x, y>> \in OpToRel(<, Nat)
  BY DEF OpToRel
<1>3. PICK x \in T : \A y \in T : ~ (<<y, x>> \in OpToRel(<, Nat))
  BY <1>1
<1>4. \A y \in T : ~(y < x)
  BY <1>2, <1>3
<1> QED
  BY <1>4

LEMMA Induct ==
    ASSUME NEW S, 0 \in S, \A n \in Nat : n \in S => n + 1 \in S
    PROVE  Nat \subseteq S
<1> SUFFICES ASSUME Nat \ S # {} PROVE FALSE
  OBVIOUS
<1>1. PICK m \in Nat \ S : \A k \in Nat \ S : m <= k
  BY Least
<1>2. m # 0 /\ m - 1 \in Nat
  BY <1>1
<1>3. m - 1 \in S
  BY <1>1, <1>2
<1> QED
  BY <1>1, <1>2, <1>3

-----------------------------------------------------------------------------
(* The files from one down, without an end.                                *)

Links == Files \cup {NoFile}

\* g is a line of the first m files below f.
IsLine(g, f, m) ==
    /\ g \in [0..m -> Links]
    /\ g[0] = f
    /\ \A n \in 1..m : g[n] = Down(g[n - 1])

LEMMA DownTypes ==
    ASSUME world \in Worlds
    PROVE  /\ \A f \in Links : Down(f) \in Links
           /\ \A f \in Files : Down(f) = Backing(f) /\ Backing(f) \in Links
           /\ Down(NoFile) = NoFile /\ NoFile \notin Files
<1>1. \A f \in Files : Backing(f) \in Links
  BY WorldsAssumption DEF World, Backing, Links
<1> QED
  BY <1>1, NamesAssumption DEF Down, Links

LEMMA LineExists ==
    ASSUME world \in Worlds, NEW f \in Links
    PROVE  \A m \in Nat : \E g : IsLine(g, f, m)
<1> DEFINE S == {m \in Nat : \E g : IsLine(g, f, m)}
<1>1. 0 \in S
  <2>1. IsLine([n \in 0..0 |-> f], f, 0)
    BY DEF IsLine
  <2> QED
    BY <2>1
<1>2. ASSUME NEW m \in Nat, m \in S PROVE m + 1 \in S
  <2>1. PICK g : IsLine(g, f, m)
    BY <1>2
  <2> DEFINE h == [n \in 0..(m + 1) |-> IF n = m + 1 THEN Down(g[m]) ELSE g[n]]
  <2>2. Down(g[m]) \in Links
    BY <2>1, DownTypes DEF IsLine
  <2>3. h \in [0..(m + 1) -> Links]
    BY <2>1, <2>2 DEF IsLine
  <2>4. h[0] = f
    BY <2>1 DEF IsLine
  <2>5. ASSUME NEW n \in 1..(m + 1) PROVE h[n] = Down(h[n - 1])
    <3>1. n - 1 \in 0..m /\ h[n - 1] = g[n - 1]
      OBVIOUS
    <3>2. CASE n = m + 1
      BY <3>1, <3>2
    <3>3. CASE n # m + 1
      BY <2>1, <3>1, <3>3 DEF IsLine
    <3> QED
      BY <3>2, <3>3
  <2> HIDE DEF h
  <2>6. IsLine(h, f, m + 1)
    BY <2>3, <2>4, <2>5 DEF IsLine
  <2> QED
    BY <2>6
<1> HIDE DEF S
<1>3. Nat \subseteq S
  BY <1>1, <1>2, Induct
<1> QED
  BY <1>3 DEF S

LEMMA LineUnique ==
    ASSUME NEW f, NEW m \in Nat, NEW l \in Nat, NEW g, NEW h, IsLine(g, f, m), IsLine(h, f, l),
           NEW n \in Nat, n <= m, n <= l
    PROVE  g[n] = h[n]
<1> DEFINE S == {k \in Nat : k <= m /\ k <= l => g[k] = h[k]}
<1>1. 0 \in S
  BY DEF IsLine
<1>2. ASSUME NEW k \in Nat, k \in S PROVE k + 1 \in S
  <2>1. CASE k + 1 <= m /\ k + 1 <= l
    <3>1. g[k] = h[k] /\ k + 1 \in 1..m /\ k + 1 \in 1..l /\ (k + 1) - 1 = k
      BY <1>2, <2>1
    <3>2. g[k + 1] = Down(g[k]) /\ h[k + 1] = Down(h[k])
      BY <3>1 DEF IsLine
    <3> QED
      BY <3>1, <3>2
  <2> QED
    BY <2>1
<1> HIDE DEF S
<1>3. n \in S
  BY <1>1, <1>2, Induct
<1> QED
  BY <1>3 DEF S

\* The n-th file below f, for every n.
Trail(f) == [n \in Nat |-> (CHOOSE g : IsLine(g, f, n))[n]]

IsTrail(t, f) ==
    /\ t \in [Nat -> Links]
    /\ t[0] = f
    /\ \A n \in Nat : t[n + 1] = Down(t[n])

LEMMA TrailIs == ASSUME world \in Worlds, NEW f \in Links PROVE IsTrail(Trail(f), f)
<1> DEFINE G(n) == CHOOSE g : IsLine(g, f, n)
<1>1. \A n \in Nat : IsLine(G(n), f, n)
  BY LineExists
<1>2. \A n \in Nat : Trail(f)[n] = G(n)[n]
  BY DEF Trail
<1> HIDE DEF G
<1>3. \A n \in Nat : G(n)[n] \in Links
  BY <1>1 DEF IsLine
<1>4. Trail(f) \in [Nat -> Links]
  BY <1>2, <1>3 DEF Trail
<1>5. Trail(f)[0] = f
  BY <1>1, <1>2 DEF IsLine
<1>6. ASSUME NEW n \in Nat PROVE Trail(f)[n + 1] = Down(Trail(f)[n])
  <2>1. IsLine(G(n + 1), f, n + 1) /\ IsLine(G(n), f, n)
    BY <1>1
  <2>2. G(n + 1)[n + 1] = Down(G(n + 1)[n])
    <3>1. n + 1 \in 1..(n + 1) /\ (n + 1) - 1 = n
      OBVIOUS
    <3> QED
      BY <2>1, <3>1 DEF IsLine
  <2>3. G(n + 1)[n] = G(n)[n]
    BY <2>1, LineUnique
  <2> QED
    BY <1>2, <2>2, <2>3
<1> QED
  BY <1>4, <1>5, <1>6 DEF IsTrail

LEMMA TrailUnique ==
    ASSUME NEW f, NEW t, NEW u, IsTrail(t, f), IsTrail(u, f)
    PROVE  \A n \in Nat : t[n] = u[n]
<1> DEFINE S == {n \in Nat : t[n] = u[n]}
<1>1. 0 \in S /\ \A n \in Nat : n \in S => n + 1 \in S
  BY DEF IsTrail
<1> HIDE DEF S
<1>2. Nat \subseteq S
  BY <1>1, Induct
<1> QED
  BY <1>2 DEF S

\* The trail from a file on a trail is the rest of it.
LEMMA TrailFrom ==
    ASSUME world \in Worlds, NEW f \in Links, NEW i \in Nat
    PROVE  /\ Trail(f)[i] \in Links
           /\ \A n \in Nat : Trail(Trail(f)[i])[n] = Trail(f)[i + n]
<1> DEFINE t == Trail(f)
           u == [n \in Nat |-> t[i + n]]
<1>1. IsTrail(t, f)
  BY TrailIs
<1> HIDE DEF t
<1>2. t[i] \in Links
  BY <1>1 DEF IsTrail
<1>3. \A n \in Nat : u[n] = t[i + n] /\ t[i + n] \in Links
  BY <1>1 DEF IsTrail
<1>4. \A n \in Nat : u[n + 1] = Down(u[n])
  <2>1. \A n \in Nat : i + n \in Nat /\ i + (n + 1) = (i + n) + 1
    OBVIOUS
  <2> QED
    BY <1>1, <1>3, <2>1 DEF IsTrail
<1>5. u \in [Nat -> Links] /\ u[0] = t[i]
  BY <1>1, <1>3
<1>6. IsTrail(u, t[i])
  BY <1>4, <1>5 DEF IsTrail
<1>7. IsTrail(Trail(t[i]), t[i])
  BY <1>2, TrailIs
<1> HIDE DEF u
<1>8. \A n \in Nat : Trail(t[i])[n] = u[n]
  BY <1>6, <1>7, TrailUnique
<1> QED
  BY <1>2, <1>3, <1>8 DEF t

LEMMA TrailOfNoFile == ASSUME world \in Worlds PROVE \A n \in Nat : Trail(NoFile)[n] = NoFile
<1> DEFINE t == [n \in Nat |-> NoFile]
<1>1. IsTrail(t, NoFile)
  BY DownTypes DEF IsTrail, Links
<1>2. IsTrail(Trail(NoFile), NoFile)
  BY TrailIs DEF Links
<1> HIDE DEF t
<1>3. \A n \in Nat : Trail(NoFile)[n] = t[n]
  BY <1>1, <1>2, TrailUnique
<1> QED
  BY <1>3 DEF t

\* Line shows the beginning of the trail.
LEMMA LineIs ==
    ASSUME world \in Worlds, NEW f \in Links
    PROVE  Cardinality(Files) \in Nat /\ \A n \in Steps : Line(f)[n] = Trail(f)[n]
<1>1. Cardinality(Files) \in Nat
  BY NamesAssumption, FS_CardinalityType
<1> DEFINE Def(g) == [n \in Steps |-> IF n = 0 THEN f ELSE Down(g[n - 1])]
           L == CHOOSE g : g = Def(g)
           t == [n \in Steps |-> Trail(f)[n]]
<1>2. Line(f) = L
  BY DEF Line
<1>3. IsTrail(Trail(f), f)
  BY TrailIs
<1>4. t = Def(t)
  <2>1. ASSUME NEW n \in Steps
        PROVE  t[n] = IF n = 0 THEN f ELSE Down(t[n - 1])
    <3>1. CASE n = 0
      BY <1>1, <1>3, <3>1 DEF IsTrail, Steps
    <3>2. CASE n # 0
      <4>1. n - 1 \in Nat /\ n - 1 \in Steps /\ (n - 1) + 1 = n
        BY <1>1, <3>2 DEF Steps
      <4>2. Trail(f)[(n - 1) + 1] = Down(Trail(f)[n - 1])
        BY <1>3, <4>1 DEF IsTrail
      <4> QED
        BY <3>2, <4>1, <4>2
    <3> QED
      BY <3>1, <3>2
  <2> QED
    BY <2>1
<1>5. L = Def(L)
  BY <1>4
<1> HIDE DEF L
<1>6. DOMAIN L = Steps /\ \A n \in Steps : L[n] = IF n = 0 THEN f ELSE Down(L[n - 1])
  BY <1>5
<1> DEFINE S == {n \in Nat : n \in Steps => L[n] = Trail(f)[n]}
<1>7. 0 \in S
  BY <1>3, <1>6 DEF IsTrail
<1>8. ASSUME NEW n \in Nat, n \in S PROVE n + 1 \in S
  <2>1. CASE n + 1 \in Steps
    <3>1. n \in Steps /\ n + 1 # 0 /\ (n + 1) - 1 = n
      BY <1>1, <2>1 DEF Steps
    <3>2. L[n + 1] = Down(L[n]) /\ L[n] = Trail(f)[n]
      BY <1>6, <1>8, <2>1, <3>1
    <3> QED
      BY <1>3, <3>2 DEF IsTrail
  <2> QED
    BY <2>1
<1> HIDE DEF S
<1>9. Nat \subseteq S
  BY <1>7, <1>8, Induct
<1> QED
  BY <1>1, <1>2, <1>9 DEF S, Steps

\* What is on a trail at all is on it within as many steps as there are files.
LEMMA Recurs ==
    ASSUME world \in Worlds, NEW f \in Links
    PROVE  \A n \in Nat : \E k \in Steps : k <= n /\ Trail(f)[k] = Trail(f)[n]
<1> DEFINE N == Cardinality(Files)
           t == Trail(f)
           Missed == {n \in Nat : ~ \E k \in Steps : k <= n /\ t[k] = t[n]}
<1>1. N \in Nat /\ Steps = 0..N
  BY LineIs DEF Steps
<1>2. IsTrail(t, f)
  BY TrailIs
<1>3. \A i, n \in Nat : Trail(t[i])[n] = t[i + n]
  BY TrailFrom
<1> HIDE DEF N, t
<1> SUFFICES ASSUME Missed # {} PROVE FALSE
  BY DEF t
<1>4. PICK n \in Missed : \A m \in Missed : n <= m
  BY Least
<1>5. n \in Nat /\ n > N
  BY <1>1, <1>4
<1> HIDE DEF Missed
<1>6. \A i, j \in Nat : ~(i < j /\ j <= N /\ t[i] = t[j])
  <2> SUFFICES ASSUME NEW i \in Nat, NEW j \in Nat, i < j, j <= N, t[i] = t[j]
               PROVE  FALSE
    OBVIOUS
  <2> DEFINE d == n - j
  <2>1. d \in Nat /\ j + d = n /\ i + d \in Nat /\ i + d < n
    BY <1>1, <1>5
  <2> HIDE DEF d
  <2>2. t[i + d] = t[n]
    <3>1. Trail(t[i])[d] = t[i + d] /\ Trail(t[j])[d] = t[j + d]
      BY <1>3, <2>1
    <3> QED
      BY <2>1, <3>1
  <2>3. i + d \notin Missed
    BY <1>4, <1>5, <2>1 DEF Missed
  <2>4. PICK k \in Steps : k <= i + d /\ t[k] = t[i + d]
    BY <2>1, <2>3 DEF Missed
  <2>5. k <= n /\ t[k] = t[n]
    BY <1>1, <1>5, <2>1, <2>2, <2>4
  <2> QED
    BY <1>4, <2>5 DEF Missed
<1>7. \A i \in Steps : t[i] # NoFile
  <2> SUFFICES ASSUME NEW i \in Steps, t[i] = NoFile PROVE FALSE
    OBVIOUS
  <2> DEFINE d == n - i
  <2>1. d \in Nat /\ i + d = n /\ i \in Nat /\ i <= n
    BY <1>1, <1>5
  <2> HIDE DEF d
  <2>2. t[n] = NoFile
    <3>1. Trail(t[i])[d] = t[i + d]
      BY <1>3, <2>1
    <3> QED
      BY <2>1, <3>1, TrailOfNoFile
  <2> QED
    BY <1>4, <2>1, <2>2 DEF Missed
<1> DEFINE b == [i \in Steps |-> t[i]]
<1>8. b \in [Steps -> Files]
  BY <1>1, <1>2, <1>7 DEF IsTrail, Links
<1>9. IsFiniteSet(Steps) /\ Cardinality(Steps) = N + 1
  BY <1>1, FS_Interval
<1>10. \E i, j \in Steps : i # j /\ b[i] = b[j]
  <2>1. Cardinality(Files) < Cardinality(Steps)
    BY <1>1, <1>9 DEF N
  <2> HIDE DEF b
  <2> QED
    BY <1>8, <1>9, <2>1, NamesAssumption, FS_PigeonHole
<1>11. PICK i, j \in Steps : i # j /\ t[i] = t[j]
  BY <1>10
<1>12. i \in Nat /\ j \in Nat /\ i <= N /\ j <= N /\ (i < j \/ j < i)
  BY <1>1, <1>11
<1> QED
  BY <1>6, <1>11, <1>12

-----------------------------------------------------------------------------
(* What a reader finds from a file down.                                   *)

Holds(f, c) == f # NoFile /\ Offset(world.active[f], c) # 0

LEMMA ContentNone ==
    ASSUME world \in Worlds, NEW f \in Links, NEW c, \A n \in Nat : ~Holds(Trail(f)[n], c)
    PROVE  ContentFrom(f, c) = Zeros
<1> DEFINE having == {n \in Steps : /\ Line(f)[n] # NoFile
                                    /\ Offset(world.active[Line(f)[n]], c) # 0}
<1>1. \A n \in Steps : n \in Nat /\ Line(f)[n] = Trail(f)[n]
  BY LineIs DEF Steps
<1>2. having = {}
  BY <1>1 DEF Holds
<1> QED
  BY <1>2 DEF ContentFrom

LEMMA ContentFirst ==
    ASSUME world \in Worlds, NEW f \in Links, NEW c, NEW m \in Nat, Holds(Trail(f)[m], c),
           \A k \in Nat : Holds(Trail(f)[k], c) => m <= k
    PROVE  ContentFrom(f, c) = <<Trail(f)[m], Offset(world.active[Trail(f)[m]], c)>>
<1> DEFINE having == {n \in Steps : /\ Line(f)[n] # NoFile
                                    /\ Offset(world.active[Line(f)[n]], c) # 0}
           first == CHOOSE n \in having : \A k \in having : n <= k
<1>1. \A n \in Steps : n \in Nat /\ Line(f)[n] = Trail(f)[n]
  BY LineIs DEF Steps
<1>2. m \in Steps
  <2>1. PICK k \in Steps : k <= m /\ Trail(f)[k] = Trail(f)[m]
    BY Recurs
  <2>2. k \in Nat /\ m <= k
    BY <1>1, <2>1
  <2> QED
    BY <2>1, <2>2
<1>3. m \in having
  BY <1>1, <1>2 DEF Holds
<1>4. \A k \in having : k \in Nat /\ m <= k
  BY <1>1 DEF Holds
<1> HIDE DEF having
<1>5. first \in having /\ \A k \in having : first <= k
  BY <1>3, <1>4
<1>6. first = m
  <2>1. first \in Nat /\ m <= first /\ first <= m
    BY <1>3, <1>4, <1>5
  <2> QED
    BY <2>1
<1>7. ContentFrom(f, c) = <<Line(f)[first], Offset(world.active[Line(f)[first]], c)>>
  BY <1>3 DEF ContentFrom, having
<1> QED
  BY <1>1, <1>2, <1>6, <1>7

\* Either nothing is found, or the first on the trail.
LEMMA ContentCases ==
    ASSUME world \in Worlds, NEW f \in Links, NEW c
    PROVE  \/ /\ \A n \in Nat : ~Holds(Trail(f)[n], c)
              /\ ContentFrom(f, c) = Zeros
           \/ \E m \in Nat :
                 /\ Holds(Trail(f)[m], c) /\ \A k \in Nat : Holds(Trail(f)[k], c) => m <= k
                 /\ ContentFrom(f, c) = <<Trail(f)[m], Offset(world.active[Trail(f)[m]], c)>>
<1> DEFINE H == {n \in Nat : Holds(Trail(f)[n], c)}
<1>1. CASE H = {}
  BY <1>1, ContentNone
<1>2. CASE H # {}
  <2>1. \E m \in H : \A k \in H : m <= k
    BY <1>2, Least
  <2>2. PICK m \in Nat : /\ Holds(Trail(f)[m], c)
                         /\ \A k \in Nat : Holds(Trail(f)[k], c) => m <= k
    BY <2>1
  <2> QED
    BY <2>2, ContentFirst
<1> QED
  BY <1>1, <1>2

\* A reader goes on to the backing file where a file does not have the cluster.
LEMMA ContentUnfolds ==
    ASSUME world \in Worlds, NEW f \in Files, NEW c
    PROVE  ContentFrom(f, c) = IF Offset(world.active[f], c) # 0
                               THEN <<f, Offset(world.active[f], c)>>
                               ELSE ContentFrom(Backing(f), c)
<1>1. f \in Links /\ Backing(f) \in Links /\ Down(f) = Backing(f) /\ f # NoFile
  BY DownTypes DEF Links
<1>2. IsTrail(Trail(f), f)
  BY <1>1, TrailIs
<1>3. Trail(f)[0] = f /\ Trail(f)[1] = Backing(f)
  <2>1. Trail(f)[0 + 1] = Down(Trail(f)[0])
    BY <1>2 DEF IsTrail
  <2> QED
    BY <1>1, <1>2, <2>1 DEF IsTrail
<1>4. \A n \in Nat : Trail(Backing(f))[n] = Trail(f)[1 + n]
  <2>1. \A n \in Nat : Trail(Trail(f)[1])[n] = Trail(f)[1 + n]
    BY <1>1, TrailFrom
  <2> QED
    BY <1>3, <2>1
<1>5. CASE Holds(f, c)
  <2>1. \A k \in Nat : Holds(Trail(f)[k], c) => 0 <= k
    OBVIOUS
  <2>2. ContentFrom(f, c) = <<Trail(f)[0], Offset(world.active[Trail(f)[0]], c)>>
    BY <1>1, <1>3, <1>5, <2>1, ContentFirst
  <2> QED
    BY <1>3, <1>5, <2>2 DEF Holds
<1>6. CASE ~Holds(f, c)
  <2>1. Offset(world.active[f], c) = 0
    BY <1>1, <1>6 DEF Holds
  <2>2. CASE \A n \in Nat : ~Holds(Trail(Backing(f))[n], c)
    <3>1. ASSUME NEW n \in Nat PROVE ~Holds(Trail(f)[n], c)
      <4>1. CASE n = 0
        BY <1>3, <1>6, <4>1
      <4>2. CASE n # 0
        <5>1. n - 1 \in Nat /\ 1 + (n - 1) = n
          BY <4>2
        <5> QED
          BY <1>4, <2>2, <5>1
      <4> QED
        BY <4>1, <4>2
    <3>2. ContentFrom(f, c) = Zeros
      BY <1>1, <3>1, ContentNone
    <3>3. ContentFrom(Backing(f), c) = Zeros
      BY <1>1, <2>2, ContentNone
    <3> QED
      BY <2>1, <3>2, <3>3
  <2>3. ASSUME NEW m \in Nat, Holds(Trail(Backing(f))[m], c),
               \A k \in Nat : Holds(Trail(Backing(f))[k], c) => m <= k,
               ContentFrom(Backing(f), c) =
                  <<Trail(Backing(f))[m], Offset(world.active[Trail(Backing(f))[m]], c)>>
        PROVE  ContentFrom(f, c) = ContentFrom(Backing(f), c)
    <3>1. 1 + m \in Nat /\ Trail(Backing(f))[m] = Trail(f)[1 + m]
      BY <1>4
    <3>2. ASSUME NEW k \in Nat, Holds(Trail(f)[k], c) PROVE 1 + m <= k
      <4>1. k # 0
        BY <1>3, <1>6, <3>2
      <4>2. k - 1 \in Nat /\ 1 + (k - 1) = k
        BY <4>1
      <4>3. m <= k - 1
        BY <1>4, <2>3, <3>2, <4>2
      <4> QED
        BY <4>2, <4>3
    <3>3. Holds(Trail(f)[1 + m], c)
      BY <2>3, <3>1
    <3>4. ContentFrom(f, c) = <<Trail(f)[1 + m], Offset(world.active[Trail(f)[1 + m]], c)>>
      BY <1>1, <3>1, <3>2, <3>3, ContentFirst
    <3> QED
      BY <2>3, <3>1, <3>4
  <2> QED
    BY <1>1, <2>1, <2>2, <2>3, ContentCases
<1> QED
  BY <1>1, <1>5, <1>6 DEF Holds

LEMMA ContentOfNoFile ==
    ASSUME world \in Worlds, NEW c PROVE ContentFrom(NoFile, c) = Zeros
BY TrailOfNoFile, ContentNone DEF Holds, Links

\* In a chain that ends no file is below itself.
LEMMA NoReturn ==
    ASSUME world \in Worlds, Acyclic,
           NEW i \in Nat, NEW j \in Nat, i < j, Trail(Top)[i] = Trail(Top)[j]
    PROVE  Trail(Top)[i] = NoFile
<1> DEFINE t == Trail(Top)
           Z == {n \in Nat : t[n] = NoFile}
<1>1. Top \in Links
  BY NamesAssumption DEF Links
<1>2. Z # {}
  BY <1>1, LineIs DEF Acyclic, Steps
<1>3. \A k, n \in Nat : Trail(t[k])[n] = t[k + n]
  BY <1>1, TrailFrom
<1> HIDE DEF t
<1>4. PICK z \in Z : \A n \in Z : z <= n
  BY <1>2, Least
<1>5. ASSUME NEW k \in Nat, z <= k PROVE t[k] = NoFile
  <2> DEFINE d == k - z
  <2>1. d \in Nat /\ z + d = k
    BY <1>4, <1>5
  <2> HIDE DEF d
  <2>2. Trail(t[z])[d] = t[k] /\ t[z] = NoFile
    BY <1>3, <1>4, <2>1
  <2> QED
    BY <2>1, <2>2, TrailOfNoFile
<1>6. CASE z <= i
  BY <1>5, <1>6 DEF t
<1>7. CASE i < z /\ z <= j
  BY <1>5, <1>7 DEF t
<1>8. CASE j < z
  <2> DEFINE d == z - j
  <2>1. d \in Nat /\ j + d = z /\ i + d \in Nat /\ i + d < z
    BY <1>4, <1>8
  <2> HIDE DEF d
  <2>2. t[i + d] = t[z]
    <3>1. Trail(t[i])[d] = t[i + d] /\ Trail(t[j])[d] = t[j + d]
      BY <1>3, <2>1
    <3>2. t[i] = t[j]
      BY DEF t
    <3> QED
      BY <2>1, <3>1, <3>2
  <2>3. i + d \in Z
    BY <1>4, <2>1, <2>2
  <2> QED
    BY <1>4, <2>1, <2>3
<1> QED
  BY <1>4, <1>6, <1>7, <1>8
=============================================================================

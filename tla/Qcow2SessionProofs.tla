------------------------- MODULE Qcow2SessionProofs -------------------------
(***************************************************************************)
(* Proofs about Qcow2Session: for any images, chains, handles and bound on *)
(* the descriptors, no call closes a descriptor under another holder of    *)
(* it, the calls that succeed lose none, and a read of a handle the        *)
(* globals are pointed at returns the data of its image.                   *)
(***************************************************************************)
EXTENDS Qcow2Session, FiniteSetTheorems, TLAPS

-----------------------------------------------------------------------------
(* The inductive invariant.                                                *)

Kept == UNION {Range(map[p]) : p \in DOMAIN map}
Held == {f \in Fds : fds[f] # None}

\* The library's own set shares no descriptor with a set a query has left, and
\* two of those share none.
Apart ==
    /\ type = "default" => \A i \in DOMAIN set : \A p \in DOMAIN map :
                              \A j \in DOMAIN map[p] : set[i] # map[p][j]
    /\ \A p, q \in DOMAIN map : p # q =>
          \A i \in DOMAIN map[p] : \A j \in DOMAIN map[q] : map[p][i] # map[q][j]

\* Until a descriptor is lost, a set that is not the library's own is one of
\* those in the map.
Shared == ~leaky /\ type # "default" => Range(set) \subseteq Kept

\* What the globals are pointed at, until a call changes them.
Pointed ==
    ~stale /\ path # None =>
        IF path \in DOMAIN map
        THEN type = "external" /\ set = map[path]
        ELSE type = "default" /\ areas = path /\ DOMAIN set = Chain[path]

GlobalTypes ==
    /\ type \in {"default"} \cup Kinds
    /\ path \in Images \cup {None}
    /\ set \in Sets
    /\ DOMAIN map \subseteq Images /\ \A p \in DOMAIN map : map[p] \in Sets
    /\ areas \in Images \cup {None}
    /\ fds \in [Fds -> Images \cup {None}]
    /\ stale \in BOOLEAN /\ leaky \in BOOLEAN

CallTypes ==
    /\ handles \in [Handles -> Images \cup {None}]
    /\ call \in Handles \cup {None}
    /\ call # None => handles[call] \in Images
    /\ found \subseteq Images

Globals == GlobalTypes /\ FdSafe /\ Apart /\ NoLeak /\ Shared /\ Pointed
IInv == Globals /\ CallTypes

-----------------------------------------------------------------------------
(* Opening files: each is given a descriptor of its own.                   *)

\* The files in S are in one order.
Ranked(S) == S \subseteq Images /\ \A i, j \in S : Rank[i] = Rank[j] => i = j

Place(F, f) == Cardinality({g \in F : g <= f})
Depth(S, i) == Cardinality({j \in S : Rank[j] >= Rank[i]})

LEMMA SmallerSet ==
    ASSUME NEW S, IsFiniteSet(S), NEW T \in SUBSET S
    PROVE  /\ IsFiniteSet(T) /\ Cardinality(T) \in Nat /\ Cardinality(S) \in Nat
           /\ Cardinality(T) <= Cardinality(S)
           /\ T # S => Cardinality(T) # Cardinality(S)
<1>1. IsFiniteSet(T) /\ Cardinality(T) <= Cardinality(S)
      /\ (Cardinality(S) = Cardinality(T) => S = T)
  BY FS_Subset
<1> QED
  BY <1>1, FS_CardinalityType

\* The places of the members of F are the numbers up to how many they are.
LEMMA Places ==
    ASSUME NEW F \in SUBSET Nat, IsFiniteSet(F), NEW n \in 1..Cardinality(F)
    PROVE  \E f \in F : Place(F, f) = n
<1> DEFINE N == Cardinality(F)
           P == [f \in F |-> Place(F, f)]
<1>1. N \in Nat
  BY FS_CardinalityType
<1>2. ASSUME NEW f \in F PROVE Place(F, f) \in 1..N
  <2> DEFINE B == {g \in F : g <= f}
  <2>1. B \in SUBSET F /\ f \in B
    OBVIOUS
  <2> HIDE DEF B
  <2>2. IsFiniteSet(B) /\ Cardinality(B) \in Nat /\ Cardinality(B) <= N
    BY <2>1, SmallerSet
  <2>3. Cardinality(B) # 0
    BY <2>1, <2>2, FS_EmptySet
  <2> QED
    BY <1>1, <2>2, <2>3 DEF Place, B
<1>3. ASSUME NEW f \in F, NEW g \in F, f < g PROVE Place(F, f) # Place(F, g)
  <2> DEFINE B == {h \in F : h <= f}
             C == {h \in F : h <= g}
  <2>1. B \in SUBSET C /\ B # C /\ C \in SUBSET F
    <3>1. \A h \in F : h \in Nat /\ (h <= f => h <= g)
      BY <1>3
    <3>2. g \in C /\ g \notin B
      BY <1>3
    <3> QED
      BY <3>1, <3>2
  <2> HIDE DEF B, C
  <2>2. IsFiniteSet(C)
    BY <2>1, SmallerSet
  <2>3. Cardinality(B) # Cardinality(C)
    BY <2>1, <2>2, SmallerSet
  <2> QED
    BY <2>3 DEF Place, B, C
<1>4. ASSUME NEW f \in F, NEW g \in F, f # g PROVE Place(F, f) # Place(F, g)
  <2>1. f < g \/ g < f
    BY <1>4
  <2> QED
    BY <1>3, <2>1
<1>5. P \in [F -> 1..N]
  BY <1>2
<1>6. P \in Injection(F, 1..N)
  BY <1>4, <1>5 DEF Injection, IsInjective
<1>7. IsFiniteSet(1..N) /\ Cardinality(1..N) = N
  BY <1>1, FS_Interval
<1>8. P \in Surjection(F, 1..N)
  <2> HIDE DEF P
  <2> QED
    BY <1>6, <1>7, FS_Injection
<1>9. \E f \in F : P[f] = n
  BY <1>8 DEF Surjection
<1> QED
  BY <1>9

LEMMA Depths ==
    ASSUME NEW S, Ranked(S)
    PROVE  /\ IsFiniteSet(S) /\ Cardinality(S) \in Nat
           /\ \A i \in S : Depth(S, i) \in 1..Cardinality(S)
           /\ \A i, j \in S : i # j => Depth(S, i) # Depth(S, j)
<1>1. IsFiniteSet(S) /\ Cardinality(S) \in Nat
  BY ImagesAssumption, SmallerSet DEF Ranked
<1>2. \A i \in S : Rank[i] \in Nat
  BY RankAssumption DEF Ranked
<1>3. ASSUME NEW i \in S PROVE Depth(S, i) \in 1..Cardinality(S)
  <2> DEFINE B == {j \in S : Rank[j] >= Rank[i]}
  <2>1. B \in SUBSET S /\ i \in B
    BY <1>2
  <2> HIDE DEF B
  <2>2. IsFiniteSet(B) /\ Cardinality(B) \in Nat /\ Cardinality(B) <= Cardinality(S)
    BY <1>1, <2>1, SmallerSet
  <2>3. Cardinality(B) # 0
    BY <2>1, <2>2, FS_EmptySet
  <2> QED
    BY <1>1, <2>2, <2>3 DEF Depth, B
<1>4. ASSUME NEW i \in S, NEW j \in S, Rank[i] < Rank[j] PROVE Depth(S, i) # Depth(S, j)
  <2> DEFINE B == {k \in S : Rank[k] >= Rank[i]}
             C == {k \in S : Rank[k] >= Rank[j]}
  <2>1. C \in SUBSET B /\ B # C /\ B \in SUBSET S
    BY <1>2, <1>4
  <2> HIDE DEF B, C
  <2>2. IsFiniteSet(B)
    BY <1>1, <2>1, SmallerSet
  <2>3. Cardinality(B) # Cardinality(C)
    BY <2>1, <2>2, SmallerSet
  <2> QED
    BY <2>3 DEF Depth, B, C
<1>5. ASSUME NEW i \in S, NEW j \in S, i # j PROVE Depth(S, i) # Depth(S, j)
  <2>1. Rank[i] # Rank[j]
    BY <1>5 DEF Ranked
  <2>2. Rank[i] < Rank[j] \/ Rank[j] < Rank[i]
    BY <1>2, <2>1
  <2> QED
    BY <1>4, <2>2
<1> QED
  BY <1>1, <1>3, <1>5

LEMMA OpenedIs ==
    ASSUME NEW S
    PROVE  /\ Opened(S) = [i \in S |-> CHOOSE f \in Free : Place(Free, f) = Depth(S, i)]
           /\ DOMAIN Opened(S) = S /\ Opened(S) = [i \in S |-> Opened(S)[i]]
<1> DEFINE G(i) == CHOOSE f \in Free : Place(Free, f) = Depth(S, i)
<1>1. Opened(S) = [i \in S |-> G(i)]
  BY DEF Opened, Place, Depth
<1>2. \A i : G(i) = CHOOSE f \in Free : Place(Free, f) = Depth(S, i)
  OBVIOUS
<1> HIDE DEF G
<1>3. DOMAIN Opened(S) = S /\ Opened(S) = [i \in S |-> Opened(S)[i]]
  BY <1>1
<1> QED
  BY <1>1, <1>3 DEF G

\* Opened gives every file of S a free descriptor, and no two the same.
LEMMA OpenedFacts ==
    ASSUME NEW S, Ranked(S), Cardinality(S) <= Cardinality(Free), MaxFds \in Nat
    PROVE  /\ Opened(S) \in [S -> Free]
           /\ \A i \in S : Place(Free, Opened(S)[i]) = Depth(S, i)
           /\ \A i, j \in S : i # j => Opened(S)[i] # Opened(S)[j]
<1>1. Free \in SUBSET Nat /\ IsFiniteSet(Free) /\ Cardinality(Free) \in Nat
  <2>1. IsFiniteSet(Fds) /\ Fds \subseteq Nat
    BY FS_Interval DEF Fds
  <2>2. Free \in SUBSET Fds
    BY DEF Free
  <2> QED
    BY <2>1, <2>2, SmallerSet
<1>2. ASSUME NEW i \in S
      PROVE  Opened(S)[i] \in Free /\ Place(Free, Opened(S)[i]) = Depth(S, i)
  <2>1. Depth(S, i) \in 1..Cardinality(Free)
    <3>1. Depth(S, i) \in 1..Cardinality(S) /\ Cardinality(S) \in Nat
      BY Depths
    <3> QED
      BY <1>1, <3>1
  <2>2. \E f \in Free : Place(Free, f) = Depth(S, i)
    BY <1>1, <2>1, Places
  <2>3. Opened(S)[i] = CHOOSE f \in Free : Place(Free, f) = Depth(S, i)
    BY OpenedIs
  <2> QED
    BY <2>2, <2>3
<1>3. Opened(S) \in [S -> Free]
  BY <1>2, OpenedIs
<1>4. ASSUME NEW i \in S, NEW j \in S, i # j PROVE Opened(S)[i] # Opened(S)[j]
  BY <1>2, <1>4, Depths
<1> QED
  BY <1>2, <1>3, <1>4

\* A file behind the others makes no difference to them.
LEMMA OpenedBehind ==
    ASSUME NEW S, NEW x, Ranked(S \cup {x}), \A i \in S : Rank[x] < Rank[i]
    PROVE  \A i \in S : Opened(S \cup {x})[i] = Opened(S)[i]
<1> SUFFICES ASSUME NEW i \in S PROVE Opened(S \cup {x})[i] = Opened(S)[i]
  OBVIOUS
<1>1. \A j \in S \cup {x} : Rank[j] \in Nat
  BY RankAssumption DEF Ranked
<1>2. {j \in S \cup {x} : Rank[j] >= Rank[i]} = {j \in S : Rank[j] >= Rank[i]}
  BY <1>1
<1> QED
  BY <1>2 DEF Opened

-----------------------------------------------------------------------------
(* Walking a chain.                                                        *)

LEMMA SetsAre ==
    ASSUME NEW m PROVE m \in Sets <=> DOMAIN m \subseteq Images /\ m \in [DOMAIN m -> Fds]
BY DEF Sets

LEMMA ChainsAreRanked ==
    ASSUME NEW p \in Images PROVE Ranked(Chain[p]) /\ \A S \in SUBSET Chain[p] : Ranked(S)
BY ChainAssumption, RankAssumption DEF Ranked

\* What the walk closes first is nothing the map holds.
LEMMA Released ==
    ASSUME GlobalTypes, FdSafe, Apart
    PROVE  /\ AfterRelease \in [Fds -> Images \cup {None}]
           /\ \A p \in DOMAIN map : \A j \in DOMAIN map[p] :
                 map[p][j] \in Fds /\ AfterRelease[map[p][j]] = j /\ map[p][j] \notin Free
           /\ \A f \in Fds : AfterRelease[f] =
                 IF type = "default" /\ f \in Range(set) THEN None ELSE fds[f]
<1>1. /\ AfterRelease \in [Fds -> Images \cup {None}]
      /\ \A f \in Fds : AfterRelease[f] =
            IF type = "default" /\ f \in Range(set) THEN None ELSE fds[f]
  BY DEF GlobalTypes, AfterRelease, Closed
<1>2. ASSUME NEW p \in DOMAIN map, NEW j \in DOMAIN map[p]
      PROVE  map[p][j] \in Fds /\ AfterRelease[map[p][j]] = j /\ map[p][j] \notin Free
  <2>1. map[p][j] \in Fds /\ j \in Images
    BY SetsAre DEF GlobalTypes
  <2>2. type = "default" => map[p][j] \notin Range(set)
    BY DEF Apart, Range
  <2>3. AfterRelease[map[p][j]] = j
    BY <1>1, <2>1, <2>2 DEF FdSafe
  <2> QED
    BY <2>1, <2>3, ImagesAssumption DEF Free
<1> QED
  BY <1>1, <1>2

\* The set is given the first of the files that are opened, S of T.
LEMMA Openings ==
    ASSUME GlobalTypes, FdSafe, Apart, NEW S, NEW T, S \subseteq T, Ranked(T),
           Cardinality(T) <= Cardinality(Free), \A i \in S : Opened(T)[i] = Opened(S)[i]
    PROVE  /\ Opened(S) \in Sets /\ DOMAIN Opened(S) = S
           /\ AfterOpen(Opened(T)) \in [Fds -> Images \cup {None}]
           /\ \A i \in S : Opened(S)[i] \in Fds /\ AfterOpen(Opened(T))[Opened(S)[i]] = i
           /\ \A p \in DOMAIN map : \A j \in DOMAIN map[p] :
                 /\ AfterOpen(Opened(T))[map[p][j]] = j
                 /\ \A i \in S : Opened(S)[i] # map[p][j]
           /\ \A f \in Fds : AfterOpen(Opened(T))[f] # None
                                <=> AfterRelease[f] # None \/ f \in Range(Opened(T))
<1> DEFINE m == Opened(T)
<1>1. /\ m \in [T -> Free] /\ \A i, j \in T : i # j => m[i] # m[j]
  BY OpenedFacts, MaxFdsAssumption
<1>2. Free \subseteq Fds /\ T \subseteq Images /\ None \notin Images
  BY ImagesAssumption DEF Free, Ranked
<1>3. DOMAIN Opened(S) = S /\ \A i \in S : Opened(S)[i] = m[i] /\ m[i] \in Fds /\ i \in T
  BY <1>1, <1>2, OpenedIs
<1>4. Opened(S) \in Sets
  <2>2. Opened(S) \in [S -> Fds]
    BY <1>3, OpenedIs
  <2> QED
    BY <1>2, <1>3, <2>2, SetsAre
<1> HIDE DEF m
<1>5. \A f \in Fds : AfterOpen(m)[f] =
         IF f \in Range(m) THEN CHOOSE i \in DOMAIN m : m[i] = f ELSE AfterRelease[f]
  BY DEF AfterOpen
<1>6. ASSUME NEW i \in T PROVE m[i] \in Fds /\ AfterOpen(m)[m[i]] = i
  <2>1. DOMAIN m = T /\ m[i] \in Range(m) /\ m[i] \in Fds
    BY <1>1, <1>2 DEF Range
  <2>2. AfterOpen(m)[m[i]] = CHOOSE k \in T : m[k] = m[i]
    BY <1>5, <2>1
  <2>3. \A k \in T : m[k] = m[i] => k = i
    BY <1>1
  <2> QED
    BY <2>1, <2>2, <2>3
<1>7. ASSUME NEW f \in Fds
      PROVE  /\ AfterOpen(m)[f] \in Images \cup {None}
             /\ AfterOpen(m)[f] # None <=> AfterRelease[f] # None \/ f \in Range(m)
  <2>1. CASE f \in Range(m)
    <3>1. PICK i \in T : f = m[i]
      BY <1>1, <2>1 DEF Range
    <3> QED
      BY <1>2, <1>6, <2>1, <3>1
  <2>2. CASE f \notin Range(m)
    <3>1. AfterOpen(m)[f] = AfterRelease[f]
      BY <1>5, <2>2
    <3> QED
      BY <2>2, <3>1, Released
  <2> QED
    BY <2>1, <2>2
<1>8. AfterOpen(m) \in [Fds -> Images \cup {None}]
  <2>1. AfterOpen(m) = [f \in Fds |-> AfterOpen(m)[f]]
    BY DEF AfterOpen
  <2> QED
    BY <1>7, <2>1
<1>9. ASSUME NEW p \in DOMAIN map, NEW j \in DOMAIN map[p]
      PROVE  AfterOpen(m)[map[p][j]] = j /\ \A i \in S : Opened(S)[i] # map[p][j]
  <2>1. map[p][j] \in Fds /\ AfterRelease[map[p][j]] = j /\ map[p][j] \notin Free
    BY Released
  <2>2. map[p][j] \notin Range(m)
    BY <1>1, <2>1 DEF Range
  <2>3. \A i \in S : Opened(S)[i] # map[p][j]
    BY <1>1, <1>3, <2>1
  <2> QED
    BY <1>5, <2>1, <2>2, <2>3
<1> QED
  BY <1>3, <1>4, <1>6, <1>7, <1>8, <1>9 DEF m

\* A walk, or one that fails.
LEMMA Walks ==
    ASSUME GlobalTypes, FdSafe, Apart, NEW C, Ranked(C), Walk(C) \/ WalkFails(C),
           UNCHANGED map
    PROVE  /\ set' \in Sets /\ fds' \in [Fds -> Images \cup {None}] /\ FdSafe'
           /\ \A i \in DOMAIN set' : \A p \in DOMAIN map : \A j \in DOMAIN map[p] :
                 set'[i] # map[p][j]
<1>1. ASSUME NEW S, NEW T, S \subseteq T, Ranked(T),
             Cardinality(T) <= Cardinality(Free), \A i \in S : Opened(T)[i] = Opened(S)[i],
             set' = Opened(S), fds' = AfterOpen(Opened(T))
      PROVE  /\ set' \in Sets /\ fds' \in [Fds -> Images \cup {None}] /\ FdSafe'
             /\ \A i \in DOMAIN set' : \A p \in DOMAIN map : \A j \in DOMAIN map[p] :
                   set'[i] # map[p][j]
  <2> DEFINE m == Opened(S)
             F == AfterOpen(Opened(T))
  <2>1. /\ m \in Sets /\ DOMAIN m = S /\ F \in [Fds -> Images \cup {None}]
        /\ \A i \in S : m[i] \in Fds /\ F[m[i]] = i
        /\ \A p \in DOMAIN map : \A j \in DOMAIN map[p] :
              F[map[p][j]] = j /\ \A i \in S : m[i] # map[p][j]
    BY <1>1, Openings
  <2>2. set' = m /\ fds' = F /\ map' = map
    BY <1>1
  <2> HIDE DEF m, F
  <2>3. FdSafe'
    BY <2>1, <2>2 DEF FdSafe
  <2>4. set' \in Sets /\ fds' \in [Fds -> Images \cup {None}]
    BY <2>1, <2>2
  <2>5. DOMAIN set' = S /\ \A i \in S : set'[i] = m[i]
    BY <2>1, <2>2
  <2>6. \A i \in DOMAIN set' : \A p \in DOMAIN map : \A j \in DOMAIN map[p] :
           set'[i] # map[p][j]
    BY <2>1, <2>5
  <2> QED
    BY <2>3, <2>4, <2>6
<1>2. CASE Walk(C)
  BY <1>1, <1>2 DEF Walk
<1>3. CASE WalkFails(C)
  <2>1. PICK S \in Prefixes(C) :
           /\ Cardinality(S) <= Cardinality(Free)
           /\ set' = Opened(S)
           /\ \/ fds' = AfterOpen(Opened(S))
              \/ \E lost \in NewestOf(C \ S) :
                    /\ Cardinality(S) < Cardinality(Free)
                    /\ fds' = AfterOpen(Opened(S \cup {lost}))
    BY <1>3 DEF WalkFails
  <2>2. PICK k \in C : S = {j \in C : Rank[j] > Rank[k]}
    BY DEF Prefixes
  <2>3. Ranked(S)
    BY <2>2 DEF Ranked
  <2>4. CASE fds' = AfterOpen(Opened(S))
    BY <1>1, <2>1, <2>3, <2>4
  <2>5. ASSUME NEW lost \in NewestOf(C \ S), Cardinality(S) < Cardinality(Free),
               fds' = AfterOpen(Opened(S \cup {lost}))
        PROVE  /\ set' \in Sets /\ fds' \in [Fds -> Images \cup {None}] /\ FdSafe'
               /\ \A i \in DOMAIN set' : \A p \in DOMAIN map : \A j \in DOMAIN map[p] :
                     set'[i] # map[p][j]
    <3>1. lost \in C /\ lost \notin S
      BY DEF NewestOf
    <3>2. Ranked(S \cup {lost})
      BY <2>2, <3>1 DEF Ranked
    <3>3. \A i \in S : Rank[lost] < Rank[i]
      BY <2>2, <3>1, RankAssumption DEF Ranked
    <3>4. Cardinality(S \cup {lost}) <= Cardinality(Free)
      <4>1. IsFiniteSet(S) /\ Cardinality(S) \in Nat
        BY <2>3, Depths
      <4>2. Cardinality(S \cup {lost}) = Cardinality(S) + 1
        BY <3>1, <4>1, FS_AddElement
      <4>3. Cardinality(Free) \in Nat
        <5>1. IsFiniteSet(Fds) /\ Free \in SUBSET Fds
          BY FS_Interval, MaxFdsAssumption DEF Free, Fds
        <5> QED
          BY <5>1, SmallerSet
      <4> QED
        BY <2>5, <4>1, <4>2, <4>3
    <3>5. \A i \in S : Opened(S \cup {lost})[i] = Opened(S)[i]
      BY <3>2, <3>3, OpenedBehind
    <3>6. S \subseteq S \cup {lost} /\ set' = Opened(S)
      BY <2>1
    <3> QED
      BY <1>1, <2>5, <3>2, <3>4, <3>5, <3>6
  <2> QED
    BY <2>1, <2>4, <2>5
<1> QED
  BY <1>2, <1>3

\* The descriptors that are open after a walk that succeeds.
LEMMA WalkHolds ==
    ASSUME GlobalTypes, FdSafe, Apart, NEW C, Ranked(C), Cardinality(C) <= Cardinality(Free),
           NoLeak, Shared, ~leaky
    PROVE  /\ {f \in Fds : AfterOpen(Opened(C))[f] # None} = Range(Opened(C)) \cup Kept
           /\ Kept \subseteq Fds /\ Range(Opened(C)) \subseteq Fds
<1>1. Held = Range(set) \cup Kept
  BY DEF NoLeak, Held, Kept
<1>2. Kept \subseteq Fds
  BY SetsAre DEF GlobalTypes, Kept, Range
<1>3. \A f \in Fds : AfterRelease[f] # None <=> f \in Kept
  <2>1. CASE type = "default"
    <3>1. \A f \in Kept : f \notin Range(set)
      BY <2>1 DEF Apart, Kept, Range
    <3> QED
      BY <1>1, <2>1, <3>1, Released DEF Held
  <2>2. CASE type # "default"
    <3>1. Held = Kept
      BY <1>1, <2>2 DEF Shared
    <3> QED
      BY <2>2, <3>1, Released DEF Held
  <2> QED
    BY <2>1, <2>2
<1>4. Range(Opened(C)) \subseteq Fds
  BY Openings DEF Range
<1>5. \A f \in Fds : AfterOpen(Opened(C))[f] # None
                        <=> AfterRelease[f] # None \/ f \in Range(Opened(C))
  BY Openings
<1> QED
  BY <1>2, <1>3, <1>4, <1>5

-----------------------------------------------------------------------------
(* Pointing the globals at an image.                                       *)

LEMMA PointToQueriedKeeps ==
    ASSUME Globals, NEW p \in Images, PointToQueried(p)
    PROVE  Globals'
<1>1. /\ p \in DOMAIN map /\ type' = "external" /\ set' = map[p] /\ path' = p
      /\ stale' = FALSE /\ leaky' = (leaky \/ (type = "default" /\ set # <<>>))
      /\ UNCHANGED <<map, areas, fds>>
  BY DEF PointToQueried
<1>2. GlobalTypes'
  <2>1. leaky' \in BOOLEAN
    BY <1>1
  <2> QED
    BY <1>1, <2>1 DEF Globals, GlobalTypes, Kinds
<1>3. FdSafe' /\ Apart' /\ Pointed'
  BY <1>1 DEF Globals, FdSafe, Apart, Pointed
<1>4. Range(set') \subseteq Kept /\ Kept' = Kept
  BY <1>1 DEF Kept
<1>5. Shared'
  BY <1>4 DEF Shared
<1>6. NoLeak'
  <2> SUFFICES ASSUME ~leaky' PROVE Held = Range(set') \cup Kept
    BY <1>1, <1>4 DEF NoLeak, Held, Kept
  <2>1. ~leaky /\ (type # "default" \/ set = <<>>)
    BY <1>1
  <2>2. Held = Range(set) \cup Kept
    BY <2>1 DEF Globals, NoLeak, Held, Kept
  <2>3. Range(set) \subseteq Kept
    <3>1. CASE type # "default"
      BY <2>1, <3>1 DEF Globals, Shared
    <3>2. CASE set = <<>>
      BY <3>2 DEF Range
    <3> QED
      BY <2>1, <3>1, <3>2
  <2> QED
    BY <1>4, <2>2, <2>3
<1> QED
  BY <1>2, <1>3, <1>5, <1>6 DEF Globals

LEMMA PointToChainKeeps ==
    ASSUME Globals, NEW p \in Images, PointToChain(p)
    PROVE  Globals'
<1>1. /\ p \notin DOMAIN map /\ type' = "default" /\ Walk(Chain[p]) /\ areas' = p /\ path' = p
      /\ stale' = FALSE /\ UNCHANGED <<map, leaky>>
  BY DEF PointToChain
<1>2. Ranked(Chain[p]) /\ GlobalTypes /\ FdSafe /\ Apart
  BY ChainsAreRanked DEF Globals
<1>3. /\ set' \in Sets /\ fds' \in [Fds -> Images \cup {None}] /\ FdSafe'
      /\ \A i \in DOMAIN set' : \A q \in DOMAIN map : \A j \in DOMAIN map[q] :
            set'[i] # map[q][j]
  BY <1>1, <1>2, Walks
<1>4. GlobalTypes'
  BY <1>1, <1>3 DEF Globals, GlobalTypes
<1>5. Apart'
  BY <1>1, <1>3 DEF Globals, Apart
<1>6. DOMAIN set' = Chain[p] /\ set' = Opened(Chain[p]) /\ fds' = AfterOpen(Opened(Chain[p]))
      /\ Cardinality(Chain[p]) <= Cardinality(Free)
  BY <1>1, OpenedIs DEF Walk
<1>7. Shared' /\ Pointed'
  BY <1>1, <1>6 DEF Shared, Pointed
<1>8. NoLeak'
  <2> SUFFICES ASSUME ~leaky PROVE {f \in Fds : fds'[f] # None} = Range(set') \cup Kept
    BY <1>1 DEF NoLeak, Kept
  <2> QED
    BY <1>2, <1>6, WalkHolds DEF Globals
<1> QED
  BY <1>3, <1>4, <1>5, <1>7, <1>8 DEF Globals

\* A call that has failed in the middle of its query.
LEMMA WalkedKeeps ==
    ASSUME Globals, NEW C, Ranked(C), Walk(C) \/ WalkFails(C), UNCHANGED <<map, path>>,
           type' \in {"default"} \cup Kinds, areas' \in Images \cup {None}, stale' = TRUE,
           leaky' = TRUE
    PROVE  Globals'
<1>1. GlobalTypes /\ FdSafe /\ Apart
  BY DEF Globals
<1>2. /\ set' \in Sets /\ fds' \in [Fds -> Images \cup {None}] /\ FdSafe'
      /\ \A i \in DOMAIN set' : \A q \in DOMAIN map : \A j \in DOMAIN map[q] :
            set'[i] # map[q][j]
  BY <1>1, Walks
<1>3. GlobalTypes'
  BY <1>1, <1>2 DEF GlobalTypes
<1>4. Apart'
  BY <1>1, <1>2 DEF Apart
<1> QED
  BY <1>2, <1>3, <1>4 DEF Globals, NoLeak, Shared, Pointed

LEMMA PointFailsKeeps ==
    ASSUME Globals, NEW p \in Images, PointFails(p)
    PROVE  Globals'
<1>1. /\ Walk(Chain[p]) \/ WalkFails(Chain[p])
      /\ type' = "default" /\ stale' = TRUE /\ leaky' = TRUE /\ UNCHANGED <<map, path>>
      /\ areas' = areas \/ areas' = None
  BY DEF PointFails
<1>2. areas' \in Images \cup {None}
  BY <1>1 DEF Globals, GlobalTypes
<1> QED
  BY <1>1, <1>2, ChainsAreRanked, WalkedKeeps

-----------------------------------------------------------------------------
(* The calls.                                                              *)

LEMMA GlobalsStay ==
    ASSUME Globals, UNCHANGED <<type, path, set, map, areas, fds, stale, leaky>>
    PROVE  Globals'
<1>1. GlobalTypes' /\ FdSafe' /\ Apart'
  BY DEF Globals, GlobalTypes, FdSafe, Apart
<1>2. NoLeak' /\ Shared' /\ Pointed'
  BY DEF Globals, NoLeak, Shared, Pointed, Kept
<1> QED
  BY <1>1, <1>2 DEF Globals

\* Closed leaves what is not in D as it is.
LEMMA ClosedFacts ==
    ASSUME GlobalTypes, NEW D
    PROVE  /\ Closed(D) \in [Fds -> Images \cup {None}]
           /\ \A f \in Fds : Closed(D)[f] = IF f \in D THEN None ELSE fds[f]
BY DEF GlobalTypes, Closed

LEMMA EmptySet == <<>> \in Sets /\ DOMAIN <<>> = {} /\ Range(<<>>) = {}
<1>1. DOMAIN <<>> = {}
  OBVIOUS
<1>2. <<>> \in [{} -> Fds]
  BY <1>1
<1> QED
  BY <1>1, <1>2, SetsAre DEF Range

LEMMA CloseKeeps ==
    ASSUME Globals, NEW h \in Handles, Close(h)
    PROVE  Globals'
<1>1. /\ UNCHANGED <<type, map, leaky>> /\ areas' = None /\ stale' = TRUE
      /\ path' = IF path = handles[h] THEN None ELSE path
      /\ GlobalTypes /\ FdSafe /\ Apart
  BY DEF Close, Globals
<1>2. path' \in Images \cup {None}
  BY <1>1 DEF GlobalTypes
<1>3. CASE type # "default"
  <2>1. UNCHANGED <<set, fds>>
    BY <1>3 DEF Close
  <2>2. GlobalTypes'
    BY <1>1, <1>2, <2>1 DEF GlobalTypes
  <2>3. FdSafe' /\ Apart' /\ Pointed'
    BY <1>1, <2>1 DEF FdSafe, Apart, Pointed
  <2>4. NoLeak' /\ Shared'
    BY <1>1, <2>1 DEF Globals, NoLeak, Shared, Kept
  <2> QED
    BY <2>2, <2>3, <2>4 DEF Globals
<1>4. CASE type = "default"
  <2>1. fds' = Closed(Range(set)) /\ set' = <<>>
    BY <1>4 DEF Close
  <2>2. /\ fds' \in [Fds -> Images \cup {None}]
        /\ \A f \in Fds : fds'[f] = IF f \in Range(set) THEN None ELSE fds[f]
    BY <1>1, <2>1, ClosedFacts
  <2>3. GlobalTypes'
    BY <1>1, <1>2, <2>1, <2>2, EmptySet DEF GlobalTypes
  <2>4. \A p \in DOMAIN map : \A j \in DOMAIN map[p] :
           map[p][j] \in Fds /\ map[p][j] \notin Range(set)
    BY <1>1, <1>4, SetsAre DEF GlobalTypes, Apart, Range
  <2>5. FdSafe'
    BY <1>1, <2>1, <2>2, <2>4, EmptySet DEF FdSafe
  <2>6. Apart' /\ Shared' /\ Pointed'
    BY <1>1, <1>4, <2>1, EmptySet DEF Apart, Shared, Pointed
  <2>7. NoLeak'
    <3> SUFFICES ASSUME ~leaky PROVE {f \in Fds : fds'[f] # None} = Kept
      BY <1>1, <2>1, EmptySet DEF NoLeak, Kept
    <3>1. Held = Range(set) \cup Kept
      BY DEF Globals, NoLeak, Held, Kept
    <3>2. \A f \in Kept : f \in Fds /\ f \notin Range(set)
      BY <2>4 DEF Kept, Range
    <3> QED
      BY <2>2, <3>1, <3>2 DEF Held
  <2> QED
    BY <2>3, <2>5, <2>6, <2>7 DEF Globals
<1> QED
  BY <1>3, <1>4

\* What a query may open is a part of one chain.
LEMMA QueryableIsRanked ==
    ASSUME NEW p \in Images, NEW kind, NEW S \in Queryable(p, kind)
    PROVE  Ranked(S)
<1>1. \A C : \A P \in Prefixes(C) : P \subseteq C
  BY DEF Prefixes
<1>2. S \subseteq Chain[p]
  BY <1>1, ChainAssumption DEF Queryable
<1> QED
  BY <1>2, ChainsAreRanked

LEMMA QueryKeeps ==
    ASSUME Globals, NEW p \in Images, NEW kind \in Kinds, Query(p, kind)
    PROVE  Globals'
<1>0. GlobalTypes /\ FdSafe /\ Apart /\ "default" \notin Kinds
  BY DEF Globals, Kinds
<1>1. PICK S \in Queryable(p, kind) :
         /\ Cardinality(S) <= Cardinality(Free)
         /\ set' = Opened(S)
         /\ map' = [q \in DOMAIN map \cup {p} |-> IF q = p THEN Opened(S) ELSE map[q]]
         /\ fds' = [f \in Fds |-> IF f \in (IF p \in DOMAIN map THEN Range(map[p]) ELSE {})
                                  THEN None ELSE AfterOpen(Opened(S))[f]]
  BY DEF Query
<1> DEFINE m == Opened(S)
           F == AfterOpen(m)
           old == IF p \in DOMAIN map THEN Range(map[p]) ELSE {}
<1>2. type' = kind /\ stale' = TRUE /\ UNCHANGED <<path, areas, leaky>>
  BY DEF Query
<1>3. Ranked(S)
  BY QueryableIsRanked
<1>4. /\ m \in Sets /\ DOMAIN m = S /\ F \in [Fds -> Images \cup {None}]
      /\ \A i \in S : m[i] \in Fds /\ F[m[i]] = i
      /\ \A q \in DOMAIN map : \A j \in DOMAIN map[q] :
            F[map[q][j]] = j /\ \A i \in S : m[i] # map[q][j]
  BY <1>0, <1>1, <1>3, Openings
<1>5. ~leaky => {f \in Fds : F[f] # None} = Range(m) \cup Kept
  BY <1>0, <1>1, <1>3, WalkHolds DEF Globals
<1>6. /\ set' = m /\ DOMAIN map' = DOMAIN map \cup {p} /\ map'[p] = m
      /\ \A q \in DOMAIN map : q # p => map'[q] = map[q]
      /\ fds' = [f \in Fds |-> IF f \in old THEN None ELSE F[f]]
  BY <1>1
<1> HIDE DEF m, F
<1>7. \A i \in S : m[i] \notin old
  BY <1>4 DEF Range
<1>8. \A q \in DOMAIN map : q # p => \A j \in DOMAIN map[q] :
         map[q][j] \in Fds /\ map[q][j] \notin old
  BY <1>0, SetsAre DEF GlobalTypes, Apart, Range
<1> HIDE DEF old
<1>9. GlobalTypes'
  <2>1. fds' \in [Fds -> Images \cup {None}]
    BY <1>4, <1>6
  <2>2. DOMAIN map' \subseteq Images /\ \A q \in DOMAIN map' : map'[q] \in Sets
    BY <1>0, <1>4, <1>6 DEF GlobalTypes
  <2> QED
    BY <1>0, <1>2, <1>4, <1>6, <2>1, <2>2 DEF GlobalTypes
<1>10. \A i \in S : fds'[m[i]] = i
  BY <1>4, <1>6, <1>7
<1>11. \A q \in DOMAIN map : q # p => \A j \in DOMAIN map[q] : fds'[map[q][j]] = j
  BY <1>4, <1>6, <1>8
<1>12. FdSafe'
  BY <1>4, <1>6, <1>10, <1>11 DEF FdSafe
<1>13. Apart'
  <2>1. ASSUME NEW q \in DOMAIN map', NEW r \in DOMAIN map', q # r
        PROVE  \A i \in DOMAIN map'[q] : \A j \in DOMAIN map'[r] : map'[q][i] # map'[r][j]
    <3>1. CASE q # p /\ r # p
      BY <1>0, <1>6, <2>1, <3>1 DEF Apart
    <3>2. CASE q = p
      <4>1. r \in DOMAIN map /\ map'[q] = m /\ map'[r] = map[r]
        BY <1>6, <2>1, <3>2
      <4> QED
        BY <1>4, <4>1
    <3>3. CASE r = p
      <4>1. q \in DOMAIN map /\ map'[r] = m /\ map'[q] = map[q]
        BY <1>6, <2>1, <3>3
      <4> QED
        BY <1>4, <4>1
    <3> QED
      BY <3>1, <3>2, <3>3
  <2>2. type' # "default"
    BY <1>0, <1>2
  <2> QED
    BY <2>1, <2>2 DEF Apart
<1>14. Range(set') \subseteq Kept'
  BY <1>6 DEF Kept
<1>15. NoLeak'
  <2> SUFFICES ASSUME ~leaky PROVE {f \in Fds : fds'[f] # None} = Kept'
    BY <1>2, <1>14 DEF NoLeak, Kept
  <2>1. \A f \in Fds : fds'[f] # None <=> f \notin old /\ (f \in Range(m) \/ f \in Kept)
    BY <1>5, <1>6
  <2>2. \A f : f \in Kept <=> f \in old
                                \/ \E q \in DOMAIN map : q # p /\ f \in Range(map[q])
    BY DEF Kept, old
  <2>3. \A f : f \in Kept' <=> f \in Range(m)
                                \/ \E q \in DOMAIN map : q # p /\ f \in Range(map[q])
    BY <1>6 DEF Kept
  <2>4. \A f \in Range(m) : f \in Fds /\ f \notin old
    BY <1>4, <1>7 DEF Range
  <2>5. \A q \in DOMAIN map : q # p => \A f \in Range(map[q]) : f \in Fds /\ f \notin old
    BY <1>8 DEF Range
  <2> QED
    BY <2>1, <2>2, <2>3, <2>4, <2>5
<1> QED
  BY <1>2, <1>9, <1>12, <1>13, <1>14, <1>15 DEF Globals, Shared, Pointed

LEMMA QueryFailsKeeps ==
    ASSUME Globals, NEW p \in Images, NEW kind \in Kinds, QueryFails(p, kind)
    PROVE  Globals'
<1>1. /\ type' = kind /\ stale' = TRUE /\ leaky' = TRUE /\ UNCHANGED <<path, map, areas>>
      /\ GlobalTypes /\ FdSafe /\ Apart /\ "default" \notin Kinds
  BY DEF QueryFails, Globals, Kinds
<1>2. CASE UNCHANGED <<set, fds>>
  <2>1. GlobalTypes' /\ FdSafe' /\ Apart'
    BY <1>1, <1>2 DEF GlobalTypes, FdSafe, Apart
  <2> QED
    BY <1>1, <2>1 DEF Globals, NoLeak, Shared, Pointed
<1>3. ASSUME NEW C \in SUBSET Chain[p], Walk(C) \/ WalkFails(C) PROVE Globals'
  <2>1. Ranked(C) /\ areas' \in Images \cup {None}
    BY <1>1, ChainsAreRanked DEF GlobalTypes
  <2> QED
    BY <1>1, <1>3, <2>1, WalkedKeeps
<1> QED
  BY <1>2, <1>3 DEF QueryFails

LEMMA ExitKeeps == ASSUME Globals, Exit PROVE Globals'
<1> DEFINE own == IF type = "default" THEN Range(set) ELSE {}
<1>1. /\ fds' = Closed(own \cup Kept) /\ set' = <<>> /\ map' = <<>> /\ areas' = None
      /\ stale' = TRUE /\ UNCHANGED <<type, path, leaky>> /\ GlobalTypes
  BY DEF Exit, Kept, Globals
<1>2. /\ fds' \in [Fds -> Images \cup {None}]
      /\ \A f \in Fds : fds'[f] = IF f \in own \cup Kept THEN None ELSE fds[f]
  BY <1>1, ClosedFacts
<1>3. GlobalTypes'
  BY <1>1, <1>2, EmptySet DEF GlobalTypes
<1>4. FdSafe' /\ Apart' /\ Shared' /\ Pointed'
  BY <1>1, EmptySet DEF FdSafe, Apart, Shared, Pointed
<1>5. NoLeak'
  <2> SUFFICES ASSUME ~leaky PROVE {f \in Fds : fds'[f] # None} = {}
    BY <1>1, EmptySet DEF NoLeak
  <2>1. Held = Range(set) \cup Kept
    BY DEF Globals, NoLeak, Held, Kept
  <2>2. Held \subseteq own \cup Kept
    BY <2>1 DEF Globals, Shared
  <2> QED
    BY <1>2, <2>2 DEF Held
<1> QED
  BY <1>3, <1>4, <1>5 DEF Globals

LEMMA ReinitKeeps == ASSUME Globals, Reinit PROVE Globals'
<1>1. /\ type' = "default" /\ set' = <<>> /\ map' = <<>> /\ areas' = None /\ stale' = TRUE
      /\ leaky' = (leaky \/ set # <<>> \/ map # <<>>) /\ UNCHANGED <<path, fds>> /\ GlobalTypes
  BY DEF Reinit, Globals
<1>2. GlobalTypes'
  <2>1. leaky' \in BOOLEAN
    BY <1>1
  <2> QED
    BY <1>1, <2>1, EmptySet DEF GlobalTypes
<1>3. FdSafe' /\ Apart' /\ Shared' /\ Pointed'
  BY <1>1, EmptySet DEF FdSafe, Apart, Shared, Pointed
<1>4. NoLeak'
  <2> SUFFICES ASSUME ~leaky, set = <<>>, map = <<>> PROVE {f \in Fds : fds[f] # None} = {}
    BY <1>1, EmptySet DEF NoLeak
  <2>1. Held = Range(set) \cup Kept
    BY DEF Globals, NoLeak, Held, Kept
  <2>2. Kept = {} /\ Range(set) = {}
    BY EmptySet DEF Kept
  <2> QED
    BY <2>1, <2>2 DEF Held
<1> QED
  BY <1>2, <1>3, <1>4 DEF Globals

-----------------------------------------------------------------------------
(* The invariant holds in every state.                                     *)

LEMMA IInvInit == Init => IInv
<1> SUFFICES ASSUME Init PROVE IInv
  OBVIOUS
<1>1. /\ set = <<>> /\ map = <<>> /\ DOMAIN set = {} /\ DOMAIN map = {} /\ Range(set) = {}
      /\ path = None /\ type = "default"
  BY EmptySet DEF Init
<1>2. GlobalTypes /\ FdSafe /\ Apart /\ Shared /\ Pointed
  BY <1>1, EmptySet DEF Init, GlobalTypes, FdSafe, Apart, Shared, Pointed
<1>3. NoLeak
  BY <1>1 DEF Init, NoLeak
<1>4. CallTypes
  BY DEF Init, CallTypes
<1> QED
  BY <1>2, <1>3, <1>4 DEF IInv, Globals

LEMMA PointKeeps ==
    ASSUME Globals, NEW p \in Images, PointToQueried(p) \/ PointToChain(p)
    PROVE  Globals'
BY PointToQueriedKeeps, PointToChainKeeps

LEMMA IInvStep == IInv /\ [Next]_vars => IInv'
<1> SUFFICES ASSUME IInv, [Next]_vars PROVE IInv'
  OBVIOUS
<1>0. Globals /\ CallTypes /\ None \notin Images
  BY ImagesAssumption DEF IInv
<1>1. ASSUME NEW h \in Handles, NEW p \in Images, Open(h, p) \/ OpenFails(h, p) PROVE IInv'
  <2>1. Globals'
    BY <1>0, <1>1, PointKeeps, PointFailsKeeps DEF Open, OpenFails
  <2>2. call = None /\ UNCHANGED <<call, found>> /\ handles' \in [Handles -> Images \cup {None}]
    BY <1>0, <1>1 DEF Open, OpenFails, CallTypes
  <2>3. CallTypes'
    BY <1>0, <2>2 DEF CallTypes
  <2> QED
    BY <2>1, <2>3 DEF IInv
<1>2. ASSUME NEW h \in Handles, Close(h) PROVE IInv'
  <2>1. Globals'
    BY <1>0, <1>2, CloseKeeps
  <2>2. call = None /\ UNCHANGED <<call, found>> /\ handles' \in [Handles -> Images \cup {None}]
    BY <1>0, <1>2 DEF Close, CallTypes
  <2>3. CallTypes'
    BY <1>0, <2>2 DEF CallTypes
  <2> QED
    BY <2>1, <2>3 DEF IInv
<1>3. ASSUME NEW p \in Images, NEW kind \in Kinds, Query(p, kind) \/ QueryFails(p, kind)
      PROVE  IInv'
  <2>1. Globals'
    BY <1>0, <1>3, QueryKeeps, QueryFailsKeeps
  <2>2. UNCHANGED <<handles, call, found>>
    BY <1>3 DEF Query, QueryFails
  <2>3. CallTypes'
    BY <1>0, <2>2 DEF CallTypes
  <2> QED
    BY <2>1, <2>3 DEF IInv
<1>4. ASSUME NEW h \in Handles, NEW S \in SUBSET Images, ReadBegin(h, S) PROVE IInv'
  <2>1. Globals'
    BY <1>0, <1>4, GlobalsStay DEF ReadBegin
  <2>2. CallTypes'
    BY <1>0, <1>4 DEF ReadBegin, CallTypes
  <2> QED
    BY <2>1, <2>2 DEF IInv
<1>5. ASSUME ReadPoint \/ ReadFails PROVE IInv'
  <2>1. handles[call] \in Images
    BY <1>0, <1>5 DEF ReadPoint, ReadFails, CallTypes
  <2>2. Globals'
    BY <1>0, <1>5, <2>1, PointKeeps, PointFailsKeeps DEF ReadPoint, ReadFails
  <2>3. CallTypes'
    BY <1>0, <1>5 DEF ReadPoint, ReadFails, CallTypes
  <2> QED
    BY <2>2, <2>3 DEF IInv
<1>6. CASE ReadAnswer
  <2>1. Globals'
    BY <1>0, <1>6, GlobalsStay DEF ReadAnswer
  <2>2. CallTypes'
    BY <1>0, <1>6 DEF ReadAnswer, CallTypes
  <2> QED
    BY <2>1, <2>2 DEF IInv
<1>7. CASE ReadAgain
  <2>1. path' = None /\ UNCHANGED <<type, set, map, areas, fds, handles, call, found, stale, leaky>>
    BY <1>7 DEF ReadAgain
  <2>2. GlobalTypes' /\ FdSafe' /\ Apart' /\ Pointed'
    BY <1>0, <2>1 DEF Globals, GlobalTypes, FdSafe, Apart, Pointed
  <2>3. NoLeak' /\ Shared'
    BY <1>0, <2>1 DEF Globals, NoLeak, Shared, Kept
  <2>4. CallTypes'
    BY <1>0, <2>1 DEF CallTypes
  <2> QED
    BY <2>2, <2>3, <2>4 DEF IInv, Globals
<1>8. CASE Exit \/ Reinit
  <2>1. Globals'
    BY <1>0, <1>8, ExitKeeps, ReinitKeeps
  <2>2. UNCHANGED <<handles, call, found>>
    BY <1>8 DEF Exit, Reinit
  <2>3. CallTypes'
    BY <1>0, <2>2 DEF CallTypes
  <2> QED
    BY <2>1, <2>3 DEF IInv
<1>9. CASE UNCHANGED vars
  <2>1. Globals'
    BY <1>0, <1>9, GlobalsStay DEF vars
  <2>2. CallTypes'
    BY <1>0, <1>9 DEF vars, CallTypes
  <2> QED
    BY <2>1, <2>2 DEF IInv
<1> QED
  BY <1>1, <1>2, <1>3, <1>4, <1>5, <1>6, <1>7, <1>8, <1>9 DEF Next

LEMMA Invariance == Spec => []IInv
BY IInvInit, IInvStep, PTL DEF Spec

-----------------------------------------------------------------------------
(* The theorems.                                                           *)

\* Every state is type correct: whatever is called, a set names a descriptor of
\* the process for each of its files.
THEOREM TypeCorrect == Spec => []TypeOK
<1>1. IInv => TypeOK
  BY DEF IInv, Globals, GlobalTypes, CallTypes, TypeOK
<1> QED
  BY <1>1, Invariance, PTL

\* No call closes a descriptor that is kept in another set, and every
\* descriptor in a set is open on the file it is kept for, for any sequence of
\* opens, closes, queries, reads and exits, failing ones included.
THEOREM FdsAreSafe == Spec => []FdSafe
<1>1. IInv => FdSafe
  BY DEF IInv, Globals
<1> QED
  BY <1>1, Invariance, PTL

\* As long as no call fails and no set of the library's own is dropped for one
\* of a query, every open descriptor is in the set or in the map.
THEOREM NothingLeaks == Spec => []NoLeak
<1>1. IInv => NoLeak
  BY DEF IInv, Globals
<1> QED
  BY <1>1, Invariance, PTL

\* A read that finds the globals as they were pointed at its image returns the
\* data of that image.
LEMMA AnswerIsRight ==
    ASSUME IInv, [Next]_vars, NEW h \in Handles, Answered(h), ~stale
    PROVE  Result = Right(h)
<1> DEFINE p == handles[h]
<1>1. call = h /\ h # None /\ path = p /\ p \in Images /\ None \notin Images
  BY HandlesAssumption, ImagesAssumption DEF Answered, IInv, CallTypes
<1>2. FdSafe /\ IF p \in DOMAIN map
                THEN type = "external" /\ set = map[p]
                ELSE type = "default" /\ areas = p /\ DOMAIN set = Chain[p]
  BY <1>1 DEF IInv, Globals, Pointed
<1>3. Served = NewestOf(found \cap DOMAIN set)
  <2>1. \A i \in NewestOf(found \cap DOMAIN set) : fds[set[i]] = i
    BY <1>2 DEF FdSafe, NewestOf
  <2> QED
    BY <2>1 DEF Served
<1>4. CASE p \in DOMAIN map
  BY <1>2, <1>3, <1>4 DEF Result, Right
<1>5. CASE p \notin DOMAIN map
  <2>1. type = "default" /\ areas = p /\ DOMAIN set = Chain[p] /\ areas # None
    BY <1>1, <1>2, <1>5
  <2>2. found \cap Chain[p] = {} => NewestOf(found \cap Chain[p]) = {}
    BY DEF NewestOf
  <2> QED
    BY <1>3, <1>5, <2>1, <2>2 DEF Result, Right
<1> QED
  BY <1>4, <1>5

\* Opens and reads of other handles between the open and the read of one do it
\* no harm: what it returns is what its own image, or the last query of it, has.
THEOREM ReadsAreRight == Spec => ReadRight
<1>1. IInv /\ [Next]_vars
        => [\A h \in Handles : Answered(h) /\ ~stale => Result = Right(h)]_vars
  BY AnswerIsRight
<1> QED
  BY <1>1, Invariance, PTL DEF Spec, ReadRight
=============================================================================

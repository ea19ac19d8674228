---------------------------- MODULE TreeV2Proofs ----------------------------
(***************************************************************************)
(* Theorems about TreeV2, for every number of leaves, block size and       *)
(* choice of damage.                                                       *)
(*                                                                         *)
(* What the recursive functions of TreeV2 compute is shown by induction on *)
(* sets of naturals (Induction, from the least counterexample); that a     *)
(* definition by recursion satisfies its equation is Recursion, once for   *)
(* all of them.  From the equations follow the layout (LevelSizes to       *)
(* LeavesCounted), that the levels hold BLAKE3's tree (EntryIsBlake3), what *)
(* a check can blame (SubtreeBlamesDamage) and what it vouches for         *)
(* (RightEntryVouches).  The last part is about steps of a download.       *)
(***************************************************************************)
EXTENDS TreeV2, SequenceTheorems, FiniteSetTheorems, WellFoundedInduction, TLAPS

-----------------------------------------------------------------------------
(* Induction and recursion over the naturals.                               *)

\* A set of naturals that is not empty has a least element.
LEMMA LeastElement ==
  ASSUME NEW S \in SUBSET Nat, S # {}
  PROVE  \E x \in S : \A y \in S : x <= y
<1>1. PICK x \in S : \A y \in S : ~ (<<y, x>> \in OpToRel(<, Nat))
  BY WFMin, NatLessThanWellFounded, Zenon
<1>2. \A y \in S : ~ (y < x)
  BY <1>1 DEF OpToRel
<1> QED
  BY <1>2

\* A set that holds every natural below which it holds all naturals holds them all.
LEMMA Induction ==
  ASSUME NEW S,
         \A m \in Nat : (\A j \in 0 .. m - 1 : j \in S) => m \in S
  PROVE  \A m \in Nat : m \in S
<1> SUFFICES ASSUME NEW x \in Nat, x \notin S
             PROVE  FALSE
  OBVIOUS
<1>1. PICK m \in Nat \ S : \A y \in Nat \ S : m <= y
  BY LeastElement
<1> QED
  BY <1>1

\* A step of a recursion over the naturals, which looks at smaller arguments only.
Recursive(V, Step) ==
  /\ V # {}
  /\ Step \in [Nat -> [[Nat -> V] -> V]]
  /\ \A m \in Nat : \A f, g \in [Nat -> V] :
       (\A j \in 0 .. m - 1 : f[j] = g[j]) => Step[m][f] = Step[m][g]

\* A recursion over the naturals whose step looks at smaller arguments only has a
\* solution: the definition of a recursive function is then an equation.
LEMMA Recursion ==
  ASSUME NEW V, NEW Step, Recursive(V, Step)
  PROVE  \E f \in [Nat -> V] : \A m \in Nat : f[m] = Step[m][f]
<1> DEFINE Solves(f, m) == \A j \in 0 .. m - 1 : f[j] = Step[j][f]
           F == [Nat -> V]
<1>a. V # {} /\ \A m \in Nat : \A f \in F : Step[m] \in [F -> V] /\ Step[m][f] \in V
  BY DEF Recursive
<1>b. \A m \in Nat : \A f \in F : \A g \in F :
        (\A j \in 0 .. m - 1 : f[j] = g[j]) => Step[m][f] = Step[m][g]
  BY DEF Recursive
<1>1. \A m \in Nat : \A f, g \in F :
        Solves(f, m) /\ Solves(g, m) => \A j \in 0 .. m - 1 : f[j] = g[j]
  <2> SUFFICES ASSUME NEW m \in Nat, NEW f \in F, NEW g \in F, Solves(f, m), Solves(g, m)
               PROVE  \A j \in 0 .. m - 1 : f[j] = g[j]
    OBVIOUS
  <2> DEFINE Same == {j \in Nat : j < m => f[j] = g[j]}
  <2>1. ASSUME NEW j \in Nat, \A i \in 0 .. j - 1 : i \in Same
        PROVE  j \in Same
    <3> SUFFICES ASSUME j < m
                 PROVE  f[j] = g[j]
      OBVIOUS
    <3>1. \A i \in 0 .. j - 1 : f[i] = g[i]
      BY <2>1
    <3>2. Step[j][f] = Step[j][g]
      BY <3>1, <1>b
    <3>3. f[j] = Step[j][f] /\ g[j] = Step[j][g]
      OBVIOUS
    <3> QED
      BY <3>2, <3>3
  <2> HIDE DEF Same
  <2>2. \A j \in Nat : j \in Same
    BY <2>1, Induction
  <2> QED
    BY <2>2 DEF Same
<1>2. \A m \in Nat : \E f \in F : Solves(f, m)
  <2> DEFINE Solved == {m \in Nat : \E f \in F : Solves(f, m)}
  <2>1. ASSUME NEW m \in Nat, \A j \in 0 .. m - 1 : j \in Solved
        PROVE  m \in Solved
    <3> SUFFICES \E f \in F : Solves(f, m)
      OBVIOUS
    <3>1. CASE m = 0
      <4>1. \A f \in F : Solves(f, m)
        BY <3>1
      <4>2. PICK v \in V : TRUE
        BY <1>a
      <4>3. [j \in Nat |-> v] \in F
        BY <4>2
      <4> HIDE DEF Solves
      <4> QED
        BY <4>1, <4>3
    <3>2. CASE m # 0
      <4>1. PICK f \in F : Solves(f, m - 1)
        <5>1. m - 1 \in Solved
          <6> HIDE DEF Solved
          <6> QED
            BY <2>1, <3>2
        <5> QED
          BY <5>1
      <4> DEFINE g == [j \in Nat |-> Step[j][f]]
      <4>2. g \in F
        BY <1>a, <4>1
      <4>3. \A j \in 0 .. m - 2 : g[j] = f[j]
        BY <3>2, <4>1
      <4>4. \A j \in 0 .. m - 1 : Step[j][g] = Step[j][f]
        <5> SUFFICES ASSUME NEW j \in 0 .. m - 1
                     PROVE  Step[j][g] = Step[j][f]
          OBVIOUS
        <5>1. \A i \in 0 .. j - 1 : g[i] = f[i]
          BY <4>3
        <5>2. j \in Nat
          OBVIOUS
        <5> HIDE DEF g, F
        <5> QED
          BY <1>b, <4>1, <4>2, <5>1, <5>2
      <4>5. Solves(g, m)
        BY <4>4
      <4> HIDE DEF g
      <4> QED
        BY <4>2, <4>5
    <3> QED
      BY <3>1, <3>2
  <2> HIDE DEF Solved
  <2>2. \A m \in Nat : m \in Solved
    BY <2>1, Induction
  <2> QED
    BY <2>2 DEF Solved
<1> DEFINE At(m) == CHOOSE f \in F : Solves(f, m + 1)
           h == [m \in Nat |-> At(m)[m]]
<1>3. ASSUME NEW m \in Nat
      PROVE  At(m) \in F /\ Solves(At(m), m + 1)
  <2> HIDE DEF Solves
  <2>1. \E f \in F : Solves(f, m + 1)
    BY <1>2
  <2> QED
    BY <2>1
<1> HIDE DEF At
<1>4. h \in F
  BY <1>3, <1>a
<1>5. ASSUME NEW m \in Nat
      PROVE  h[m] = Step[m][h]
  <2>1. \A j \in 0 .. m - 1 : h[j] = At(m)[j]
    <3> SUFFICES ASSUME NEW j \in 0 .. m - 1
                 PROVE  At(j)[j] = At(m)[j]
      OBVIOUS
    <3>1. j + 1 \in Nat /\ Solves(At(j), j + 1) /\ Solves(At(m), j + 1)
      BY <1>3
    <3>2. At(j) \in F /\ At(m) \in F /\ j \in 0 .. (j + 1) - 1
      BY <1>3
    <3> QED
      BY <1>1, <3>1, <3>2
  <2>2. Step[m][h] = Step[m][At(m)]
    <3>1. At(m) \in F
      BY <1>3
    <3> HIDE DEF h, F
    <3> QED
      BY <1>b, <1>4, <2>1, <3>1
  <2>3. At(m)[m] = Step[m][At(m)]
    BY <1>3
  <2> QED
    BY <2>2, <2>3
<1> HIDE DEF h
<1> QED
  BY <1>4, <1>5

-----------------------------------------------------------------------------
(* The recursive functions of the model satisfy their equations.            *)

\* The sizes of the levels: the leaves, then half of the level below, rounded up.
LEMMA LevelSizesEquation ==
  ASSUME NEW k \in Nat
  PROVE  /\ LevelSizes(k) \in [Nat -> Nat]
         /\ \A l \in Nat : LevelSizes(k)[l] = IF l <= 1 THEN k
                                             ELSE (LevelSizes(k)[l - 1] + 1) \div 2
<1> DEFINE Step == [l \in Nat |-> [f \in [Nat -> Nat] |->
                      IF l <= 1 THEN k ELSE (f[l - 1] + 1) \div 2]]
           Body(f) == [l \in Nat |-> IF l <= 1 THEN k ELSE (f[l - 1] + 1) \div 2]
<1>1. Recursive(Nat, Step)
  BY DEF Recursive
<1>2. \E f \in [Nat -> Nat] : \A m \in Nat : f[m] = Step[m][f]
  <2> HIDE DEF Step
  <2> QED
    BY <1>1, Recursion
<1>4. PICK f \in [Nat -> Nat] : f = Body(f)
  BY <1>2
<1>5. LevelSizes(k) = CHOOSE g : g = Body(g)
  BY DEF LevelSizes
<1>6. LevelSizes(k) = Body(LevelSizes(k))
  BY <1>4, <1>5
<1> DEFINE s == LevelSizes(k)
           Typed == {l \in Nat : s[l] \in Nat}
<1>7. \A l \in Nat : s[l] = IF l <= 1 THEN k ELSE (s[l - 1] + 1) \div 2
  BY <1>6
<1> HIDE DEF s
<1>8. ASSUME NEW m \in Nat, \A j \in 0 .. m - 1 : j \in Typed
      PROVE  m \in Typed
  <2>1. CASE m <= 1
    BY <1>7, <2>1
  <2>2. CASE m > 1
    <3>1. s[m - 1] \in Nat
      BY <1>8, <2>2
    <3> QED
      BY <1>7, <2>2, <3>1
  <2> QED
    BY <2>1, <2>2
<1> HIDE DEF Typed
<1>9. \A m \in Nat : m \in Typed
  BY <1>8, Induction
<1> QED
  BY <1>6, <1>7, <1>9 DEF s, Typed

\* The entries of the levels up to one.
LEMMA EntriesUpToEquation ==
  ASSUME NEW k \in Nat
  PROVE  /\ EntriesUpTo(k, 0) = 0
         /\ \A l \in Nat : EntriesUpTo(k, l) \in Nat
         /\ \A l \in Nat \ {0} :
              EntriesUpTo(k, l) = EntriesUpTo(k, l - 1) + LevelSizes(k)[l]
<1> DEFINE size == LevelSizes(k)
           Step == [l \in Nat |-> [f \in [Nat -> Nat] |->
                      IF l = 0 THEN 0 ELSE f[l - 1] + size[l]]]
           Body(f) == [l \in Nat |-> IF l = 0 THEN 0 ELSE f[l - 1] + size[l]]
           sum == CHOOSE g : g = Body(g)
           Typed == {l \in Nat : sum[l] \in Nat}
<1>1. size \in [Nat -> Nat]
  BY LevelSizesEquation
<1>2. \A l : EntriesUpTo(k, l) = sum[l]
  BY DEF EntriesUpTo
<1> HIDE DEF size
<1>3. Recursive(Nat, Step)
  BY <1>1 DEF Recursive
<1>4. \E f \in [Nat -> Nat] : \A m \in Nat : f[m] = Step[m][f]
  <2> HIDE DEF Step
  <2> QED
    BY <1>3, Recursion
<1>5. PICK f \in [Nat -> Nat] : f = Body(f)
  BY <1>4
<1>6. sum = Body(sum)
  BY <1>5
<1> HIDE DEF sum
<1>7. \A l \in Nat : sum[l] = IF l = 0 THEN 0 ELSE sum[l - 1] + size[l]
  BY <1>6
<1>8. ASSUME NEW m \in Nat, \A j \in 0 .. m - 1 : j \in Typed
      PROVE  m \in Typed
  <2>1. CASE m = 0
    BY <1>7, <2>1
  <2>2. CASE m > 0
    <3>1. sum[m - 1] \in Nat
      BY <1>8, <2>2
    <3> QED
      BY <1>1, <1>7, <2>2, <3>1
  <2> QED
    BY <2>1, <2>2
<1> HIDE DEF Typed
<1>9. \A m \in Nat : m \in Typed
  BY <1>8, Induction
<1>10. \A m \in Nat : sum[m] \in Nat
  BY <1>9 DEF Typed
<1> QED
  BY <1>2, <1>7, <1>10 DEF size

\* Hashes are sequences of numbers.
LEMMA HashesTyped ==
  /\ \A i \in Nat : LeafCv(i) \in Seq(Int)
  /\ \A l, r \in Seq(Int) : merge_non_root(l, r) \in Seq(Int)
<1>1. ASSUME NEW l \in Seq(Int), NEW r \in Seq(Int)
      PROVE  merge_non_root(l, r) \in Seq(Int)
  <2>1. Len(l) \in Nat
    OBVIOUS
  <2>2. <<-4 - Len(l)>> \in Seq(Int)
    BY <2>1
  <2> QED
    BY <2>2 DEF merge_non_root
<1> QED
  BY <1>1 DEF LeafCv

\* The entries of the tree: leaves, merged pairs and odd entries passed up.
LEMMA EntryEquation ==
  ASSUME NEW k \in Nat, NEW l \in Nat, NEW i \in Nat
  PROVE  Entry(k, l, i) =
           IF l <= 1 THEN LeafCv(i)
           ELSE IF 2 * i + 1 < LevelSizes(k)[l - 1]
           THEN merge_non_root(Entry(k, l - 1, 2 * i), Entry(k, l - 1, 2 * i + 1))
           ELSE Entry(k, l - 1, 2 * i)
<1> DEFINE size == LevelSizes(k)
           V == [Nat -> Seq(Int)]
           Row(m, e) == [j \in Nat |->
                           IF m <= 1 THEN LeafCv(j)
                           ELSE IF 2 * j + 1 < size[m - 1]
                           THEN merge_non_root(e[m - 1][2 * j], e[m - 1][2 * j + 1])
                           ELSE e[m - 1][2 * j]]
           Step == [m \in Nat |-> [e \in [Nat -> V] |-> Row(m, e)]]
           Body(e) == [m \in Nat |-> Row(m, e)]
           E == CHOOSE e : e = Body(e)
<1>1. \A m, j : Entry(k, m, j) = E[m][j]
  BY DEF Entry
<1> HIDE DEF size
<1>2. Recursive(V, Step)
  <2>1. [j \in Nat |-> LeafCv(j)] \in V
    BY HashesTyped
  <2>2. ASSUME NEW m \in Nat, NEW e \in [Nat -> V]
        PROVE  Row(m, e) \in V
    <3> SUFFICES ASSUME NEW j \in Nat
                 PROVE  Row(m, e)[j] \in Seq(Int)
      OBVIOUS
    <3>1. CASE m <= 1
      BY <3>1, HashesTyped
    <3>2. CASE m > 1
      <4>1. e[m - 1][2 * j] \in Seq(Int) /\ e[m - 1][2 * j + 1] \in Seq(Int)
        BY <3>2
      <4> QED
        BY <3>2, <4>1, HashesTyped
    <3> QED
      BY <3>1, <3>2
  <2>3. ASSUME NEW m \in Nat, NEW f \in [Nat -> V], NEW g \in [Nat -> V],
               \A j \in 0 .. m - 1 : f[j] = g[j]
        PROVE  Row(m, f) = Row(m, g)
    <3>1. m <= 1 \/ f[m - 1] = g[m - 1]
      BY <2>3
    <3> QED
      BY <3>1
  <2> HIDE DEF V, Row
  <2>4. Step \in [Nat -> [[Nat -> V] -> V]]
    BY <2>2
  <2> QED
    BY <2>1, <2>3, <2>4 DEF Recursive
<1>3. \E f \in [Nat -> V] : \A m \in Nat : f[m] = Step[m][f]
  <2> HIDE DEF Step, V
  <2> QED
    BY <1>2, Recursion
<1>4. PICK f \in [Nat -> V] : f = Body(f)
  <2> HIDE DEF V, Row
  <2> QED
    BY <1>3
<1>5. E = Body(E)
  BY <1>4
<1> HIDE DEF E
<1>6. E[l] = Row(l, E)
  <2> HIDE DEF Row
  <2> QED
    BY <1>5
<1>7. E[l][i] = IF l <= 1 THEN LeafCv(i)
                ELSE IF 2 * i + 1 < size[l - 1]
                THEN merge_non_root(E[l - 1][2 * i], E[l - 1][2 * i + 1])
                ELSE E[l - 1][2 * i]
  BY <1>6
<1> QED
  BY <1>1, <1>7, Zenon DEF size

\* The check c of entry i of level l from those of its children: of a pair's parent
\* against the pair, of an odd entry that was passed up where it came from.
CheckedBy(k, d, l, i, c, li, ri) ==
  /\ l <= 1 => c.ok = TRUE /\ c.bad = {}
  /\ ~ (l <= 1) /\ 2 * i + 1 >= LevelSizes(k)[l - 1] => c = li
  /\ ~ (l <= 1) /\ ~ (2 * i + 1 >= LevelSizes(k)[l - 1]) =>
       /\ c.ok = Matches(d, k, l, i)
       /\ Matches(d, k, l, i) => c.bad = li.bad \cup ri.bad
       /\ ~Matches(d, k, l, i) =>
            c.bad = li.bad \cup ri.bad \cup Blamed(d, k, l, i, li.ok, ri.ok)

\* The check of an entry comes after the checks of its children.
LEMMA CheckEquation ==
  ASSUME NEW k \in Nat, NEW d, NEW l \in Nat, NEW i \in Nat
  PROVE  CheckedBy(k, d, l, i, tree_check_subtree(d, k, l, i),
                   tree_check_subtree(d, k, l - 1, 2 * i),
                   tree_check_subtree(d, k, l - 1, 2 * i + 1))
<1> DEFINE c == tree_check_subtree(d, k, l, i)
           li == tree_check_subtree(d, k, l - 1, 2 * i)
           ri == tree_check_subtree(d, k, l - 1, 2 * i + 1)
<1> DEFINE size == LevelSizes(k)
           W == {BlockOf(Slot(k, m, j)) : m \in Nat, j \in Nat}
           Results == [ok : BOOLEAN, bad : SUBSET W]
           V == [Nat -> Results]
           match(m, j) == Matches(d, k, m, j)
           blame(m, j, x, y) == Blamed(d, k, m, j, x, y)
           Row(m, f) == [j \in Nat |->
                           IF m <= 1 THEN [ok |-> TRUE, bad |-> {}]
                           ELSE IF 2 * j + 1 >= size[m - 1] THEN f[m - 1][2 * j]
                           ELSE [ok |-> match(m, j),
                                 bad |-> f[m - 1][2 * j].bad \cup f[m - 1][2 * j + 1].bad
                                           \cup IF match(m, j) THEN {}
                                                ELSE blame(m, j, f[m - 1][2 * j].ok,
                                                           f[m - 1][2 * j + 1].ok)]]
           Step == [m \in Nat |-> [f \in [Nat -> V] |-> Row(m, f)]]
           Body(f) == [m \in Nat |-> Row(m, f)]
           C == CHOOSE f : f = Body(f)
<1>1. \A m, j : tree_check_subtree(d, k, m, j) = C[m][j]
  BY DEF tree_check_subtree
<1>2. \A m, j : match(m, j) \in BOOLEAN
  BY DEF Matches
<1>3. ASSUME NEW m \in Nat \ {0}, NEW j \in Nat, NEW x, NEW y
      PROVE  blame(m, j, x, y) \subseteq W
  <2>1. BlockOf(Slot(k, m, j)) \in W
    OBVIOUS
  <2>2. m - 1 \in Nat /\ 2 * j \in Nat /\ 2 * j + 1 \in Nat
    OBVIOUS
  <2>3. BlockOf(Slot(k, m - 1, 2 * j)) \in W /\ BlockOf(Slot(k, m - 1, 2 * j + 1)) \in W
    BY <2>2
  <2> HIDE DEF W
  <2> QED
    BY <2>1, <2>3 DEF Blamed
<1> HIDE DEF size, match, blame, W
<1>4. Recursive(V, Step)
  <2>1. [j \in Nat |-> [ok |-> TRUE, bad |-> {}]] \in V
    OBVIOUS
  <2>2. ASSUME NEW m \in Nat, NEW f \in [Nat -> V]
        PROVE  Row(m, f) \in V
    <3> SUFFICES ASSUME NEW j \in Nat
                 PROVE  Row(m, f)[j] \in Results
      OBVIOUS
    <3>1. CASE m <= 1
      BY <3>1
    <3>2. CASE m > 1
      <4>1. f[m - 1][2 * j] \in Results /\ f[m - 1][2 * j + 1] \in Results
        BY <3>2
      <4> DEFINE x == f[m - 1][2 * j]
                 y == f[m - 1][2 * j + 1]
      <4> HIDE DEF x, y
      <4>2. x.bad \subseteq W /\ y.bad \subseteq W
        BY <4>1 DEF x, y
      <4>3. blame(m, j, x.ok, y.ok) \subseteq W
        BY <1>3, <3>2
      <4>4. (x.bad \cup y.bad \cup IF match(m, j) THEN {} ELSE blame(m, j, x.ok, y.ok))
              \subseteq W
        BY <4>2, <4>3
      <4>5. [ok |-> match(m, j),
             bad |-> x.bad \cup y.bad
                       \cup IF match(m, j) THEN {} ELSE blame(m, j, x.ok, y.ok)]
              \in Results
        BY <1>2, <4>4
      <4> QED
        BY <3>2, <4>1, <4>5 DEF x, y
    <3> HIDE DEF Row, Results, V
    <3> QED
      BY <3>1, <3>2
  <2>3. ASSUME NEW m \in Nat, NEW f \in [Nat -> V], NEW g \in [Nat -> V],
               \A j \in 0 .. m - 1 : f[j] = g[j]
        PROVE  Row(m, f) = Row(m, g)
    <3>1. m <= 1 \/ f[m - 1] = g[m - 1]
      BY <2>3
    <3> QED
      BY <3>1
  <2> HIDE DEF V, Row
  <2>4. Step \in [Nat -> [[Nat -> V] -> V]]
    BY <2>2
  <2> QED
    BY <2>1, <2>3, <2>4 DEF Recursive
<1>5. \E f \in [Nat -> V] : \A m \in Nat : f[m] = Step[m][f]
  <2> HIDE DEF Step, V
  <2> QED
    BY <1>4, Recursion
<1>6. PICK f \in [Nat -> V] : f = Body(f)
  <2> HIDE DEF V, Row
  <2> QED
    BY <1>5
<1>7. C = Body(C)
  BY <1>6
<1> HIDE DEF C
<1>8. C[l] = Row(l, C)
  <2> HIDE DEF Row
  <2> QED
    BY <1>7
<1>9. c = C[l][i] /\ li = C[l - 1][2 * i] /\ ri = C[l - 1][2 * i + 1]
  BY <1>1
<1> HIDE DEF Row, c, li, ri
<1>10. l <= 1 => c.ok = TRUE /\ c.bad = {}
  BY <1>8, <1>9 DEF Row
<1>11. ~ (l <= 1) /\ 2 * i + 1 >= size[l - 1] => c = li
  BY <1>8, <1>9 DEF Row
<1>12. ~ (l <= 1) /\ ~ (2 * i + 1 >= size[l - 1]) =>
         c = [ok |-> match(l, i),
              bad |-> li.bad \cup ri.bad
                        \cup IF match(l, i) THEN {} ELSE blame(l, i, li.ok, ri.ok)]
  BY <1>8, <1>9 DEF Row
<1>13. ~ (l <= 1) /\ ~ (2 * i + 1 >= size[l - 1]) =>
         /\ c.ok = match(l, i)
         /\ match(l, i) => c.bad = li.bad \cup ri.bad
         /\ ~match(l, i) => c.bad = li.bad \cup ri.bad \cup blame(l, i, li.ok, ri.ok)
  <2> DEFINE p == match(l, i)
             b == blame(l, i, li.ok, ri.ok)
  <2> SUFFICES ASSUME ~ (l <= 1), ~ (2 * i + 1 >= size[l - 1])
               PROVE  /\ c.ok = p
                      /\ p => c.bad = li.bad \cup ri.bad
                      /\ ~p => c.bad = li.bad \cup ri.bad \cup b
    OBVIOUS
  <2>1. c = [ok |-> p, bad |-> li.bad \cup ri.bad \cup IF p THEN {} ELSE b]
    BY <1>12
  <2>2. p \in BOOLEAN
    BY <1>2
  <2> HIDE DEF p, b
  <2>3. CASE p
    BY <2>1, <2>3
  <2>4. CASE ~p
    BY <2>1, <2>2, <2>4
  <2> QED
    BY <2>3, <2>4
<1>14. CheckedBy(k, d, l, i, c, li, ri)
  BY <1>10, <1>11, <1>13 DEF size, match, blame, CheckedBy
<1> QED
  BY <1>14 DEF c, li, ri

\* A power of two is one, or twice a power of two.
LEMMA PowerOfTwoEquation ==
  \A p \in Nat : PowerOfTwo[p] <=> p = 1 \/ (p > 1 /\ p % 2 = 0 /\ PowerOfTwo[p \div 2])
<1> DEFINE Row(p, f) == p = 1 \/ (p > 1 /\ p % 2 = 0 /\ f[p \div 2])
           Step == [p \in Nat |-> [f \in [Nat -> BOOLEAN] |-> Row(p, f)]]
           Body(f) == [p \in Nat |-> Row(p, f)]
<1>1. Recursive(BOOLEAN, Step)
  <2>1. ASSUME NEW m \in Nat, NEW f \in [Nat -> BOOLEAN], NEW g \in [Nat -> BOOLEAN],
               \A j \in 0 .. m - 1 : f[j] = g[j]
        PROVE  Row(m, f) = Row(m, g)
    <3>1. m > 1 => m \div 2 \in 0 .. m - 1
      OBVIOUS
    <3>2. m > 1 => f[m \div 2] = g[m \div 2]
      BY <2>1, <3>1
    <3> QED
      BY <3>2
  <2>2. \A m, f : Row(m, f) \in BOOLEAN
    OBVIOUS
  <2> HIDE DEF Row
  <2>3. Step \in [Nat -> [[Nat -> BOOLEAN] -> BOOLEAN]]
    BY <2>2
  <2> QED
    BY <2>1, <2>3 DEF Recursive
<1>2. \E f \in [Nat -> BOOLEAN] : \A m \in Nat : f[m] = Step[m][f]
  <2> HIDE DEF Step
  <2> QED
    BY <1>1, Recursion
<1>3. PICK r \in [Nat -> BOOLEAN] : r = Body(r)
  <2> HIDE DEF Row
  <2> QED
    BY <1>2
<1>4. PowerOfTwo = CHOOSE f : f = Body(f)
  BY DEF PowerOfTwo
<1>5. PowerOfTwo = Body(PowerOfTwo)
  BY <1>3, <1>4
<1> QED
  BY <1>5

-----------------------------------------------------------------------------
(* Powers of two and BLAKE3's tree.                                         *)

\* Twice a power of two is one.
LEMMA TwicePower ==
  ASSUME NEW p \in Nat, PowerOfTwo[p]
  PROVE  PowerOfTwo[2 * p]
<1>1. p >= 1
  BY PowerOfTwoEquation
<1>2. 2 * p \in Nat /\ 2 * p > 1 /\ (2 * p) % 2 = 0 /\ (2 * p) \div 2 = p
  BY <1>1
<1> QED
  BY <1>2, PowerOfTwoEquation

\* Of two powers of two the larger is at least twice the smaller.
LEMMA PowersApart ==
  ASSUME NEW p \in Nat, NEW q \in Nat, PowerOfTwo[p], PowerOfTwo[q], p < q
  PROVE  2 * p <= q
<1> DEFINE Apart == {m \in Nat : \A j \in Nat :
                       PowerOfTwo[j] /\ PowerOfTwo[m] /\ j < m => 2 * j <= m}
<1>1. ASSUME NEW m \in Nat, \A j \in 0 .. m - 1 : j \in Apart
      PROVE  m \in Apart
  <2> SUFFICES ASSUME NEW j \in Nat, PowerOfTwo[j], PowerOfTwo[m], j < m
               PROVE  2 * j <= m
    OBVIOUS
  <2>1. j >= 1 /\ m > 1 /\ m % 2 = 0 /\ PowerOfTwo[m \div 2]
    BY PowerOfTwoEquation
  <2>2. CASE j = 1
    BY <2>1, <2>2
  <2>3. CASE j > 1
    <3>1. j % 2 = 0 /\ PowerOfTwo[j \div 2]
      <4>1. j # 1
        BY <2>3
      <4> QED
        BY <4>1, PowerOfTwoEquation, Zenon
    <3>2. j \div 2 \in Nat /\ m \div 2 \in 0 .. m - 1 /\ j \div 2 < m \div 2
      BY <2>1, <3>1
    <3>3. m \div 2 \in Apart
      <4> HIDE DEF Apart
      <4> QED
        BY <1>1, <3>2
    <3>4. 2 * (j \div 2) <= m \div 2
      BY <2>1, <3>1, <3>2, <3>3
    <3> QED
      BY <2>1, <3>1, <3>4
  <2> QED
    BY <2>1, <2>2, <2>3
<1> HIDE DEF Apart
<1>2. q \in Apart
  BY <1>1, Induction
<1> QED
  BY <1>2 DEF Apart

\* Every number above one lies between a power of two and its double.
LEMMA PowerBelow ==
  ASSUME NEW k \in Nat, k >= 2
  PROVE  \E p \in 1 .. k - 1 : PowerOfTwo[p] /\ k <= 2 * p
<1> DEFINE Below == {m \in Nat : m >= 2 =>
                       \E p \in 1 .. m - 1 : PowerOfTwo[p] /\ m <= 2 * p}
<1>1. ASSUME NEW m \in Nat, \A j \in 0 .. m - 1 : j \in Below
      PROVE  m \in Below
  <2>1. CASE m < 2
    BY <2>1
  <2>2. CASE m = 2
    <3>1. PowerOfTwo[1]
      BY PowerOfTwoEquation
    <3> QED
      BY <2>2, <3>1
  <2>3. CASE m > 2
    <3> DEFINE h == (m + 1) \div 2
    <3>1. h \in 0 .. m - 1 /\ h >= 2 /\ 2 * h <= m + 1 /\ m <= 2 * h
      BY <2>3
    <3> HIDE DEF h
    <3>2. h \in Below
      <4> HIDE DEF Below
      <4> QED
        BY <1>1, <3>1
    <3>3. PICK q \in 1 .. h - 1 : PowerOfTwo[q] /\ h <= 2 * q
      BY <3>1, <3>2
    <3>4. PowerOfTwo[2 * q]
      BY <3>3, TwicePower
    <3>5. 2 * q \in 1 .. m - 1 /\ m <= 2 * (2 * q)
      BY <3>1, <3>3
    <3> QED
      BY <3>4, <3>5
  <2> QED
    BY <2>1, <2>2, <2>3
<1> HIDE DEF Below
<1>2. k \in Below
  BY <1>1, Induction
<1> QED
  BY <1>2 DEF Below

\* The largest power of two below a number is the one whose double is not.
LEMMA HalfFacts ==
  ASSUME NEW k \in Nat, k >= 2
  PROVE  /\ Half(k) \in 1 .. k - 1
         /\ \A p \in 1 .. k - 1 : PowerOfTwo[p] /\ k <= 2 * p => p = Half(k)
<1>1. Half(k) \in 1 .. k - 1 /\ PowerOfTwo[Half(k)] /\ k <= 2 * Half(k)
  BY PowerBelow DEF Half
<1>2. ASSUME NEW p \in 1 .. k - 1, PowerOfTwo[p], k <= 2 * p
      PROVE  p = Half(k)
  <2>1. ~ (p < Half(k))
    BY <1>1, <1>2, PowersApart
  <2>2. ~ (Half(k) < p)
    BY <1>1, <1>2, PowersApart
  <2> QED
    BY <1>1, <2>1, <2>2
<1> QED
  BY <1>1, <1>2

\* BLAKE3's tree over one leaf and over more.
LEMMA Blake3Equation ==
  ASSUME NEW a \in Nat, NEW k \in Nat
  PROVE  Blake3(a, k) =
           IF k <= 1 THEN LeafCv(a)
           ELSE merge_non_root(Blake3(a, Half(k)), Blake3(a + Half(k), k - Half(k)))
<1> DEFINE V == [Nat -> Seq(Int)]
           Row(m, r) == [j \in Nat |->
                           IF m <= 1 THEN LeafCv(j)
                           ELSE merge_non_root(r[Half(m)][j],
                                               r[m - Half(m)][j + Half(m)])]
           Step == [m \in Nat |-> [r \in [Nat -> V] |-> Row(m, r)]]
           Body(r) == [m \in Nat |-> Row(m, r)]
           R == CHOOSE r : r = Body(r)
<1>1. \A lo, count : Blake3(lo, count) = R[count][lo]
  BY DEF Blake3
<1>2. \A m \in Nat : m >= 2 => /\ Half(m) \in Nat /\ Half(m) \in 0 .. m - 1
                             /\ m - Half(m) \in Nat /\ m - Half(m) \in 0 .. m - 1
  BY HalfFacts
<1>3. Recursive(V, Step)
  <2>1. [j \in Nat |-> LeafCv(j)] \in V
    BY HashesTyped
  <2>2. ASSUME NEW m \in Nat, NEW r \in [Nat -> V]
        PROVE  Row(m, r) \in V
    <3> SUFFICES ASSUME NEW j \in Nat
                 PROVE  Row(m, r)[j] \in Seq(Int)
      OBVIOUS
    <3>1. CASE m <= 1
      BY <3>1, HashesTyped
    <3>2. CASE m > 1
      <4>1. r[Half(m)] \in V /\ r[m - Half(m)] \in V /\ j + Half(m) \in Nat
        <5>1. Half(m) \in Nat /\ m - Half(m) \in Nat
          BY <1>2, <3>2
        <5> HIDE DEF V
        <5> QED
          BY <5>1
      <4>2. r[Half(m)][j] \in Seq(Int) /\ r[m - Half(m)][j + Half(m)] \in Seq(Int)
        BY <4>1
      <4> QED
        BY <3>2, <4>2, HashesTyped
    <3> QED
      BY <3>1, <3>2
  <2>3. ASSUME NEW m \in Nat, NEW f \in [Nat -> V], NEW g \in [Nat -> V],
               \A j \in 0 .. m - 1 : f[j] = g[j]
        PROVE  Row(m, f) = Row(m, g)
    <3>1. m <= 1 \/ (f[Half(m)] = g[Half(m)] /\ f[m - Half(m)] = g[m - Half(m)])
      BY <1>2, <2>3
    <3> QED
      BY <3>1
  <2> HIDE DEF V, Row
  <2>4. Step \in [Nat -> [[Nat -> V] -> V]]
    BY <2>2
  <2> QED
    BY <2>1, <2>3, <2>4 DEF Recursive
<1>4. \E f \in [Nat -> V] : \A m \in Nat : f[m] = Step[m][f]
  <2> HIDE DEF Step, V
  <2> QED
    BY <1>3, Recursion
<1>5. PICK f \in [Nat -> V] : f = Body(f)
  <2> HIDE DEF V, Row
  <2> QED
    BY <1>4
<1>6. R = Body(R)
  BY <1>5
<1> HIDE DEF R
<1>7. R[k] = Row(k, R)
  <2> HIDE DEF Row
  <2> QED
    BY <1>6
<1>8. R[k][a] = IF k <= 1 THEN LeafCv(a)
                ELSE merge_non_root(R[Half(k)][a], R[k - Half(k)][a + Half(k)])
  BY <1>7
<1> QED
  BY <1>1, <1>8, Zenon

-----------------------------------------------------------------------------
(* The levels and their places in the file.                                 *)

\* The leaves are the first level, and each level has half as many entries as the
\* one below, rounded up.
LEMMA LevelFacts ==
  ASSUME NEW k \in Nat
  PROVE  /\ LevelSizes(k)[1] = k
         /\ \A l \in Nat \ {0} :
              /\ LevelSizes(k)[l] \in Nat
              /\ LevelSizes(k)[l + 1] = (LevelSizes(k)[l] + 1) \div 2
<1>1. LevelSizes(k)[1] = k
  <2>1. 1 \in Nat /\ 1 <= 1
    OBVIOUS
  <2> QED
    BY <2>1, LevelSizesEquation, Zenon
<1>2. ASSUME NEW l \in Nat \ {0}
      PROVE  /\ LevelSizes(k)[l] \in Nat
             /\ LevelSizes(k)[l + 1] = (LevelSizes(k)[l] + 1) \div 2
  <2>1. l + 1 \in Nat /\ ~ (l + 1 <= 1) /\ (l + 1) - 1 = l
    OBVIOUS
  <2>2. LevelSizes(k)[l + 1] = (LevelSizes(k)[(l + 1) - 1] + 1) \div 2
    BY <2>1, LevelSizesEquation
  <2> QED
    BY <2>1, <2>2, LevelSizesEquation
<1> QED
  BY <1>1, <1>2

\* While the levels have more than two entries, each is smaller than the one below.
LEMMA LevelsShrink ==
  ASSUME NEW k \in Nat, NEW l \in Nat \ {0},
         \A m \in 1 .. l - 1 : LevelSizes(k)[m] > 2
  PROVE  l > 1 => LevelSizes(k)[l] \in 2 .. k + 1 - l
<1> DEFINE size == LevelSizes(k)
           Shrunk == {j \in Nat : 1 < j /\ j <= l => size[j] \in 2 .. k + 1 - j}
<1>1. size[1] = k /\ \A j \in Nat \ {0} : size[j] \in Nat /\ size[j + 1] = (size[j] + 1) \div 2
  BY LevelFacts
<1>2. \A m \in 1 .. l - 1 : size[m] > 2
  OBVIOUS
<1> HIDE DEF size
<1>3. ASSUME NEW m \in Nat, \A j \in 0 .. m - 1 : j \in Shrunk
      PROVE  m \in Shrunk
  <2> SUFFICES ASSUME 1 < m, m <= l
               PROVE  size[m] \in 2 .. k + 1 - m
    OBVIOUS
  <2>1. m - 1 \in Nat \ {0} /\ m - 1 \in 1 .. l - 1 /\ (m - 1) + 1 = m
    OBVIOUS
  <2>2. size[m - 1] \in Nat /\ size[m - 1] > 2 /\ size[m] = (size[m - 1] + 1) \div 2
    BY <1>1, <1>2, <2>1
  <2>3. size[m] \in Nat /\ size[m] >= 2 /\ size[m] <= size[m - 1] - 1
    BY <2>2
  <2>4. size[m - 1] <= k + 1 - (m - 1)
    <3>1. CASE m = 2
      BY <1>1, <3>1
    <3>2. CASE m > 2
      <4>1. m - 1 \in Shrunk
        <5> HIDE DEF Shrunk
        <5> QED
          BY <1>3, <3>2
      <4> QED
        BY <2>1, <2>2, <3>2, <4>1
    <3> QED
      BY <3>1, <3>2
  <2> QED
    BY <2>2, <2>3, <2>4
<1> HIDE DEF Shrunk
<1>4. l \in Shrunk
  BY <1>3, Induction
<1> QED
  BY <1>4 DEF Shrunk, size

\* The levels end at the first of at most two entries, of exactly two when there are
\* two leaves.
LEMMA TopFacts ==
  ASSUME NEW k \in Nat
  PROVE  /\ Top(k) \in Nat \ {0}
         /\ LevelSizes(k)[Top(k)] <= 2
         /\ \A m \in 1 .. Top(k) - 1 : LevelSizes(k)[m] > 2
         /\ k >= 2 => LevelSizes(k)[Top(k)] = 2
         /\ k > 2 => Top(k) >= 2
<1> DEFINE size == LevelSizes(k)
           Above == {l \in 1 .. k + 1 : size[l] <= 2}
<1>1. size[1] = k /\ \A j \in Nat \ {0} : size[j] \in Nat
  BY LevelFacts
<1>2. Above # {}
  <2> SUFFICES ASSUME Above = {}
               PROVE  FALSE
    OBVIOUS
  <2>1. \A m \in 1 .. k + 1 : size[m] > 2
    BY <1>1
  <2>2. k + 1 > 1 => size[k + 1] \in 2 .. k + 1 - (k + 1)
    BY <2>1, LevelsShrink
  <2> QED
    BY <1>1, <2>1, <2>2
<1>3. PICK l \in Above : \A j \in Above : l <= j
  <2>1. Above \in SUBSET Nat
    OBVIOUS
  <2> HIDE DEF Above
  <2> QED
    BY <1>2, <2>1, LeastElement
<1>4. l \in 1 .. k + 1 /\ size[l] <= 2 /\ \A m \in 1 .. l - 1 : size[m] > 2
  BY <1>1, <1>3
<1>5. Top(k) \in 1 .. k + 1 /\ size[Top(k)] <= 2 /\ \A m \in 1 .. Top(k) - 1 : size[m] > 2
  BY <1>4 DEF Top
<1>6. Top(k) > 1 => size[Top(k)] >= 2
  BY <1>1, <1>5, LevelsShrink
<1> QED
  BY <1>1, <1>5, <1>6

\* More levels have more entries, and a level has no more entries than all levels.
LEMMA EntriesGrow ==
  ASSUME NEW k \in Nat, NEW j \in Nat, NEW l \in Nat, j < l
  PROVE  EntriesUpTo(k, j) + LevelSizes(k)[l] <= EntriesUpTo(k, l)
<1> DEFINE Grown == {m \in Nat : j < m =>
                       EntriesUpTo(k, j) + LevelSizes(k)[m] <= EntriesUpTo(k, m)}
<1>1. ASSUME NEW m \in Nat, \A i \in 0 .. m - 1 : i \in Grown
      PROVE  m \in Grown
  <2> SUFFICES ASSUME j < m
               PROVE  EntriesUpTo(k, j) + LevelSizes(k)[m] <= EntriesUpTo(k, m)
    OBVIOUS
  <2>0. m \in Nat \ {0} /\ m - 1 \in Nat
    OBVIOUS
  <2>1. EntriesUpTo(k, m) = EntriesUpTo(k, m - 1) + LevelSizes(k)[m]
    BY <2>0, EntriesUpToEquation
  <2>2. EntriesUpTo(k, j) \in Nat /\ EntriesUpTo(k, m - 1) \in Nat /\ m - 1 \in Nat
    BY <2>0, EntriesUpToEquation
  <2>3. LevelSizes(k)[m] \in Nat /\ LevelSizes(k)[m - 1] \in Nat
    BY <2>2, LevelSizesEquation
  <2>4. EntriesUpTo(k, j) <= EntriesUpTo(k, m - 1)
    <3>1. CASE j = m - 1
      BY <2>2, <3>1
    <3>2. CASE j < m - 1
      <4>1. m - 1 \in Grown
        <5> HIDE DEF Grown
        <5> QED
          BY <1>1, <3>2
      <4> QED
        BY <2>2, <2>3, <3>2, <4>1
    <3> QED
      BY <3>1, <3>2
  <2> QED
    BY <2>1, <2>2, <2>3, <2>4
<1> HIDE DEF Grown
<1>2. l \in Grown
  BY <1>1, Induction
<1> QED
  BY <1>2 DEF Grown

\* A file has two slots for its header and one for each entry.
LEMMA SlotsFacts ==
  ASSUME NEW k \in Nat
  PROVE  /\ Slots(k) = 2 + EntriesUpTo(k, Top(k))
         /\ EntriesUpTo(k, Top(k)) \in Nat /\ EntriesUpTo(k, Top(k)) >= k
         /\ tree_file_size(k) = 4 + 32 * EntriesUpTo(k, Top(k))
         /\ tree_file_size_v2(k) = 64 + 32 * EntriesUpTo(k, Top(k))
<1>1. Top(k) \in Nat /\ 0 < Top(k)
  BY TopFacts
<1> DEFINE T == EntriesUpTo(k, Top(k))
<1>2. T \in Nat
  BY <1>1, EntriesUpToEquation
<1>3. T >= k
  <2>1. EntriesUpTo(k, 0) = 0 /\ EntriesUpTo(k, 1) = EntriesUpTo(k, 0) + LevelSizes(k)[1]
    <3>1. 1 \in Nat \ {0} /\ 1 - 1 = 0
      OBVIOUS
    <3>2. EntriesUpTo(k, 1) = EntriesUpTo(k, 1 - 1) + LevelSizes(k)[1]
      BY <3>1, EntriesUpToEquation
    <3> QED
      BY <3>1, <3>2, EntriesUpToEquation
  <2>2. LevelSizes(k)[1] = k
    BY LevelFacts
  <2>3. EntriesUpTo(k, 1) = k
    BY <2>1, <2>2
  <2>4. CASE Top(k) = 1
    BY <2>3, <2>4
  <2>5. CASE 1 < Top(k)
    <3>1. EntriesUpTo(k, 1) + LevelSizes(k)[Top(k)] <= T
      BY <1>1, <2>5, EntriesGrow
    <3>2. LevelSizes(k)[Top(k)] \in Nat
      BY <1>1, LevelSizesEquation
    <3> HIDE DEF T
    <3> QED
      BY <1>2, <2>3, <3>1, <3>2
  <2> QED
    BY <1>1, <2>4, <2>5
<1>4. tree_file_size(k) = 4 + 32 * T /\ tree_file_size_v2(k) = 60 + (4 + 32 * T)
      /\ Slots(k) = (60 + (4 + 32 * T)) \div 32
  BY DEF tree_file_size, tree_file_size_v2, Slots, HashLen
<1> HIDE DEF T
<1>5. 60 + (4 + 32 * T) = 64 + 32 * T /\ (60 + (4 + 32 * T)) \div 32 = 2 + T
  BY <1>2
<1> QED
  BY <1>2, <1>3, <1>4, <1>5 DEF T

\* The entries of a level lie behind the header, before those of the level below.
LEMMA SlotFacts ==
  ASSUME NEW k \in Nat, NEW l \in 1 .. Top(k), NEW i \in 0 .. LevelSizes(k)[l] - 1
  PROVE  /\ Slot(k, l, i) \in 2 .. Slots(k) - 1
         /\ Slot(k, l, i) = Slot(k, l, 0) + i
         /\ \A m \in 1 .. Top(k) : l < m =>
              \A j \in Nat : j < LevelSizes(k)[m] => Slot(k, m, j) < Slot(k, l, 0)
<1>1. l \in Nat /\ Top(k) \in Nat /\ LevelSizes(k)[l] \in Nat
  BY TopFacts, LevelSizesEquation
<1> DEFINE T == EntriesUpTo(k, Top(k))
           u == EntriesUpTo(k, l)
           z == LevelSizes(k)[l]
<1>2. T \in Nat /\ Slots(k) = 2 + T
  BY SlotsFacts
<1>3. u \in Nat /\ z \in Nat
  BY <1>1, EntriesUpToEquation
<1>4. u <= T
  <2>1. CASE l = Top(k)
    BY <1>2, <2>1
  <2>2. CASE l < Top(k)
    <3>1. u + LevelSizes(k)[Top(k)] <= T /\ LevelSizes(k)[Top(k)] \in Nat
      BY <1>1, <2>2, EntriesGrow, LevelSizesEquation
    <3> HIDE DEF u, T
    <3> QED
      BY <1>2, <1>3, <3>1
  <2> QED
    BY <1>1, <2>1, <2>2
<1>5. z <= u
  <2>1. EntriesUpTo(k, 0) = 0 /\ EntriesUpTo(k, 0) + z <= u
    BY <1>1, EntriesGrow, EntriesUpToEquation
  <2> HIDE DEF z, u
  <2> QED
    BY <1>3, <2>1
<1>6. \A x : Slot(k, l, x) = Slots(k) - u + x
  BY DEF Slot
<1>7. i \in 0 .. z - 1
  OBVIOUS
<1>8. ASSUME NEW m \in 1 .. Top(k), l < m, NEW j \in Nat, j < LevelSizes(k)[m]
      PROVE  Slot(k, m, j) < Slot(k, l, 0)
  <2> DEFINE v == EntriesUpTo(k, m)
             y == LevelSizes(k)[m]
  <2>1. u + y <= v /\ y \in Nat /\ v \in Nat
    <3>1. m \in Nat
      BY <1>1
    <3>2. u + y <= v
      BY <1>1, <1>8, <3>1, EntriesGrow
    <3>3. y \in Nat /\ v \in Nat
      BY <3>1, EntriesUpToEquation, LevelSizesEquation
    <3> QED
      BY <3>2, <3>3
  <2>2. Slot(k, m, j) = Slots(k) - v + j
    BY DEF Slot
  <2>3. j < y
    BY <1>8
  <2> HIDE DEF v, y, u, T
  <2> QED
    BY <1>2, <1>3, <1>6, <2>1, <2>2, <2>3
<1> HIDE DEF u, T, z
<1> QED
  BY <1>2, <1>3, <1>4, <1>5, <1>6, <1>7, <1>8

\* The tree that is built has each entry in its slot.
LEMMA TreeBuilt ==
  ASSUME NEW k \in Nat, k >= 2
  PROVE  /\ DOMAIN TreeOver(k) = 0 .. Slots(k) - 1
         /\ TreeOver(k)[0] = Magic
         /\ TreeOver(k)[1] = Root(k)
         /\ \A l \in 1 .. Top(k) : \A i \in 0 .. LevelSizes(k)[l] - 1 :
              TreeOver(k)[Slot(k, l, i)] = Entry(k, l, i)
<1>1. Slots(k) \in Nat /\ Slots(k) >= 4
  BY SlotsFacts
<1>2. DOMAIN TreeOver(k) = 0 .. Slots(k) - 1
  BY DEF TreeOver
<1>3. TreeOver(k)[0] = Magic /\ TreeOver(k)[1] = Root(k)
  <2>1. 0 \in 0 .. Slots(k) - 1 /\ 1 \in 0 .. Slots(k) - 1
    BY <1>1
  <2> QED
    BY <2>1 DEF TreeOver
<1>4. ASSUME NEW l \in 1 .. Top(k), NEW i \in 0 .. LevelSizes(k)[l] - 1
      PROVE  TreeOver(k)[Slot(k, l, i)] = Entry(k, l, i)
  <2> DEFINE s == Slot(k, l, i)
             Holds(m) == Slot(k, m, 0) <= s /\ s < Slot(k, m, LevelSizes(k)[m])
  <2>1. s \in 2 .. Slots(k) - 1 /\ s = Slot(k, l, 0) + i
    BY SlotFacts
  <2>2. \A m \in 1 .. Top(k) :
          /\ Slot(k, m, 0) \in Int
          /\ Slot(k, m, LevelSizes(k)[m]) = Slot(k, m, 0) + LevelSizes(k)[m]
          /\ LevelSizes(k)[m] \in Nat
    <3> SUFFICES ASSUME NEW m \in 1 .. Top(k)
                 PROVE  /\ Slot(k, m, 0) \in Int
                        /\ Slot(k, m, LevelSizes(k)[m]) = Slot(k, m, 0) + LevelSizes(k)[m]
                        /\ LevelSizes(k)[m] \in Nat
      OBVIOUS
    <3>1. m \in Nat
      BY TopFacts
    <3>2. LevelSizes(k)[m] \in Nat /\ EntriesUpTo(k, m) \in Nat
      BY <3>1, LevelSizesEquation, EntriesUpToEquation
    <3> QED
      BY <1>1, <3>2 DEF Slot
  <2>3. Holds(l)
    BY <2>1, <2>2
  <2>4. ASSUME NEW m \in 1 .. Top(k), Holds(m)
        PROVE  m = l
    <3>1. Top(k) \in Nat
      BY TopFacts
    <3>2. ~ (l < m)
      <4>1. ASSUME l < m
            PROVE  FALSE
        <5> DEFINE y == LevelSizes(k)[m]
        <5>1. y > 0 /\ y - 1 \in Nat /\ y - 1 < y
          BY <2>2, <2>4, <2>1
        <5>2. Slot(k, m, y - 1) < Slot(k, l, 0)
          BY <4>1, <5>1, SlotFacts
        <5>3. y - 1 \in 0 .. LevelSizes(k)[m] - 1
          BY <5>1
        <5>4. Slot(k, m, y - 1) = Slot(k, m, 0) + (y - 1)
          BY <5>3, SlotFacts
        <5> HIDE DEF y
        <5> QED
          BY <2>1, <2>2, <2>4, <5>1, <5>2, <5>4 DEF y
      <4> QED
        BY <4>1
    <3>3. ~ (m < l)
      <4>1. ASSUME m < l
            PROVE  FALSE
        <5>1. 0 \in 0 .. LevelSizes(k)[m] - 1
          BY <2>1, <2>2, <2>4
        <5>2. i \in Nat /\ i < LevelSizes(k)[l]
          BY <2>2
        <5>3. s < Slot(k, m, 0)
          BY <4>1, <5>1, <5>2, SlotFacts
        <5> QED
          BY <2>1, <2>2, <2>4, <5>3
      <4> QED
        BY <4>1
    <3> QED
      BY <3>1, <3>2, <3>3
  <2>5. (CHOOSE m \in 1 .. Top(k) : Holds(m)) = l
    <3> HIDE DEF Holds
    <3> QED
      BY <2>3, <2>4
  <2>6. s - Slot(k, l, 0) = i
    BY <2>1, <2>2
  <2>7. s \in 0 .. Slots(k) - 1 /\ s # 0 /\ s # 1
    BY <1>1, <2>1
  <2>8. TreeOver(k)[s] =
          Entry(k, CHOOSE m \in 1 .. Top(k) : Holds(m),
                s - Slot(k, CHOOSE m \in 1 .. Top(k) : Holds(m), 0))
    BY <2>7 DEF TreeOver
  <2> HIDE DEF Holds
  <2> QED
    BY <2>5, <2>6, <2>8
<1> QED
  BY <1>2, <1>3, <1>4

\* A tree of more leaves has more entries on each level and in all.
LEMMA MoreLeaves ==
  ASSUME NEW j \in Nat, NEW k \in Nat, j < k
  PROVE  /\ \A l \in Nat : LevelSizes(j)[l] <= LevelSizes(k)[l]
         /\ tree_file_size(j) < tree_file_size(k)
<1> DEFINE Fewer == {l \in Nat : LevelSizes(j)[l] <= LevelSizes(k)[l]}
           Less == {l \in Nat : l >= 1 => EntriesUpTo(j, l) < EntriesUpTo(k, l)}
<1>1. ASSUME NEW m \in Nat, \A x \in 0 .. m - 1 : x \in Fewer
      PROVE  m \in Fewer
  <2>1. CASE m <= 1
    BY <2>1, LevelSizesEquation
  <2>2. CASE m > 1
    <3>1. m - 1 \in Nat /\ m - 1 \in Fewer
      <4> HIDE DEF Fewer
      <4> QED
        BY <1>1, <2>2
    <3>2. LevelSizes(j)[m] = (LevelSizes(j)[m - 1] + 1) \div 2
          /\ LevelSizes(k)[m] = (LevelSizes(k)[m - 1] + 1) \div 2
          /\ LevelSizes(j)[m - 1] \in Nat /\ LevelSizes(k)[m - 1] \in Nat
      <4>1. ~ (m <= 1)
        BY <2>2
      <4>2. /\ LevelSizes(j)[m] = (LevelSizes(j)[m - 1] + 1) \div 2
            /\ LevelSizes(k)[m] = (LevelSizes(k)[m - 1] + 1) \div 2
        BY <4>1, LevelSizesEquation, Zenon
      <4>3. LevelSizes(j)[m - 1] \in Nat /\ LevelSizes(k)[m - 1] \in Nat
        BY <3>1, LevelSizesEquation
      <4> QED
        BY <4>2, <4>3
    <3>3. LevelSizes(j)[m - 1] <= LevelSizes(k)[m - 1]
      BY <3>1
    <3>4. (LevelSizes(j)[m - 1] + 1) \div 2 <= (LevelSizes(k)[m - 1] + 1) \div 2
      BY <3>2, <3>3
    <3> QED
      BY <3>2, <3>4
  <2> QED
    BY <2>1, <2>2
<1> HIDE DEF Fewer
<1>2. \A l \in Nat : l \in Fewer
  BY <1>1, Induction
<1>3. \A l \in Nat : LevelSizes(j)[l] <= LevelSizes(k)[l]
  BY <1>2 DEF Fewer
<1>4. ASSUME NEW m \in Nat, \A x \in 0 .. m - 1 : x \in Less
      PROVE  m \in Less
  <2> SUFFICES ASSUME m >= 1
               PROVE  EntriesUpTo(j, m) < EntriesUpTo(k, m)
    OBVIOUS
  <2>1. m \in Nat \ {0} /\ m - 1 \in Nat
    OBVIOUS
  <2>2. /\ EntriesUpTo(j, m) = EntriesUpTo(j, m - 1) + LevelSizes(j)[m]
        /\ EntriesUpTo(k, m) = EntriesUpTo(k, m - 1) + LevelSizes(k)[m]
    BY <2>1, EntriesUpToEquation
  <2>3. EntriesUpTo(j, m - 1) \in Nat /\ EntriesUpTo(k, m - 1) \in Nat
    BY <2>1, EntriesUpToEquation
  <2>4. LevelSizes(j)[m] \in Nat /\ LevelSizes(k)[m] \in Nat
        /\ LevelSizes(j)[m] <= LevelSizes(k)[m]
    BY <1>3, LevelSizesEquation
  <2>5. CASE m = 1
    <3>1. EntriesUpTo(j, m - 1) = 0 /\ EntriesUpTo(k, m - 1) = 0
      BY <2>5, EntriesUpToEquation
    <3>2. LevelSizes(j)[m] = j /\ LevelSizes(k)[m] = k
      BY <2>5, LevelFacts
    <3> QED
      BY <2>2, <3>1, <3>2
  <2>6. CASE m > 1
    <3>1. m - 1 \in Less
      <4> HIDE DEF Less
      <4> QED
        BY <1>4, <2>6
    <3>2. EntriesUpTo(j, m - 1) < EntriesUpTo(k, m - 1)
      BY <2>6, <3>1
    <3> QED
      BY <2>2, <2>3, <2>4, <3>2
  <2> QED
    BY <2>5, <2>6
<1> HIDE DEF Less
<1>5. \A l \in Nat : l \in Less
  BY <1>4, Induction
<1>6. Top(j) <= Top(k)
  <2>1. Top(j) \in Nat \ {0} /\ Top(k) \in Nat \ {0}
    BY TopFacts
  <2>2. LevelSizes(j)[Top(k)] <= 2
    <3>1. LevelSizes(j)[Top(k)] \in Nat /\ LevelSizes(k)[Top(k)] \in Nat
      BY <2>1, LevelSizesEquation
    <3>2. LevelSizes(k)[Top(k)] <= 2 /\ LevelSizes(j)[Top(k)] <= LevelSizes(k)[Top(k)]
      BY <1>3, <2>1, TopFacts
    <3> QED
      BY <3>1, <3>2
  <2>3. LevelSizes(j)[Top(k)] \in Nat
    BY <2>1, LevelSizesEquation
  <2>4. \A m \in 1 .. Top(j) - 1 : LevelSizes(j)[m] > 2
    BY TopFacts
  <2> QED
    BY <2>1, <2>2, <2>3, <2>4
<1>7. EntriesUpTo(j, Top(j)) < EntriesUpTo(k, Top(k))
  <2>1. Top(j) \in Nat /\ Top(k) \in Nat /\ Top(j) >= 1
    BY TopFacts
  <2>2. EntriesUpTo(j, Top(j)) < EntriesUpTo(k, Top(j))
    BY <1>5, <2>1 DEF Less
  <2>3. EntriesUpTo(k, Top(j)) <= EntriesUpTo(k, Top(k))
    <3>1. CASE Top(j) = Top(k)
      BY <2>1, <3>1, EntriesUpToEquation
    <3>2. CASE Top(j) < Top(k)
      <4>1. EntriesUpTo(k, Top(j)) + LevelSizes(k)[Top(k)] <= EntriesUpTo(k, Top(k))
        BY <2>1, <3>2, EntriesGrow
      <4>2. /\ EntriesUpTo(k, Top(j)) \in Nat /\ LevelSizes(k)[Top(k)] \in Nat
            /\ EntriesUpTo(k, Top(k)) \in Nat
        BY <2>1, EntriesUpToEquation, LevelSizesEquation
      <4> QED
        BY <4>1, <4>2
    <3> QED
      BY <1>6, <2>1, <3>1, <3>2
  <2>4. /\ EntriesUpTo(j, Top(j)) \in Nat /\ EntriesUpTo(k, Top(j)) \in Nat
        /\ EntriesUpTo(k, Top(k)) \in Nat
    BY <2>1, EntriesUpToEquation
  <2> QED
    BY <2>2, <2>3, <2>4
<1>8. tree_file_size(j) < tree_file_size(k)
  BY <1>7, SlotsFacts
<1> QED
  BY <1>3, <1>8

\* The number of leaves is found from the length of the file: the walk up from the
\* first guess stops at or beyond it, the walk down stops at it.
LEMMA LeavesCounted ==
  ASSUME NEW k \in Nat, k >= 2
  PROVE  n_leaves_from_tree_v2_eof(tree_file_size_v2(k)) = k
<1> DEFINE target == tree_file_size(k)
           g == FirstGuess(target)
           M == IF k >= g THEN k ELSE g
<1>1. /\ target \in Nat /\ target >= k
      /\ tree_file_size_v2(k) - 60 = target /\ tree_file_size_v2(k) >= 128
  BY SlotsFacts
<1>2. g \in Nat /\ g >= 2
  BY <1>1 DEF FirstGuess
<1>3. \A j \in Nat : tree_file_size(j) \in Nat
  BY SlotsFacts
<1>4. \A j \in Nat : (j < k => tree_file_size(j) < target)
                   /\ (k < j => tree_file_size(j) > target)
  <2> SUFFICES ASSUME NEW j \in Nat
               PROVE  (j < k => tree_file_size(j) < target)
                      /\ (k < j => tree_file_size(j) > target)
    OBVIOUS
  <2>1. j < k => tree_file_size(j) < target
    BY MoreLeaves
  <2>2. k < j => target < tree_file_size(j)
    BY MoreLeaves
  <2> HIDE DEF target
  <2> QED
    BY <1>1, <1>3, <2>1, <2>2
<1>a. tree_file_size(k) = target
  OBVIOUS
<1> HIDE DEF target, g
<1>5. M \in Nat /\ M >= k /\ M >= g
  BY <1>2
<1>6. WalkUp(g, target) = M
  <2> DEFINE Stops(m) == /\ tree_file_size(m) >= target
                         /\ \A j \in g .. m - 1 : tree_file_size(j) < target
  <2>1. M \in g .. g + target
    BY <1>1, <1>2
  <2>2. tree_file_size(M) >= target
    <3>1. M = k \/ k < M
      BY <1>2
    <3> HIDE DEF M
    <3> QED
      BY <1>1, <1>3, <1>4, <1>5, <1>a, <3>1
  <2>3. \A j \in g .. M - 1 : tree_file_size(j) < target
    <3> SUFFICES ASSUME NEW j \in g .. M - 1
                 PROVE  tree_file_size(j) < target
      OBVIOUS
    <3>1. j \in Nat /\ j < k
      BY <1>2
    <3> QED
      BY <1>4, <3>1
  <2>4. ASSUME NEW m \in g .. g + target, Stops(m)
        PROVE  m = M
    <3>1. m \in Nat /\ m >= g
      BY <1>1, <1>2
    <3>2. ~ (m < M)
      <4>1. m < M => m < k
        BY <1>2, <3>1
      <4> HIDE DEF M
      <4> QED
        BY <1>1, <1>3, <1>4, <2>4, <3>1, <4>1
    <3>3. ~ (M < m)
      <4> HIDE DEF M
      <4>1. M < m => M \in g .. m - 1
        BY <1>2, <1>5, <3>1
      <4> QED
        BY <1>1, <1>3, <1>5, <2>2, <2>4, <4>1
    <3> HIDE DEF M
    <3> QED
      BY <1>5, <3>1, <3>2, <3>3
  <2>5. WalkUp(g, target) = CHOOSE m \in g .. g + target : Stops(m)
    BY DEF WalkUp
  <2>6. Stops(M)
    BY <2>2, <2>3
  <2> HIDE DEF M, Stops
  <2> QED
    BY <2>1, <2>4, <2>5, <2>6
<1> HIDE DEF M
<1>7. WalkDown(M, target) = k
  <2> DEFINE Stops(m) == /\ m = 0 \/ tree_file_size(m) <= target
                         /\ \A j \in m + 1 .. M : tree_file_size(j) > target
  <2>1. k \in 0 .. M
    BY <1>5
  <2>2. Stops(k)
    <3>1. tree_file_size(k) <= target
      BY <1>1, <1>a
    <3>2. ASSUME NEW j \in k + 1 .. M
          PROVE  tree_file_size(j) > target
      <4>1. j \in Nat /\ k < j
        BY <1>5
      <4> QED
        BY <1>4, <4>1
    <3> QED
      BY <3>1, <3>2
  <2>3. ASSUME NEW m \in 0 .. M, Stops(m)
        PROVE  m = k
    <3>1. m \in Nat
      BY <1>5
    <3>2. ~ (m < k)
      <4>1. m < k => k \in m + 1 .. M
        BY <1>5, <3>1
      <4> QED
        BY <1>1, <1>a, <2>3, <4>1
    <3>3. ~ (k < m)
      BY <1>1, <1>3, <1>4, <2>3, <3>1
    <3> QED
      BY <3>1, <3>2, <3>3
  <2>4. WalkDown(M, target) = CHOOSE m \in 0 .. M : Stops(m)
    BY DEF WalkDown
  <2> HIDE DEF Stops
  <2> QED
    BY <2>1, <2>2, <2>3, <2>4
<1>8. WalkDown(WalkUp(FirstGuess(target), target), target) = k
  BY <1>6, <1>7 DEF g
<1>9. ~ (tree_file_size_v2(k) < 128)
  BY <1>1, SlotsFacts
<1> QED
  BY <1>1, <1>8, <1>9, <1>a, Zenon DEF n_leaves_from_tree_v2_eof

\* The chaining value that a block is checked against is that of its leaf.
LEMMA LeafLookedUp ==
  ASSUME NEW k \in Nat, k >= 2, NEW i \in 0 .. k - 1
  PROVE  /\ Slot(k, 1, i) = Slots(k) - k + i
         /\ 1 \in 1 .. Top(k) /\ i \in 0 .. LevelSizes(k)[1] - 1
         /\ leaf_cv_in_tree_v2(TreeOver(k), k, i) = LeafCv(i)
<1>1. LevelSizes(k)[1] = k /\ 1 \in 1 .. Top(k)
  BY LevelFacts, TopFacts
<1>2. EntriesUpTo(k, 1) = k
  <2>1. 1 \in Nat \ {0} /\ 1 - 1 = 0
    OBVIOUS
  <2>2. EntriesUpTo(k, 1) = EntriesUpTo(k, 1 - 1) + LevelSizes(k)[1]
    BY <2>1, EntriesUpToEquation
  <2>3. EntriesUpTo(k, 0) = 0
    BY EntriesUpToEquation
  <2> QED
    BY <1>1, <2>1, <2>2, <2>3
<1>3. Slot(k, 1, i) = Slots(k) - k + i
  BY <1>2 DEF Slot
<1>4. Entry(k, 1, i) = LeafCv(i)
  BY EntryEquation
<1>5. TreeOver(k)[Slot(k, 1, i)] = LeafCv(i)
  BY <1>1, <1>4, TreeBuilt
<1>6. k # None /\ ~ (i >= k)
  BY DEF None
<1> DEFINE count == n_leaves_from_tree_v2_eof(tree_file_size_v2(k))
<1>7. count = k
  BY LeavesCounted
<1>8. leaf_cv_in_tree_v2(TreeOver(k), k, i) =
        IF count = None \/ i >= count THEN None ELSE TreeOver(k)[Slots(k) - count + i]
  BY DEF leaf_cv_in_tree_v2
<1> HIDE DEF count
<1> QED
  BY <1>1, <1>3, <1>5, <1>6, <1>7, <1>8

-----------------------------------------------------------------------------
(* The levels give BLAKE3's tree.                                           *)

\* An entry of a level stands for this many leaves, the last one perhaps for fewer.
Width ==
  CHOOSE f \in [Nat -> Nat] : \A m \in Nat : f[m] = IF m <= 1 THEN 1 ELSE 2 * f[m - 1]

\* The width doubles from a level to the next.
LEMMA WidthEquation ==
  /\ Width \in [Nat -> Nat]
  /\ \A m \in Nat : Width[m] = IF m <= 1 THEN 1 ELSE 2 * Width[m - 1]
<1> DEFINE Step == [m \in Nat |-> [f \in [Nat -> Nat] |->
                      IF m <= 1 THEN 1 ELSE 2 * f[m - 1]]]
           Doubles(f) == \A m \in Nat : f[m] = IF m <= 1 THEN 1 ELSE 2 * f[m - 1]
<1>1. Recursive(Nat, Step)
  BY DEF Recursive
<1>2. \E f \in [Nat -> Nat] : \A m \in Nat : f[m] = Step[m][f]
  <2> HIDE DEF Step
  <2> QED
    BY <1>1, Recursion
<1>3. \E f \in [Nat -> Nat] : Doubles(f)
  BY <1>2
<1>4. Width = CHOOSE f \in [Nat -> Nat] : Doubles(f)
  BY DEF Width
<1>5. Width \in [Nat -> Nat] /\ Doubles(Width)
  <2> HIDE DEF Doubles
  <2> QED
    BY <1>3, <1>4
<1> QED
  BY <1>5

\* The width is a power of two; all entries of a level but the last are full, and the
\* last one is not empty.
LEMMA WidthFacts ==
  ASSUME NEW k \in Nat \ {0}, NEW l \in Nat \ {0}
  PROVE  /\ Width[l] \in Nat \ {0} /\ PowerOfTwo[Width[l]]
         /\ (LevelSizes(k)[l] - 1) * Width[l] < k
         /\ k <= LevelSizes(k)[l] * Width[l]
<1> DEFINE size == LevelSizes(k)
           Covered == {m \in Nat : m >= 1 =>
                         /\ Width[m] \in Nat \ {0} /\ PowerOfTwo[Width[m]]
                         /\ (size[m] - 1) * Width[m] < k
                         /\ k <= size[m] * Width[m]}
<1>1. size[1] = k /\ \A j \in Nat \ {0} : size[j] \in Nat /\ size[j + 1] = (size[j] + 1) \div 2
  BY LevelFacts
<1> HIDE DEF size
<1>2. ASSUME NEW m \in Nat, \A j \in 0 .. m - 1 : j \in Covered
      PROVE  m \in Covered
  <2>1. CASE m = 0
    BY <2>1
  <2>2. CASE m = 1
    <3>1. Width[1] = 1
      BY WidthEquation
    <3>2. PowerOfTwo[1]
      BY PowerOfTwoEquation
    <3> QED
      BY <1>1, <2>2, <3>1, <3>2
  <2>3. CASE m > 1
    <3> DEFINE v == Width[m - 1]
               s == size[m - 1]
               z == size[m]
    <3>1. m - 1 \in Nat \ {0} /\ m - 1 \in 0 .. m - 1 /\ (m - 1) + 1 = m /\ ~ (m <= 1)
      BY <2>3
    <3>2. m - 1 \in Covered
      <4> HIDE DEF Covered
      <4> QED
        BY <1>2, <3>1
    <3>3. /\ v \in Nat \ {0} /\ PowerOfTwo[v]
          /\ (s - 1) * v < k /\ k <= s * v
      BY <3>1, <3>2
    <3>4. Width[m] = 2 * v
      BY <3>1, WidthEquation
    <3>5. PowerOfTwo[Width[m]]
      BY <3>3, <3>4, TwicePower
    <3>6. s \in Nat /\ z = (s + 1) \div 2 /\ z \in Nat
      BY <1>1, <3>1
    <3>7. 2 * z = s \/ 2 * z = s + 1
      BY <3>6
    <3> HIDE DEF v, s, z
    <3>8. (z - 1) * (2 * v) = (2 * z - 2) * v /\ z * (2 * v) = (2 * z) * v
      BY <3>3, <3>6
    <3>9. (s + 1) * v = s * v + v /\ (s - 1) * v = s * v - v /\ (s - 2) * v = s * v - v - v
      BY <3>3, <3>6
    <3>10. s * v \in Int
      BY <3>3, <3>6
    <3>11. (z - 1) * (2 * v) < k
      <4>1. CASE 2 * z = s
        <5>1. (2 * z - 2) * v = s * v - v - v
          BY <3>9, <4>1
        <5> QED
          BY <3>3, <3>8, <3>9, <3>10, <5>1
      <4>2. CASE 2 * z = s + 1
        <5>1. 2 * z - 2 = s - 1
          BY <3>6, <4>2
        <5> QED
          BY <3>3, <3>8, <5>1
      <4> QED
        BY <3>7, <4>1, <4>2
    <3>12. k <= z * (2 * v)
      <4>1. CASE 2 * z = s
        BY <3>3, <3>8, <4>1
      <4>2. CASE 2 * z = s + 1
        <5>1. (2 * z) * v = s * v + v
          BY <3>9, <4>2
        <5> QED
          BY <3>3, <3>8, <3>10, <5>1
      <4> QED
        BY <3>7, <4>1, <4>2
    <3>13. 2 * v \in Nat \ {0}
      BY <3>3
    <3>14. size[m] = z
      BY DEF z
    <3> QED
      BY <3>4, <3>5, <3>11, <3>12, <3>13, <3>14
  <2> QED
    BY <2>1, <2>2, <2>3
<1> HIDE DEF Covered
<1>3. l \in Covered
  BY <1>2, Induction
<1> QED
  BY <1>3 DEF Covered, size

\* An entry is BLAKE3's tree over the leaves that it stands for.
LEMMA EntryIsBlake3 ==
  ASSUME NEW k \in Nat \ {0}, NEW l \in Nat \ {0}, NEW i \in Nat,
         i < LevelSizes(k)[l]
  PROVE  Entry(k, l, i) = Blake3(i * Width[l], IF (i + 1) * Width[l] <= k THEN Width[l]
                                               ELSE k - i * Width[l])
<1> DEFINE size == LevelSizes(k)
           Count(m, j) == IF (j + 1) * Width[m] <= k THEN Width[m] ELSE k - j * Width[m]
           Same == {m \in Nat : m >= 1 => \A j \in Nat : j < size[m] =>
                      Entry(k, m, j) = Blake3(j * Width[m], Count(m, j))}
<1>1. size[1] = k /\ \A j \in Nat \ {0} : size[j] \in Nat /\ size[j + 1] = (size[j] + 1) \div 2
  BY LevelFacts
<1>2. ASSUME NEW m \in Nat, \A j \in 0 .. m - 1 : j \in Same
      PROVE  m \in Same
  <2> SUFFICES ASSUME m >= 1, NEW j \in Nat, j < size[m]
               PROVE  Entry(k, m, j) = Blake3(j * Width[m], Count(m, j))
    OBVIOUS
  <2>1. CASE m = 1
    <3>1. Width[1] = 1
      BY WidthEquation
    <3>2. j * Width[m] = j /\ Count(m, j) = 1
      BY <1>1, <2>1, <3>1
    <3>3. Entry(k, m, j) = LeafCv(j)
      BY <2>1, EntryEquation
    <3>4. Blake3(j, 1) = LeafCv(j)
      <4>1. 1 \in Nat /\ 1 <= 1
        OBVIOUS
      <4> QED
        BY <4>1, Blake3Equation
    <3> QED
      BY <3>2, <3>3, <3>4
  <2>2. CASE m > 1
    <3> DEFINE v == Width[m - 1]
               s == size[m - 1]
               a == j * Width[m]
    <3>1. m - 1 \in Nat \ {0} /\ (m - 1) + 1 = m /\ ~ (m <= 1)
      BY <2>2
    <3>2. m - 1 \in Same
      <4> HIDE DEF Same
      <4> QED
        BY <1>2, <3>1
    <3>3. \A x \in Nat : x < s => Entry(k, m - 1, x) = Blake3(x * v, Count(m - 1, x))
      BY <3>1, <3>2
    <3>4. /\ v \in Nat \ {0} /\ PowerOfTwo[v]
          /\ (s - 1) * v < k /\ k <= s * v
      BY <3>1, WidthFacts
    <3>5. Width[m] = 2 * v
      BY <3>1, WidthEquation
    <3>6. s \in Nat /\ size[m] = (s + 1) \div 2
      BY <1>1, <3>1
    <3>7. Entry(k, m, j) =
            IF 2 * j + 1 < s THEN merge_non_root(Entry(k, m - 1, 2 * j), Entry(k, m - 1, 2 * j + 1))
            ELSE Entry(k, m - 1, 2 * j)
      BY <3>1, EntryEquation
    <3>8. \A x : Count(m - 1, x) = IF (x + 1) * v <= k THEN v ELSE k - x * v
      OBVIOUS
    <3>9. Count(m, j) = IF (j + 1) * (2 * v) <= k THEN 2 * v ELSE k - a
      BY <3>5
    <3>10. 2 * j < s
      BY <3>6
    <3> HIDE DEF v, s, Count, size
    <3>11. /\ a \in Nat /\ (2 * j) * v = a /\ (2 * j + 1) * v = a + v
           /\ ((2 * j + 1) + 1) * v = a + v + v /\ (j + 1) * (2 * v) = a + v + v
      BY <3>4, <3>5
    <3> HIDE DEF a
    <3>12. CASE 2 * j + 1 < s
      <4> DEFINE c == Count(m - 1, 2 * j + 1)
      <4>1. a + v < k
        <5>1. PICK e \in Nat : s - 1 = (2 * j + 1) + e
          <6>1. (s - 1) - (2 * j + 1) \in Nat
            BY <3>6, <3>12
          <6> QED
            BY <3>6, <6>1
        <5>2. (s - 1) * v = (2 * j + 1) * v + e * v /\ e * v \in Nat
          BY <3>4, <5>1
        <5> QED
          BY <3>4, <3>11, <5>2
      <4>2. Count(m - 1, 2 * j) = v
        BY <3>4, <3>8, <3>11, <4>1
      <4>3. c = IF a + v + v <= k THEN v ELSE k - (a + v)
        BY <3>8, <3>11
      <4>4. c \in 1 .. v
        BY <3>4, <3>11, <4>1, <4>3
      <4>5. Count(m, j) = v + c
        BY <3>4, <3>9, <3>11, <4>1, <4>3
      <4>6. Half(v + c) = v
        <5> HIDE DEF c
        <5>1. v + c \in Nat /\ v + c >= 2 /\ v \in 1 .. (v + c) - 1 /\ v + c <= 2 * v
          BY <3>4, <4>4
        <5> QED
          BY <3>4, <5>1, HalfFacts
      <4>7. Entry(k, m - 1, 2 * j) = Blake3(a, v)
        BY <3>3, <3>10, <3>11, <4>2
      <4>8. Entry(k, m - 1, 2 * j + 1) = Blake3(a + v, c)
        BY <3>3, <3>11, <3>12
      <4> HIDE DEF c
      <4>9. v + c \in Nat /\ ~ (v + c <= 1) /\ (v + c) - v = c
        BY <3>4, <4>4
      <4>10. Blake3(a, v + c) = merge_non_root(Blake3(a, v), Blake3(a + v, c))
        BY <3>11, <4>6, <4>9, Blake3Equation
      <4>11. Entry(k, m, j) = merge_non_root(Blake3(a, v), Blake3(a + v, c))
        BY <3>7, <3>12, <4>7, <4>8
      <4> QED
        BY <4>5, <4>10, <4>11 DEF a
    <3>13. CASE ~ (2 * j + 1 < s)
      <4>1. s = 2 * j + 1
        BY <3>6, <3>10, <3>13
      <4>2. a < k /\ k <= a + v
        <5>1. s - 1 = 2 * j
          BY <4>1
        <5> QED
          BY <3>4, <3>11, <4>1, <5>1
      <4>3. Count(m, j) = k - a
        BY <3>4, <3>9, <3>11, <4>2
      <4>4. Count(m - 1, 2 * j) = k - a
        <5>1. Count(m - 1, 2 * j) = IF a + v <= k THEN v ELSE k - a
          BY <3>8, <3>11
        <5> QED
          BY <3>4, <3>11, <4>2, <5>1
      <4>5. Entry(k, m, j) = Blake3((2 * j) * v, Count(m - 1, 2 * j))
        BY <3>3, <3>7, <3>10, <3>13
      <4> QED
        BY <3>11, <4>3, <4>4, <4>5 DEF a
    <3> QED
      BY <3>12, <3>13
  <2> QED
    BY <2>1, <2>2
<1> HIDE DEF Same
<1>3. l \in Same
  BY <1>2, Induction
<1> QED
  BY <1>3 DEF Same

\* The root is BLAKE3's hash of all leaves.
LEMMA RootIsHash ==
  ASSUME NEW k \in Nat, k >= 2
  PROVE  Root(k) = merge_root(Blake3(0, Half(k)), Blake3(Half(k), k - Half(k)))
<1> DEFINE l == Top(k)
           w == Width[l]
<1>1. k \in Nat \ {0} /\ l \in Nat \ {0} /\ LevelSizes(k)[l] = 2
  BY TopFacts
<1>2. /\ w \in Nat \ {0} /\ PowerOfTwo[w]
      /\ (LevelSizes(k)[l] - 1) * w < k /\ k <= LevelSizes(k)[l] * w
  BY <1>1, WidthFacts
<1>3. w < k /\ k <= 2 * w
  BY <1>1, <1>2
<1>4. Half(k) = w
  BY <1>2, <1>3, HalfFacts
<1>5. Entry(k, l, 0) = Blake3(0, w)
  <2>1. 0 < LevelSizes(k)[l]
    BY <1>1
  <2>2. Entry(k, l, 0) = Blake3(0 * w, IF (0 + 1) * w <= k THEN w ELSE k - 0 * w)
    BY <1>1, <2>1, EntryIsBlake3
  <2>3. 0 * w = 0 /\ (0 + 1) * w = w
    BY <1>2
  <2> HIDE DEF w, l
  <2> QED
    BY <1>2, <1>3, <2>2, <2>3
<1>6. Entry(k, l, 1) = Blake3(w, k - w)
  <2>1. 1 < LevelSizes(k)[l]
    BY <1>1
  <2>2. Entry(k, l, 1) = Blake3(1 * w, IF (1 + 1) * w <= k THEN w ELSE k - 1 * w)
    BY <1>1, <2>1, EntryIsBlake3
  <2>3. 1 * w = w /\ (1 + 1) * w = 2 * w
    BY <1>2
  <2> HIDE DEF w, l
  <2> QED
    BY <1>2, <1>3, <2>2, <2>3
<1>7. k # 1
  OBVIOUS
<1> QED
  BY <1>4, <1>5, <1>6, <1>7 DEF Root

-----------------------------------------------------------------------------
(* What the check finds.                                                    *)

\* The children of an entry are entries of the level below; all but the second of the
\* last entry are there.
LEMMA Children ==
  ASSUME NEW k \in Nat, NEW l \in 2 .. Top(k), NEW i \in Nat, i < LevelSizes(k)[l]
  PROVE  /\ l - 1 \in 1 .. Top(k) /\ l \in Nat \ {0} /\ ~ (l <= 1)
         /\ LevelSizes(k)[l - 1] \in Nat
         /\ LevelSizes(k)[l] = (LevelSizes(k)[l - 1] + 1) \div 2
         /\ 2 * i \in 0 .. LevelSizes(k)[l - 1] - 1
         /\ ~ (2 * i + 1 >= LevelSizes(k)[l - 1])
              => 2 * i + 1 \in 0 .. LevelSizes(k)[l - 1] - 1
<1>1. Top(k) \in Nat
  BY TopFacts
<1>2. l - 1 \in Nat \ {0} /\ l - 1 \in 1 .. Top(k) /\ (l - 1) + 1 = l /\ l \in Nat \ {0}
      /\ ~ (l <= 1)
  BY <1>1
<1>3. LevelSizes(k)[l - 1] \in Nat /\ LevelSizes(k)[l] = (LevelSizes(k)[l - 1] + 1) \div 2
  BY <1>2, LevelFacts
<1> QED
  BY <1>2, <1>3

\* An entry that is not the hash of its children differs from the tree that is built,
\* or one of them does.
LEMMA MismatchIsDamage ==
  ASSUME NEW k \in Nat, k >= 2, NEW d, NEW l \in 2 .. Top(k), NEW i \in Nat,
         i < LevelSizes(k)[l], ~ (2 * i + 1 >= LevelSizes(k)[l - 1]), ~Matches(d, k, l, i)
  PROVE  \E s \in {Slot(k, l, i), Slot(k, l - 1, 2 * i), Slot(k, l - 1, 2 * i + 1)} :
           s \in 0 .. Slots(k) - 1 /\ d[s] # TreeOver(k)[s]
<1> DEFINE p == Slot(k, l, i)
           x == Slot(k, l - 1, 2 * i)
           y == Slot(k, l - 1, 2 * i + 1)
           tree == TreeOver(k)
<1>1. /\ l - 1 \in 1 .. Top(k) /\ l \in Nat \ {0} /\ ~ (l <= 1)
      /\ LevelSizes(k)[l - 1] \in Nat
      /\ LevelSizes(k)[l] \in Nat
      /\ 2 * i \in 0 .. LevelSizes(k)[l - 1] - 1
      /\ 2 * i + 1 \in 0 .. LevelSizes(k)[l - 1] - 1
  BY Children, LevelFacts
<1>2. l \in 1 .. Top(k) /\ i \in 0 .. LevelSizes(k)[l] - 1
  BY <1>1
<1>3. tree[p] = Entry(k, l, i) /\ p \in 2 .. Slots(k) - 1
  BY <1>2, TreeBuilt, SlotFacts
<1>4. tree[x] = Entry(k, l - 1, 2 * i) /\ x \in 2 .. Slots(k) - 1
  BY <1>1, TreeBuilt, SlotFacts
<1>5. tree[y] = Entry(k, l - 1, 2 * i + 1) /\ y \in 2 .. Slots(k) - 1
  BY <1>1, TreeBuilt, SlotFacts
<1>6. 2 * i + 1 < LevelSizes(k)[l - 1]
  BY <1>1
<1>7. Entry(k, l, i) = merge_non_root(Entry(k, l - 1, 2 * i), Entry(k, l - 1, 2 * i + 1))
  BY <1>1, <1>6, EntryEquation
<1>8. ~ (d[p] = tree[p] /\ d[x] = tree[x] /\ d[y] = tree[y])
  <2>1. merge_non_root(d[x], d[y]) # d[p]
    BY DEF Matches
  <2> HIDE DEF p, x, y, tree
  <2> QED
    BY <1>3, <1>4, <1>5, <1>7, <2>1
<1>9. p \in 0 .. Slots(k) - 1 /\ x \in 0 .. Slots(k) - 1 /\ y \in 0 .. Slots(k) - 1
  BY <1>3, <1>4, <1>5, SlotsFacts
<1> HIDE DEF p, x, y, tree
<1>10. \E s \in {p, x, y} : s \in 0 .. Slots(k) - 1 /\ d[s] # tree[s]
  BY <1>8, <1>9
<1> QED
  BY <1>10 DEF p, x, y, tree

\* When the check of an entry fails or blames a block below it, one of the blocks it
\* blames holds a slot that differs from the tree that is built.
LEMMA SubtreeBlamesDamage ==
  ASSUME NEW k \in Nat, k >= 2, NEW d, NEW l \in 1 .. Top(k), NEW i \in Nat,
         i < LevelSizes(k)[l],
         ~tree_check_subtree(d, k, l, i).ok \/ tree_check_subtree(d, k, l, i).bad # {}
  PROVE  \E s \in 0 .. Slots(k) - 1 :
           d[s] # TreeOver(k)[s] /\ BlockOf(s) \in tree_check_subtree(d, k, l, i).bad
<1> DEFINE size == LevelSizes(k)
           c(m, j) == tree_check_subtree(d, k, m, j)
           Found(m, j) == \E s \in 0 .. Slots(k) - 1 :
                            d[s] # TreeOver(k)[s] /\ BlockOf(s) \in c(m, j).bad
           Sound == {m \in Nat : 1 <= m /\ m <= Top(k) =>
                       \A j \in Nat : j < size[m] /\ (~c(m, j).ok \/ c(m, j).bad # {})
                         => Found(m, j)}
<1>1. Top(k) \in Nat
  BY TopFacts
<1>2. ASSUME NEW m \in Nat, \A j \in 0 .. m - 1 : j \in Sound
      PROVE  m \in Sound
  <2> SUFFICES ASSUME 1 <= m, m <= Top(k), NEW j \in Nat, j < size[m],
                      ~c(m, j).ok \/ c(m, j).bad # {}
               PROVE  Found(m, j)
    OBVIOUS
  <2>0. CheckedBy(k, d, m, j, c(m, j), c(m - 1, 2 * j), c(m - 1, 2 * j + 1))
    BY CheckEquation
  <2>1. CASE m = 1
    <3>1. c(m, j).ok = TRUE /\ c(m, j).bad = {}
      <4>1. m <= 1
        BY <2>1
      <4> QED
        BY <2>0, <4>1 DEF CheckedBy
    <3> QED
      BY <3>1
  <2>2. CASE m > 1
    <3>1. m \in 2 .. Top(k)
      BY <1>1, <2>2
    <3>2. /\ m - 1 \in 1 .. Top(k) /\ ~ (m <= 1)
          /\ 2 * j \in 0 .. size[m - 1] - 1
          /\ ~ (2 * j + 1 >= size[m - 1]) => 2 * j + 1 \in 0 .. size[m - 1] - 1
          /\ size[m - 1] \in Nat
      BY <3>1, Children
    <3>3. ASSUME NEW x \in 0 .. size[m - 1] - 1, ~c(m - 1, x).ok \/ c(m - 1, x).bad # {}
          PROVE  Found(m - 1, x)
      <4>1. m - 1 \in Sound
        <5> HIDE DEF Sound
        <5> QED
          BY <1>2, <3>1
      <4>2. x \in Nat /\ x < size[m - 1] /\ 1 <= m - 1 /\ m - 1 <= Top(k)
        BY <1>1, <3>1, <3>2
      <4> HIDE DEF Found, c, size
      <4> QED
        BY <3>3, <4>1, <4>2
    <3>4. CASE 2 * j + 1 >= size[m - 1]
      <4>1. c(m, j) = c(m - 1, 2 * j)
        <5> HIDE DEF c
        <5> QED
          BY <2>0, <3>2, <3>4 DEF CheckedBy
      <4>2. Found(m - 1, 2 * j)
        <5> HIDE DEF Found, c
        <5> QED
          BY <3>2, <3>3, <4>1
      <4> QED
        BY <4>1, <4>2
    <3>5. CASE ~ (2 * j + 1 >= size[m - 1])
      <4> DEFINE li == c(m - 1, 2 * j)
                 ri == c(m - 1, 2 * j + 1)
                 blamed == Blamed(d, k, m, j, li.ok, ri.ok)
      <4>2. /\ c(m, j).ok = Matches(d, k, m, j)
            /\ Matches(d, k, m, j) => c(m, j).bad = li.bad \cup ri.bad
            /\ ~Matches(d, k, m, j) => c(m, j).bad = li.bad \cup ri.bad \cup blamed
        <5>1. m \in Nat /\ ~ (m <= 1) /\ ~ (2 * j + 1 >= LevelSizes(k)[m - 1])
          BY <3>2, <3>5
        <5> QED
          <6> HIDE DEF c
          <6> QED
            BY <2>0, <5>1 DEF CheckedBy
      <4>3. CASE li.bad # {}
        <5>1. Found(m - 1, 2 * j)
          <6> HIDE DEF Found, c
          <6> QED
            BY <3>2, <3>3, <4>3 DEF li
        <5>2. li.bad \subseteq c(m, j).bad
          <6> HIDE DEF c, li, ri, blamed
          <6> QED
            BY <4>2
        <5> QED
          BY <5>1, <5>2
      <4>4. CASE ri.bad # {}
        <5>1. Found(m - 1, 2 * j + 1)
          <6> HIDE DEF Found, c
          <6> QED
            BY <3>2, <3>3, <3>5, <4>4 DEF ri
        <5>2. ri.bad \subseteq c(m, j).bad
          <6> HIDE DEF c, li, ri, blamed
          <6> QED
            BY <4>2
        <5> QED
          BY <5>1, <5>2
      <4>5. CASE li.bad = {} /\ ri.bad = {}
        <5>1. li.ok /\ ri.ok
          <6>1. ~li.ok => Found(m - 1, 2 * j)
            <7> HIDE DEF Found, c
            <7> QED
              BY <3>2, <3>3 DEF li
          <6>2. ~ri.ok => Found(m - 1, 2 * j + 1)
            <7> HIDE DEF Found, c
            <7> QED
              BY <3>2, <3>3, <3>5 DEF ri
          <6>3. ~Found(m - 1, 2 * j) /\ ~Found(m - 1, 2 * j + 1)
            <7> HIDE DEF c
            <7> QED
              BY <4>5 DEF li, ri
          <6> QED
            BY <6>1, <6>2, <6>3
        <5>2. ~Matches(d, k, m, j)
          <6>1. Matches(d, k, m, j) => c(m, j).ok /\ c(m, j).bad = {}
            <7> HIDE DEF c, li, ri, blamed
            <7> QED
              BY <4>2, <4>5
          <6> QED
            BY <6>1
        <5>3. PICK s \in {Slot(k, m, j), Slot(k, m - 1, 2 * j), Slot(k, m - 1, 2 * j + 1)} :
                s \in 0 .. Slots(k) - 1 /\ d[s] # TreeOver(k)[s]
          BY <3>1, <3>5, <5>2, MismatchIsDamage
        <5>4. BlockOf(s) \in blamed
          <6>1. blamed = {BlockOf(Slot(k, m, j))}
                           \cup {BlockOf(Slot(k, m - 1, 2 * j)),
                                 BlockOf(Slot(k, m - 1, 2 * j + 1))}
            <7> HIDE DEF li, ri
            <7> QED
              BY <5>1 DEF Blamed
          <6> QED
            BY <5>3, <6>1
        <5>5. BlockOf(s) \in c(m, j).bad
          <6> HIDE DEF c, li, ri, blamed
          <6> QED
            BY <4>2, <5>2, <5>4
        <5> HIDE DEF c
        <5> QED
          BY <5>3, <5>5
      <4> QED
        BY <4>3, <4>4, <4>5
    <3> QED
      BY <3>4, <3>5
  <2> QED
    BY <2>1, <2>2
<1> HIDE DEF Sound
<1>3. l \in Nat /\ l \in Sound
  BY <1>1, <1>2, Induction
<1> QED
  BY <1>1, <1>3 DEF Sound

\* The blocks of a tree are numbered from 0, and the header is in the first.
LEMMA BlockFacts ==
  ASSUME NEW k \in Nat, k >= 2
  PROVE  /\ BlockOf(0) = 0 /\ BlockOf(1) = 0
         /\ \A s \in 0 .. Slots(k) - 1 : BlockOf(s) \in BlocksOf(k)
<1>1. SlotsPerBlock \in Nat /\ SlotsPerBlock > 3
  BY DamageAssumption
<1>2. Slots(k) \in Nat /\ Slots(k) >= 4
  BY SlotsFacts
<1>3. BlockOf(0) = 0 /\ BlockOf(1) = 0
  BY <1>1 DEF BlockOf
<1>4. ASSUME NEW s \in 0 .. Slots(k) - 1
      PROVE  BlockOf(s) \in BlocksOf(k)
  <2> DEFINE e == Slots(k) - 1
             q == s \div SlotsPerBlock
             x == e \div SlotsPerBlock
             B == SlotsPerBlock
  <2>1. s \in Nat /\ e \in Nat /\ s <= e
    BY <1>2
  <2> HIDE DEF e
  <2>2. q \in Nat /\ x \in Nat
    BY <1>1, <2>1
  <2>3. B * q <= s /\ s < B * q + B /\ B * x <= e /\ e < B * x + B
    BY <1>1, <2>1
  <2> HIDE DEF q, x
  <2>4. q <= x
    <3> SUFFICES ASSUME x + 1 <= q
                 PROVE  FALSE
      BY <2>2
    <3>1. PICK r \in Nat : q = x + 1 + r
      <4>1. q - (x + 1) \in Nat
        BY <2>2
      <4> QED
        BY <2>2, <4>1
    <3>2. B * q = B * x + B + B * r /\ B * r \in Nat /\ B * x \in Nat
      BY <1>1, <2>2, <3>1
    <3> QED
      BY <1>1, <2>1, <2>3, <3>2
  <2> QED
    BY <2>2, <2>4 DEF BlockOf, BlocksOf, q, x, e
<1> QED
  BY <1>3, <1>4

\* When the check of a tree blames a block, one of those blamed holds a slot that
\* differs from the tree that is built.
LEMMA CheckBlamesDamage ==
  ASSUME NEW k \in Leaves, k >= 2, NEW d, check_tree_v2_data(d, k) # {}
  PROVE  \E s \in 0 .. Slots(k) - 1 :
           d[s] # Tree[k][s] /\ BlockOf(s) \in check_tree_v2_data(d, k)
<1> DEFINE bad == check_tree_v2_data(d, k)
           b0 == tree_check_subtree(d, k, Top(k), 0).bad
           b1 == tree_check_subtree(d, k, Top(k), 1).bad
           h == IF d[1] # Tree[k][1] THEN {0} ELSE {}
<1>1. k \in Nat /\ Tree[k] = TreeOver(k) /\ Slots(k) \in Nat /\ Slots(k) >= 4
  BY LeavesAssumption, SlotsFacts DEF Tree
<1>2. TreeOver(k)[0] = Magic
  BY <1>1, TreeBuilt
<1>3. CASE d[0] # Magic
  <2>1. bad = BlocksOf(k)
    BY <1>3 DEF check_tree_v2_data
  <2>2. 0 \in 0 .. Slots(k) - 1
    BY <1>1
  <2>3. BlockOf(0) \in BlocksOf(k)
    BY <1>1, <2>2, BlockFacts
  <2> HIDE DEF bad
  <2> QED
    BY <1>1, <1>2, <1>3, <2>1, <2>2, <2>3 DEF bad
<1>4. CASE d[0] = Magic
  <2>1. bad = h \cup (b0 \cup b1)
    <3>1. ~ (k < 2)
      BY <1>1
    <3> HIDE DEF b0, b1
    <3> QED
      BY <1>4, <3>1 DEF check_tree_v2_data, b0, b1
  <2>2. CASE d[1] # Tree[k][1]
    <3>1. 0 \in bad
      <4> HIDE DEF bad, b0, b1
      <4> QED
        BY <2>1, <2>2
    <3>2. 1 \in 0 .. Slots(k) - 1 /\ BlockOf(1) = 0
      BY <1>1, BlockFacts
    <3> HIDE DEF bad
    <3> QED
      BY <2>2, <3>1, <3>2 DEF bad
  <2>3. CASE d[1] = Tree[k][1]
    <3>1. b0 # {} \/ b1 # {}
      <4> HIDE DEF b0, b1
      <4> QED
        BY <2>1, <2>3
    <3>2. Top(k) \in 1 .. Top(k) /\ LevelSizes(k)[Top(k)] = 2
      BY <1>1, TopFacts
    <3>3. CASE b0 # {}
      <4>1. PICK s \in 0 .. Slots(k) - 1 : d[s] # TreeOver(k)[s] /\ BlockOf(s) \in b0
        <5>1. 0 \in Nat /\ 0 < LevelSizes(k)[Top(k)]
          BY <3>2
        <5> QED
          BY <1>1, <3>2, <3>3, <5>1, SubtreeBlamesDamage
      <4>2. BlockOf(s) \in bad
        <5> HIDE DEF bad, b0, b1
        <5> QED
          BY <2>1, <4>1
      <4> HIDE DEF bad
      <4> QED
        BY <1>1, <4>1, <4>2 DEF bad
    <3>4. CASE b1 # {}
      <4>1. PICK s \in 0 .. Slots(k) - 1 : d[s] # TreeOver(k)[s] /\ BlockOf(s) \in b1
        <5>1. 1 \in Nat /\ 1 < LevelSizes(k)[Top(k)]
          BY <3>2
        <5> QED
          BY <1>1, <3>2, <3>4, <5>1, SubtreeBlamesDamage
      <4>2. BlockOf(s) \in bad
        <5> HIDE DEF bad, b0, b1
        <5> QED
          BY <2>1, <4>1
      <4> HIDE DEF bad
      <4> QED
        BY <1>1, <4>1, <4>2 DEF bad
    <3> QED
      BY <3>1, <3>3, <3>4
  <2> QED
    BY <2>2, <2>3
<1> QED
  BY <1>3, <1>4

\* What is blamed when a tree is complete is what its check blames.
LEMMA BadIsChecked ==
  ASSUME NEW k \in Leaves, k >= 2, NEW d
  PROVE  BadBlocks(d, k) = check_tree_v2_data(d, k)
<1>1. k \in Nat /\ k # None
  BY LeavesAssumption DEF None
<1>2. n_leaves_from_tree_v2_eof(tree_file_size_v2(k)) = k
  BY <1>1, LeavesCounted
<1> QED
  BY <1>1, <1>2 DEF BadBlocks

\* A merged value can be taken apart in one way only.
LEMMA MergeInjective ==
  ASSUME NEW l \in Seq(Int), NEW r \in Seq(Int), NEW x \in Seq(Int), NEW y \in Seq(Int),
         merge_non_root(l, r) = merge_non_root(x, y)
  PROVE  l = x /\ r = y
<1> DEFINE g(u) == <<-4 - Len(u)>>
           a(u) == g(u) \o u
           m(u, v) == a(u) \o v
<1>1. ASSUME NEW u \in Seq(Int)
      PROVE  Len(u) \in Nat /\ g(u) \in Seq(Int) /\ Len(g(u)) = 1 /\ g(u)[1] = -4 - Len(u)
  <2> DEFINE w == -4 - Len(u)
  <2>1. Len(u) \in Nat
    OBVIOUS
  <2>2. w \in Int
    BY <2>1
  <2> HIDE DEF w
  <2>3. <<w>> \in Seq(Int) /\ Len(<<w>>) = 1 /\ <<w>>[1] = w
    BY <2>2
  <2> QED
    BY <2>1, <2>3 DEF w
<1> HIDE DEF g
<1>2. ASSUME NEW u \in Seq(Int)
      PROVE  a(u) \in Seq(Int) /\ Len(a(u)) = 1 + Len(u) /\ a(u)[1] = -4 - Len(u)
  <2>1. /\ a(u) \in Seq(Int) /\ Len(a(u)) = Len(g(u)) + Len(u)
        /\ \A i \in 1 .. Len(g(u)) + Len(u) :
             a(u)[i] = IF i <= Len(g(u)) THEN g(u)[i] ELSE u[i - Len(g(u))]
    BY <1>1, ConcatProperties
  <2> HIDE DEF a
  <2>2. 1 \in 1 .. Len(g(u)) + Len(u) /\ 1 <= Len(g(u))
    <3>1. Len(u) \in Nat /\ Len(g(u)) = 1
      BY <1>1
    <3> QED
      BY <3>1
  <2>3. a(u)[1] = g(u)[1]
    BY <2>1, <2>2
  <2> QED
    BY <1>1, <2>1, <2>3
<1>3. g(l) = g(x) => a(l) = g(x) \o l
  OBVIOUS
<1> HIDE DEF a
<1>4. ASSUME NEW u \in Seq(Int), NEW v \in Seq(Int)
      PROVE  /\ Len(v) \in Nat /\ m(u, v) \in Seq(Int)
             /\ \A i \in 1 .. Len(a(u)) : m(u, v)[i] = a(u)[i]
  <2>1. /\ m(u, v) \in Seq(Int)
        /\ \A i \in 1 .. Len(a(u)) + Len(v) :
             m(u, v)[i] = IF i <= Len(a(u)) THEN a(u)[i] ELSE v[i - Len(a(u))]
    BY <1>2, ConcatProperties
  <2>2. Len(v) \in Nat
    OBVIOUS
  <2>3. Len(a(u)) \in Nat
    BY <1>1, <1>2
  <2> HIDE DEF m
  <2>4. \A i \in 1 .. Len(a(u)) : i \in 1 .. Len(a(u)) + Len(v) /\ i <= Len(a(u))
    BY <2>2, <2>3
  <2>5. \A i \in 1 .. Len(a(u)) : m(u, v)[i] = a(u)[i]
    BY <2>1, <2>4
  <2> QED
    BY <2>1, <2>2, <2>5
<1>5. m(l, r) = m(x, y)
  BY DEF merge_non_root, a, g
<1> HIDE DEF m
<1>6. Len(l) = Len(x)
  <2>1. 1 \in 1 .. Len(a(l)) /\ 1 \in 1 .. Len(a(x))
    <3>1. \A u \in Seq(Int) : 1 \in 1 .. Len(a(u))
      <4> SUFFICES ASSUME NEW u \in Seq(Int)
                   PROVE  1 \in 1 .. Len(a(u))
        OBVIOUS
      <4>1. Len(u) \in Nat /\ Len(a(u)) = 1 + Len(u)
        BY <1>1, <1>2
      <4> QED
        BY <4>1
    <3> QED
      BY <3>1
  <2>2. m(l, r)[1] = -4 - Len(l) /\ m(x, y)[1] = -4 - Len(x)
    <3>1. m(l, r)[1] = a(l)[1]
      <4>1. \A i \in 1 .. Len(a(l)) : m(l, r)[i] = a(l)[i]
        BY <1>4
      <4> QED
        BY <2>1, <4>1, Zenon
    <3>2. m(x, y)[1] = a(x)[1]
      <4>1. \A i \in 1 .. Len(a(x)) : m(x, y)[i] = a(x)[i]
        BY <1>4
      <4> QED
        BY <2>1, <4>1, Zenon
    <3>3. a(l)[1] = -4 - Len(l) /\ a(x)[1] = -4 - Len(x)
      BY <1>2
    <3> QED
      BY <3>1, <3>2, <3>3, Zenon
  <2> QED
    BY <1>1, <1>5, <2>2
<1>7. a(l) = a(x)
  <2>1. Len(a(l)) = Len(a(x))
    BY <1>2, <1>6
  <2>2. \A i \in 1 .. Len(a(l)) : m(l, r)[i] = a(l)[i] /\ m(x, y)[i] = a(x)[i]
    BY <1>4, <2>1
  <2>3. \A i \in 1 .. Len(a(l)) : a(l)[i] = a(x)[i]
    BY <1>5, <2>2
  <2> QED
    BY <1>2, <2>1, <2>3, SeqEqual
<1>8. l = x
  <2>1. g(l) = g(x)
    BY <1>6 DEF g
  <2>2. g(x) \o l = g(x) \o x
    BY <1>3, <1>7, <2>1 DEF a
  <2> QED
    BY <1>1, <2>2, ConcatSimplifications
<1>9. r = y
  <2>1. a(x) \o r = a(x) \o y
    BY <1>5, <1>7 DEF m
  <2> QED
    BY <1>2, <2>1, ConcatSimplifications
<1> QED
  BY <1>8, <1>9

\* The entries of a tree are sequences of numbers.
LEMMA EntryTyped ==
  ASSUME NEW k \in Nat
  PROVE  \A l \in Nat : \A i \in Nat : Entry(k, l, i) \in Seq(Int)
<1> DEFINE Typed == {l \in Nat : \A i \in Nat : Entry(k, l, i) \in Seq(Int)}
<1>1. ASSUME NEW l \in Nat, \A j \in 0 .. l - 1 : j \in Typed
      PROVE  l \in Typed
  <2> SUFFICES ASSUME NEW i \in Nat
               PROVE  Entry(k, l, i) \in Seq(Int)
    OBVIOUS
  <2>1. CASE l <= 1
    <3>1. Entry(k, l, i) = LeafCv(i)
      BY <2>1, EntryEquation
    <3> QED
      BY <3>1, HashesTyped
  <2>2. CASE ~ (l <= 1)
    <3>1. l - 1 \in 0 .. l - 1 /\ l - 1 \in Nat /\ 2 * i \in Nat /\ 2 * i + 1 \in Nat
      BY <2>2
    <3>2. l - 1 \in Typed
      <4> HIDE DEF Typed
      <4> QED
        BY <1>1, <3>1
    <3>3. Entry(k, l - 1, 2 * i) \in Seq(Int) /\ Entry(k, l - 1, 2 * i + 1) \in Seq(Int)
      BY <3>1, <3>2
    <3>4. \/ Entry(k, l, i)
               = merge_non_root(Entry(k, l - 1, 2 * i), Entry(k, l - 1, 2 * i + 1))
          \/ Entry(k, l, i) = Entry(k, l - 1, 2 * i)
      BY <2>2, EntryEquation
    <3> QED
      BY <3>3, <3>4, HashesTyped
  <2> QED
    BY <2>1, <2>2
<1> HIDE DEF Typed
<1>2. \A l \in Nat : l \in Typed
  BY <1>1, Induction
<1> QED
  BY <1>2 DEF Typed

\* In a tree that is accepted, every entry that was merged is the hash of its children.
LEMMA AcceptedIsConsistent ==
  ASSUME NEW k \in Leaves, k >= 2, NEW d, check_tree_v2_data(d, k) = {},
         NEW level \in 2 .. Top(k), NEW idx \in Nat, idx < LevelSizes(k)[level],
         2 * idx + 1 < LevelSizes(k)[level - 1]
  PROVE  Matches(d, k, level, idx)
<1> DEFINE size == LevelSizes(k)
           bad(l, j) == tree_check_subtree(d, k, l, j).bad
           Clean == {m \in Nat : m < Top(k) =>
                       \A j \in Nat : j < size[Top(k) - m] => bad(Top(k) - m, j) = {}}
<1>1. k \in Nat /\ k >= 2 /\ Top(k) \in Nat
  BY LeavesAssumption, TopFacts
<1>2. size[Top(k)] = 2 /\ \A l \in Nat \ {0} : size[l] \in Nat
  BY <1>1, TopFacts, LevelFacts
<1>3. bad(Top(k), 0) = {} /\ bad(Top(k), 1) = {}
  <2>1. Slots(k) \in Nat /\ Slots(k) >= 4 /\ ~ (k < 2)
    BY <1>1, SlotsFacts
  <2>2. d[0] = Magic
    <3>1. 0 \in BlocksOf(k)
      <4>1. 0 \in 0 .. Slots(k) - 1
        BY <2>1
      <4> QED
        BY <1>1, <4>1, BlockFacts
    <3> QED
      BY <3>1 DEF check_tree_v2_data
  <2> HIDE DEF bad
  <2> QED
    BY <2>1, <2>2 DEF check_tree_v2_data, bad
<1>5. ASSUME NEW v \in 2 .. Top(k), NEW e \in Nat, e < size[v], bad(v, e) = {}
      PROVE  IF 2 * e + 1 >= size[v - 1] THEN bad(v - 1, 2 * e) = {}
             ELSE Matches(d, k, v, e) /\ bad(v - 1, 2 * e) = {} /\ bad(v - 1, 2 * e + 1) = {}
  <2> DEFINE c == tree_check_subtree(d, k, v, e)
             li == tree_check_subtree(d, k, v - 1, 2 * e)
             ri == tree_check_subtree(d, k, v - 1, 2 * e + 1)
  <2>1. CheckedBy(k, d, v, e, c, li, ri) /\ c.bad = {}
    BY <1>1, <1>5, CheckEquation
  <2>2. ~ (v <= 1)
    BY <1>1
  <2>3. Blamed(d, k, v, e, li.ok, ri.ok) # {}
    BY DEF Blamed
  <2>4. IF 2 * e + 1 >= size[v - 1] THEN li.bad = {}
        ELSE Matches(d, k, v, e) /\ li.bad = {} /\ ri.bad = {}
    <3> HIDE DEF c, li, ri
    <3> QED
      BY <2>1, <2>2, <2>3 DEF CheckedBy
  <2> QED
    BY <2>4
<1>6. ASSUME NEW m \in Nat, \A x \in 0 .. m - 1 : x \in Clean
      PROVE  m \in Clean
  <2> SUFFICES ASSUME m < Top(k), NEW e \in Nat, e < size[Top(k) - m]
               PROVE  bad(Top(k) - m, e) = {}
    OBVIOUS
  <2>1. CASE m = 0
    <3>1. Top(k) - m = Top(k) /\ (e = 0 \/ e = 1)
      BY <1>1, <1>2, <2>1
    <3> HIDE DEF bad
    <3> QED
      BY <1>3, <3>1
  <2>2. CASE m > 0
    <3> DEFINE v == Top(k) - (m - 1)
               p == e \div 2
    <3>1. v \in 2 .. Top(k) /\ v - 1 = Top(k) - m /\ v - 1 \in Nat \ {0} /\ (v - 1) + 1 = v
      BY <1>1, <2>2
    <3> HIDE DEF v
    <3>2. size[v] = (size[v - 1] + 1) \div 2 /\ size[v - 1] \in Nat
      <4>1. size[(v - 1) + 1] = (size[v - 1] + 1) \div 2 /\ size[v - 1] \in Nat
        BY <1>1, <3>1, LevelFacts
      <4> QED
        BY <3>1, <4>1
    <3>3. p \in Nat /\ p < size[v] /\ (e = 2 * p \/ e = 2 * p + 1)
      BY <3>1, <3>2
    <3>4. bad(v, p) = {}
      <4>1. m - 1 \in 0 .. m - 1 /\ m - 1 < Top(k) /\ m - 1 \in Nat
        BY <1>1, <2>2
      <4>2. m - 1 \in Clean
        <5> HIDE DEF Clean
        <5> QED
          BY <1>6, <4>1
      <4> HIDE DEF bad, size, p
      <4> QED
        BY <3>3, <4>1, <4>2 DEF v
    <3> HIDE DEF bad
    <3>5. e = 2 * p + 1 => ~ (2 * p + 1 >= size[v - 1])
      BY <3>1, <3>2, <3>3
    <3>6. bad(v - 1, e) = {}
      <4> HIDE DEF p, size
      <4> QED
        BY <1>5, <3>1, <3>3, <3>4, <3>5
    <3> QED
      BY <3>1, <3>6
  <2> QED
    BY <2>1, <2>2
<1> HIDE DEF Clean
<1>7. \A m \in Nat : m \in Clean
  BY <1>6, Induction
<1>8. idx < size[level] /\ 2 * idx + 1 < size[level - 1]
  OBVIOUS
<1>9. bad(level, idx) = {}
  <2>1. Top(k) - level \in Nat /\ Top(k) - level < Top(k) /\ Top(k) - (Top(k) - level) = level
    BY <1>1
  <2>2. Top(k) - level \in Clean
    BY <1>7, <2>1
  <2> HIDE DEF bad, size
  <2> QED
    BY <1>8, <2>1, <2>2 DEF Clean
<1> QED
  <2>1. ~ (2 * idx + 1 >= size[level - 1])
    <3>1. size[level - 1] \in Nat
      <4>1. level - 1 \in Nat \ {0}
        BY <1>1
      <4> QED
        BY <1>2, <4>1
    <3> HIDE DEF size
    <3> QED
      BY <1>8, <3>1
  <2> HIDE DEF bad, size
  <2> QED
    BY <1>5, <1>8, <1>9, <2>1

\* A tree file of k leaves whose slots hold values, or what belongs there.
Shaped(d, k) == \A s \in 0 .. Slots(k) - 1 : d[s] \in Seq(Int) \cup {TreeOver(k)[s]}

\* A tree file has a number of slots.
LEMMA SlotsCounted ==
  ASSUME NEW k \in Nat, k >= 2
  PROVE  Slots(k) \in Nat
BY SlotsFacts

\* In a tree that is accepted, the children of a right entry that was merged are right.
LEMMA RightEntryVouches ==
  ASSUME NEW k \in Leaves, k >= 2, NEW d, check_tree_v2_data(d, k) = {},
         NEW l \in 2 .. Top(k), NEW i \in Nat, i < LevelSizes(k)[l],
         2 * i + 1 < LevelSizes(k)[l - 1],
         Shaped(d, k), d[Slot(k, l, i)] = TreeOver(k)[Slot(k, l, i)]
  PROVE  /\ d[Slot(k, l - 1, 2 * i)] = TreeOver(k)[Slot(k, l - 1, 2 * i)]
         /\ d[Slot(k, l - 1, 2 * i + 1)] = TreeOver(k)[Slot(k, l - 1, 2 * i + 1)]
<1> DEFINE p == Slot(k, l, i)
           x == Slot(k, l - 1, 2 * i)
           y == Slot(k, l - 1, 2 * i + 1)
           tree == TreeOver(k)
<1>0. k \in Nat
  BY LeavesAssumption
<1>1. /\ l - 1 \in 1 .. Top(k) /\ l \in Nat \ {0} /\ ~ (l <= 1) /\ l - 1 \in Nat
      /\ LevelSizes(k)[l - 1] \in Nat
      /\ LevelSizes(k)[l] \in Nat
      /\ 2 * i \in 0 .. LevelSizes(k)[l - 1] - 1
      /\ 2 * i + 1 \in 0 .. LevelSizes(k)[l - 1] - 1
      /\ 2 * i \in Nat /\ 2 * i + 1 \in Nat
  <2>1. /\ l - 1 \in 1 .. Top(k) /\ l \in Nat \ {0} /\ ~ (l <= 1)
        /\ LevelSizes(k)[l - 1] \in Nat
        /\ 2 * i \in 0 .. LevelSizes(k)[l - 1] - 1
    BY <1>0, Children
  <2>2. LevelSizes(k)[l] \in Nat
    BY <1>0, <2>1, LevelFacts
  <2>3. 2 * i + 1 \in 0 .. LevelSizes(k)[l - 1] - 1
    BY <2>1
  <2> QED
    BY <2>1, <2>2, <2>3
<1>2. l \in 1 .. Top(k) /\ i \in 0 .. LevelSizes(k)[l] - 1
  BY <1>1
<1>3. tree[p] = Entry(k, l, i)
  BY <1>0, <1>2, TreeBuilt
<1>4. tree[x] = Entry(k, l - 1, 2 * i) /\ x \in 2 .. Slots(k) - 1
  BY <1>0, <1>1, TreeBuilt, SlotFacts
<1>5. tree[y] = Entry(k, l - 1, 2 * i + 1) /\ y \in 2 .. Slots(k) - 1
  BY <1>0, <1>1, TreeBuilt, SlotFacts
<1>6. Entry(k, l, i) = merge_non_root(Entry(k, l - 1, 2 * i), Entry(k, l - 1, 2 * i + 1))
  BY <1>0, <1>1, EntryEquation
<1>7. merge_non_root(d[x], d[y]) = d[p]
  BY AcceptedIsConsistent DEF Matches
<1>8. tree[x] \in Seq(Int) /\ tree[y] \in Seq(Int)
  <2> HIDE DEF tree, x, y
  <2> QED
    BY <1>0, <1>1, <1>4, <1>5, EntryTyped
<1>9. x \in 0 .. Slots(k) - 1 /\ y \in 0 .. Slots(k) - 1
  <2>1. Slots(k) \in Nat
    BY <1>0, SlotsCounted
  <2> HIDE DEF x, y
  <2> QED
    BY <1>4, <1>5, <2>1
<1>10. d[x] \in Seq(Int) /\ d[y] \in Seq(Int)
  <2>1. d[x] \in Seq(Int) \cup {tree[x]} /\ d[y] \in Seq(Int) \cup {tree[y]}
    BY <1>9 DEF Shaped
  <2> HIDE DEF tree, x, y
  <2> QED
    BY <1>8, <2>1
<1>11. merge_non_root(d[x], d[y]) = merge_non_root(tree[x], tree[y])
  <2>1. d[p] = tree[p]
    OBVIOUS
  <2> HIDE DEF tree, x, y, p
  <2> QED
    BY <1>3, <1>4, <1>5, <1>6, <1>7, <2>1
<1>12. d[x] = tree[x] /\ d[y] = tree[y]
  <2> HIDE DEF tree, x, y
  <2> QED
    BY <1>8, <1>10, <1>11, MergeInjective
<1> QED
  BY <1>12

-----------------------------------------------------------------------------
(* Downloading.                                                             *)

\* A slot of a download holds what the tree has there, or a value that damage left.
DataShape ==
  \A s \in 0 .. Slots(n) - 1 : data[s] \in Seq(Int) \cup {Tree[n][s]}

\* A tree is public only after a check that blamed nothing.
PublicChecked == state = "public" => BadBlocks(data, n) = {}

Inv == TypeOK /\ DataShape /\ PublicChecked

\* The initial states satisfy the invariant.
LEMMA InvInit ==
  ASSUME Init
  PROVE  Inv
<1>1. TypeOK
  BY DamageAssumption DEF Init, TypeOK
<1>2. DataShape
  <2>1. Hole \in Seq(Int)
    BY DEF Hole
  <2> QED
    BY <2>1 DEF Init, DataShape
<1>3. PublicChecked
  BY DEF Init, PublicChecked
<1> QED
  BY <1>1, <1>2, <1>3 DEF Inv

\* What a step of Next asks of a download.
Arrival(hit, way) ==
  /\ hit \subseteq Missing
  /\ hit # {} => n \in DamagedLeaves
  /\ damaged + Cardinality(hit) <= MaxDamage
  /\ way \in [{s \in DOMAIN data : BlockOf(s) \in hit} -> Ways]
  /\ Download(hit, way)

\* There are finitely many blocks.
LEMMA BlocksFinite ==
  ASSUME TypeOK, NEW S, S \subseteq BlocksOf(n)
  PROVE  IsFiniteSet(S) /\ Cardinality(S) \in Nat
<1>1. n \in Nat /\ n >= 1
  <2>1. n \in Nat \ {0}
    BY LeavesAssumption DEF TypeOK
  <2> QED
    BY <2>1
<1>2. IsFiniteSet(BlocksOf(n))
  <2> DEFINE b == BlockOf(Slots(n) - 1)
  <2>1. b \in Int
    <3>1. Slots(n) \in Int
      <4>1. tree_file_size_v2(n) \in Int
        <5>1. Top(n) \in Nat
          BY <1>1, TopFacts
        <5>2. EntriesUpTo(n, Top(n)) \in Nat
          BY <1>1, <5>1, EntriesUpToEquation
        <5> QED
          BY <5>2 DEF tree_file_size_v2, tree_file_size, HashLen
      <4> QED
        BY <4>1 DEF Slots, HashLen
    <3> QED
      BY <3>1, DamageAssumption DEF BlockOf
  <2> HIDE DEF b
  <2>2. IsFiniteSet(0 .. b)
    BY <2>1, FS_Interval
  <2> QED
    BY <2>2 DEF BlocksOf, b
<1>3. IsFiniteSet(S)
  BY <1>2, FS_Subset
<1> QED
  BY <1>3, FS_CardinalityType

\* A download keeps the invariant: what arrives is the tree, or damage.
LEMMA DownloadInv ==
  ASSUME Inv, NEW hit, NEW way, Arrival(hit, way)
  PROVE  Inv'
<1>1. /\ n \in Leaves /\ DOMAIN data = 0 .. Slots(n) - 1 /\ state = "fetching" /\ n' = n
      /\ state' = state /\ have' = BlocksOf(n) /\ hash_failures' = hash_failures
      /\ damaged' = damaged + Cardinality(hit) /\ damaged + Cardinality(hit) <= MaxDamage
      /\ damaged \in 0 .. MaxDamage /\ hash_failures \in 0 .. 3 /\ hash_failures < 3
  BY DEF Inv, TypeOK, Arrival, Download
<1>2. data' = [s \in 0 .. Slots(n) - 1 |->
                 IF BlockOf(s) \in hit THEN Garble(way[s], Tree[n][s])
                 ELSE IF BlockOf(s) \in Missing THEN Tree[n][s] ELSE data[s]]
  BY <1>1 DEF Arrival, Download
<1>3. damaged' \in 0 .. MaxDamage
  <2>1. hit \subseteq BlocksOf(n)
    BY DEF Arrival, Missing
  <2>2. Cardinality(hit) \in Nat
    BY <2>1, BlocksFinite DEF Inv
  <2> QED
    BY <1>1, <2>2, DamageAssumption
<1>4. TypeOK'
  <2>1. DOMAIN data' = 0 .. Slots(n) - 1
    BY <1>2
  <2>2. BlocksOf(n)' = BlocksOf(n) /\ Slots(n)' = Slots(n)
    BY <1>1
  <2> QED
    BY <1>1, <1>3, <2>1, <2>2 DEF TypeOK
<1>5. DataShape'
  <2> SUFFICES ASSUME NEW s \in 0 .. Slots(n) - 1
               PROVE  data'[s] \in Seq(Int) \cup {Tree[n][s]}
    BY <1>1 DEF DataShape
  <2>1. CASE BlockOf(s) \in hit
    <3>1. n \in DamagedLeaves /\ way[s] \in Ways
      BY <1>1, <2>1 DEF Arrival
    <3>2. data'[s] = Garble(way[s], Tree[n][s])
      BY <1>2, <2>1
    <3> QED
      BY <3>1, <3>2, GarbleAssumption
  <2>2. CASE BlockOf(s) \notin hit
    <3>1. data'[s] = Tree[n][s] \/ data'[s] = data[s]
      BY <1>2, <2>2
    <3> QED
      BY <3>1 DEF Inv, DataShape
  <2> QED
    BY <2>1, <2>2
<1>6. PublicChecked'
  BY <1>1 DEF PublicChecked
<1> QED
  BY <1>4, <1>5, <1>6 DEF Inv

\* A step is an arrival, a check, or leaves everything as it is.
LEMMA StepCases ==
  ASSUME [Next]_vars
  PROVE  \/ \E hit, way : Arrival(hit, way)
         \/ Accept \/ Reject
         \/ UNCHANGED vars
<1>1. ASSUME NEW hit \in SUBSET (IF n \in DamagedLeaves THEN Missing ELSE {}),
             damaged + Cardinality(hit) <= MaxDamage,
             NEW way \in [{s \in DOMAIN data : BlockOf(s) \in hit} -> Ways], Download(hit, way)
      PROVE  Arrival(hit, way)
  BY <1>1 DEF Arrival
<1>2. CASE Next
  BY <1>1, <1>2 DEF Next, Ended
<1> QED
  BY <1>2

\* Every step keeps the invariant.
LEMMA InvNext ==
  ASSUME Inv, [Next]_vars
  PROVE  Inv'
<1>1. ASSUME NEW hit, NEW way, Arrival(hit, way)
      PROVE  Inv'
  BY <1>1, DownloadInv
<1>2. CASE Accept
  <2>1. n' = n /\ data' = data /\ have' = have /\ hash_failures' = hash_failures
        /\ damaged' = damaged /\ state' = "public" /\ BadBlocks(data, n) = {}
    BY <1>2 DEF Accept
  <2>2. TypeOK'
    BY <2>1 DEF Inv, TypeOK
  <2>3. DataShape'
    BY <2>1 DEF Inv, DataShape
  <2>4. BadBlocks(data, n)' = BadBlocks(data, n)
    BY <2>1
  <2> QED
    BY <2>1, <2>2, <2>3, <2>4 DEF Inv, PublicChecked
<1>3. CASE Reject
  <2>1. /\ n' = n /\ data' = data /\ hash_failures' = hash_failures + 1
        /\ damaged' = damaged /\ state = "fetching"
    BY <1>3 DEF Reject
  <2>2. \/ state' = "given up" /\ have' = have
        \/ ~ (hash_failures + 1 > 2) /\ state' = state /\ have' = have \ BadBlocks(data, n)
    BY <1>3 DEF Reject
  <2>3. TypeOK'
    <3>1. hash_failures \in 0 .. 3 /\ hash_failures < 3
      BY <2>1 DEF Inv, TypeOK
    <3>2. hash_failures' \in 0 .. 3 /\ (state' = "fetching" => hash_failures' < 3)
      <4>1. hash_failures' \in 0 .. 3
        BY <2>1, <3>1
      <4>2. ~ (hash_failures + 1 > 2) => hash_failures' < 3
        BY <2>1, <3>1
      <4>3. state' = "given up" => state' # "fetching"
        OBVIOUS
      <4> QED
        BY <2>2, <4>1, <4>2, <4>3
    <3>3. have' \subseteq BlocksOf(n) /\ state' \in {"fetching", "public", "given up"}
      BY <2>1, <2>2 DEF Inv, TypeOK
    <3> QED
      BY <2>1, <3>2, <3>3 DEF Inv, TypeOK
  <2>4. DataShape'
    BY <2>1 DEF Inv, DataShape
  <2>5. PublicChecked'
    BY <2>1, <2>2 DEF PublicChecked
  <2> QED
    BY <2>3, <2>4, <2>5 DEF Inv
<1>4. CASE UNCHANGED vars
  BY <1>4 DEF vars, Inv, TypeOK, DataShape, PublicChecked, BadBlocks
<1> QED
  BY <1>1, <1>2, <1>3, <1>4, StepCases

\* The invariant holds in every state.
LEMMA InvAlways == Spec => []Inv
<1>1. Init => Inv
  BY InvInit
<1>2. Inv /\ [Next]_vars => Inv'
  BY InvNext
<1> QED
  BY <1>1, <1>2, PTL DEF Spec

\* The variables have their types: in particular the check fails three times at most,
\* the third time for good.
THEOREM TypeCorrect == Spec => []TypeOK
<1>1. Inv => TypeOK
  BY DEF Inv
<1> QED
  BY <1>1, InvAlways, PTL

\* For every number of leaves above one, the length of the tree file tells the number
\* (n_leaves_from_tree_v2_eof) and each leaf is where leaf_cv_in_tree_v2 looks.
THEOREM LeavesAreFound == Spec => []LeavesFound
<1>1. Inv => LeavesFound
  <2> SUFFICES ASSUME Inv, n >= 2
               PROVE  /\ n_leaves_from_tree_v2_eof(tree_file_size_v2(n)) = n
                      /\ \A i \in 0 .. n - 1 : leaf_cv_in_tree_v2(Tree[n], n, i) = LeafCv(i)
    BY DEF LeavesFound
  <2>1. n \in Nat /\ Tree[n] = TreeOver(n)
    BY LeavesAssumption DEF Inv, TypeOK, Tree
  <2> QED
    BY <2>1, LeavesCounted, LeafLookedUp
<1> QED
  BY <1>1, InvAlways, PTL

\* For every number of leaves above one, the tree that finalize_tree_mmap_v2 builds
\* level by level, passing odd entries up, has BLAKE3's hash as its root.
THEOREM BuildsBlake3 == Spec => []RootIsBlake3
<1>1. Inv => RootIsBlake3
  <2>1. Inv => n \in Nat
    BY LeavesAssumption DEF Inv, TypeOK
  <2> QED
    BY <2>1, RootIsHash DEF RootIsBlake3
<1> QED
  BY <1>1, InvAlways, PTL

\* A check that blames a block blames one that holds a damaged slot.
LEMMA BlameFacts ==
  ASSUME TypeOK, n >= 2, BadBlocks(data, n) # {}
  PROVE  \E s \in Damaged : s \in 0 .. Slots(n) - 1 /\ BlockOf(s) \in BadBlocks(data, n)
<1>1. n \in Leaves /\ DOMAIN data = 0 .. Slots(n) - 1
  BY DEF TypeOK
<1>2. BadBlocks(data, n) = check_tree_v2_data(data, n)
  BY <1>1, BadIsChecked
<1>3. PICK s \in 0 .. Slots(n) - 1 :
        data[s] # Tree[n][s] /\ BlockOf(s) \in check_tree_v2_data(data, n)
  BY <1>1, <1>2, CheckBlamesDamage
<1>4. s \in Damaged
  BY <1>1, <1>3 DEF Damaged
<1> QED
  BY <1>2, <1>3, <1>4

\* An undamaged tree passes check_tree_v2_data, whatever its size.
THEOREM AcceptsIntact == Spec => []IntactAccepted
<1>1. TypeOK => IntactAccepted
  BY BlameFacts DEF IntactAccepted
<1> QED
  BY <1>1, TypeCorrect, PTL

\* What check_tree_v2_data has fetched again includes a damaged block, whatever the
\* tree's size, whichever blocks were damaged and whatever they hold.
THEOREM RefetchesDamage == Spec => []RetriesFetchDamage
<1>1. TypeOK => RetriesFetchDamage
  BY BlameFacts DEF RetriesFetchDamage
<1> QED
  BY <1>1, TypeCorrect, PTL

\* In an accepted tree the entries below a right one that were merged into it are right,
\* whichever blocks were damaged and whatever they hold: all of another content's tree,
\* for one thing.  The leaves are then as right as the top pair, which nothing vouches for.
THEOREM RightParentsVouchFor == Spec => []RightParentsVouch
<1>1. Inv => RightParentsVouch
  <2> SUFFICES ASSUME Inv, state = "public", n >= 2,
                      NEW l \in 2 .. Top(n), NEW i \in 0 .. LevelSizes(n)[l] - 1,
                      2 * i + 1 < LevelSizes(n)[l - 1], Slot(n, l, i) \notin Damaged
               PROVE  Slot(n, l - 1, 2 * i) \notin Damaged /\ Slot(n, l - 1, 2 * i + 1) \notin Damaged
    BY DEF RightParentsVouch
  <2>1. n \in Leaves /\ n \in Nat /\ Tree[n] = TreeOver(n) /\ DOMAIN data = 0 .. Slots(n) - 1
    BY LeavesAssumption DEF Inv, TypeOK, Tree
  <2>2. check_tree_v2_data(data, n) = {}
    <3>1. BadBlocks(data, n) = {}
      BY DEF Inv, PublicChecked
    <3> QED
      BY <2>1, <3>1, BadIsChecked
  <2>3. Shaped(data, n)
    BY <2>1 DEF Inv, DataShape, Shaped
  <2>4. i \in Nat /\ i < LevelSizes(n)[l] /\ l \in 1 .. Top(n)
    <3>1. Top(n) \in Nat
      BY <2>1, TopFacts
    <3>2. l \in Nat \ {0} /\ l \in 1 .. Top(n)
      BY <3>1
    <3>3. LevelSizes(n)[l] \in Nat
      BY <2>1, <3>2, LevelFacts
    <3> QED
      BY <3>2, <3>3
  <2>5. data[Slot(n, l, i)] = TreeOver(n)[Slot(n, l, i)]
    <3>1. Slot(n, l, i) \in 2 .. Slots(n) - 1
      BY <2>1, <2>4, SlotFacts
    <3>2. Slot(n, l, i) \in DOMAIN data
      BY <2>1, <3>1, SlotsFacts
    <3> QED
      BY <2>1, <3>2 DEF Damaged
  <2>6. /\ data[Slot(n, l - 1, 2 * i)] = TreeOver(n)[Slot(n, l - 1, 2 * i)]
        /\ data[Slot(n, l - 1, 2 * i + 1)] = TreeOver(n)[Slot(n, l - 1, 2 * i + 1)]
    BY <2>1, <2>2, <2>3, <2>4, <2>5, RightEntryVouches
  <2> QED
    BY <2>1, <2>6 DEF Damaged
<1> QED
  BY <1>1, InvAlways, PTL

-----------------------------------------------------------------------------
(* Two damaged blocks are repaired.                                         *)

\* The blocks that are there and hold a damaged slot.
Held == {b \in have : \E s \in Damaged : BlockOf(s) = b}

\* Each failed check has had a damaged block fetched again: what failed and what may
\* still fail was damaged on its way.
FailuresPaid ==
  n >= 2 =>
    /\ state = "fetching" => Cardinality(Held) + hash_failures <= damaged
    /\ state = "given up" => damaged > 2

RepairInv == Inv /\ FailuresPaid

\* The blocks that are there are finitely many.
LEMMA HeldFinite ==
  ASSUME TypeOK, NEW S, S \subseteq BlocksOf(n)
  PROVE  \A R \in SUBSET S : /\ IsFiniteSet(R) /\ Cardinality(R) \in Nat
                              /\ Cardinality(R) <= Cardinality(S)
<1>1. IsFiniteSet(S) /\ Cardinality(S) \in Nat
  BY BlocksFinite
<1> QED
  BY <1>1, BlocksFinite, FS_Subset

\* A download keeps account: what was there and right stays so, and what arrives damaged
\* is counted.
LEMMA DownloadPays ==
  ASSUME RepairInv, NEW hit, NEW way, Arrival(hit, way)
  PROVE  FailuresPaid'
<1>1. /\ n' = n /\ state = "fetching" /\ state' = "fetching"
      /\ hash_failures' = hash_failures /\ hash_failures \in Nat /\ damaged \in Nat
      /\ DOMAIN data = 0 .. Slots(n) - 1 /\ have' = BlocksOf(n) /\ have \subseteq BlocksOf(n)
      /\ damaged' = damaged + Cardinality(hit) /\ hit \subseteq BlocksOf(n) /\ TypeOK
  BY DamageAssumption DEF RepairInv, Inv, TypeOK, Arrival, Download, Missing
<1>2. data' = [s \in 0 .. Slots(n) - 1 |->
                 IF BlockOf(s) \in hit THEN Garble(way[s], Tree[n][s])
                 ELSE IF BlockOf(s) \in Missing THEN Tree[n][s] ELSE data[s]]
  BY <1>1 DEF Arrival, Download
<1>3. Held' \subseteq Held \cup hit
  <2> SUFFICES ASSUME NEW b \in Held', b \notin hit
               PROVE  b \in Held
    OBVIOUS
  <2>1. PICK s \in 0 .. Slots(n) - 1 : data'[s] # Tree[n][s] /\ BlockOf(s) = b
    BY <1>1, <1>2 DEF Held, Damaged
  <2>2. BlockOf(s) \notin Missing /\ data'[s] = data[s]
    BY <1>2, <2>1
  <2>3. b \in BlocksOf(n)
    BY <1>1 DEF Held
  <2> QED
    BY <1>1, <2>1, <2>2, <2>3 DEF Held, Damaged, Missing
<1>4. Held \subseteq BlocksOf(n)
  BY <1>1 DEF Held
<1>5. /\ IsFiniteSet(Held) /\ Cardinality(Held) \in Nat
      /\ IsFiniteSet(hit) /\ Cardinality(hit) \in Nat
  BY <1>1, <1>4, BlocksFinite
<1>6. /\ IsFiniteSet(Held \cup hit)
      /\ Cardinality(Held \cup hit) \in Nat
      /\ Cardinality(Held \cup hit) <= Cardinality(Held) + Cardinality(hit)
  <2>1. /\ IsFiniteSet(Held \cup hit) /\ IsFiniteSet(Held \cap hit)
        /\ Cardinality(Held \cup hit)
             = Cardinality(Held) + Cardinality(hit) - Cardinality(Held \cap hit)
    BY <1>5, FS_Union, FS_Intersection
  <2>2. Cardinality(Held \cap hit) \in Nat /\ Cardinality(Held \cup hit) \in Nat
    BY <2>1, FS_CardinalityType
  <2> QED
    BY <1>5, <2>1, <2>2
<1>7. IsFiniteSet(Held') /\ Cardinality(Held') \in Nat
      /\ Cardinality(Held') <= Cardinality(Held \cup hit)
  <2>1. IsFiniteSet(Held') /\ Cardinality(Held') <= Cardinality(Held \cup hit)
    BY <1>3, <1>6, FS_Subset
  <2> QED
    BY <2>1, FS_CardinalityType
<1>8. n >= 2 => Cardinality(Held) + hash_failures <= damaged
  BY <1>1 DEF RepairInv, FailuresPaid
<1>9. n' >= 2 => Cardinality(Held') + hash_failures' <= damaged'
  BY <1>1, <1>5, <1>6, <1>7, <1>8
<1> QED
  BY <1>1, <1>9 DEF FailuresPaid

\* A failed check keeps account: a damaged block is fetched again, and a tree that is
\* given up had three.
LEMMA RejectPays ==
  ASSUME RepairInv, Reject
  PROVE  FailuresPaid'
<1>1. /\ n' = n /\ data' = data /\ hash_failures' = hash_failures + 1 /\ damaged' = damaged
      /\ state = "fetching" /\ have = BlocksOf(n) /\ BadBlocks(data, n) # {}
      /\ \/ hash_failures + 1 > 2 /\ state' = "given up"
         \/ state' = "fetching" /\ have' = have \ BadBlocks(data, n)
  BY DEF Reject
<1>2. hash_failures \in Nat /\ damaged \in Nat /\ TypeOK
  <2>1. TypeOK
    BY DEF RepairInv, Inv
  <2>2. hash_failures \in 0 .. 3 /\ damaged \in 0 .. MaxDamage
    BY <2>1 DEF TypeOK
  <2> QED
    BY <2>1, <2>2, DamageAssumption
<1> SUFFICES ASSUME n >= 2
             PROVE  /\ state' = "fetching" => Cardinality(Held') + hash_failures' <= damaged'
                    /\ state' = "given up" => damaged' > 2
  BY <1>1 DEF FailuresPaid
<1>3. Cardinality(Held) + hash_failures <= damaged
  BY <1>1 DEF RepairInv, FailuresPaid
<1>4. PICK s \in Damaged : s \in 0 .. Slots(n) - 1 /\ BlockOf(s) \in BadBlocks(data, n)
  BY <1>1, <1>2, BlameFacts
<1> DEFINE b == BlockOf(s)
<1>5. b \in Held
  <2>1. n \in Nat
    BY <1>2, LeavesAssumption DEF TypeOK
  <2>2. BlockOf(s) \in BlocksOf(n)
    BY <1>4, <2>1, BlockFacts
  <2> QED
    BY <1>1, <1>4, <2>2 DEF Held
<1>6. IsFiniteSet(Held) /\ Cardinality(Held) \in Nat
  <2>1. Held \subseteq BlocksOf(n)
    BY <1>1 DEF Held
  <2> QED
    BY <1>2, <2>1, BlocksFinite
<1> HIDE DEF b
<1>7. /\ IsFiniteSet(Held \ {b}) /\ Cardinality(Held \ {b}) = Cardinality(Held) - 1
      /\ Cardinality(Held \ {b}) \in Nat
  BY <1>5, <1>6, FS_RemoveElement, FS_CardinalityType
<1>8. CASE hash_failures + 1 > 2 /\ state' = "given up"
  <2>1. damaged > 2
    <3> DEFINE c == Cardinality(Held)
               e == Cardinality(Held \ {b})
    <3>1. c \in Nat /\ e \in Nat /\ e = c - 1 /\ c + hash_failures <= damaged
      BY <1>3, <1>6, <1>7
    <3>2. hash_failures + 1 > 2
      BY <1>8
    <3> HIDE DEF c, e
    <3> QED
      BY <1>2, <3>1, <3>2
  <2> QED
    BY <1>1, <1>8, <2>1
<1>9. CASE state' = "fetching" /\ have' = have \ BadBlocks(data, n)
  <2>1. Held' \subseteq Held \ {b}
    BY <1>1, <1>4, <1>9 DEF Held, Damaged, b
  <2>2. IsFiniteSet(Held') /\ Cardinality(Held') <= Cardinality(Held \ {b})
    BY <1>7, <2>1, FS_Subset
  <2>3. Cardinality(Held') \in Nat
    BY <2>2, FS_CardinalityType
  <2> QED
    BY <1>1, <1>2, <1>3, <1>6, <1>7, <1>9, <2>2, <2>3
<1> QED
  BY <1>1, <1>8, <1>9

\* Every step keeps account.
LEMMA RepairNext ==
  ASSUME RepairInv, [Next]_vars
  PROVE  RepairInv'
<1>1. Inv'
  BY InvNext DEF RepairInv
<1>2. FailuresPaid'
  <2>1. ASSUME NEW hit, NEW way, Arrival(hit, way)
        PROVE  FailuresPaid'
    BY <2>1, DownloadPays
  <2>2. CASE Accept
    BY <2>2 DEF Accept, FailuresPaid
  <2>3. CASE Reject
    BY <2>3, RejectPays
  <2>4. CASE UNCHANGED vars
    <3>1. Held' = Held
      BY <2>4 DEF vars, Held, Damaged
    <3> QED
      BY <2>4, <3>1 DEF vars, RepairInv, FailuresPaid
  <2> QED
    BY <2>1, <2>2, <2>3, <2>4, StepCases
<1> QED
  BY <1>1, <1>2 DEF RepairInv

\* A tree of two leaves or more of which no more than two blocks arrived damaged, whatever
\* they held, is never given up: each failed check has a damaged block fetched again, and
\* the third failure is the one that gives up.
THEOREM RepairsTwoDamagedBlocks == Spec => []DamageRepaired
<1>1. Init => RepairInv
  <2> SUFFICES ASSUME Init
               PROVE  RepairInv
    OBVIOUS
  <2>1. Held = {}
    BY DEF Init, Held
  <2>2. Cardinality(Held) = 0
    BY <2>1, FS_EmptySet
  <2>3. FailuresPaid
    BY <2>2 DEF Init, FailuresPaid
  <2> QED
    BY <2>3, InvInit DEF RepairInv
<1>2. RepairInv /\ [Next]_vars => RepairInv'
  BY RepairNext
<1>3. RepairInv => DamageRepaired
  <2> SUFFICES ASSUME RepairInv, n >= 2, damaged <= 2
               PROVE  state # "given up"
    BY DEF DamageRepaired
  <2>1. damaged \in 0 .. MaxDamage
    BY DEF RepairInv, Inv, TypeOK
  <2>2. ~ (damaged > 2)
    BY <2>1, DamageAssumption
  <2> QED
    BY <2>2 DEF RepairInv, FailuresPaid
<1> QED
  BY <1>1, <1>2, <1>3, PTL DEF Spec
=============================================================================

------------------------------- MODULE TreeV2 -------------------------------
(***************************************************************************)
(* The tree of chaining values beside a blake3 content (format v2, in      *)
(* src/main.rs): its layout, finalize_tree_mmap_v2 which builds it,        *)
(* n_leaves_from_tree_v2_eof and leaf_cv_in_tree_v2 which read it, and     *)
(* check_tree_v2_data, by which a downloaded tree is accepted or the       *)
(* blocks to fetch again are chosen.                                       *)
(*                                                                         *)
(* A tree file is a sequence of slots of 32 bytes: magic, root hash, the   *)
(* levels from the highest down, the leaves last.  An odd level passes its *)
(* last entry up unchanged.  Hashes are terms: two of them are equal only  *)
(* when they hash the same values.                                         *)
(***************************************************************************)
EXTENDS Integers, Sequences, FiniteSets, Functions

CONSTANTS
  Leaves,           \* the numbers of leaves of the trees of this instance
  SlotsPerBlock,    \* slots in a block of the transfer (128 in the code); the header
                    \* and the top level are always in block 0
  DamagedLeaves,    \* those of them whose downloads may be damaged
  MaxDamage,        \* blocks that arrive damaged, at most
  Ways,             \* the ways a value can be damaged
  Garble(_, _)      \* what a damaged block has instead of a value, by way: anything,
                    \* a value that goes with others of its kind included

ASSUME LeavesAssumption == Leaves \subseteq Nat \ {0} /\ DamagedLeaves \subseteq Leaves
ASSUME DamageAssumption == SlotsPerBlock \in Nat \ (0 .. 3) /\ MaxDamage \in Nat

VARIABLES
  n,              \* leaves of the content that is downloaded
  data,           \* the tree file as it arrived: slot -> value
  have,           \* the blocks received: the bitmap
  hash_failures,  \* checks that failed
  state,          \* "fetching", "public" or "given up"
  damaged         \* blocks that arrived damaged (for the model's bound only)

vars == <<n, data, have, hash_failures, state, damaged>>

-----------------------------------------------------------------------------
(* Hashes as terms: a leaf is its number; a merged pair says how long its   *)
(* left half is, so that it can be taken apart in one way only.             *)

LeafCv(i) == <<i>>

Magic == <<-1>>

Hole == <<-2>>

merge_non_root(l, r) == <<-4 - Len(l)>> \o l \o r

merge_root(l, r) == <<-3>> \o merge_non_root(l, r)

\* The hash of a content of one block, which is not that block's chaining value.
HashOfOne == <<-7>>

-----------------------------------------------------------------------------
(* Layout.                                                                  *)

HashLen == 32

\* Sizes of the levels, leaves first: level_sizes, which ends at level Top(k).
LevelSizes(k) ==
  LET size[l \in Nat] == IF l <= 1 THEN k ELSE (size[l - 1] + 1) \div 2
  IN  size

\* The first level of at most two entries.
Top(k) ==
  CHOOSE l \in 1 .. k + 1 :
    LevelSizes(k)[l] <= 2 /\ \A m \in 1 .. l - 1 : LevelSizes(k)[m] > 2

\* Entries of the levels 1 .. j, the leaves being level 1.
EntriesUpTo(k, j) ==
  LET sum[l \in Nat] == IF l = 0 THEN 0 ELSE sum[l - 1] + LevelSizes(k)[l]
  IN  sum[j]

tree_file_size(k) == 4 + HashLen * EntriesUpTo(k, Top(k))

tree_file_size_v2(k) == 60 + tree_file_size(k)

Slots(k) == tree_file_size_v2(k) \div HashLen

\* The slot of entry i of level l.
Slot(k, l, i) == Slots(k) - EntriesUpTo(k, l) + i

BlockOf(s) == s \div SlotsPerBlock

BlocksOf(k) == 0 .. BlockOf(Slots(k) - 1)

None == -1

\* Where the search for the number of leaves starts.
FirstGuess(target) == IF (target - 4) \div 64 < 2 THEN 2 ELSE (target - 4) \div 64

\* while tree_file_size(n) > target: the number at which the walk from k stops.
WalkDown(k, target) ==
  CHOOSE m \in 0 .. k :
    /\ m = 0 \/ tree_file_size(m) <= target
    /\ \A j \in m + 1 .. k : tree_file_size(j) > target

\* while tree_file_size(n) < target: the number at which the walk from k stops.
WalkUp(k, target) ==
  CHOOSE m \in k .. k + target :
    /\ tree_file_size(m) >= target
    /\ \A j \in k .. m - 1 : tree_file_size(j) < target

\* Mutant of n_leaves_from_tree_v2_eof: the first guess is not corrected upwards.
LeafCountDownwards(eof) ==
  LET k == WalkDown(FirstGuess(eof - 60), eof - 60)
  IN  IF eof < 128 \/ tree_file_size(k) # eof - 60 THEN None ELSE k

\* The number of leaves, found from the length of the file.
n_leaves_from_tree_v2_eof(eof) ==
  LET target == eof - 60
      k == WalkDown(WalkUp(FirstGuess(target), target), target)
  IN  IF eof < 128 \/ tree_file_size(k) # target THEN None ELSE k

\* The chaining value that block_num of the content is checked against.
leaf_cv_in_tree_v2(d, k, block_num) ==
  LET n_leaves == n_leaves_from_tree_v2_eof(tree_file_size_v2(k))
  IN  IF n_leaves = None \/ block_num >= n_leaves THEN None
      ELSE d[Slots(k) - n_leaves + block_num]

-----------------------------------------------------------------------------
(* Building.                                                                *)

\* Mutant of Entry: the odd entry of a level is merged with itself.
EntryDoubled(k, l, i) ==
  LET E[m \in Nat] ==
        [j \in Nat |->
           IF m <= 1 THEN LeafCv(j)
           ELSE merge_non_root(E[m - 1][2 * j],
                               E[m - 1][IF 2 * j + 1 < LevelSizes(k)[m - 1]
                                        THEN 2 * j + 1 ELSE 2 * j])]
  IN  E[l][i]

\* Entry i of level l as finalize_tree_mmap_v2 fills it in.
Entry(k, l, i) ==
  LET E[m \in Nat] ==
        [j \in Nat |->
           IF m <= 1 THEN LeafCv(j)
           ELSE IF 2 * j + 1 < LevelSizes(k)[m - 1]
           THEN merge_non_root(E[m - 1][2 * j], E[m - 1][2 * j + 1])
           ELSE E[m - 1][2 * j]]
  IN  E[l][i]

\* The root hash, which is the content's id.
Root(k) ==
  IF k = 1 THEN HashOfOne ELSE merge_root(Entry(k, Top(k), 0), Entry(k, Top(k), 1))

\* build_tree_from_mmap: the tree of a content of k blocks.
TreeOver(k) ==
  [s \in 0 .. Slots(k) - 1 |->
     IF s = 0 THEN Magic
     ELSE IF s = 1 THEN Root(k)
     ELSE LET l == CHOOSE l \in 1 .. Top(k) :
                     Slot(k, l, 0) <= s /\ s < Slot(k, l, LevelSizes(k)[l])
          IN  Entry(k, l, s - Slot(k, l, 0))]

Tree == [k \in Leaves |-> TreeOver(k)]

ASSUME GarbleAssumption ==
  \A k \in DamagedLeaves : \A s \in 0 .. Slots(k) - 1 : \A w \in Ways :
    Garble(w, Tree[k][s]) \in Seq(Int)

-----------------------------------------------------------------------------
(* Checking.                                                                *)

\* Mutant of Blamed: the parent is trusted when its children are consistent.
BlamedChildren(d, k, l, i, l_ok, r_ok) ==
  IF l_ok /\ r_ok
  THEN {BlockOf(Slot(k, l - 1, 2 * i)), BlockOf(Slot(k, l - 1, 2 * i + 1))}
  ELSE {BlockOf(Slot(k, l, i))}

\* Mutant of Blamed: the parent's block is found with the children's offset.
BlamedElsewhere(d, k, l, i, l_ok, r_ok) ==
  {BlockOf(Slot(k, l - 1, i))}
    \cup (IF l_ok /\ r_ok
          THEN {BlockOf(Slot(k, l - 1, 2 * i)), BlockOf(Slot(k, l - 1, 2 * i + 1))}
          ELSE {})

\* The blocks blamed when entry i of level l is not the hash of its children.
Blamed(d, k, l, i, l_ok, r_ok) ==
  {BlockOf(Slot(k, l, i))}
    \cup (IF l_ok /\ r_ok
          THEN {BlockOf(Slot(k, l - 1, 2 * i)), BlockOf(Slot(k, l - 1, 2 * i + 1))}
          ELSE {})

\* Mutant of tree_check_subtree: the children's indices are not doubled.
SubtreeSiblings(d, k, level, idx) ==
  LET C[l \in Nat] ==
        [i \in Nat |->
           IF l <= 1 THEN [ok |-> TRUE, bad |-> {}]
           ELSE IF i + 1 >= LevelSizes(k)[l - 1] THEN C[l - 1][i]
           ELSE IF merge_non_root(d[Slot(k, l - 1, i)], d[Slot(k, l - 1, i + 1)])
                     = d[Slot(k, l, i)]
                THEN [ok |-> TRUE, bad |-> C[l - 1][i].bad \cup C[l - 1][i + 1].bad]
                ELSE [ok |-> FALSE, bad |-> {BlockOf(Slot(k, l, i))}]]
  IN  C[level][idx]

\* Whether entry i of level l is the hash of its children.
Matches(d, k, l, i) ==
  merge_non_root(d[Slot(k, l - 1, 2 * i)], d[Slot(k, l - 1, 2 * i + 1)]) = d[Slot(k, l, i)]

\* Whether entry idx is the hash of its children, and the blocks blamed below it.
tree_check_subtree(d, k, level, idx) ==
  LET C[l \in Nat] ==
        [i \in Nat |->
           IF l <= 1 THEN [ok |-> TRUE, bad |-> {}]
           ELSE IF 2 * i + 1 >= LevelSizes(k)[l - 1] THEN C[l - 1][2 * i]
           ELSE LET li == C[l - 1][2 * i]
                    ri == C[l - 1][2 * i + 1]
                IN  [ok |-> Matches(d, k, l, i),
                     bad |-> li.bad \cup ri.bad
                               \cup IF Matches(d, k, l, i) THEN {}
                                    ELSE Blamed(d, k, l, i, li.ok, ri.ok)]]
  IN  C[level][idx]

\* Mutant of check_tree_v2_data: only the first half of the tree is looked at.
CheckFirstHalf(d, k) ==
  IF d[0] # Magic THEN BlocksOf(k)
  ELSE (IF d[1] # Tree[k][1] THEN {0} ELSE {})
         \cup (IF k < 2 THEN {} ELSE tree_check_subtree(d, k, Top(k), 0).bad)

\* The blocks suspected of a tree whose root should be that of k leaves.
check_tree_v2_data(d, k) ==
  IF d[0] # Magic THEN BlocksOf(k)
  ELSE (IF d[1] # Tree[k][1] THEN {0} ELSE {})
         \cup (IF k < 2 THEN {}
               ELSE tree_check_subtree(d, k, Top(k), 0).bad
                      \cup tree_check_subtree(d, k, Top(k), 1).bad)

\* What Content::receive makes of a tree that is complete.
BadBlocks(d, k) ==
  IF n_leaves_from_tree_v2_eof(tree_file_size_v2(k)) = None THEN {0}
  ELSE check_tree_v2_data(d, n_leaves_from_tree_v2_eof(tree_file_size_v2(k)))

-----------------------------------------------------------------------------
(* Downloading.                                                             *)

Init ==
  /\ n \in Leaves
  /\ data = [s \in 0 .. Slots(n) - 1 |-> Hole]
  /\ have = {}
  /\ hash_failures = 0
  /\ state = "fetching"
  /\ damaged = 0

Missing == BlocksOf(n) \ have

\* The missing blocks arrive, the blocks in hit damaged: way says what became of each
\* of their values.
Download(hit, way) ==
  /\ state = "fetching"
  /\ Missing # {}
  /\ data' = [s \in DOMAIN data |->
                IF BlockOf(s) \in hit THEN Garble(way[s], Tree[n][s])
                ELSE IF BlockOf(s) \in Missing THEN Tree[n][s] ELSE data[s]]
  /\ have' = BlocksOf(n)
  /\ damaged' = damaged + Cardinality(hit)
  /\ UNCHANGED <<n, hash_failures, state>>

Accept ==
  /\ state = "fetching"
  /\ have = BlocksOf(n)
  /\ BadBlocks(data, n) = {}
  /\ state' = "public"
  /\ UNCHANGED <<n, data, have, hash_failures, damaged>>

\* Mutant of Reject: a tree is never given up.
RejectOnce ==
  /\ state = "fetching"
  /\ have = BlocksOf(n)
  /\ BadBlocks(data, n) # {}
  /\ have' = have \ BadBlocks(data, n)
  /\ hash_failures' = hash_failures + 1
  /\ UNCHANGED <<n, data, state, damaged>>

\* The check failed: the blocks it blames are fetched again, or the tree is given up.
Reject ==
  /\ state = "fetching"
  /\ have = BlocksOf(n)
  /\ \E bad \in {BadBlocks(data, n)} :
       /\ bad # {}
       /\ IF hash_failures + 1 > 2
          THEN state' = "given up" /\ UNCHANGED have
          ELSE have' = have \ bad /\ UNCHANGED state
  /\ hash_failures' = hash_failures + 1
  /\ UNCHANGED <<n, data, damaged>>

\* Public or given up: the entry is removed by maintenance().
Ended == state # "fetching" /\ UNCHANGED vars

Next ==
  \/ \E hit \in SUBSET (IF n \in DamagedLeaves THEN Missing ELSE {}) :
       /\ damaged + Cardinality(hit) <= MaxDamage
       /\ \E way \in [{s \in DOMAIN data : BlockOf(s) \in hit} -> Ways] : Download(hit, way)
  \/ Accept
  \/ Reject
  \/ Ended

Spec == Init /\ [][Next]_vars

-----------------------------------------------------------------------------
(* Properties.                                                              *)

Complete == have = BlocksOf(n)

Damaged == {s \in DOMAIN data : data[s] # Tree[n][s]}

\* The type invariant of the module's variables.
TypeOK ==
  /\ n \in Leaves
  /\ DOMAIN data = 0 .. Slots(n) - 1
  /\ have \subseteq BlocksOf(n)
  /\ hash_failures \in 0 .. 3
  /\ state = "fetching" => hash_failures < 3
  /\ state \in {"fetching", "public", "given up"}
  /\ damaged \in 0 .. MaxDamage

\* The length of a tree of two leaves or more tells their number, and the leaves
\* are where leaf_cv_in_tree_v2 looks for them.
LeavesFound ==
  n >= 2 =>
    /\ n_leaves_from_tree_v2_eof(tree_file_size_v2(n)) = n
    /\ \A i \in 0 .. n - 1 : leaf_cv_in_tree_v2(Tree[n], n, i) = LeafCv(i)

PowerOfTwo[p \in Nat] == p = 1 \/ (p > 1 /\ p % 2 = 0 /\ PowerOfTwo[p \div 2])

\* The largest power of two that is smaller than k.
Half(k) == CHOOSE p \in 1 .. k - 1 : PowerOfTwo[p] /\ k <= 2 * p

\* BLAKE3's own tree over count leaves from lo on: the left subtree is the largest
\* complete one that leaves something for the right one.
Blake3(lo, count) ==
  LET R[k \in Nat] ==
        [a \in Nat |->
           IF k <= 1 THEN LeafCv(a)
           ELSE merge_non_root(R[Half(k)][a], R[k - Half(k)][a + Half(k)])]
  IN  R[count][lo]

\* Merging the levels pairwise and passing odd entries up gives BLAKE3's tree: the
\* root hash is the BLAKE3 hash of the content.
RootIsBlake3 ==
  n >= 2 => Root(n) = merge_root(Blake3(0, Half(n)), Blake3(Half(n), n - Half(n)))

\* A tree of two leaves or more that arrives undamaged is accepted at once.
IntactAccepted == n >= 2 /\ Complete /\ Damaged = {} => BadBlocks(data, n) = {}

\* When a check fails, one of the blocks it has fetched again is a damaged one:
\* a retry is never spent on sound blocks alone (a tree of one leaf is refused whatever
\* it holds: its length is below the 128 bytes of the shortest tree).
RetriesFetchDamage ==
  n >= 2 /\ Complete /\ state = "fetching" /\ BadBlocks(data, n) # {} =>
    \E s \in Damaged : BlockOf(s) \in BadBlocks(data, n)

\* In an accepted tree whatever is merged under a right value is right: if an entry is
\* what the content's tree has there, so are the two it was merged from, and so on down
\* to the leaves.  (Nothing compares the two entries of the top level with the root hash
\* in the header, nor an odd entry with the copy that is passed up: those may be wrong.)
RightParentsVouch ==
  state = "public" /\ n >= 2 =>
    \A l \in 2 .. Top(n) : \A i \in 0 .. LevelSizes(n)[l] - 1 :
      2 * i + 1 < LevelSizes(n)[l - 1] /\ Slot(n, l, i) \notin Damaged =>
        Slot(n, l - 1, 2 * i) \notin Damaged /\ Slot(n, l - 1, 2 * i + 1) \notin Damaged

\* A tree of two leaves or more of which two blocks arrived damaged, together or one
\* after the other and whatever is in them, is not given up.
DamageRepaired == n >= 2 /\ damaged <= 2 => state # "given up"

\* What the comment of check_tree_v2_data says of an empty set of suspects ("Empty = all
\* good, rename to public"): a tree that is made public is the content's.
EmptyIsAllGood == state = "public" /\ n >= 2 => Damaged = {}
=============================================================================

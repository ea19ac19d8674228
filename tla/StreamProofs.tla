---------------------------- MODULE StreamProofs ----------------------------
(***************************************************************************)
(* Proofs about Stream, for any viewers, block size, length of the stream  *)
(* and pieces.  A browser is copied up to the first block without a bit,   *)
(* so that what it gets for bytes that are missing lies in blocks with a   *)
(* bit; and a block gets its bit together with its first byte (BitsFit).   *)
(* A signature is kept with the bytes it covers because those of the       *)
(* origin have no gap (OriginWhole), and because the blocks of a viewer    *)
(* that are dropped are those whose signature is not kept, either.         *)
(***************************************************************************)
EXTENDS Stream, WellFoundedInduction, TLAPS

-----------------------------------------------------------------------------
(* The inductive invariant.                                                 *)

OriginWhole == held[Origin] = 0 .. (fileLen[Origin] - 1)

BitsFit == \A v \in Viewers : \A b \in bits[v] : b * BlockSize \in held[v]

IInv == TypeOK /\ OriginWhole /\ BitsFit /\ SignedPrefixHeld /\ GapsOnlyInsideBlocks

-----------------------------------------------------------------------------
(* Arithmetic of blocks.                                                    *)

\* A set of numbers that is not empty has a least one.
LEMMA SetminExists ==
  ASSUME NEW S \in SUBSET Nat, S # {}
  PROVE  Setmin(S) \in S /\ \A y \in S : Setmin(S) <= y
<1>1. PICK x \in S : \A y \in S : ~ (<<y, x>> \in OpToRel(<, Nat))
  BY WFMin, NatLessThanWellFounded, Zenon
<1>2. \A y \in S : ~ (y < x)
  BY <1>1 DEF OpToRel
<1>3. \A y \in S : x <= y
  BY <1>2
<1> QED
  BY <1>3 DEF Setmin

\* Where blocks begin and end.
LEMMA BlockBounds ==
  ASSUME NEW b \in Nat
  PROVE  /\ b * BlockSize \in Nat /\ (b + 1) * BlockSize = b * BlockSize + BlockSize
         /\ \A c \in Nat : b <= c => b * BlockSize <= c * BlockSize
         /\ \A c \in Nat : b < c => b * BlockSize + BlockSize <= c * BlockSize
<1>1. BlockSize \in Nat \ {0}
  BY StreamAssumption
<1> QED
  BY <1>1

\* A position is in the block it is divided to.
LEMMA DivBounds ==
  ASSUME NEW p \in Nat
  PROVE  /\ p \div BlockSize \in Nat
         /\ (p \div BlockSize) * BlockSize <= p
         /\ p < (p \div BlockSize) * BlockSize + BlockSize
<1>1. BlockSize \in Nat \ {0}
  BY StreamAssumption
<1> QED
  BY <1>1

\* The first position of a block is divided to it.
LEMMA DivOfBlock ==
  ASSUME NEW b \in Nat
  PROVE  (b * BlockSize) \div BlockSize = b
<1>1. BlockSize \in Nat \ {0}
  BY StreamAssumption
<1> DEFINE p == b * BlockSize
           c == p \div BlockSize
<1>2. p \in Nat /\ c \in Nat /\ c * BlockSize <= p /\ p < c * BlockSize + BlockSize
  BY BlockBounds, DivBounds
<1>3. ~ (b < c)
  <2> SUFFICES ASSUME b < c PROVE FALSE
    OBVIOUS
  <2>1. b * BlockSize + BlockSize <= c * BlockSize
    BY <1>2, BlockBounds
  <2> QED
    BY <1>1, <1>2, <2>1, BlockBounds
<1>4. ~ (c < b)
  <2> SUFFICES ASSUME c < b PROVE FALSE
    OBVIOUS
  <2>1. c * BlockSize + BlockSize <= b * BlockSize
    BY <1>2, BlockBounds
  <2> QED
    BY <1>1, <1>2, <2>1, BlockBounds
<1> QED
  BY <1>2, <1>3, <1>4

\* A position inside the stream is in one of its blocks.
LEMMA BlockOfPosition ==
  ASSUME NEW p \in Nat, p < MaxLen
  PROVE  p \div BlockSize \in Blocks
<1> DEFINE b == p \div BlockSize
<1>1. b \in Nat /\ b * BlockSize <= p /\ MaxBlock \in Nat /\ MaxBlock + 1 \in Nat
  BY DivBounds, StreamAssumption
<1>2. ~ (MaxBlock + 1 <= b)
  <2> SUFFICES ASSUME MaxBlock + 1 <= b PROVE FALSE
    OBVIOUS
  <2>1. (MaxBlock + 1) * BlockSize <= b * BlockSize
    BY <1>1, BlockBounds
  <2>2. b * BlockSize \in Nat /\ (MaxBlock + 1) * BlockSize \in Nat
    BY <1>1, BlockBounds
  <2> QED
    BY <1>1, <2>1, <2>2 DEF MaxLen
<1> QED
  BY <1>1, <1>2 DEF Blocks

\* Later positions are not in earlier blocks.
LEMMA DivMonotone ==
  ASSUME NEW p \in Nat, NEW q \in Nat, p <= q
  PROVE  p \div BlockSize <= q \div BlockSize
<1> DEFINE b == p \div BlockSize
           c == q \div BlockSize
<1>1. /\ b \in Nat /\ b * BlockSize \in Nat /\ b * BlockSize <= p
      /\ c \in Nat /\ c * BlockSize \in Nat /\ q < c * BlockSize + BlockSize
      /\ BlockSize \in Nat
  BY DivBounds, BlockBounds, StreamAssumption
<1>2. ~ (c < b)
  <2> SUFFICES ASSUME c < b PROVE FALSE
    OBVIOUS
  <2>1. c * BlockSize + BlockSize <= b * BlockSize
    BY <1>1, BlockBounds
  <2> HIDE DEF b, c
  <2> QED
    BY <1>1, <2>1
<1> HIDE DEF b, c
<1>3. b <= c
  BY <1>1, <1>2
<1> QED
  BY <1>3 DEF b, c

\* Each block ends inside the stream.
LEMMA BlockEnds ==
  ASSUME NEW b \in Blocks
  PROVE  /\ b \in Nat /\ b * BlockSize \in Nat /\ BlockSize \in Nat \ {0} /\ MaxLen \in Nat
         /\ b * BlockSize + BlockSize <= MaxLen
<1>1. b \in Nat /\ MaxBlock + 1 \in Nat /\ b < MaxBlock + 1
  BY StreamAssumption DEF Blocks
<1> QED
  BY <1>1, BlockBounds, StreamAssumption DEF MaxLen

-----------------------------------------------------------------------------
(* What a step does to one node's files.                                    *)

StoreEffect(n, off, len) ==
    /\ held' \in [Nodes -> SUBSET (0..(MaxLen - 1))]
    /\ fileLen' \in [Nodes -> 0..MaxLen]
    /\ bits' \in [Nodes -> SUBSET Blocks]
    /\ held' = [held EXCEPT ![n] = @ \cup (off..((off + len) - 1))]
    /\ fileLen' = [fileLen EXCEPT ![n] =
                      IF off + len > fileLen[n] THEN off + len ELSE fileLen[n]]
    /\ \A k \in Nodes : bits[k] \subseteq bits'[k]
    /\ \A k \in Nodes \ {n} : bits'[k] = bits[k]
    /\ bits'[n] \subseteq bits[n] \cup {off \div BlockSize}

\* What storing a piece does to data, length, bitmap and signatures.
LEMMA StoreFits ==
  ASSUME TypeOK, NEW n \in Nodes, NEW off \in Nat, NEW len \in 1..BlockSize,
         off + len <= MaxLen, Store(n, off, len)
  PROVE  StoreEffect(n, off, len)
<1>1. off \div BlockSize \in Blocks
  <2>1. BlockSize \in Nat /\ MaxLen \in Nat
    BY BlockBounds, StreamAssumption DEF MaxLen
  <2>2. off < MaxLen
    BY <2>1
  <2> QED
    BY <2>2, BlockOfPosition
<1>2. off..((off + len) - 1) \subseteq 0..(MaxLen - 1) /\ off + len \in 0..MaxLen
  BY StreamAssumption, BlockBounds DEF MaxLen
<1>3. held' = [held EXCEPT ![n] = @ \cup (off..((off + len) - 1))]
  BY DEF Store
<1>4. fileLen' = [fileLen EXCEPT ![n] =
                    IF off + len > fileLen[n] THEN off + len ELSE fileLen[n]]
  BY DEF Store
<1>5. bits' \in {bits, [bits EXCEPT ![n] = @ \cup {off \div BlockSize}]}
  BY DEF Store
<1>6. held' \in [Nodes -> SUBSET (0..(MaxLen - 1))]
  BY <1>2, <1>3 DEF TypeOK
<1>7. fileLen' \in [Nodes -> 0..MaxLen]
  BY <1>2, <1>4 DEF TypeOK
<1>8. /\ bits' \in [Nodes -> SUBSET Blocks]
      /\ \A k \in Nodes : bits[k] \subseteq bits'[k]
      /\ \A k \in Nodes \ {n} : bits'[k] = bits[k]
      /\ bits'[n] \subseteq bits[n] \cup {off \div BlockSize}
  <2>1. bits \in [Nodes -> SUBSET Blocks]
    BY DEF TypeOK
  <2> DEFINE d == off \div BlockSize
  <2>2. d \in Blocks /\ bits' \in {bits, [bits EXCEPT ![n] = @ \cup {d}]}
    BY <1>1, <1>5
  <2> HIDE DEF d
  <2>3. /\ bits' \in [Nodes -> SUBSET Blocks]
        /\ \A k \in Nodes : bits[k] \subseteq bits'[k]
        /\ \A k \in Nodes \ {n} : bits'[k] = bits[k]
        /\ bits'[n] \subseteq bits[n] \cup {d}
    BY <2>1, <2>2
  <2> QED
    BY <2>3 DEF d
<1> QED
  BY <1>3, <1>4, <1>6, <1>7, <1>8 DEF StoreEffect

\* Skipping blocks ends at a block or past the last.
LEMMA SkipFromFits ==
  ASSUME TypeOK, NEW v \in Viewers, NEW b \in 0..NoBlock
  PROVE  SkipFrom(v, b) \in 0..NoBlock
<1> DEFINE S == {c \in b..NoBlock : c >= fileLen[v] \div BlockSize \/ c \notin bits[v]}
                  \cup {NoBlock}
<1>1. NoBlock \in Nat
  BY StreamAssumption DEF NoBlock
<1>2. S \in SUBSET Nat /\ S # {} /\ S \subseteq 0..NoBlock
  BY <1>1
<1>3. Setmin(S) \in S
  BY <1>2, SetminExists
<1> QED
  BY <1>2, <1>3 DEF SkipFrom

\* A browser starts at a block or past the last.
LEMMA StartBlockFits ==
  ASSUME NEW p \in 0..MaxLen
  PROVE  p \div BlockSize \in 0..NoBlock
<1>1. MaxLen \in Nat /\ NoBlock \in Nat /\ MaxLen = NoBlock * BlockSize
  BY BlockBounds, StreamAssumption DEF MaxLen, NoBlock
<1>2. MaxLen \div BlockSize = NoBlock
  BY <1>1, DivOfBlock
<1>3. p \div BlockSize <= NoBlock
  BY <1>1, <1>2, DivMonotone
<1> QED
  BY <1>1, <1>3, DivBounds

\* The next block to ask for is one or past the last.
LEMMA NextBlockFits ==
  ASSUME TypeOK, NEW v \in Viewers, NEW b \in 0..NoBlock
  PROVE  NextBlock(v, b) \in 0..NoBlock
<1>1. browser[v].start \in 0..MaxLen
  BY DEF TypeOK
<1>2. browser[v].start \div BlockSize \in 0..NoBlock
  BY <1>1, StartBlockFits
<1>3. \A away \in BOOLEAN :
         (IF away THEN browser[v].start \div BlockSize ELSE b) \in 0..NoBlock
  BY <1>2
<1> QED
  BY <1>3, SkipFromFits DEF NextBlock

\* What is asked for is requests.
LEMMA RequestsFit ==
  ASSUME NEW v \in Viewers, NEW b, NEW T \in SUBSET (Nodes \ {v})
  PROVE  RequestsFor(v, b, T) \subseteq Request
BY DEF RequestsFor, Request

\* What a browser is copied lies in blocks with a bit.
LEMMA CopyFits ==
  ASSUME TypeOK, NEW v \in Viewers,
         NEW g \in [open : BOOLEAN, start : 0..MaxLen, waiting : BOOLEAN],
         NEW heldNow \in SUBSET (0..(MaxLen - 1)), NEW bitsNow \in SUBSET Blocks,
         NEW lenNow \in 0..MaxLen,
         CopyToBrowser(v, g, heldNow, bitsNow, lenNow)
  PROVE  /\ browser' \in [Viewers -> [open : BOOLEAN, start : 0..MaxLen, waiting : BOOLEAN]]
         /\ gaps' \in [Viewers -> SUBSET (0..(MaxLen - 1))]
         /\ \A w \in Viewers \ {v} : gaps'[w] = gaps[w]
         /\ \A p \in gaps'[v] \ gaps[v] : p \in Nat /\ p \div BlockSize \in bitsNow
<1> DEFINE end == AvailableEnd(v, g.start, bitsNow, lenNow)
           zeros == {b \in Blocks : b >= g.start \div BlockSize /\ b \notin bitsNow}
<1>1. zeros \in SUBSET Nat /\ MaxLen \in Nat /\ BlockSize \in Nat
  BY BlockBounds, StreamAssumption DEF Blocks, MaxLen
<1>2. end \in Nat /\ end <= MaxLen
      /\ \A b \in zeros : end <= b * BlockSize
  <2>1. CASE zeros = {}
    BY <1>1, <2>1 DEF AvailableEnd
  <2>2. CASE zeros # {}
    <3> DEFINE least == Setmin(zeros)
    <3>1. least \in Nat /\ \A b \in zeros : least <= b
      BY <1>1, <2>2, SetminExists
    <3>2. least * BlockSize \in Nat
          /\ \A b \in zeros : b * BlockSize \in Nat /\ least * BlockSize <= b * BlockSize
      BY <1>1, <3>1, BlockBounds
    <3>3. end = Lower(least * BlockSize, lenNow)
      BY <2>2 DEF AvailableEnd
    <3> HIDE DEF end, zeros, least
    <3> QED
      BY <1>1, <3>2, <3>3 DEF Lower
  <2> QED
    BY <2>1, <2>2
<1>3. CASE end <= g.start
  <2>1. browser' = [browser EXCEPT ![v] = [g EXCEPT !.waiting = FALSE]] /\ gaps' = gaps
    BY <1>3 DEF CopyToBrowser
  <2>2. [g EXCEPT !.waiting = FALSE] \in [open : BOOLEAN, start : 0..MaxLen, waiting : BOOLEAN]
    OBVIOUS
  <2> HIDE DEF end, zeros
  <2> QED
    BY <2>1, <2>2 DEF TypeOK
<1>4. CASE ~ (end <= g.start)
  <2>1. PICK to \in g.start..end :
          /\ browser' = [browser EXCEPT ![v] = [g EXCEPT !.start = to, !.waiting = to # end]]
          /\ gaps' = [gaps EXCEPT ![v] = @ \cup ((g.start..(to - 1)) \ heldNow)]
    BY <1>4 DEF CopyToBrowser
  <2>2. to \in 0..MaxLen /\ g.start..(to - 1) \subseteq 0..(MaxLen - 1)
    BY <1>1, <1>2, <2>1
  <2>3. [g EXCEPT !.start = to, !.waiting = to # end]
          \in [open : BOOLEAN, start : 0..MaxLen, waiting : BOOLEAN]
    BY <2>2
  <2>4. browser' \in [Viewers -> [open : BOOLEAN, start : 0..MaxLen, waiting : BOOLEAN]]
    <3> HIDE DEF end
    <3> QED
      BY <2>1, <2>3 DEF TypeOK
  <2>5. /\ gaps' \in [Viewers -> SUBSET (0..(MaxLen - 1))]
        /\ \A w \in Viewers \ {v} : gaps'[w] = gaps[w]
        /\ gaps'[v] \ gaps[v] \subseteq g.start..(to - 1)
    <3> HIDE DEF end
    <3> QED
      BY <2>1, <2>2 DEF TypeOK
  <2>6. ASSUME NEW p \in g.start..(to - 1)
        PROVE  p \in Nat /\ p \div BlockSize \in bitsNow
    <3>1. p \in Nat /\ g.start \in Nat /\ g.start <= p /\ p < end /\ p < MaxLen
      BY <1>1, <1>2, <2>2, <2>1
    <3> DEFINE c == p \div BlockSize
    <3>2. c \in Blocks /\ c >= g.start \div BlockSize /\ c \in Nat
          /\ c * BlockSize \in Nat /\ c * BlockSize <= p
      BY <3>1, BlockOfPosition, DivMonotone, DivBounds, BlockBounds
    <3>3. ~ (end <= c * BlockSize)
      <4> HIDE DEF end, c
      <4> QED
        BY <1>2, <3>1, <3>2
    <3>4. c \notin zeros
      BY <1>2, <3>3
    <3> QED
      BY <3>1, <3>2, <3>4
  <2> QED
    BY <2>4, <2>5, <2>6
<1> QED
  BY <1>3, <1>4

-----------------------------------------------------------------------------
(* The steps.  DiskGrows is what all of them do to the files: nothing is    *)
(* taken back, and a browser gets zeros only in blocks that begin.          *)

DiskGrows ==
    /\ \A n \in Nodes : held[n] \subseteq held'[n] /\ bits[n] \subseteq bits'[n]
                        /\ fileLen[n] <= fileLen'[n]
    /\ \A v \in Viewers : \A b \in WholeServable(v) : sigs'[v][b] = sigs[v][b]

\* A published piece keeps the invariant, and takes nothing from the disk.
LEMMA PublishTyped ==
  ASSUME IInv, NEW off \in Nat, NEW len \in PieceLens, Publish(off, len)
  PROVE  IInv' /\ DiskGrows
<1> DEFINE b == off \div BlockSize
           top == off + len - b * BlockSize
<1> USE DEF IInv
<1>1. /\ len \in 1..BlockSize /\ BlockSize \in Nat /\ MaxLen \in Nat
      /\ b \in Nat /\ b * BlockSize \in Nat /\ b * BlockSize <= off
      /\ (b + 1) * BlockSize = b * BlockSize + BlockSize
  BY StreamAssumption, DivBounds, BlockBounds DEF MaxLen
<1>2. off <= fileLen[Origin] /\ off + len <= b * BlockSize + BlockSize /\ off + len <= MaxLen
  BY <1>1 DEF Publish
<1>3. b \in Blocks
  BY <1>1, <1>2, BlockOfPosition
<1>4. top \in 0..BlockSize
  BY <1>1, <1>2
<1>5. sigs' = [sigs EXCEPT ![Origin][b] = top]
  BY DEF Publish
<1>6. UNCHANGED <<live, next, browser, gaps, asked, sent>>
  BY DEF Publish
<1>7. Origin \in Nodes /\ Viewers \subseteq Nodes /\ Origin \notin Viewers
  BY StreamAssumption DEF Nodes
<1>8. /\ held' \in [Nodes -> SUBSET (0..(MaxLen - 1))]
      /\ fileLen' \in [Nodes -> 0..MaxLen]
      /\ bits' \in [Nodes -> SUBSET Blocks]
      /\ \A n \in Nodes : held[n] \subseteq held'[n] /\ bits[n] \subseteq bits'[n]
                          /\ fileLen[n] <= fileLen'[n]
      /\ \A v \in Viewers : held'[v] = held[v] /\ bits'[v] = bits[v]
      /\ held'[Origin] = 0..(fileLen'[Origin] - 1)
      /\ off..((off + len) - 1) \subseteq held'[Origin]
  <2>0. fileLen \in [Nodes -> 0..MaxLen] /\ held \in [Nodes -> SUBSET (0..(MaxLen - 1))]
        /\ bits \in [Nodes -> SUBSET Blocks] /\ held[Origin] = 0..(fileLen[Origin] - 1)
    BY DEF TypeOK, OriginWhole
  <2>1. CASE Dropped(Origin, off, len)
    <3>1. UNCHANGED <<held, fileLen, bits>> /\ off + len < fileLen[Origin]
      BY <2>1 DEF Publish, Dropped
    <3> HIDE DEF b
    <3> QED
      BY <1>1, <1>7, <2>0, <3>1
  <2>2. CASE ~ Dropped(Origin, off, len)
    <3>1. Store(Origin, off, len)
      BY <2>2 DEF Publish
    <3>2. StoreEffect(Origin, off, len)
      <4>1. off + len <= MaxLen /\ len \in 1..BlockSize /\ Origin \in Nodes /\ TypeOK
        BY <1>1, <1>2, <1>7
      <4> QED
        BY <3>1, <4>1, StoreFits
    <3> USE DEF StoreEffect
    <3>3. \A v \in Viewers : held'[v] = held[v] /\ bits'[v] = bits[v]
      BY <1>7, <2>0, <3>2
    <3>4. \A n \in Nodes : held[n] \subseteq held'[n]
      BY <1>7, <2>0, <3>2
    <3>5. \A n \in Nodes : fileLen[n] <= fileLen'[n]
      BY <1>1, <1>7, <2>0, <3>2
    <3>6. held'[Origin] = (0..(fileLen[Origin] - 1)) \cup (off..((off + len) - 1))
      BY <1>7, <2>0, <3>2
    <3>7. fileLen'[Origin] = IF off + len > fileLen[Origin] THEN off + len ELSE fileLen[Origin]
      BY <1>7, <2>0, <3>2
    <3>8. held'[Origin] = 0..(fileLen'[Origin] - 1)
      <4> DEFINE f == fileLen[Origin]
      <4>1. f \in Nat /\ off <= f /\ len \in Nat
        BY <1>1, <1>2, <1>7, <2>0
      <4> HIDE DEF f, b, top
      <4>2. (0..(f - 1)) \cup (off..((off + len) - 1))
              = 0..((IF off + len > f THEN off + len ELSE f) - 1)
        BY <4>1
      <4> QED
        BY <3>6, <3>7, <4>2 DEF f
    <3> QED
      BY <3>2, <3>3, <3>4, <3>5, <3>6, <3>8
  <2> QED
    BY <2>1, <2>2
<1>9. sigs' \in [Nodes -> [Blocks -> 0..BlockSize]]
  <2> HIDE DEF b, top
  <2> QED
    BY <1>3, <1>4, <1>5, <1>7 DEF TypeOK
<1>10. TypeOK'
  BY <1>6, <1>8, <1>9 DEF TypeOK
<1>11. OriginWhole' /\ BitsFit' /\ GapsOnlyInsideBlocks'
  BY <1>6, <1>7, <1>8 DEF OriginWhole, BitsFit, GapsOnlyInsideBlocks
<1>12. SignedPrefixHeld'
  <2> SUFFICES ASSUME NEW n \in Nodes, NEW c \in Blocks
               PROVE  Span(c, sigs'[n][c]) \subseteq held'[n]
    BY DEF SignedPrefixHeld, Span
  <2>1. CASE n = Origin /\ c = b
    <3>1. sigs'[n][c] = top
      <4> HIDE DEF b, top
      <4> QED
        BY <1>3, <1>5, <1>7, <2>1 DEF TypeOK
    <3>2. \A i \in 0..(top - 1) : b * BlockSize + i \in 0..(off + len - 1)
      BY <1>1, <1>2, <1>4
    <3>3. 0..(off + len - 1) \subseteq held'[Origin]
      <4>1. off \in 0..MaxLen /\ fileLen[Origin] \in 0..MaxLen
            /\ 0..(fileLen[Origin] - 1) \subseteq held'[Origin]
        BY <1>1, <1>2, <1>7, <1>8 DEF OriginWhole, TypeOK
      <4>2. \A p \in 0..(off + len - 1) :
              p \in 0..(fileLen[Origin] - 1) \/ p \in off..((off + len) - 1)
        BY <1>1, <1>2, <4>1
      <4> QED
        BY <1>8, <4>1, <4>2
    <3> HIDE DEF b, top
    <3> QED
      BY <2>1, <3>1, <3>2, <3>3 DEF Span
  <2>2. CASE ~ (n = Origin /\ c = b)
    <3>1. sigs'[n][c] = sigs[n][c]
      <4> HIDE DEF b, top
      <4> QED
        BY <1>3, <1>5, <1>7, <2>2 DEF TypeOK
    <3> QED
      BY <1>8, <3>1 DEF SignedPrefixHeld
  <2> QED
    BY <2>1, <2>2
<1>13. DiskGrows
  <2>1. \A v \in Viewers : sigs'[v] = sigs[v]
    <3> HIDE DEF b, top
    <3> QED
      BY <1>5, <1>7 DEF TypeOK
  <2> QED
    BY <1>8, <2>1 DEF DiskGrows
<1> QED
  BY <1>10, <1>11, <1>12, <1>13

\* A block that arrives does so, too.
LEMMA ReceiveTyped ==
  ASSUME IInv, NEW m \in sent, NEW grow \in BOOLEAN, Receive(m, grow)
  PROVE  IInv' /\ DiskGrows
<1> DEFINE v == m.to
           off == m.block * BlockSize
           end == off + m.size
           nb == NextBlock(v, next[v])
           nb2 == IF grow THEN NextBlock(v, Lower(nb + 1, NoBlock)) ELSE nb
<1> USE DEF IInv
<1>0. TypeOK /\ OriginWhole /\ BitsFit /\ SignedPrefixHeld /\ GapsOnlyInsideBlocks
  OBVIOUS
<1>1. /\ m \in Answer /\ v \in Viewers /\ v \in Nodes /\ m.from \in Nodes /\ v # m.from
      /\ m.block \in Blocks /\ m.size \in 1..BlockSize /\ v # Origin
  BY StreamAssumption DEF TypeOK, Answer, Nodes
<1>2. /\ m.block \in Nat /\ off \in Nat /\ BlockSize \in Nat /\ MaxLen \in Nat
      /\ off + BlockSize <= MaxLen /\ end \in Nat /\ end <= MaxLen
  BY <1>1, BlockEnds
<1>3. sent' = sent \ {m}
  BY DEF Receive
<1>4. CASE ~ live[v] \/ Dropped(v, off, m.size)
  <2>1. UNCHANGED <<disk, live, next, browser, gaps, asked>>
    BY <1>4 DEF Receive
  <2>2. TypeOK'
    BY <1>3, <2>1 DEF TypeOK, disk
  <2>3. OriginWhole' /\ BitsFit' /\ SignedPrefixHeld' /\ GapsOnlyInsideBlocks'
    BY <2>1 DEF disk, OriginWhole, BitsFit, SignedPrefixHeld, GapsOnlyInsideBlocks
  <2>4. DiskGrows
    BY <2>1 DEF DiskGrows, disk, TypeOK
  <2> QED
    BY <2>2, <2>3, <2>4
<1>5. CASE ~ (~ live[v] \/ Dropped(v, off, m.size))
  <2>1. /\ sigs' = IF end > fileLen[v] THEN [sigs EXCEPT ![v][m.block] = m.size] ELSE sigs
        /\ next' = [next EXCEPT ![v] = Lower(nb2 + 1, NoBlock)]
        /\ asked' = asked \cup RequestsFor(v, nb, {m.from}) \cup RequestsFor(v, nb2, {m.from})
        /\ Store(v, off, m.size)
        /\ IF browser[v].open
           THEN CopyToBrowser(v, browser[v], held'[v], bits'[v], fileLen'[v])
           ELSE UNCHANGED <<browser, gaps>>
        /\ UNCHANGED live
    <3> HIDE DEF IInv
    <3> QED
      BY <1>5 DEF Receive
  <2>2. StoreEffect(v, off, m.size)
    <3>1. off + m.size <= MaxLen
      BY <1>2
    <3> HIDE DEF v, off
    <3> QED
      BY <1>0, <1>1, <1>2, <2>1, <3>1, StoreFits
  <2>3. /\ held' \in [Nodes -> SUBSET (0..(MaxLen - 1))]
        /\ fileLen' \in [Nodes -> 0..MaxLen]
        /\ bits' \in [Nodes -> SUBSET Blocks]
        /\ held'[v] = held[v] \cup (off..(end - 1))
        /\ \A n \in Nodes \ {v} : held'[n] = held[n] /\ fileLen'[n] = fileLen[n]
        /\ \A n \in Nodes : held[n] \subseteq held'[n]
        /\ \A n \in Nodes : bits[n] \subseteq bits'[n]
        /\ \A n \in Nodes \ {v} : bits'[n] = bits[n]
        /\ bits'[v] \subseteq bits[v] \cup {m.block}
    <3>1. off \div BlockSize = m.block
      BY <1>2, DivOfBlock
    <3>2. /\ held' \in [Nodes -> SUBSET (0..(MaxLen - 1))]
          /\ fileLen' \in [Nodes -> 0..MaxLen]
          /\ bits' \in [Nodes -> SUBSET Blocks]
          /\ \A n \in Nodes : bits[n] \subseteq bits'[n]
          /\ \A n \in Nodes \ {v} : bits'[n] = bits[n]
          /\ bits'[v] \subseteq bits[v] \cup {m.block}
      <4> HIDE DEF v, off, IInv
      <4> QED
        BY <2>2, <3>1 DEF StoreEffect
    <3>3. /\ held' = [held EXCEPT ![v] = @ \cup (off..(end - 1))]
          /\ fileLen' = [fileLen EXCEPT ![v] = IF end > fileLen[v] THEN end ELSE fileLen[v]]
      BY <2>2, Zenon DEF StoreEffect
    <3>4. /\ held'[v] = held[v] \cup (off..(end - 1))
          /\ \A n \in Nodes \ {v} : held'[n] = held[n] /\ fileLen'[n] = fileLen[n]
      <4> HIDE DEF v, off, end, IInv
      <4> QED
        BY <1>0, <1>1, <3>3 DEF TypeOK
    <3>5. \A n \in Nodes : held[n] \subseteq held'[n]
      <4> HIDE DEF v, off, end, IInv
      <4> QED
        BY <3>4
    <3> QED
      BY <3>2, <3>4, <3>5
  <2>4. \A n \in Nodes : fileLen[n] <= fileLen'[n]
    <3>1. \A n \in Nodes : fileLen[n] \in 0..MaxLen
      BY <1>0 DEF TypeOK
    <3>2. fileLen'[v] = IF end > fileLen[v] THEN end ELSE fileLen[v]
      <4> HIDE DEF v, off
      <4> QED
        BY <1>0, <1>1, <2>2 DEF StoreEffect, TypeOK, end
    <3> HIDE DEF v, off, end
    <3> QED
      BY <1>1, <1>2, <2>3, <3>1, <3>2
  <2>5. /\ browser' \in [Viewers -> [open : BOOLEAN, start : 0..MaxLen, waiting : BOOLEAN]]
        /\ gaps' \in [Viewers -> SUBSET (0..(MaxLen - 1))]
        /\ \A w \in Viewers \ {v} : gaps'[w] = gaps[w]
        /\ \A p \in gaps'[v] \ gaps[v] : p \in Nat /\ p \div BlockSize \in bits'[v]
    <3>1. CASE browser[v].open
      <4>1. /\ CopyToBrowser(v, browser[v], held'[v], bits'[v], fileLen'[v])
            /\ browser[v] \in [open : BOOLEAN, start : 0..MaxLen, waiting : BOOLEAN]
            /\ held'[v] \in SUBSET (0..(MaxLen - 1))
            /\ bits'[v] \in SUBSET Blocks
            /\ fileLen'[v] \in 0..MaxLen
        BY <1>0, <1>1, <2>1, <2>3, <3>1 DEF TypeOK
      <4> DEFINE g == browser[v]
                 h == held'[v]
                 bt == bits'[v]
                 l == fileLen'[v]
      <4>2. /\ CopyToBrowser(v, g, h, bt, l)
            /\ g \in [open : BOOLEAN, start : 0..MaxLen, waiting : BOOLEAN]
            /\ h \in SUBSET (0..(MaxLen - 1)) /\ bt \in SUBSET Blocks /\ l \in 0..MaxLen
        BY <4>1
      <4> HIDE DEF g, h, bt, l, v
      <4>3. /\ browser' \in [Viewers -> [open : BOOLEAN, start : 0..MaxLen, waiting : BOOLEAN]]
            /\ gaps' \in [Viewers -> SUBSET (0..(MaxLen - 1))]
            /\ \A w \in Viewers \ {v} : gaps'[w] = gaps[w]
            /\ \A p \in gaps'[v] \ gaps[v] : p \in Nat /\ p \div BlockSize \in bt
        BY <1>0, <1>1, <4>2, CopyFits
      <4> QED
        BY <4>3 DEF bt
    <3>2. CASE ~ browser[v].open
      <4>1. UNCHANGED <<browser, gaps>>
        BY <2>1, <3>2
      <4> QED
        BY <1>0, <1>1, <4>1 DEF TypeOK
    <3> QED
      BY <3>1, <3>2
  <2>6. next' \in [Viewers -> 0..NoBlock] /\ nb \in 0..NoBlock /\ nb2 \in 0..NoBlock
    <3>1. NoBlock \in Nat /\ next \in [Viewers -> 0..NoBlock]
      BY <1>0, StreamAssumption DEF TypeOK, NoBlock
    <3>2. nb \in 0..NoBlock
      BY <1>0, <1>1, <3>1, NextBlockFits
    <3>3. Lower(nb + 1, NoBlock) \in 0..NoBlock
      <4> HIDE DEF nb
      <4> QED
        BY <3>1, <3>2 DEF Lower
    <3>4. nb2 \in 0..NoBlock
      BY <1>0, <1>1, <3>2, <3>3, NextBlockFits
    <3>5. Lower(nb2 + 1, NoBlock) \in 0..NoBlock
      <4> HIDE DEF nb2
      <4> QED
        BY <3>1, <3>4 DEF Lower
    <3> HIDE DEF nb, nb2, v
    <3> QED
      BY <2>1, <3>1, <3>2, <3>4, <3>5
  <2>7. asked' \subseteq Request
    <3>1. {m.from} \in SUBSET (Nodes \ {v})
      BY <1>1
    <3>2. RequestsFor(v, nb, {m.from}) \subseteq Request
          /\ RequestsFor(v, nb2, {m.from}) \subseteq Request
      <4> HIDE DEF nb, nb2, v
      <4> QED
        BY <1>1, <3>1, RequestsFit
    <3> HIDE DEF nb, nb2, v
    <3> QED
      BY <1>0, <2>1, <3>2 DEF TypeOK
  <2>8. sigs' \in [Nodes -> [Blocks -> 0..BlockSize]]
    <3> HIDE DEF v, end
    <3> QED
      BY <1>0, <1>1, <1>2, <2>1 DEF TypeOK
  <2>9. TypeOK'
    BY <1>0, <1>3, <2>1, <2>3, <2>5, <2>6, <2>7, <2>8 DEF TypeOK
  <2>10. OriginWhole'
    <3> HIDE DEF v
    <3> QED
      BY <1>0, <1>1, <2>3 DEF OriginWhole, Nodes
  <2>11. BitsFit'
    <3> SUFFICES ASSUME NEW w \in Viewers, NEW b \in bits'[w]
                 PROVE  b * BlockSize \in held'[w]
      BY DEF BitsFit
    <3>1. w \in Nodes
      BY DEF Nodes
    <3>2. CASE b \in bits[w]
      <4>1. b * BlockSize \in held[w]
        BY <1>0, <3>2 DEF BitsFit
      <4> QED
        BY <2>3, <3>1, <4>1
    <3>3. CASE b \notin bits[w]
      <4>1. w = v /\ b = m.block
        <5> HIDE DEF v
        <5> QED
          BY <2>3, <3>1, <3>3
      <4>2. off \in off..(end - 1)
        BY <1>1, <1>2
      <4> QED
        BY <2>3, <4>1, <4>2
    <3> QED
      BY <3>2, <3>3
  <2>12. SignedPrefixHeld'
    <3> SUFFICES ASSUME NEW n \in Nodes, NEW c \in Blocks
                 PROVE  Span(c, sigs'[n][c]) \subseteq held'[n]
      BY DEF SignedPrefixHeld, Span
    <3>1. CASE n = v /\ c = m.block /\ end > fileLen[v]
      <4>1. sigs'[n][c] = m.size
        <5> HIDE DEF v, end
        <5> QED
          BY <1>0, <1>1, <2>1, <3>1 DEF TypeOK
      <4>2. \A i \in 0..(m.size - 1) : off + i \in off..(end - 1)
        BY <1>1, <1>2
      <4> HIDE DEF v, end
      <4> QED
        BY <2>3, <3>1, <4>1, <4>2 DEF Span
    <3>2. CASE ~ (n = v /\ c = m.block /\ end > fileLen[v])
      <4>1. sigs'[n][c] = sigs[n][c]
        <5> HIDE DEF v, end
        <5> QED
          BY <1>0, <1>1, <2>1, <3>2 DEF TypeOK
      <4> QED
        BY <1>0, <2>3, <4>1 DEF SignedPrefixHeld
    <3> QED
      BY <3>1, <3>2
  <2>13. GapsOnlyInsideBlocks'
    <3> SUFFICES ASSUME NEW w \in Viewers, NEW p \in gaps'[w]
                 PROVE  (p \div BlockSize) * BlockSize \in held'[w]
      BY DEF GapsOnlyInsideBlocks
    <3>1. w \in Nodes
      BY DEF Nodes
    <3>2. CASE p \in gaps[w]
      <4>1. (p \div BlockSize) * BlockSize \in held[w]
        BY <1>0, <3>2 DEF GapsOnlyInsideBlocks
      <4> QED
        BY <2>3, <3>1, <4>1
    <3>3. CASE p \notin gaps[w]
      <4>1. w = v
        <5> HIDE DEF v
        <5> QED
          BY <2>5, <3>3
      <4>2. p \div BlockSize \in bits'[w]
        BY <2>5, <3>3, <4>1
      <4> QED
        BY <2>11, <4>2 DEF BitsFit
    <3> QED
      BY <3>2, <3>3
  <2>14. ASSUME NEW w \in Viewers, NEW b \in WholeServable(w)
         PROVE  sigs'[w][b] = sigs[w][b]
    <3>1. b \in Blocks /\ ServedSize(w, b) = BlockSize /\ w \in Nodes
      BY DEF WholeServable, Nodes
    <3>2. b * BlockSize + BlockSize <= fileLen[w]
      <4>1. fileLen[w] \in Nat /\ b * BlockSize \in Nat /\ BlockSize \in Nat \ {0}
        BY <1>0, <1>2, <3>1, BlockEnds DEF TypeOK
      <4>2. fileLen[w] > b * BlockSize
            /\ BlockSize = Lower(BlockSize, fileLen[w] - b * BlockSize)
        BY <3>1, <4>1 DEF ServedSize
      <4> QED
        BY <4>1, <4>2 DEF Lower
    <3>3. CASE w = v /\ b = m.block
      <4>1. ~ (end > fileLen[v])
        <5>1. fileLen[v] \in Nat
          BY <1>0, <1>1, <1>2 DEF TypeOK
        <5> QED
          BY <1>1, <1>2, <3>2, <3>3, <5>1
      <4> QED
        BY <2>1, <4>1
    <3>4. CASE ~ (w = v /\ b = m.block)
      <4> HIDE DEF v, end
      <4> QED
        BY <1>0, <1>1, <2>1, <3>1, <3>4 DEF TypeOK
    <3> QED
      BY <3>3, <3>4
  <2>15. DiskGrows
    BY <2>3, <2>4, <2>14 DEF DiskGrows
  <2> QED
    BY <2>9, <2>10, <2>11, <2>12, <2>13, <2>15
<1> QED
  BY <1>4, <1>5

(* The steps that change no file.                                           *)

\* So do browsers and timers.
LEMMA RunTyped ==
  ASSUME IInv, NEW v \in Viewers, NEW n \in Blocks,
         Open(v, n * BlockSize) \/ BrowserReads(v) \/ Close(v) \/ Expire(v) \/ Stall(v)
  PROVE  IInv' /\ DiskGrows
<1> USE DEF IInv
<1>0. TypeOK /\ OriginWhole /\ BitsFit /\ SignedPrefixHeld /\ GapsOnlyInsideBlocks
  OBVIOUS
<1>1. UNCHANGED disk /\ UNCHANGED sent
  BY DEF Open, BrowserReads, Close, Expire, Stall, disk
<1>2. OriginWhole' /\ BitsFit' /\ SignedPrefixHeld' /\ DiskGrows
  <2>1. \A k \in Nodes : fileLen[k] <= fileLen[k]
    BY BlockEnds, StreamAssumption DEF TypeOK, MaxLen
  <2> QED
    BY <1>0, <1>1, <2>1 DEF disk, OriginWhole, BitsFit, SignedPrefixHeld, DiskGrows
<1>3. v \in Nodes /\ Nodes \ {v} \in SUBSET (Nodes \ {v})
  BY DEF Nodes
<1>4. ASSUME /\ browser' \in [Viewers -> [open : BOOLEAN, start : 0..MaxLen, waiting : BOOLEAN]]
             /\ gaps' \in [Viewers -> SUBSET (0..(MaxLen - 1))]
             /\ \A w \in Viewers \ {v} : gaps'[w] = gaps[w]
             /\ \A p \in gaps'[v] \ gaps[v] : p \in Nat /\ p \div BlockSize \in bits[v],
             live' \in [Viewers -> BOOLEAN], next' \in [Viewers -> 0..NoBlock],
             asked' \subseteq Request
      PROVE  IInv' /\ DiskGrows
  <2>1. TypeOK'
    BY <1>0, <1>1, <1>4 DEF TypeOK, disk
  <2>2. GapsOnlyInsideBlocks'
    <3> SUFFICES ASSUME NEW w \in Viewers, NEW p \in gaps'[w]
                 PROVE  (p \div BlockSize) * BlockSize \in held[w]
      BY <1>1 DEF GapsOnlyInsideBlocks, disk
    <3>1. CASE p \in gaps[w]
      BY <1>0, <3>1 DEF GapsOnlyInsideBlocks
    <3>2. CASE p \notin gaps[w]
      <4>1. w = v /\ p \div BlockSize \in bits[w]
        BY <1>4, <3>2
      <4> QED
        BY <1>0, <4>1 DEF BitsFit
    <3> QED
      BY <3>1, <3>2
  <2> QED
    BY <1>2, <2>1, <2>2
<1>5. CASE Open(v, n * BlockSize)
  <2> DEFINE from == IF live[v] THEN next[v] ELSE 0
             nb == SkipFrom(v, from)
             g == [open |-> TRUE, start |-> n * BlockSize, waiting |-> FALSE]
  <2>1. /\ live' = [live EXCEPT ![v] = TRUE]
        /\ next' = [next EXCEPT ![v] = nb]
        /\ asked' = asked \cup RequestsFor(v, nb, Nodes \ {v})
        /\ CopyToBrowser(v, g, held[v], bits[v], fileLen[v])
    BY <1>5 DEF Open
  <2>2. NoBlock \in Nat /\ from \in 0..NoBlock
    BY <1>0, StreamAssumption DEF TypeOK, NoBlock
  <2>3. nb \in 0..NoBlock
    <3> HIDE DEF from
    <3> QED
      BY <1>0, <2>2, SkipFromFits
  <2>4. g \in [open : BOOLEAN, start : 0..MaxLen, waiting : BOOLEAN]
    <3>1. n * BlockSize \in 0..MaxLen
      BY BlockEnds
    <3> QED
      BY <3>1
  <2> HIDE DEF nb, g
  <2>5. /\ browser' \in [Viewers -> [open : BOOLEAN, start : 0..MaxLen, waiting : BOOLEAN]]
        /\ gaps' \in [Viewers -> SUBSET (0..(MaxLen - 1))]
        /\ \A w \in Viewers \ {v} : gaps'[w] = gaps[w]
        /\ \A p \in gaps'[v] \ gaps[v] : p \in Nat /\ p \div BlockSize \in bits[v]
    BY <1>0, <1>3, <2>1, <2>4, CopyFits DEF TypeOK
  <2>6. live' \in [Viewers -> BOOLEAN] /\ next' \in [Viewers -> 0..NoBlock]
    BY <1>0, <2>1, <2>3 DEF TypeOK
  <2>7. asked' \subseteq Request
    BY <1>0, <1>3, <2>1, RequestsFit DEF TypeOK
  <2> QED
    BY <1>4, <2>5, <2>6, <2>7
<1>6. CASE BrowserReads(v)
  <2>1. CopyToBrowser(v, browser[v], held[v], bits[v], fileLen[v])
        /\ UNCHANGED <<live, next, asked>>
    BY <1>6 DEF BrowserReads
  <2>2. /\ browser' \in [Viewers -> [open : BOOLEAN, start : 0..MaxLen, waiting : BOOLEAN]]
        /\ gaps' \in [Viewers -> SUBSET (0..(MaxLen - 1))]
        /\ \A w \in Viewers \ {v} : gaps'[w] = gaps[w]
        /\ \A p \in gaps'[v] \ gaps[v] : p \in Nat /\ p \div BlockSize \in bits[v]
    BY <1>0, <1>3, <2>1, CopyFits DEF TypeOK
  <2>3. live' \in [Viewers -> BOOLEAN] /\ next' \in [Viewers -> 0..NoBlock]
        /\ asked' \subseteq Request
    BY <1>0, <2>1 DEF TypeOK
  <2> QED
    BY <1>4, <2>2, <2>3
<1>7. CASE Close(v)
  <2>1. browser' = [browser EXCEPT ![v] = Closed] /\ gaps' = [gaps EXCEPT ![v] = {}]
        /\ UNCHANGED <<live, next, asked>>
    BY <1>7 DEF Close
  <2>2. Closed \in [open : BOOLEAN, start : 0..MaxLen, waiting : BOOLEAN]
    BY BlockBounds, StreamAssumption DEF Closed, MaxLen
  <2>3. /\ browser' \in [Viewers -> [open : BOOLEAN, start : 0..MaxLen, waiting : BOOLEAN]]
        /\ gaps' \in [Viewers -> SUBSET (0..(MaxLen - 1))]
        /\ \A w \in Viewers \ {v} : gaps'[w] = gaps[w]
        /\ gaps'[v] = {}
    BY <1>0, <2>1, <2>2 DEF TypeOK
  <2>4. live' \in [Viewers -> BOOLEAN] /\ next' \in [Viewers -> 0..NoBlock]
        /\ asked' \subseteq Request
    BY <1>0, <2>1 DEF TypeOK
  <2> QED
    BY <1>4, <2>3, <2>4
<1>8. CASE Expire(v)
  <2>1. live' = [live EXCEPT ![v] = FALSE] /\ UNCHANGED <<next, browser, gaps, asked>>
    BY <1>8 DEF Expire
  <2> QED
    BY <1>0, <1>4, <2>1 DEF TypeOK
<1>9. CASE Stall(v)
  <2> DEFINE from == IF browser[v].open THEN browser[v].start \div BlockSize ELSE next[v]
             nb == NextBlock(v, from)
  <2>1. next' = [next EXCEPT ![v] = nb]
        /\ asked' = asked \cup RequestsFor(v, nb, Nodes \ {v})
        /\ UNCHANGED <<live, browser, gaps>>
    BY <1>9 DEF Stall
  <2>2. from \in 0..NoBlock
    <3>1. browser[v].start \in 0..MaxLen /\ next[v] \in 0..NoBlock
      BY <1>0 DEF TypeOK
    <3> QED
      BY <3>1, StartBlockFits
  <2>3. nb \in 0..NoBlock
    <3> HIDE DEF from
    <3> QED
      BY <1>0, <2>2, NextBlockFits
  <2> HIDE DEF nb
  <2>4. next' \in [Viewers -> 0..NoBlock]
    BY <1>0, <2>1, <2>3 DEF TypeOK
  <2>5. asked' \subseteq Request
    BY <1>0, <1>3, <2>1, RequestsFit DEF TypeOK
  <2> QED
    BY <1>0, <1>4, <2>1, <2>4, <2>5 DEF TypeOK
<1> QED
  BY <1>5, <1>6, <1>7, <1>8, <1>9

\* So do answers and losses.
LEMMA NetTyped ==
  ASSUME IInv, (\E r \in asked : Serve(r)) \/ LoseOne
  PROVE  IInv' /\ DiskGrows
<1> USE DEF IInv
<1>1. /\ UNCHANGED <<held, fileLen, bits, sigs, live, next, browser, gaps>>
      /\ asked' \subseteq asked
  BY DEF Serve, LoseOne, Lose, disk
<1>2. sent' \subseteq Answer
  <2>1. CASE LoseOne
    BY <2>1 DEF LoseOne, Lose, TypeOK
  <2>2. ASSUME NEW r \in asked, Serve(r) PROVE sent' \subseteq Answer
    <3>1. r.from \in Viewers /\ r.to \in Nodes /\ r.block \in Blocks /\ r.from # r.to
      BY DEF TypeOK, Request
    <3>2. CASE Verifies(r.to, r.block)
      <4> DEFINE z == ServedSize(r.to, r.block)
      <4>1. z # 0 /\ sigs[r.to][r.block] = z
        BY <3>2 DEF Verifies
      <4>2. z \in 1..BlockSize
        <5>1. sigs[r.to][r.block] \in 0..BlockSize
          BY <3>1 DEF TypeOK
        <5> HIDE DEF z
        <5> QED
          BY <4>1, <5>1, StreamAssumption
      <4>3. sent' = sent \cup {[from |-> r.to, to |-> r.from, block |-> r.block, size |-> z]}
        BY <2>2, <3>2 DEF Serve
      <4> HIDE DEF z
      <4> QED
        BY <3>1, <4>2, <4>3 DEF TypeOK, Answer
    <3>3. CASE ~ Verifies(r.to, r.block)
      BY <2>2, <3>3 DEF Serve, TypeOK
    <3> QED
      BY <3>2, <3>3
  <2> QED
    BY <2>1, <2>2
<1>3. TypeOK'
  BY <1>1, <1>2 DEF TypeOK
<1>4. OriginWhole' /\ BitsFit' /\ SignedPrefixHeld' /\ GapsOnlyInsideBlocks'
  BY <1>1 DEF OriginWhole, BitsFit, SignedPrefixHeld, GapsOnlyInsideBlocks
<1>5. DiskGrows
  <2>1. \A k \in Nodes : fileLen[k] <= fileLen[k]
    BY BlockEnds, StreamAssumption DEF TypeOK, MaxLen
  <2> QED
    BY <1>1, <2>1 DEF DiskGrows
<1> QED
  BY <1>3, <1>4, <1>5

\* The invariant holds at first.
LEMMA InitTyped == Init => IInv
<1> SUFFICES ASSUME Init PROVE IInv
  OBVIOUS
<1>1. BlockSize \in Nat /\ MaxLen \in Nat /\ NoBlock \in Nat /\ Viewers \subseteq Nodes
      /\ Origin \in Nodes
  BY BlockBounds, StreamAssumption DEF MaxLen, NoBlock, Nodes
<1>2. Closed \in [open : BOOLEAN, start : 0..MaxLen, waiting : BOOLEAN]
  BY <1>1 DEF Closed
<1>3. TypeOK
  BY <1>1, <1>2 DEF Init, TypeOK
<1>4. OriginWhole /\ BitsFit /\ GapsOnlyInsideBlocks
  BY <1>1 DEF Init, OriginWhole, BitsFit, GapsOnlyInsideBlocks
<1>5. SignedPrefixHeld
  BY DEF Init, SignedPrefixHeld, Span
<1> QED
  BY <1>3, <1>4, <1>5 DEF IInv

\* The invariant is inductive, and data on disk only grow.
LEMMA StepTyped == IInv /\ [Next]_vars => IInv' /\ DiskGrows
<1> SUFFICES ASSUME IInv, [Next]_vars PROVE IInv' /\ DiskGrows
  OBVIOUS
<1>1. ASSUME NEW len \in PieceLens, NEW back \in Rewinds \cup {0},
             fileLen[Origin] - back >= 0, Publish(fileLen[Origin] - back, len)
      PROVE  IInv' /\ DiskGrows
  <2>1. fileLen[Origin] - back \in Nat
    <3>1. fileLen[Origin] \in Nat /\ back \in Nat
      BY StreamAssumption, BlockBounds DEF IInv, TypeOK, Nodes, MaxLen
    <3> QED
      BY <1>1, <3>1
  <2> QED
    BY <1>1, <2>1, PublishTyped
<1>2. CASE \E r \in asked : Serve(r)
  BY <1>2, NetTyped
<1>3. CASE \E m \in sent, grow \in BOOLEAN : (grow => Room) /\ Receive(m, grow)
  BY <1>3, ReceiveTyped
<1>4. ASSUME NEW v \in Viewers, NEW b \in Blocks, Open(v, b * BlockSize)
      PROVE  IInv' /\ DiskGrows
  BY <1>4, RunTyped
<1>5. ASSUME NEW v \in Viewers, BrowserReads(v) \/ Close(v) \/ Expire(v) \/ Stall(v)
      PROVE  IInv' /\ DiskGrows
  <2>1. 0 \in Blocks
    BY StreamAssumption DEF Blocks
  <2> QED
    BY <1>5, <2>1, RunTyped
<1>6. CASE LoseOne
  BY <1>6, NetTyped
<1>7. CASE UNCHANGED vars
  <2>1. IInv'
    BY <1>7 DEF vars, IInv, TypeOK, OriginWhole, BitsFit, SignedPrefixHeld, GapsOnlyInsideBlocks
  <2>2. \A k \in Nodes : fileLen[k] <= fileLen[k]
    BY BlockBounds, StreamAssumption DEF IInv, TypeOK, MaxLen
  <2>3. DiskGrows
    BY <1>7, <2>2 DEF vars, DiskGrows
  <2> QED
    BY <2>1, <2>3
<1> QED
  BY <1>1, <1>2, <1>3, <1>4, <1>5, <1>6, <1>7 DEF Next

\* While data only grow, whole blocks stay servable.
LEMMA GrowsServable ==
  ASSUME IInv, IInv', DiskGrows
  PROVE  \A v \in Viewers : WholeServable(v) \subseteq WholeServable(v)'
<1> SUFFICES ASSUME NEW v \in Viewers, NEW b \in WholeServable(v)
             PROVE  b \in WholeServable(v)'
  OBVIOUS
<1>1. b \in Blocks /\ ServedSize(v, b) = BlockSize /\ Verifies(v, b) /\ v \in Nodes
  BY DEF WholeServable, Nodes
<1>2. b * BlockSize \in Nat /\ BlockSize \in Nat \ {0}
  BY <1>1, BlockEnds
<1>3. fileLen[v] \in Nat /\ fileLen'[v] \in Nat /\ fileLen[v] <= fileLen'[v]
      /\ held[v] \subseteq held'[v] /\ bits[v] \subseteq bits'[v] /\ sigs'[v][b] = sigs[v][b]
  BY <1>1, BlockEnds DEF IInv, TypeOK, DiskGrows
<1>4. /\ b \in bits[v] /\ sigs[v][b] # 0 /\ fileLen[v] > b * BlockSize
      /\ BlockSize = Lower(BlockSize, fileLen[v] - b * BlockSize)
      /\ sigs[v][b] = BlockSize /\ Span(b, BlockSize) \subseteq held[v]
  BY <1>1, <1>2 DEF Verifies, ServedSize
<1>5. ServedSize(v, b)' = BlockSize
  <2>1. fileLen'[v] > b * BlockSize /\ Lower(BlockSize, fileLen'[v] - b * BlockSize) = BlockSize
    BY <1>2, <1>3, <1>4 DEF Lower
  <2> QED
    BY <1>3, <1>4, <2>1 DEF ServedSize
<1>6. Verifies(v, b)'
  BY <1>2, <1>3, <1>4, <1>5 DEF Verifies
<1> QED
  BY <1>1, <1>5, <1>6 DEF WholeServable

-----------------------------------------------------------------------------
(* The theorems.                                                            *)

(* IInv holds in every state.                                               *)
THEOREM Invariant == Spec => []IInv
<1>1. IInv /\ [Next]_vars => IInv'
  BY StepTyped
<1> QED
  BY <1>1, InitTyped, PTL DEF Spec

(* Data, bits, signatures, positions and messages stay of their type: no    *)
(* block beyond the stream is asked for, whatever the origin sends again.   *)
THEOREM TypeCorrect == Spec => []TypeOK
<1>1. IInv => TypeOK
  BY DEF IInv
<1> QED
  BY <1>1, Invariant, PTL

(* No node keeps a signature for bytes it does not keep.                    *)
THEOREM SignedPrefixHeldCorrect == Spec => []SignedPrefixHeld
<1>1. IInv => SignedPrefixHeld
  BY DEF IInv
<1> QED
  BY <1>1, Invariant, PTL

(* No browser gets zeros for a block of which nothing had arrived.          *)
THEOREM GapsOnlyInsideBlocksCorrect == Spec => []GapsOnlyInsideBlocks
<1>1. IInv => GapsOnlyInsideBlocks
  BY DEF IInv
<1> QED
  BY <1>1, Invariant, PTL

(* A viewer that can pass a whole block on stays able to.                   *)
THEOREM WholeStaysServableCorrect == Spec => WholeStaysServable
<1>1. IInv /\ IInv' /\ [Next]_vars
        => [\A v \in Viewers : WholeServable(v) \subseteq WholeServable(v)']_vars
  BY StepTyped, GrowsServable
<1> QED
  BY <1>1, Invariant, PTL DEF Spec, WholeStaysServable
=============================================================================

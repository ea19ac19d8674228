--------------------------- MODULE InboundProofs ---------------------------
(***************************************************************************)
(* Theorems about Inbound, for every set of ids, block size, length and    *)
(* choice of faults.                                                       *)
(***************************************************************************)
EXTENDS Inbound, FiniteSetTheorems, WellFoundedInduction, TLAPS

-----------------------------------------------------------------------------
(* The data of the model.                                                  *)

\* A Content names an id, an offset and lengths of this instance.
LEMMA MessageType ==
  ASSUME NEW m \in Messages
  PROVE  /\ m.id \in Ids /\ m.eof \in 0 .. BlockSize * MaxBlock
         /\ m.off \in 0 .. BlockSize * MaxBlock /\ m.len \in 0 .. BlockSize * MaxBlock
         /\ m.off \in Nat /\ m.len \in Nat
<1>1. BlockSize * MaxBlock \in Nat
  BY SizeAssumption
<1>2. m.eof \in Eofs[m.id] /\ m.id \in Ids
  BY DEF Messages, Sendable
<1> QED
  BY <1>1, <1>2, SizeAssumption DEF Messages

\* The block of a Content is the one its offset lies in.
LEMMA BlkType ==
  ASSUME NEW m \in Messages
  PROVE  /\ Blk(m) \in Nat /\ Blk(m) * BlockSize \in Nat
         /\ Blk(m) * BlockSize <= m.off /\ m.off < Blk(m) * BlockSize + BlockSize
<1> DEFINE p == m.off
<1>1. p \in Nat /\ BlockSize \in Nat \ {0}
  BY MessageType, SizeAssumption
<1>2. p \div BlockSize \in Nat /\ (p \div BlockSize) * BlockSize <= p
      /\ p < (p \div BlockSize) * BlockSize + BlockSize
  <2> HIDE DEF p
  <2> QED
    BY <1>1
<1>3. Blk(m) * BlockSize \in Nat
  BY <1>1, <1>2 DEF Blk
<1> QED
  BY <1>2, <1>3 DEF Blk

\* A block that starts before the end of a file is one of its blocks.
LEMMA BlockInFile ==
  ASSUME NEW k \in Nat, NEW n \in 0 .. BlockSize * MaxBlock, k * BlockSize < n
  PROVE  k \in BlockNumbers
<1>1. BlockSize \in Nat /\ BlockSize > 0 /\ MaxBlock \in Nat
  BY SizeAssumption
<1>2. SUFFICES ASSUME k >= MaxBlock PROVE FALSE
  BY <1>1 DEF BlockNumbers
<1>3. k * BlockSize >= MaxBlock * BlockSize
  BY <1>1, <1>2
<1> QED
  BY <1>1, <1>3

\* The blocks of a bitmap can be counted.
LEMMA BitsFinite ==
  ASSUME NEW S \in SUBSET BlockNumbers
  PROVE  IsFiniteSet(S) /\ Cardinality(S) \in Nat
<1>1. IsFiniteSet(BlockNumbers)
  BY FS_Interval, SizeAssumption DEF BlockNumbers
<1> QED
  BY <1>1, FS_Subset, FS_CardinalityType

\* A non-empty set of naturals has a least element.
LEMMA LeastElement ==
  ASSUME NEW S \in SUBSET Nat, S # {}
  PROVE  \E x \in S : \A y \in S : x <= y
<1>1. PICK x \in S : \A y \in S : ~ (<<y, x>> \in OpToRel(<, Nat))
  BY WFMin, NatLessThanWellFounded, Zenon
<1>2. \A y \in S : ~ (y < x)
  BY <1>1 DEF OpToRel
<1> QED
  BY <1>2

\* new_messages stops at a block not past the last.
LEMMA FirstMissingType ==
  ASSUME NEW e \in Entries, NEW n \in 0 .. MaxBlock
  PROVE  FirstMissing(e, n) \in 0 .. MaxBlock
<1> DEFINE Ends == {k \in n .. MaxBlock : k * BlockSize >= e.eof \/ k \notin e.bits}
<1>1. MaxBlock \in Nat /\ BlockSize \in Nat
  BY SizeAssumption
<1>2. e.bits \in SUBSET BlockNumbers /\ e.eof \in Int
  BY <1>1 DEF Entries, InitEof
<1>3. MaxBlock \in Ends
  BY <1>1, <1>2 DEF BlockNumbers
<1>4. PICK k \in Ends : \A j \in Ends : k <= j
  <2>1. Ends \in SUBSET Nat /\ Ends # {}
    BY <1>1, <1>3
  <2> HIDE DEF Ends
  <2> QED
    BY <2>1, LeastElement
<1>5. \A j \in n .. k - 1 : j \in n .. MaxBlock /\ j \notin Ends
  BY <1>1, <1>4
<1>6. \A j \in n .. k - 1 : j * BlockSize < e.eof /\ j \in e.bits
  BY <1>1, <1>2, <1>5
<1>7. \E i \in n .. MaxBlock :
        /\ i * BlockSize >= e.eof \/ i \notin e.bits
        /\ \A j \in n .. i - 1 : j * BlockSize < e.eof /\ j \in e.bits
  BY <1>4, <1>6
<1>8. FirstMissing(e, n) \in n .. MaxBlock
  BY <1>7 DEF FirstMissing
<1> QED
  BY <1>1, <1>8

-----------------------------------------------------------------------------
(* Requests.                                                               *)

RequestTypes ==
  [next_block : [Ids -> 0 .. MaxBlock], fresh : [Ids -> BOOLEAN],
   net : SUBSET (Ids \X (0 .. MaxBlock))]

\* Asking for a block and moving on keep the request state well formed.
LEMMA AskType ==
  ASSUME NEW r \in RequestTypes, NEW id \in Ids, NEW e \in Entries
  PROVE  /\ Ask(r, id, e) \in RequestTypes
         /\ Bump(r, id) \in RequestTypes
         /\ Restart(r, id) \in RequestTypes
         /\ AskAndBump(r, id, e) \in RequestTypes
<1>1. MaxBlock \in Nat
  BY SizeAssumption
<1>2. FirstMissing(e, r.next_block[id]) \in 0 .. MaxBlock
  BY FirstMissingType DEF RequestTypes
<1>3. Ask(r, id, e) \in RequestTypes
  <2>1. CASE NothingToAsk(e, r.next_block[id])
    BY <1>1, <1>2, <2>1 DEF Ask, RequestTypes
  <2>2. CASE ~NothingToAsk(e, r.next_block[id])
    BY <1>1, <1>2, <2>2 DEF Ask, RequestTypes
  <2> QED
    BY <2>1, <2>2
<1>4. ASSUME NEW q \in RequestTypes
      PROVE  Bump(q, id) \in RequestTypes /\ Restart(q, id) \in RequestTypes
  BY <1>1, <1>4 DEF Bump, Restart, Min2, RequestTypes
<1> QED
  BY <1>3, <1>4 DEF AskAndBump

\* The growing window and the fallback only ask and move on.
LEMMA ReplyTypes ==
  ASSUME TypeOK, NEW id \in Ids
  PROVE  /\ Grown \subseteq RequestTypes
         /\ \A r \in RequestTypes, entries \in [Ids -> Entries] :
              Fallback(r, id, entries) \subseteq RequestTypes
<1>1. Grown \subseteq RequestTypes
  <2>1. Requests \in RequestTypes
    BY DEF TypeOK, Requests, RequestTypes
  <2>2. \A j \in Ids : AskAndBump(Requests, j, inb[j]) \in RequestTypes
    BY <2>1, AskType DEF TypeOK
  <2> QED
    BY <2>1, <2>2 DEF Grown
<1>2. ASSUME NEW r \in RequestTypes, NEW entries \in [Ids -> Entries]
      PROVE  Fallback(r, id, entries) \subseteq RequestTypes
  <2>1. \A s \in RequestTypes : AskAndBump(Restart(s, id), id, entries[id]) \in RequestTypes
    BY AskType
  <2>2. \A j \in Ids : AskAndBump(r, j, entries[j]) \in RequestTypes
    BY AskType
  <2> QED
    BY <2>1, <2>2 DEF Fallback
<1> QED
  BY <1>1, <1>2

RequestsTypeOK ==
  /\ next_block \in [Ids -> 0 .. MaxBlock]
  /\ fresh \in [Ids -> BOOLEAN]
  /\ net \subseteq Ids \X (0 .. MaxBlock)

\* Whatever a block is answered with, the request state stays well formed.
LEMMA ReplyStep ==
  ASSUME TypeOK, NEW id \in Ids, inb' \in [Ids -> Entries],
         \/ \E touched \in BOOLEAN : ReplyEarly(id, touched)
         \/ \E e \in Entries, retry \in BOOLEAN : ReplyAtEnd(id, e, retry)
  PROVE  RequestsTypeOK'
<1>1. ASSUME NEW r \in RequestTypes, SetRequests(r) PROVE RequestsTypeOK'
  BY <1>1 DEF SetRequests, RequestTypes, RequestsTypeOK
<1>2. \A r \in RequestTypes : Fallback(r, id, inb') \subseteq RequestTypes
  BY ReplyTypes
<1>3. ASSUME NEW touched \in BOOLEAN, ReplyEarly(id, touched) PROVE RequestsTypeOK'
  <2>1. PICK g \in Grown :
          \E f \in Fallback([g EXCEPT !.fresh[id] = @ \/ touched], id, inb') : SetRequests(f)
    BY <1>3 DEF ReplyEarly
  <2>2. [g EXCEPT !.fresh[id] = @ \/ touched] \in RequestTypes
    <3>1. g \in RequestTypes
      BY ReplyTypes
    <3>2. (g.fresh[id] \/ touched) \in BOOLEAN
      OBVIOUS
    <3> QED
      BY <3>1, <3>2 DEF RequestTypes
  <2> QED
    BY <1>1, <1>2, <2>1, <2>2
<1>4. ASSUME NEW e \in Entries, NEW retry \in BOOLEAN, ReplyAtEnd(id, e, retry)
      PROVE  RequestsTypeOK'
  <2> DEFINE s(g) == AskAndBump([g EXCEPT !.fresh[id] = TRUE], id, e)
             r(g) == IF retry THEN Restart(s(g), id) ELSE s(g)
  <2>1. PICK g \in Grown :
          (\E f \in Fallback(r(g), id, inb') : SetRequests(f)) \/ SetRequests(r(g))
    BY <1>4 DEF ReplyAtEnd
  <2>2. s(g) \in RequestTypes
    <3>1. g \in RequestTypes
      BY ReplyTypes
    <3>2. [g EXCEPT !.fresh[id] = TRUE] \in RequestTypes
      BY <3>1 DEF RequestTypes
    <3> QED
      BY <3>2, AskType
  <2>3. r(g) \in RequestTypes
    BY <2>2, AskType
  <2> HIDE DEF s, r
  <2> QED
    BY <1>1, <1>2, <2>1, <2>2, <2>3
<1> QED
  BY <1>3, <1>4

-----------------------------------------------------------------------------
(* Entries and files.                                                      *)

\* Opening the mapping gives an entry and a file of the stated length.
LEMMA OpenedType ==
  ASSUME TypeOK, NEW m \in Messages
  PROVE  /\ Opened(m) \in Entries
         /\ Checked(m) \in Entries
         /\ OpenedFile(m) \in Files
<1> DEFINE e == inb[m.id]
           kept == e.bits \ {Blocks(m.eof) - 1}
<1>1. m.id \in Ids /\ m.eof \in 0 .. BlockSize * MaxBlock
  BY MessageType
<1>2. e \in Entries
  BY <1>1 DEF TypeOK
<1>3. BlockSize \in Nat /\ MaxBlock \in Nat
  BY SizeAssumption
<1>4. m.eof \in 0 .. InitEof
  <2>1. BlockSize * MaxBlock \in Nat /\ BlockSize * (MaxBlock + 1) = BlockSize * MaxBlock + BlockSize
    BY <1>3
  <2> QED
    BY <1>1, <1>3, <2>1 DEF InitEof
<1>5. kept \in SUBSET BlockNumbers
  BY <1>2 DEF Entries
<1>6. BlockSize * Cardinality({k \in kept : k < Blocks(m.eof)}) \in Int
  <2>1. Cardinality({k \in kept : k < Blocks(m.eof)}) \in Nat
    BY <1>5, BitsFinite
  <2> QED
    BY <1>3, <2>1
<1>7. Opened(m) \in Entries
  BY <1>2, <1>4, <1>5, <1>6 DEF Opened, Entries
<1>8. Checked(m) \in Entries
  <2>1. (Opened(m).segment_hashes \/ TreeOnDisk(m.id)) \in BOOLEAN
    OBVIOUS
  <2> QED
    BY <1>7, <2>1 DEF Checked, Entries
<1>9. OpenedFile(m) \in Files
  <2>1. incoming[m.id] \in Files
    BY <1>1 DEF TypeOK
  <2>2. Max2(incoming[m.id].len, m.eof) \in {-1} \cup (0 .. BlockSize * MaxBlock)
    BY <1>1, <1>3, <2>1 DEF Max2, Files
  <2> QED
    BY <2>1, <2>2 DEF OpenedFile, Files
<1> QED
  BY <1>7, <1>8, <1>9

\* A block that is taken is one of the file's, and so are its bit and its bytes.
LEMMA StoredType ==
  ASSUME TypeOK, NEW m \in Messages, NewBlock(m)
  PROVE  /\ Blk(m) \in BlockNumbers
         /\ Stored(m) \in Entries
         /\ StoredFile(m) \in Files
<1>1. Blk(m) \in BlockNumbers
  <2>1. Blk(m) \in Nat /\ m.eof \in 0 .. BlockSize * MaxBlock
    BY MessageType, BlkType
  <2>2. Blk(m) * BlockSize < m.eof
    <3>1. m.off < m.eof
      BY DEF NewBlock, InRange
    <3>2. m.off \in Nat /\ m.eof \in Int /\ Blk(m) * BlockSize \in Nat /\ Blk(m) * BlockSize <= m.off
      BY <2>1, MessageType, BlkType
    <3> QED
      BY <3>1, <3>2
  <2> QED
    BY <2>1, <2>2, BlockInFile
<1>2. Stored(m) \in Entries
  <2>1. Checked(m) \in Entries
    BY OpenedType
  <2>2. m.len \in Int
    BY MessageType, SizeAssumption
  <2>3. Checked(m).bytes_complete + m.len \in Int
    BY <2>1, <2>2 DEF Entries
  <2>4. Checked(m).bits \cup {Blk(m)} \in SUBSET BlockNumbers
    BY <1>1, <2>1 DEF Entries
  <2> QED
    BY <2>1, <2>3, <2>4 DEF Stored, Entries
<1>3. StoredFile(m) \in Files
  <2>1. OpenedFile(m) \in Files
    BY OpenedType
  <2> QED
    BY <2>1 DEF StoredFile, Written, Files, Values
<1> QED
  BY <1>1, <1>2, <1>3

\* A missing file and a missing entry have their types.
LEMMA AbsentType == Absent \in Files /\ NoEntry \in Entries
<1>1. BlockSize \in Nat /\ MaxBlock \in Nat /\ BlockSize * (MaxBlock + 1) \in Nat
  BY SizeAssumption
<1>2. NoEntry \in Entries
  BY <1>1 DEF NoEntry, Entries, InitEof, HashStates
<1> QED
  BY <1>1, <1>2 DEF Absent, Files, Values

DiskTypeOK ==
  /\ incoming \in [Ids -> Files]
  /\ bitmap \in [Ids -> SUBSET BlockNumbers]
  /\ public \in [Ids -> Files]

\* A tree is never handed to the hashing thread, and is checked three times at most.
TreesRetried ==
  \A id \in Ids : Kind[id] = "tree" =>
    inb[id].hash = "none" /\ (~inb[id].done => inb[id].hash_failures <= 2)

EntriesOK ==
  /\ inb \in [Ids -> Entries]
  /\ TreesRetried

-----------------------------------------------------------------------------
(* The steps.                                                              *)

IndInv == TypeOK /\ TreesRetried

\* An entry, a file and a bitmap are replaced by ones of their types.
LEMMA OpenStep ==
  ASSUME TypeOK, TreesRetried, NEW id \in Ids, NEW e \in Entries, NEW f \in Files,
         Open(id, e, f), public' = public,
         Kind[id] = "tree" => e.hash = "none" /\ (~e.done => e.hash_failures <= 2)
  PROVE  EntriesOK' /\ DiskTypeOK'
<1>1. inb' = [inb EXCEPT ![id] = e] /\ inb \in [Ids -> Entries]
  BY DEF Open, TypeOK
<1>2. TreesRetried'
  BY <1>1 DEF TreesRetried
<1>3. inb' \in [Ids -> Entries]
  BY <1>1
<1>4. e.bits \in SUBSET BlockNumbers
  BY DEF Entries
<1>5. DiskTypeOK'
  BY <1>4 DEF Open, DiskTypeOK, TypeOK
<1> QED
  BY <1>2, <1>3, <1>5 DEF EntriesOK

\* The hash and the failures of an entry are those it had before the block.
LEMMA SameHash ==
  ASSUME TypeOK, NEW m \in Messages
  PROVE  /\ Opened(m).hash = inb[m.id].hash /\ Checked(m).hash = inb[m.id].hash
         /\ Opened(m).done = inb[m.id].done /\ Checked(m).done = inb[m.id].done
         /\ Opened(m).hash_failures = inb[m.id].hash_failures
         /\ Checked(m).hash_failures = inb[m.id].hash_failures
<1>1. inb[m.id] \in Entries
  BY MessageType DEF TypeOK
<1>2. Opened(m) \in Entries
  BY OpenedType
<1> QED
  BY <1>1, <1>2 DEF Opened, Checked, Entries

\* The same of the entry with the block in it.
LEMMA SameHashStored ==
  ASSUME TypeOK, NEW m \in Messages
  PROVE  /\ Stored(m).hash = inb[m.id].hash /\ Stored(m).done = inb[m.id].done
         /\ Stored(m).hash_failures = inb[m.id].hash_failures
<1>1. Checked(m) \in Entries
  BY OpenedType
<1> QED
  BY <1>1, SameHash DEF Stored, Entries

\* Nothing is written: a duplicate, a refused length, a block that is there,
\* one past the end, or one that no leaf vouches for.
LEMMA IgnoredStep ==
  ASSUME IndInv, NEW m \in Messages,
         \/ LateDuplicate(m) \/ RefuseEof(m) \/ PastEof(m) \/ NothingNew(m)
         \/ NotReady(m) \/ CvMismatch(m)
  PROVE  IndInv'
<1> USE DEF IndInv
<1>0. /\ m.id \in Ids /\ Opened(m) \in Entries /\ Checked(m) \in Entries
      /\ OpenedFile(m) \in Files
  BY MessageType, OpenedType
<1>1. /\ Kind[m.id] = "tree" =>
           Opened(m).hash = "none" /\ (~Opened(m).done => Opened(m).hash_failures <= 2)
      /\ Kind[m.id] = "tree" =>
           Checked(m).hash = "none" /\ (~Checked(m).done => Checked(m).hash_failures <= 2)
  BY <1>0, SameHash DEF TreesRetried
<1>2. EntriesOK' /\ DiskTypeOK'
  <2>1. CASE LateDuplicate(m) \/ RefuseEof(m)
    BY <2>1 DEF LateDuplicate, RefuseEof, disk, EntriesOK, DiskTypeOK, TypeOK, TreesRetried
  <2>2. CASE PastEof(m) \/ NothingNew(m)
    BY <1>0, <1>1, <2>2, OpenStep DEF PastEof, NothingNew
  <2>3. CASE NotReady(m) \/ CvMismatch(m)
    BY <1>0, <1>1, <2>3, OpenStep DEF NotReady, CvMismatch
  <2> QED
    BY <2>1, <2>2, <2>3
<1>3. RequestsTypeOK'
  <2>1. \/ \E touched \in BOOLEAN : ReplyEarly(m.id, touched)
        \/ ReplyAtEnd(m.id, Opened(m), FALSE)
    BY DEF LateDuplicate, RefuseEof, PastEof, NothingNew, NotReady, CvMismatch
  <2> QED
    BY <1>0, <1>2, <2>1, ReplyStep DEF EntriesOK
<1> QED
  BY <1>2, <1>3 DEF EntriesOK, DiskTypeOK, RequestsTypeOK, TypeOK

\* Publishing moves a file and leaves a bitmap.
LEMMA PublishStep ==
  ASSUME TypeOK, NEW id \in Ids, NEW f \in Files, NEW keep \in SUBSET BlockNumbers,
         Publish(id, f, keep)
  PROVE  DiskTypeOK'
BY AbsentType DEF Publish, DiskTypeOK, TypeOK

\* The block is written, and perhaps was the last.
LEMMA StoredStep ==
  ASSUME IndInv, NEW m \in Messages,
         StoreBlock(m) \/ CompleteBlake3(m) \/ CompleteSha256(m)
  PROVE  IndInv'
<1> USE DEF IndInv
<1>0. Verified(m) /\ NewBlock(m)
  BY DEF StoreBlock, CompleteBlake3, CompleteSha256, Verified
<1>1. m.id \in Ids /\ Stored(m) \in Entries /\ StoredFile(m) \in Files
  BY <1>0, MessageType, StoredType
<1>2. Kind[m.id] = "tree" =>
        Stored(m).hash = "none" /\ (~Stored(m).done => Stored(m).hash_failures <= 2)
  BY <1>1, SameHashStored DEF TreesRetried
<1>3. CASE StoreBlock(m)
  <2>1. EntriesOK' /\ DiskTypeOK'
    BY <1>1, <1>2, <1>3, OpenStep DEF StoreBlock
  <2>2. RequestsTypeOK'
    BY <1>1, <1>3, <2>1, ReplyStep DEF StoreBlock, EntriesOK
  <2> QED
    BY <2>1, <2>2 DEF EntriesOK, DiskTypeOK, RequestsTypeOK, TypeOK
<1>4. CASE CompleteBlake3(m)
  <2> DEFINE e == [Stored(m) EXCEPT !.done = TRUE]
  <2>1. e \in Entries /\ Kind[m.id] # "tree"
    BY <1>1, <1>4 DEF Entries, CompleteBlake3
  <2>2. ASSUME Open(m.id, e, StoredFile(m)), UNCHANGED public
        PROVE  EntriesOK' /\ DiskTypeOK'
    BY <1>1, <2>1, <2>2, OpenStep
  <2>3. ASSUME inb' = [inb EXCEPT ![m.id] = e], Publish(m.id, StoredFile(m), {})
        PROVE  EntriesOK' /\ DiskTypeOK'
    <3>1. DiskTypeOK'
      BY <1>1, <2>3, PublishStep
    <3>2. inb' \in [Ids -> Entries]
      BY <2>1, <2>3 DEF TypeOK
    <3>3. TreesRetried'
      BY <2>1, <2>3 DEF TreesRetried, TypeOK
    <3> QED
      BY <3>1, <3>2, <3>3 DEF EntriesOK
  <2>4. EntriesOK' /\ DiskTypeOK'
    BY <1>4, <2>2, <2>3 DEF CompleteBlake3
  <2>5. ReplyAtEnd(m.id, e, FALSE)
    BY <1>4 DEF CompleteBlake3
  <2>6. RequestsTypeOK'
    BY <1>1, <2>1, <2>4, <2>5, ReplyStep DEF EntriesOK
  <2> QED
    BY <2>4, <2>6 DEF EntriesOK, DiskTypeOK, RequestsTypeOK, TypeOK
<1>5. CASE CompleteSha256(m)
  <2>1. PICK readOnly \in MmapResults :
          LET e == [Stored(m) EXCEPT !.mapped = FALSE,
                                     !.hash = IF readOnly THEN "running" ELSE @]
          IN  Open(m.id, e, StoredFile(m)) /\ ReplyAtEnd(m.id, e, FALSE)
    BY <1>5 DEF CompleteSha256
  <2> DEFINE e == [Stored(m) EXCEPT !.mapped = FALSE,
                                    !.hash = IF readOnly THEN "running" ELSE @]
  <2>2. e \in Entries /\ Kind[m.id] # "tree"
    BY <1>1, <1>5 DEF Entries, HashStates, CompleteSha256
  <2>3. EntriesOK' /\ DiskTypeOK'
    BY <1>1, <1>5, <2>1, <2>2, OpenStep DEF CompleteSha256
  <2>4. RequestsTypeOK'
    BY <1>1, <2>1, <2>2, <2>3, ReplyStep DEF EntriesOK
  <2> QED
    BY <2>3, <2>4 DEF EntriesOK, DiskTypeOK, RequestsTypeOK, TypeOK
<1> QED
  BY <1>3, <1>4, <1>5

\* The tree is published, or the blocks its check found bad are wanted again.
LEMMA TreeStep ==
  ASSUME IndInv, NEW m \in Messages, CompleteTree(m)
  PROVE  IndInv'
<1> USE DEF IndInv
<1>0. Verified(m) /\ NewBlock(m) /\ Kind[m.id] = "tree"
  BY DEF CompleteTree, Verified
<1>1. m.id \in Ids /\ Stored(m) \in Entries /\ StoredFile(m) \in Files
  BY <1>0, MessageType, StoredType
<1>2. Stored(m).hash = "none" /\ ~Stored(m).done /\ Stored(m).hash_failures <= 2
  <2>1. ~inb[m.id].done
    BY <1>0 DEF NewBlock, InRange, Accepted, Wanted
  <2> QED
    BY <1>0, <1>1, <2>1, SameHashStored DEF TreesRetried
<1>3. ASSUME PublishTree(m)
      PROVE  EntriesOK' /\ DiskTypeOK'
  <2> DEFINE done == [Stored(m) EXCEPT !.done = TRUE, !.mapped = FALSE]
             failed == [Stored(m) EXCEPT !.done = TRUE]
  <2>1. done \in Entries /\ failed \in Entries
    BY <1>1 DEF Entries
  <2>2. CASE Open(m.id, failed, StoredFile(m)) /\ UNCHANGED public
    <3>1. failed.hash = "none" /\ failed.done
      BY <1>1, <1>2 DEF Entries
    <3> HIDE DEF failed
    <3> QED
      BY <1>1, <2>1, <2>2, <3>1, OpenStep
  <2>3. ASSUME NEW handed \in MmapResults,
               inb' = [j \in Ids |->
                         IF j = m.id THEN done
                         ELSE IF j \in BlakeIds /\ inb[j].live /\ TreeOf[j] = m.id /\ handed
                         THEN [inb[j] EXCEPT !.segment_hashes = TRUE]
                         ELSE inb[j]],
               Publish(m.id, StoredFile(m), Stored(m).bits)
        PROVE  EntriesOK' /\ DiskTypeOK'
    <3>1. \A j \in Ids : [inb[j] EXCEPT !.segment_hashes = TRUE] \in Entries
      BY ZenonT(40) DEF TypeOK, Entries
    <3>2. inb' \in [Ids -> Entries]
      BY <2>1, <2>3, <3>1 DEF TypeOK
    <3>3. TreesRetried'
      <4>1. done.hash = "none" /\ done.done
        BY <1>1, <1>2 DEF Entries
      <4> HIDE DEF done
      <4>2. SUFFICES ASSUME NEW j \in Ids, Kind[j] = "tree"
                     PROVE  inb'[j].hash = "none" /\ (~inb'[j].done => inb'[j].hash_failures <= 2)
        BY DEF TreesRetried
      <4>3. CASE j = m.id
        BY <1>1, <2>3, <4>1, <4>3
      <4>4. CASE j # m.id
        <5>1. inb'[j] = inb[j]
          BY <2>3, <4>2, <4>4 DEF BlakeIds
        <5> QED
          BY <4>2, <5>1 DEF TreesRetried
      <4> QED
        BY <4>3, <4>4
    <3>4. DiskTypeOK'
      <4>1. Stored(m).bits \in SUBSET BlockNumbers
        BY <1>1 DEF Entries
      <4> QED
        BY <1>1, <2>3, <4>1, PublishStep
    <3> QED
      BY <3>2, <3>3, <3>4 DEF EntriesOK
  <2> QED
    BY <1>3, <2>2, <2>3 DEF PublishTree
<1>4. ASSUME NEW bad, RetryTree(m, bad)
      PROVE  EntriesOK' /\ DiskTypeOK'
  <2> DEFINE e == [Stored(m) EXCEPT !.hash_failures = @ + 1]
             n == Max2(0, e.bytes_complete - BytesOf(bad \cap e.bits, e.eof))
             f == IF e.hash_failures > 2 THEN [e EXCEPT !.done = TRUE]
                  ELSE [e EXCEPT !.bits = @ \ bad, !.bytes_complete = n]
  <2>1. e \in Entries /\ e.hash = "none" /\ e.hash_failures \in 0 .. 3
    BY <1>1, <1>2 DEF Entries
  <2>2. n \in Int
    <3>1. BlockSize \in Int /\ Cardinality(bad \cap e.bits) \in Int
      <4>1. bad \cap e.bits \in SUBSET BlockNumbers
        BY <2>1 DEF Entries
      <4> QED
        BY <4>1, BitsFinite, SizeAssumption
    <3>2. Blocks(e.eof) \in Int
      <4>1. e.eof \in Int
        BY <2>1, SizeAssumption DEF Entries, InitEof
      <4> QED
        BY <4>1, SizeAssumption DEF Blocks
    <3>3. BlockLen(Blocks(e.eof) - 1, e.eof) \in Int
      <4>1. e.eof \in Int
        BY <2>1, SizeAssumption DEF Entries, InitEof
      <4>2. (Blocks(e.eof) - 1) * BlockSize \in Int
        BY <3>1, <3>2
      <4> QED
        BY <3>1, <4>1, <4>2 DEF BlockLen, Max2, Min2
    <3>4. BytesOf(bad \cap e.bits, e.eof) \in Int
      BY <3>1, <3>3 DEF BytesOf
    <3>5. e.bytes_complete \in Int
      BY <2>1 DEF Entries
    <3> QED
      BY <3>4, <3>5 DEF Max2
  <2>3. f \in Entries /\ f.hash = "none" /\ (~f.done => f.hash_failures <= 2)
    <3> HIDE DEF n, e
    <3>1. CASE e.hash_failures > 2
      BY <2>1, <3>1 DEF Entries
    <3>2. CASE ~(e.hash_failures > 2)
      <4>1. e.bits \ bad \in SUBSET BlockNumbers
        BY <2>1 DEF Entries
      <4>2. f = [e EXCEPT !.bits = e.bits \ bad, !.bytes_complete = n]
        BY <3>2
      <4>3. f \in Entries
        BY <2>1, <2>2, <4>1, <4>2 DEF Entries
      <4>4. f.hash = e.hash /\ f.hash_failures = e.hash_failures
        BY <2>1, <4>2 DEF Entries
      <4> QED
        BY <2>1, <3>2, <4>3, <4>4
    <3> QED
      BY <3>1, <3>2
  <2>4. Open(m.id, f, StoredFile(m)) /\ public' = public
    BY <1>4 DEF RetryTree
  <2> HIDE DEF f
  <2> QED
    BY <1>1, <2>3, <2>4, OpenStep
<1>5. EntriesOK' /\ DiskTypeOK'
  BY <1>3, <1>4 DEF CompleteTree
<1>6. RequestsTypeOK'
  <2>1. PICK bad \in BadBlocks(m.id, StoredFile(m), m.eof) :
          ReplyAtEnd(m.id, Stored(m), bad # {} /\ ~inb'[m.id].done)
    BY DEF CompleteTree
  <2>2. (bad # {} /\ ~inb'[m.id].done) \in BOOLEAN
    OBVIOUS
  <2> QED
    BY <1>1, <1>5, <2>1, <2>2, ReplyStep DEF EntriesOK
<1> QED
  BY <1>5, <1>6 DEF EntriesOK, DiskTypeOK, RequestsTypeOK, TypeOK

\* A block that arrives.
LEMMA ReceiveStep ==
  ASSUME IndInv, NEW m \in Messages, Receive(m)
  PROVE  IndInv'
BY IgnoredStep, StoredStep, TreeStep DEF Receive

\* The process is started again: no entries, no requests of its own.
LEMMA RestartingStep ==
  ASSUME IndInv, Restarting, DiskTypeOK'
  PROVE  IndInv'
<1>1. inb' \in [Ids -> Entries]
  BY AbsentType DEF Restarting
<1>2. TreesRetried'
  BY DEF Restarting, NoEntry, TreesRetried
<1>3. RequestsTypeOK'
  BY SizeAssumption DEF Restarting, RequestsTypeOK, IndInv, TypeOK
<1> QED
  BY <1>1, <1>2, <1>3 DEF DiskTypeOK, RequestsTypeOK, TypeOK, IndInv

Dying ==
  \/ Crash \/ CrashInRename
  \/ \E m \in Messages : PanicInReceive(m) \/ CrashInWrite(m)

\* The process dies between two handlers, in a write or in a rename, or panics.
LEMMA CrashStep ==
  ASSUME IndInv, Dying
  PROVE  IndInv'
<1>1. Restarting
  BY DEF Dying, Crash, PanicInReceive, CrashInWrite, CrashInRename
<1>0. ASSUME NEW m \in Messages, PanicInReceive(m) PROVE DiskTypeOK'
  <2>1. OpenedFile(m) \in Files /\ Opened(m).bits \in SUBSET BlockNumbers
    BY OpenedType DEF IndInv, Entries
  <2> QED
    BY <1>0, <2>1 DEF PanicInReceive, DiskTypeOK, IndInv, TypeOK
<1>2. ASSUME NEW m \in Messages, CrashInWrite(m) PROVE DiskTypeOK'
  <2>1. NewBlock(m)
    BY <1>2 DEF CrashInWrite, Verified
  <2>2. StoredFile(m) \in Files /\ Opened(m).bits \in SUBSET BlockNumbers
    BY <2>1, StoredType, OpenedType DEF IndInv, Entries
  <2> QED
    BY <1>2, <2>2 DEF CrashInWrite, DiskTypeOK, IndInv, TypeOK
<1>3. ASSUME CrashInRename PROVE DiskTypeOK'
  <2>1. ASSUME NEW m \in Messages, Verified(m), Publish(m.id, StoredFile(m), Stored(m).bits)
        PROVE  DiskTypeOK'
    <3>1. NewBlock(m)
      BY <2>1 DEF Verified
    <3>2. StoredFile(m) \in Files /\ Stored(m).bits \in SUBSET BlockNumbers
      BY <3>1, StoredType DEF IndInv, Entries
    <3> QED
      BY <2>1, <3>2, MessageType, PublishStep DEF IndInv
  <2>2. ASSUME NEW id \in Ids, Publish(id, incoming[id], bitmap[id])
        PROVE  DiskTypeOK'
    <3>1. incoming[id] \in Files /\ bitmap[id] \in SUBSET BlockNumbers
      BY DEF IndInv, TypeOK
    <3> QED
      BY <2>2, <3>1, PublishStep DEF IndInv
  <2> QED
    BY <1>3, <2>1, <2>2 DEF CrashInRename
<1>4. DiskTypeOK'
  <2>1. CASE Crash
    BY <2>1 DEF Crash, disk, DiskTypeOK, IndInv, TypeOK
  <2> QED
    BY <1>0, <1>2, <1>3, <2>1 DEF Dying
<1> QED
  BY <1>1, <1>4, RestartingStep

\* A download is begun, with that of its tree.
LEMMA GetStep ==
  ASSUME IndInv, NEW id \in Ids, Get(id)
  PROVE  IndInv'
<1> USE DEF IndInv
<1> DEFINE news == {id} \cup
             (IF Kind[id] = "blake3" /\ ~TreeOnDisk(id) /\ ~inb[TreeOf[id]].live
              THEN {TreeOf[id]} ELSE {})
<1>1. /\ inb' = [j \in Ids |-> IF j \in news THEN NewEntry(j) ELSE inb[j]]
      /\ next_block' = [j \in Ids |-> IF j \in news THEN 0 ELSE next_block[j]]
      /\ fresh' = [j \in Ids |-> j \in news \/ fresh[j]]
      /\ net' = net \cup {<<j, 0>> : j \in news}
      /\ UNCHANGED disk
  BY DEF Get
<1>2. news \subseteq Ids
  <2>1. Kind[id] = "blake3" => TreeOf[id] \in Ids
    BY TreeAssumption DEF BlakeIds
  <2> QED
    BY <2>1
<1> HIDE DEF news
<1>3. \A j \in Ids : /\ NewEntry(j) \in Entries
                     /\ NewEntry(j).hash = "none" /\ NewEntry(j).hash_failures = 0
  <2>1. \A j \in Ids : TreeOnDisk(j) \in BOOLEAN /\ bitmap[j] \in SUBSET BlockNumbers
    BY DEF TreeOnDisk, TypeOK
  <2>2. NoEntry \in Entries /\ NoEntry.hash = "none" /\ NoEntry.hash_failures = 0
    BY AbsentType DEF NoEntry
  <2> HIDE DEF NoEntry
  <2> QED
    BY <2>1, <2>2 DEF NewEntry, Entries
<1>4. inb' \in [Ids -> Entries] /\ TreesRetried'
  <2>1. inb' \in [Ids -> Entries]
    BY <1>1, <1>3 DEF TypeOK
  <2>2. \A j \in Ids : inb'[j] = NewEntry(j) \/ inb'[j] = inb[j]
    BY <1>1
  <2>3. TreesRetried'
    BY <1>3, <2>2 DEF TreesRetried
  <2> QED
    BY <2>1, <2>3
<1>5. next_block' \in [Ids -> 0 .. MaxBlock]
  BY <1>1, SizeAssumption DEF TypeOK
<1>6. net' \subseteq Ids \X (0 .. MaxBlock)
  BY <1>1, <1>2, SizeAssumption DEF TypeOK
<1>7. fresh' \in [Ids -> BOOLEAN]
  BY <1>1 DEF TypeOK
<1> QED
  BY <1>1, <1>4, <1>5, <1>6, <1>7 DEF TypeOK, disk

\* The thread ends, a second passes or a packet is lost.
LEMMA OtherSteps ==
  ASSUME IndInv,
         \/ \E id \in Ids : HashDone(id) \/ HashDies(id) \/ Quiet(id)
         \/ \E q \in net : Lose(q)
  PROVE  IndInv'
<1> USE DEF IndInv
<1>1. ASSUME NEW id \in Ids, NEW h \in HashStates, inb[id].hash = "running",
             inb' = [inb EXCEPT ![id].hash = h], UNCHANGED <<disk, next_block, fresh, net>>
      PROVE  IndInv'
  <2>1. inb' \in [Ids -> Entries]
    <3>1. inb[id] \in Entries /\ inb \in [Ids -> Entries]
      BY DEF TypeOK
    <3>2. [inb[id] EXCEPT !.hash = h] \in Entries
      BY <3>1 DEF Entries
    <3>3. inb' = [inb EXCEPT ![id] = [inb[id] EXCEPT !.hash = h]]
      BY <1>1
    <3> QED
      BY <3>1, <3>2, <3>3
  <2>2. Kind[id] # "tree"
    BY <1>1 DEF TreesRetried
  <2>3. TreesRetried'
    BY <1>1, <2>2 DEF TreesRetried, TypeOK
  <2> QED
    BY <1>1, <2>1, <2>3 DEF TypeOK, disk
<1>2. ASSUME NEW id \in Ids, HashDone(id) \/ HashDies(id) PROVE IndInv'
  <2>1. CASE HashDies(id)
    <3>1. "dead" \in HashStates
      BY DEF HashStates
    <3> QED
      BY <1>1, <2>1, <3>1 DEF HashDies
  <2>2. CASE HashDone(id)
    <3> DEFINE h == IF HashMatches(id, incoming[id], inb[id].eof) THEN "match" ELSE "mismatch"
    <3>1. h \in HashStates
      BY DEF HashStates
    <3>2. /\ inb[id].hash = "running" /\ inb' = [inb EXCEPT ![id].hash = h]
          /\ UNCHANGED <<disk, next_block, fresh, net>>
      BY <2>2 DEF HashDone
    <3> HIDE DEF h
    <3> QED
      BY <1>1, <3>1, <3>2
  <2> QED
    BY <1>2, <2>1, <2>2
<1>3. ASSUME NEW id \in Ids, Quiet(id) PROVE IndInv'
  BY <1>3 DEF Quiet, disk, TypeOK, TreesRetried
<1>4. ASSUME NEW q \in net, Lose(q) PROVE IndInv'
  BY <1>4 DEF Lose, disk, TypeOK, TreesRetried
<1> QED
  BY <1>2, <1>3, <1>4

\* What finished() makes of an entry.
LEMMA FinishedType ==
  ASSUME IndInv, NEW id \in Ids, NEW remapped \in BOOLEAN
  PROVE  /\ Finished(id, remapped) \in Entries
         /\ Kind[id] = "tree" =>
              /\ Finished(id, remapped).hash = "none"
              /\ ~Finished(id, remapped).done => Finished(id, remapped).hash_failures <= 2
<1> DEFINE e == inb[id]
<1>1. e \in Entries /\ e.hash_failures \in 0 .. 3
  BY DEF IndInv, TypeOK, Entries
<1>2. NoEntry \in Entries /\ NoEntry.hash = "none" /\ NoEntry.hash_failures = 0
  BY AbsentType DEF NoEntry
<1>3. Finished(id, remapped) \in Entries
  <2>1. ASSUME e.hash_failures < 2
        PROVE  [e EXCEPT !.hash = "none", !.hash_failures = @ + 1, !.mapped = remapped,
                         !.bits = {}, !.bytes_complete = 0] \in Entries
    <3>1. e.hash_failures + 1 \in 0 .. 3
      BY <1>1, <2>1
    <3>2. {} \in SUBSET BlockNumbers /\ "none" \in HashStates /\ 0 \in Int
      BY DEF HashStates
    <3> HIDE DEF e
    <3> QED
      BY <1>1, <3>1, <3>2 DEF Entries
  <2>2. [e EXCEPT !.hash = "none", !.hash_failures = Min2(@ + 1, 3)] \in Entries
    <3>1. Min2(e.hash_failures + 1, 3) \in 0 .. 3
      BY <1>1 DEF Min2
    <3> QED
      BY <1>1, <3>1 DEF Entries, HashStates
  <2>3. e.hash_failures >= 2 \/ e.hash_failures < 2
    BY <1>1
  <2> QED
    BY <1>1, <1>2, <2>1, <2>2, <2>3 DEF Finished
<1>4. Kind[id] = "tree" => Finished(id, remapped) \in {NoEntry, e}
  BY DEF Finished, IndInv, TreesRetried
<1> QED
  BY <1>2, <1>3, <1>4 DEF IndInv, TreesRetried

\* maintenance() keeps the invariant: it restarts stalled entries and drops finished ones.
LEMMA MaintainStep ==
  ASSUME IndInv, NEW asked \in SUBSET Ids, Maintain(asked)
  PROVE  IndInv'
<1> USE DEF IndInv
<1>1. PICK remapped \in MmapResults : inb' = [id \in Ids |-> Finished(id, remapped)]
  BY DEF Maintain
<1>2. remapped \in BOOLEAN
  BY DEF MmapResults
<1>3. inb' \in [Ids -> Entries]
  BY <1>1, <1>2, FinishedType
<1>4. TreesRetried'
  BY <1>1, <1>2, FinishedType DEF TreesRetried
<1>5. \A id \in Ids : FirstMissing(inb'[id], 0) \in 0 .. MaxBlock
  BY <1>3, FirstMissingType, SizeAssumption
<1>6. \A id \in Ids : Restarted(id) \in 0 .. MaxBlock
  BY SizeAssumption DEF Restarted, TypeOK
<1>7. next_block' \in [Ids -> 0 .. MaxBlock]
  BY <1>5, <1>6 DEF Maintain
<1>8. fresh' \in [Ids -> BOOLEAN]
  BY DEF Maintain
<1>9. net' \subseteq Ids \X (0 .. MaxBlock)
  BY <1>5 DEF Maintain, TypeOK
<1>10. DiskTypeOK'
  BY AbsentType DEF Maintain, DiskTypeOK, TypeOK
<1> QED
  BY <1>3, <1>4, <1>7, <1>8, <1>9, <1>10 DEF TypeOK, DiskTypeOK

\* The invariant is inductive.
LEMMA IndInvStep == IndInv /\ [Next]_vars => IndInv'
<1>1. SUFFICES ASSUME IndInv, [Next]_vars PROVE IndInv'
  OBVIOUS
<1>2. CASE UNCHANGED vars
  BY <1>1, <1>2 DEF vars, IndInv, TypeOK, TreesRetried
<1>3. ASSUME NEW m \in Messages, Receive(m) PROVE IndInv'
  BY <1>1, <1>3, ReceiveStep
<1>4. ASSUME NEW id \in Ids, Get(id) PROVE IndInv'
  BY <1>1, <1>4, GetStep
<1>5. ASSUME Maintenance PROVE IndInv'
  BY <1>1, <1>5, MaintainStep DEF Maintenance
<1>6. ASSUME \/ \E id \in Ids : HashDone(id) \/ HashDies(id) \/ Quiet(id)
             \/ \E q \in net : Lose(q)
      PROVE  IndInv'
  BY <1>1, <1>6, OtherSteps
<1>7. ASSUME Dying PROVE IndInv'
  BY <1>1, <1>7, CrashStep
<1> QED
  BY <1>1, <1>2, <1>3, <1>4, <1>5, <1>6, <1>7 DEF Next, Dying

\* The invariant holds when nothing has been asked for yet.
LEMMA IndInvInit == Init => IndInv
<1>1. SUFFICES ASSUME Init PROVE IndInv
  OBVIOUS
<1>2. TypeOK
  BY <1>1, AbsentType, SizeAssumption DEF Init, TypeOK
<1>3. TreesRetried
  BY <1>1 DEF Init, TreesRetried, NoEntry
<1> QED
  BY <1>2, <1>3 DEF IndInv

\* The variables keep their types, for every number and kind of downloads, every
\* block size and length, whatever arrives and whatever fails: block numbers and
\* lengths are bounded by the largest file, and failures are counted to three.
THEOREM TypeCorrect == Spec => []TypeOK
<1>1. IndInv => TypeOK
  BY DEF IndInv
<1> QED
  BY IndInvInit, IndInvStep, <1>1, PTL DEF Spec

-----------------------------------------------------------------------------
(* The verdict of the hashing thread.                                      *)

Untouched(id) ==
  /\ inb[id].hash = "match"
  /\ inb'[id].eof = inb[id].eof
  /\ incoming'[id] = incoming[id]

\* An entry that is replaced by one without a verdict leaves the others alone.
LEMMA ReplacedElsewhere ==
  ASSUME IndInv, NEW i \in Ids, NEW e \in Entries, e.hash # "match", NEW f,
         inb' = [inb EXCEPT ![i] = e], incoming' = [incoming EXCEPT ![i] = f],
         NEW id \in Ids, inb'[id].hash = "match"
  PROVE  Untouched(id)
<1>1. inb \in [Ids -> Entries] /\ incoming \in [Ids -> Files]
  BY DEF IndInv, TypeOK
<1>2. id # i
  BY <1>1
<1> QED
  BY <1>1, <1>2 DEF Untouched

\* A block that arrives never touches a file whose verdict is out.
LEMMA ReceiveUntouched ==
  ASSUME IndInv, NEW m \in Messages, Receive(m), NEW id \in Ids, inb'[id].hash = "match"
  PROVE  Untouched(id)
<1>1. CASE LateDuplicate(m) \/ RefuseEof(m)
  BY <1>1 DEF LateDuplicate, RefuseEof, disk, Untouched
<1>2. ASSUME Wanted(m)
      PROVE  /\ m.id \in Ids /\ Opened(m).hash = "none" /\ Checked(m).hash = "none"
             /\ Stored(m).hash = "none" /\ Opened(m) \in Entries /\ Checked(m) \in Entries
  BY <1>2, MessageType, SameHash, SameHashStored, OpenedType DEF Wanted, IndInv
<1>3. CASE PastEof(m) \/ NothingNew(m) \/ NotReady(m) \/ CvMismatch(m)
  <2>1. Wanted(m)
    BY <1>3 DEF PastEof, NothingNew, NotReady, CvMismatch, NewBlock, InRange, Accepted
  <2>2. PICK e \in {Opened(m), Checked(m)} : Open(m.id, e, OpenedFile(m))
    BY <1>3 DEF PastEof, NothingNew, NotReady, CvMismatch
  <2> QED
    BY <1>2, <2>1, <2>2, ReplacedElsewhere DEF Open
<1>4. CASE StoreBlock(m) \/ CompleteBlake3(m) \/ CompleteSha256(m) \/ CompleteTree(m)
  <2>1. NewBlock(m) /\ Wanted(m)
    BY <1>4 DEF StoreBlock, CompleteBlake3, CompleteSha256, CompleteTree, Verified,
                NewBlock, InRange, Accepted
  <2>2. /\ m.id \in Ids /\ Stored(m) \in Entries /\ Stored(m).hash = "none"
        /\ StoredFile(m) \in Files
    BY <1>2, <2>1, StoredType DEF IndInv
  <2>3. ASSUME NEW e \in Entries, NEW f, e.hash # "match",
               inb' = [inb EXCEPT ![m.id] = e], incoming' = [incoming EXCEPT ![m.id] = f]
        PROVE  Untouched(id)
    BY <2>2, <2>3, ReplacedElsewhere
  <2>4. CASE StoreBlock(m)
    BY <2>2, <2>3, <2>4 DEF StoreBlock, Open
  <2>5. CASE CompleteBlake3(m)
    <3> DEFINE e == [Stored(m) EXCEPT !.done = TRUE]
    <3>1. e \in Entries /\ e.hash # "match"
      BY <2>2 DEF Entries
    <3>2. \/ inb' = [inb EXCEPT ![m.id] = e] /\ Publish(m.id, StoredFile(m), {})
          \/ Open(m.id, e, StoredFile(m))
      BY <2>5 DEF CompleteBlake3
    <3> HIDE DEF e
    <3> QED
      BY <2>3, <3>1, <3>2 DEF Publish, Open
  <2>6. CASE CompleteSha256(m)
    <3>1. PICK readOnly \in MmapResults :
            Open(m.id, [Stored(m) EXCEPT !.mapped = FALSE,
                                         !.hash = IF readOnly THEN "running" ELSE @],
                 StoredFile(m))
      BY <2>6 DEF CompleteSha256
    <3> DEFINE e == [Stored(m) EXCEPT !.mapped = FALSE,
                                      !.hash = IF readOnly THEN "running" ELSE @]
    <3>2. e \in Entries /\ e.hash # "match"
      BY <2>2 DEF Entries, HashStates
    <3>3. Open(m.id, e, StoredFile(m))
      BY <3>1
    <3> HIDE DEF e
    <3> QED
      BY <2>3, <3>2, <3>3 DEF Open
  <2>7. CASE CompleteTree(m)
    <3> DEFINE done == [Stored(m) EXCEPT !.done = TRUE, !.mapped = FALSE]
               failed == [Stored(m) EXCEPT !.done = TRUE]
    <3>1. /\ done \in Entries /\ done.hash # "match"
          /\ failed \in Entries /\ failed.hash # "match"
      BY <2>2 DEF Entries
    <3>2. ASSUME PublishTree(m) PROVE Untouched(id)
      <4>1. CASE Open(m.id, failed, StoredFile(m))
        <5> HIDE DEF failed
        <5> QED
          BY <2>3, <3>1, <4>1 DEF Open
      <4>2. ASSUME NEW handed \in MmapResults,
                   inb' = [j \in Ids |->
                             IF j = m.id THEN done
                             ELSE IF j \in BlakeIds /\ inb[j].live /\ TreeOf[j] = m.id /\ handed
                             THEN [inb[j] EXCEPT !.segment_hashes = TRUE]
                             ELSE inb[j]],
                   Publish(m.id, StoredFile(m), Stored(m).bits)
            PROVE  Untouched(id)
        <5> HIDE DEF done
        <5>1. id # m.id
          BY <3>1, <4>2, <2>2
        <5>2. incoming'[id] = incoming[id]
          BY <4>2, <5>1 DEF Publish, IndInv, TypeOK
        <5>3. inb'[id] = inb[id] \/ inb'[id] = [inb[id] EXCEPT !.segment_hashes = TRUE]
          BY <4>2, <5>1
        <5>4. inb[id] \in Entries
          BY DEF IndInv, TypeOK
        <5>5. inb'[id].hash = inb[id].hash /\ inb'[id].eof = inb[id].eof
          BY <5>3, <5>4 DEF Entries
        <5> QED
          BY <5>2, <5>5 DEF Untouched
      <4> QED
        BY <3>2, <4>1, <4>2 DEF PublishTree
    <3>3. ASSUME NEW bad, RetryTree(m, bad) PROVE Untouched(id)
      <4>1. /\ inb'[m.id].hash # "match"
            /\ \A j \in Ids \ {m.id} : inb'[j] = inb[j] /\ incoming'[j] = incoming[j]
        <5> DEFINE e == [Stored(m) EXCEPT !.hash_failures = @ + 1]
                   n == Max2(0, e.bytes_complete - BytesOf(bad \cap e.bits, e.eof))
                   f == IF e.hash_failures > 2 THEN [e EXCEPT !.done = TRUE]
                        ELSE [e EXCEPT !.bits = @ \ bad, !.bytes_complete = n]
        <5>1. Open(m.id, f, StoredFile(m))
          BY <3>3 DEF RetryTree
        <5>2. f.hash = "none"
          <6>1. e.hash = "none" /\ DOMAIN e = DOMAIN Stored(m)
            BY <2>2 DEF Entries
          <6>2. DOMAIN Stored(m) = {"live", "eof", "mapped", "bits", "bytes_complete",
                                    "hash_failures", "hash", "segment_hashes", "done"}
            BY <2>2 DEF Entries
          <6> HIDE DEF e, n
          <6> QED
            BY <6>1, <6>2
        <5> HIDE DEF f
        <5> QED
          BY <2>2, <5>1, <5>2 DEF Open, IndInv, TypeOK
      <4> QED
        BY <4>1 DEF Untouched
    <3> QED
      BY <2>7, <3>2, <3>3 DEF CompleteTree
  <2> QED
    BY <1>4, <2>4, <2>5, <2>6, <2>7
<1> QED
  BY <1>1, <1>3, <1>4 DEF Receive

\* No step makes a verdict stale: it is set by the thread from the file as it is,
\* and while it stands nothing writes to the file.
LEMMA VerdictStep == IndInv /\ VerdictNotStale /\ [Next]_vars => VerdictNotStale'
<1>1. SUFFICES ASSUME IndInv, VerdictNotStale, [Next]_vars, NEW id \in Ids,
                      inb'[id].hash = "match"
               PROVE  HashMatches(id, incoming'[id], inb'[id].eof)
  BY DEF VerdictNotStale
<1>2. ASSUME Untouched(id) PROVE HashMatches(id, incoming'[id], inb'[id].eof)
  BY <1>1, <1>2 DEF Untouched, VerdictNotStale
<1>3. CASE UNCHANGED vars
  BY <1>1, <1>2, <1>3 DEF vars, Untouched
<1>4. CASE \E m \in Messages : Receive(m)
  BY <1>1, <1>2, <1>4, ReceiveUntouched
<1>5. ASSUME NEW i \in Ids, Get(i) PROVE Untouched(id)
  <2>1. inb'[id] = inb[id] \/ inb'[id] = NewEntry(id)
    BY <1>5 DEF Get
  <2>2. NewEntry(id).hash # "match"
    BY DEF NewEntry, NoEntry
  <2> QED
    BY <1>1, <1>5, <2>1, <2>2 DEF Get, disk, Untouched
<1>6. ASSUME NEW i \in Ids, HashDone(i)
      PROVE  HashMatches(id, incoming'[id], inb'[id].eof)
  <2>1. inb \in [Ids -> Entries] /\ incoming' = incoming
    BY <1>1, <1>6 DEF IndInv, TypeOK, HashDone, disk
  <2>2. CASE i = id
    <3>1. inb'[id].eof = inb[id].eof /\ HashMatches(id, incoming[id], inb[id].eof)
      BY <1>1, <1>6, <2>1, <2>2 DEF HashDone, Entries
    <3> QED
      BY <2>1, <3>1
  <2>3. CASE i # id
    BY <1>1, <1>2, <1>6, <2>1, <2>3 DEF HashDone, Untouched
  <2> QED
    BY <2>2, <2>3
<1>7. ASSUME NEW i \in Ids, HashDies(i) PROVE Untouched(id)
  <2>1. inb \in [Ids -> Entries] /\ incoming' = incoming
    BY <1>1, <1>7 DEF IndInv, TypeOK, HashDies, disk
  <2>2. i # id
    BY <1>1, <1>7, <2>1 DEF HashDies, Entries
  <2> QED
    BY <1>1, <1>7, <2>1, <2>2 DEF HashDies, Untouched
<1>8. CASE (\E i \in Ids : Quiet(i)) \/ (\E q \in net : Lose(q))
  BY <1>1, <1>2, <1>8 DEF Quiet, Lose, disk, Untouched
<1>9. ASSUME NEW asked \in SUBSET Ids, Maintain(asked) PROVE Untouched(id)
  <2>1. PICK remapped \in MmapResults : inb'[id] = Finished(id, remapped)
    BY <1>9 DEF Maintain
  <2>2. inb[id] \in Entries
    BY <1>1 DEF IndInv, TypeOK
  <2>3. inb'[id] = inb[id] \/ inb'[id].hash = "none"
    BY <2>1, <2>2 DEF Finished, NoEntry, Entries
  <2>4. inb'[id] = inb[id] /\ inb[id].hash = "match"
    BY <1>1, <2>3
  <2>5. inb'[id].hash = "none"
    BY <2>1, <2>4 DEF Finished, NoEntry
  <2> QED
    BY <1>1, <2>5
<1>10. CASE Dying
  BY <1>1, <1>10 DEF Dying, Crash, PanicInReceive, CrashInWrite, CrashInRename, Restarting, NoEntry
<1> QED
  BY <1>1, <1>2, <1>3, <1>4, <1>5, <1>6, <1>7, <1>8, <1>9, <1>10 DEF Next, Maintenance, Dying

\* "The hash matched" is the truth about the file that finished() is about to
\* rename, however blocks, duplicates, crashes and other downloads interleave.
THEOREM VerdictCorrect == Spec => []VerdictNotStale
<1>1. Init => VerdictNotStale
  BY DEF Init, VerdictNotStale, NoEntry
<1> QED
  BY IndInvInit, IndInvStep, VerdictStep, <1>1, PTL DEF Spec

-----------------------------------------------------------------------------
(* What is published under a SHA-256.                                      *)

\* A SHA-256 file is only published by finished(), on a true verdict.
LEMMA PublishedStep ==
  IndInv /\ VerdictNotStale /\ PublishedWasHashed /\ [Next]_vars => PublishedWasHashed'
<1>1. SUFFICES ASSUME IndInv, VerdictNotStale, PublishedWasHashed, [Next]_vars,
                      NEW id \in Ids, Kind[id] = "sha256", Exists(public'[id])
               PROVE  HashMatches(id, public'[id], TrueEof[id])
  BY DEF PublishedWasHashed
<1>2. ASSUME public'[id] = public[id] PROVE HashMatches(id, public'[id], TrueEof[id])
  BY <1>1, <1>2 DEF PublishedWasHashed
<1>3. ASSUME Publishes(id), public'[id] = incoming[id]
      PROVE  HashMatches(id, public'[id], TrueEof[id])
  <2>1. HashMatches(id, incoming[id], inb[id].eof)
    BY <1>1, <1>3 DEF Publishes, VerdictNotStale
  <2>2. inb[id].eof = TrueEof[id]
    BY <2>1 DEF HashMatches
  <2> QED
    BY <1>3, <2>1, <2>2
<1>4. public \in [Ids -> Files]
  BY <1>1 DEF IndInv, TypeOK
<1>5. ASSUME NEW m \in Messages, Receive(m) PROVE public'[id] = public[id]
  <2>1. \/ UNCHANGED public
        \/ \E f : public' = [public EXCEPT ![m.id] = f] /\ Kind[m.id] # "sha256"
    <3>1. CASE LateDuplicate(m) \/ RefuseEof(m) \/ PastEof(m) \/ NothingNew(m)
               \/ NotReady(m) \/ CvMismatch(m) \/ StoreBlock(m) \/ CompleteSha256(m)
      BY <3>1 DEF LateDuplicate, RefuseEof, PastEof, NothingNew, NotReady, CvMismatch,
                  StoreBlock, CompleteSha256, disk
    <3>2. CASE CompleteBlake3(m)
      BY <3>2 DEF CompleteBlake3, Publish
    <3>3. CASE CompleteTree(m)
      BY <3>3 DEF CompleteTree, PublishTree, RetryTree, Publish
    <3> QED
      BY <1>5, <3>1, <3>2, <3>3 DEF Receive
  <2> QED
    BY <1>1, <1>4, <2>1
<1>6. ASSUME \/ \E i \in Ids : Get(i) \/ HashDone(i) \/ HashDies(i) \/ Quiet(i)
             \/ \E q \in net : Lose(q)
             \/ Crash \/ UNCHANGED vars
             \/ \E m \in Messages : PanicInReceive(m) \/ CrashInWrite(m)
      PROVE  public'[id] = public[id]
  BY <1>6 DEF Get, HashDone, HashDies, Quiet, Lose, Crash, PanicInReceive, CrashInWrite, disk, vars
<1>7. ASSUME NEW asked \in SUBSET Ids, Maintain(asked)
      PROVE  public'[id] = public[id] \/ (Publishes(id) /\ public'[id] = incoming[id])
  BY <1>7 DEF Maintain
<1>8. ASSUME CrashInRename
      PROVE  public'[id] = public[id] \/ (Publishes(id) /\ public'[id] = incoming[id])
  <2>1. ASSUME NEW i \in Ids, NEW f, NEW keep, Publish(i, f, keep), i # id
        PROVE  public'[id] = public[id]
    BY <1>4, <2>1 DEF Publish
  <2>2. ASSUME NEW m \in Messages, Kind[m.id] = "blake3",
               Publish(m.id, StoredFile(m), Stored(m).bits)
        PROVE  public'[id] = public[id]
    BY <1>1, <2>1, <2>2, MessageType
  <2>3. ASSUME NEW i \in Ids, Publishes(i), Publish(i, incoming[i], bitmap[i])
        PROVE  public'[id] = public[id] \/ (Publishes(id) /\ public'[id] = incoming[id])
    <3>1. CASE i = id
      BY <1>4, <2>3, <3>1 DEF Publish
    <3> QED
      BY <2>1, <2>3, <3>1
  <2> QED
    BY <1>8, <2>2, <2>3 DEF CrashInRename
<1> QED
  BY <1>1, <1>2, <1>3, <1>5, <1>6, <1>7, <1>8 DEF Next, Maintenance

\* Whatever peers send, a file appears under a SHA-256 only if it begins with all
\* of the content of that hash: no unhashed, half-written or rewritten file is
\* ever published, also by a process that dies in the rename.
THEOREM PublishedCorrect == Spec => []PublishedWasHashed
<1>1. Init => PublishedWasHashed
  BY DEF Init, PublishedWasHashed, Absent, Exists
<1> QED
  BY IndInvInit, IndInvStep, VerdictStep, VerdictCorrect, PublishedStep, <1>1, PTL DEF Spec

-----------------------------------------------------------------------------
(* What is kept on disk and counted: bytes_complete, the bitmaps, the       *)
(* blocks that are served, the files that are published, and the content    *)
(* store the engine implements.  A step of the engine is first reduced to   *)
(* what it does to a single id (StepOf); every invariant is then a          *)
(* predicate of one id.                                                     *)

-----------------------------------------------------------------------------
(* Blocks and bytes.                                                       *)

\* The last block of a file holds what the blocks before it leave.
LEMMA BlocksOfFile ==
  ASSUME NEW n \in 1 .. BlockSize * MaxBlock
  PROVE  /\ BlockSize \in Nat \ {0} /\ n \in Nat \ {0}
         /\ Blocks(n) \in 1 .. MaxBlock /\ Blocks(n) \in Nat \ {0}
         /\ BlockSize * (Blocks(n) - 1) \in Nat
         /\ BlockSize * (Blocks(n) - 1) < n
         /\ n <= BlockSize * (Blocks(n) - 1) + BlockSize
         /\ BlockLen(Blocks(n) - 1, n) = n - BlockSize * (Blocks(n) - 1)
<1> DEFINE b == Blocks(n)
<1>1. BlockSize \in Nat \ {0} /\ MaxBlock \in Nat \ {0}
  BY SizeAssumption
<1>2. BlockSize * MaxBlock \in Nat /\ n \in Nat \ {0} /\ n <= BlockSize * MaxBlock
  BY <1>1
<1>3. b \in Nat /\ b * BlockSize <= n + BlockSize - 1 /\ n + BlockSize - 1 < b * BlockSize + BlockSize
  <2> DEFINE p == n + BlockSize - 1
  <2>1. p \in Nat
    BY <1>1, <1>2
  <2>2. p \div BlockSize \in Nat /\ (p \div BlockSize) * BlockSize <= p
        /\ p < (p \div BlockSize) * BlockSize + BlockSize
    <3> HIDE DEF p
    <3> QED
      BY <1>1, <2>1
  <2> QED
    BY <2>2 DEF Blocks
<1> HIDE DEF b
<1>4. b # 0
  BY <1>1, <1>2, <1>3
<1>5. b - 1 \in Nat /\ b * BlockSize = BlockSize * (b - 1) + BlockSize /\ BlockSize * (b - 1) \in Nat
  BY <1>1, <1>3, <1>4
<1>6. BlockSize * (b - 1) < n /\ n <= BlockSize * (b - 1) + BlockSize
  BY <1>1, <1>2, <1>3, <1>5
<1>7. b <= MaxBlock
  <2> SUFFICES ASSUME b - 1 >= MaxBlock PROVE FALSE
    BY <1>1, <1>3
  <2>1. BlockSize * (b - 1) >= BlockSize * MaxBlock
    BY <1>1, <1>5
  <2> QED
    BY <1>2, <1>5, <1>6, <2>1
<1>8. BlockLen(b - 1, n) = n - BlockSize * (b - 1)
  <2>1. (b - 1) * BlockSize = BlockSize * (b - 1)
    BY <1>1, <1>5
  <2> QED
    BY <1>1, <1>2, <1>5, <1>6, <2>1 DEF BlockLen, Max2, Min2
<1> QED
  BY <1>1, <1>2, <1>3, <1>4, <1>5, <1>6, <1>7, <1>8 DEF b

\* A block that starts inside a file is whole unless it is the last.
LEMMA BlockOfFile ==
  ASSUME NEW n \in 1 .. BlockSize * MaxBlock, NEW k \in Nat
  PROVE  /\ k * BlockSize < n <=> k < Blocks(n)
         /\ k < Blocks(n) - 1 => BlockLen(k, n) = BlockSize
         /\ k < Blocks(n) => BlockLen(k, n) \in 1 .. BlockSize
<1> DEFINE b == Blocks(n)
           p == k * BlockSize
           q == BlockSize * (b - 1)
<1>1. /\ BlockSize \in Nat \ {0} /\ b \in Nat \ {0} /\ q \in Nat /\ p \in Nat /\ n \in Nat
      /\ q < n /\ n <= q + BlockSize
      /\ BlockLen(b - 1, n) = n - q
  <2>1. BlockSize \in Nat /\ p \in Nat
    BY SizeAssumption
  <2> QED
    BY <2>1, BlocksOfFile
<1>2. ASSUME k < b - 1 PROVE p + BlockSize <= q
  <2>1. k + 1 <= b - 1
    BY <1>1, <1>2
  <2> HIDE DEF b
  <2>2. BlockSize * (k + 1) <= BlockSize * (b - 1)
    BY <1>1, <2>1
  <2> QED
    BY <1>1, <2>2
<1>3. ASSUME k >= b PROVE p >= q + BlockSize
  <2> HIDE DEF b
  <2>1. BlockSize * k >= BlockSize * b
    BY <1>1, <1>3
  <2> QED
    BY <1>1, <2>1
<1>4. ASSUME k = b - 1 PROVE p = q
  <2> HIDE DEF b
  <2> QED
    BY <1>1, <1>4
<1>5. BlockLen(k, n) = IF n - p <= 0 THEN 0 ELSE IF BlockSize <= n - p THEN BlockSize ELSE n - p
  <2> HIDE DEF b
  <2>1. n - p \in Int
    BY <1>1
  <2> QED
    BY <1>1, <2>1 DEF BlockLen, Max2, Min2
<1> HIDE DEF b, p, q
<1>6. k < b - 1 \/ k = b - 1 \/ k >= b
  BY <1>1
<1>7. /\ p < n <=> k < b
      /\ k < b - 1 => BlockLen(k, n) = BlockSize
      /\ k < b => BlockLen(k, n) \in 1 .. BlockSize
  <2>1. CASE k < b - 1
    BY <1>1, <1>2, <1>5, <2>1
  <2>2. CASE k = b - 1
    BY <1>1, <1>4, <1>5, <2>2
  <2>3. CASE k >= b
    BY <1>1, <1>3, <1>5, <2>3
  <2> QED
    BY <1>6, <2>1, <2>2, <2>3
<1> QED
  BY <1>7 DEF b, p

InFile(S, n) == {k \in S : k < Blocks(n)}

\* The bytes of one more block.
LEMMA BytesOfMore ==
  ASSUME NEW n \in 1 .. BlockSize * MaxBlock, NEW S \in SUBSET BlockNumbers,
         NEW k \in BlockNumbers, k \notin S, k < Blocks(n)
  PROVE  BytesOf(InFile(S \cup {k}, n), n) = BytesOf(InFile(S, n), n) + BlockLen(k, n)
<1> DEFINE s == InFile(S, n)
           t == InFile(S \cup {k}, n)
           last == Blocks(n) - 1
<1>1. t = s \cup {k} /\ k \notin s
  BY DEF InFile
<1>2. IsFiniteSet(s) /\ Cardinality(s) \in Nat
  BY BitsFinite DEF InFile
<1>3. Cardinality(t) = Cardinality(s) + 1
  BY <1>1, <1>2, FS_AddElement
<1>4. BlockSize \in Nat \ {0} /\ BlockLen(k, n) \in 1 .. BlockSize
      /\ (k # last => BlockLen(k, n) = BlockSize)
  <2>1. k \in Nat /\ Blocks(n) \in Nat
    BY BlocksOfFile DEF BlockNumbers
  <2> QED
    BY <2>1, BlockOfFile, SizeAssumption
<1>5. BlockSize * Cardinality(t) = BlockSize * Cardinality(s) + BlockSize
      /\ BlockSize * Cardinality(s) \in Nat
  BY <1>2, <1>3, <1>4
<1>6. BytesOf(t, n) = BlockSize * Cardinality(t) - (IF last \in t THEN BlockSize - BlockLen(last, n) ELSE 0)
  BY DEF BytesOf
<1>7. BytesOf(s, n) = BlockSize * Cardinality(s) - (IF last \in s THEN BlockSize - BlockLen(last, n) ELSE 0)
  BY DEF BytesOf
<1>8. BlockLen(last, n) \in Int
  BY BlocksOfFile, SizeAssumption
<1> HIDE DEF s, t, last
<1>9. CASE k = last
  <2>1. last \in t /\ last \notin s
    BY <1>1, <1>9
  <2>2. BytesOf(s, n) = BlockSize * Cardinality(s)
    BY <1>5, <1>7, <2>1
  <2>3. BytesOf(t, n) = BlockSize * Cardinality(t) - (BlockSize - BlockLen(k, n))
    BY <1>6, <1>9, <2>1
  <2>4. BytesOf(t, n) = BytesOf(s, n) + BlockLen(k, n)
    BY <1>4, <1>5, <2>2, <2>3
  <2> QED
    BY <2>4 DEF s, t
<1>10. CASE k # last
  <2>1. last \in t <=> last \in s
    BY <1>1, <1>10
  <2>2. BlockLen(k, n) = BlockSize
    BY <1>4, <1>10
  <2>3. BytesOf(t, n) = BytesOf(s, n) + BlockLen(k, n)
    BY <1>4, <1>5, <1>6, <1>7, <1>8, <2>1, <2>2
  <2> QED
    BY <2>3 DEF s, t
<1> QED
  BY <1>9, <1>10

\* The bytes of what is left when some blocks are taken away.
LEMMA BytesOfLess ==
  ASSUME NEW n \in 1 .. BlockSize * MaxBlock, NEW S \in SUBSET BlockNumbers,
         NEW T, \A k \in T : k < Blocks(n)
  PROVE  /\ BytesOf(InFile(S \ T, n), n) = BytesOf(InFile(S, n), n) - BytesOf(T \cap S, n)
         /\ BytesOf(InFile(S \ T, n), n) \in Nat
<1> DEFINE s == InFile(S, n)
           d == T \cap S
           r == InFile(S \ T, n)
           last == Blocks(n) - 1
           l == BlockLen(last, n)
<1>1. r = s \ d /\ d \subseteq s /\ s \cap d = d
  BY DEF InFile
<1>2. IsFiniteSet(s) /\ Cardinality(s) \in Nat /\ IsFiniteSet(d) /\ Cardinality(d) \in Nat
      /\ IsFiniteSet(r) /\ Cardinality(r) \in Nat
  BY BitsFinite DEF InFile
<1>3. Cardinality(r) = Cardinality(s) - Cardinality(d)
  <2> HIDE DEF s, d, r
  <2>1. Cardinality(s \ d) = Cardinality(s) - Cardinality(s \cap d)
    BY <1>2, FS_Difference
  <2> QED
    BY <1>1, <2>1
<1>4. BlockSize \in Nat \ {0} /\ l \in 1 .. BlockSize
  <2>1. last \in Nat /\ last < Blocks(n)
    BY BlocksOfFile
  <2> QED
    BY <2>1, BlockOfFile, SizeAssumption
<1>5. BlockSize * Cardinality(r) = BlockSize * Cardinality(s) - BlockSize * Cardinality(d)
      /\ BlockSize * Cardinality(s) \in Nat /\ BlockSize * Cardinality(d) \in Nat
      /\ BlockSize * Cardinality(r) \in Nat
  BY <1>2, <1>3, <1>4
<1>6. last \in r => Cardinality(r) >= 1
  <2>1. Cardinality(r) = 0 <=> r = {}
    BY <1>2, FS_EmptySet
  <2> HIDE DEF r
  <2> QED
    BY <1>2, <2>1
<1>7. last \in r => BlockSize * Cardinality(r) >= BlockSize
  <2> HIDE DEF r, last
  <2> QED
    BY <1>2, <1>4, <1>6
<1>8. /\ BytesOf(s, n) = BlockSize * Cardinality(s) - (IF last \in s THEN BlockSize - l ELSE 0)
      /\ BytesOf(d, n) = BlockSize * Cardinality(d) - (IF last \in d THEN BlockSize - l ELSE 0)
      /\ BytesOf(r, n) = BlockSize * Cardinality(r) - (IF last \in r THEN BlockSize - l ELSE 0)
  BY DEF BytesOf
<1>9. /\ last \in s <=> last \in r \/ last \in d
      /\ ~(last \in r /\ last \in d)
  BY <1>1
<1> HIDE DEF s, d, r, last, l
<1>10. BytesOf(r, n) = BytesOf(s, n) - BytesOf(d, n)
  BY <1>4, <1>5, <1>8, <1>9
<1>11. BytesOf(r, n) \in Nat
  BY <1>4, <1>5, <1>7, <1>8
<1> QED
  BY <1>10, <1>11 DEF s, d, r

\* No blocks have no bytes, and whole blocks that do not include the last have BlockSize each.
LEMMA BytesOfWhole ==
  ASSUME NEW n, NEW S \in SUBSET BlockNumbers, Blocks(n) - 1 \notin S
  PROVE  /\ BytesOf(InFile(S, n), n) = BlockSize * Cardinality(InFile(S, n))
         /\ S = {} => BytesOf(InFile(S, n), n) = 0
<1>1. BlockSize * Cardinality(InFile(S, n)) \in Int
  BY BitsFinite, SizeAssumption DEF InFile
<1>2. S = {} => InFile(S, n) = {}
  BY DEF InFile
<1>3. BlockSize * 0 = 0
  BY SizeAssumption
<1> QED
  BY <1>1, <1>2, <1>3, FS_EmptySet DEF BytesOf, InFile

\* When the bytes of the marked blocks are all bytes, all blocks are marked.
LEMMA FullBitmap ==
  ASSUME NEW n \in 1 .. BlockSize * MaxBlock, NEW S \in SUBSET BlockNumbers,
         BytesOf(InFile(S, n), n) = n
  PROVE  \A k \in Nat : k < Blocks(n) => k \in S
<1> DEFINE s == InFile(S, n)
           b == Blocks(n)
           all == 0 .. b - 1
           l == BlockLen(b - 1, n)
           c == Cardinality(s)
<1>1. /\ BlockSize \in Nat \ {0} /\ b \in Nat \ {0} /\ n \in Nat /\ l \in 1 .. BlockSize
      /\ BlockSize * (b - 1) \in Nat /\ n = BlockSize * (b - 1) + l
  <2>1. BlockLen(b - 1, n) \in 1 .. BlockSize
    <3>1. b - 1 \in Nat /\ b - 1 < b
      BY BlocksOfFile
    <3> QED
      BY <3>1, BlockOfFile
  <2> QED
    BY <2>1, BlocksOfFile
<1>2. s \subseteq all /\ IsFiniteSet(all) /\ Cardinality(all) = b
  <2>1. s \subseteq all
    <3>1. \A k \in S : k \in Nat
      BY DEF BlockNumbers
    <3> HIDE DEF b
    <3> QED
      BY <1>1, <3>1 DEF InFile, b
  <2> HIDE DEF b
  <2>2. IsFiniteSet(all) /\ Cardinality(all) = b
    BY <1>1, FS_Interval
  <2> QED
    BY <2>1, <2>2
<1>3. c \in Nat /\ c <= b /\ (c = b => s = all)
  BY <1>2, FS_Subset, FS_CardinalityType
<1>4. n = BlockSize * c - (IF b - 1 \in s THEN BlockSize - l ELSE 0)
  BY DEF BytesOf
<1>5. c = b
  <2> HIDE DEF s, b, l, c
  <2>1. BlockSize * c \in Nat /\ BlockSize * b = BlockSize * (b - 1) + BlockSize
    BY <1>1, <1>3
  <2>2. c # b => BlockSize * c <= BlockSize * (b - 1)
    BY <1>1, <1>3
  <2> QED
    BY <1>1, <1>3, <1>4, <2>1, <2>2
<1>6. s = all
  BY <1>3, <1>5
<1> QED
  BY <1>1, <1>6 DEF InFile

-----------------------------------------------------------------------------
(* What a block does to its entry and its file.                            *)

\* Opening keeps what an entry says of its download; a mapping that is made anew
\* takes the stated length and counts the blocks that are kept.
LEMMA OpenedFields ==
  ASSUME TypeOK, NEW m \in Messages
  PROVE  /\ Opened(m).live = inb[m.id].live /\ Opened(m).done = inb[m.id].done
         /\ Opened(m).hash = inb[m.id].hash /\ Opened(m).mapped
         /\ Opened(m).eof = IF inb[m.id].mapped THEN inb[m.id].eof ELSE m.eof
         /\ Opened(m).bits = IF inb[m.id].mapped THEN inb[m.id].bits
                             ELSE inb[m.id].bits \ {Blocks(m.eof) - 1}
         /\ Opened(m).bytes_complete =
              IF inb[m.id].mapped THEN inb[m.id].bytes_complete
              ELSE BlockSize * Cardinality(InFile(inb[m.id].bits \ {Blocks(m.eof) - 1}, m.eof))
<1>1. inb[m.id] \in Entries
  BY MessageType DEF TypeOK
<1> QED
  BY <1>1 DEF Opened, Entries, InFile

\* The tree only adds segment_hashes.
LEMMA CheckedFields ==
  ASSUME TypeOK, NEW m \in Messages
  PROVE  /\ Checked(m).live = Opened(m).live /\ Checked(m).done = Opened(m).done
         /\ Checked(m).hash = Opened(m).hash /\ Checked(m).mapped
         /\ Checked(m).eof = Opened(m).eof /\ Checked(m).bits = Opened(m).bits
         /\ Checked(m).bytes_complete = Opened(m).bytes_complete
<1>1. Opened(m) \in Entries /\ Opened(m).mapped
  BY OpenedType, OpenedFields
<1> QED
  BY <1>1 DEF Checked, Entries

\* The block adds its bit and its bytes.
LEMMA StoredFields ==
  ASSUME TypeOK, NEW m \in Messages
  PROVE  /\ Stored(m).live = Opened(m).live /\ Stored(m).done = Opened(m).done
         /\ Stored(m).hash = Opened(m).hash /\ Stored(m).mapped
         /\ Stored(m).eof = Opened(m).eof /\ Stored(m).bits = Opened(m).bits \cup {Blk(m)}
         /\ Stored(m).bytes_complete = Opened(m).bytes_complete + m.len
<1>1. Checked(m) \in Entries
  BY OpenedType
<1>2. /\ Stored(m).live = Checked(m).live /\ Stored(m).done = Checked(m).done
      /\ Stored(m).hash = Checked(m).hash /\ Stored(m).mapped = Checked(m).mapped
      /\ Stored(m).eof = Checked(m).eof /\ Stored(m).bits = Checked(m).bits \cup {Blk(m)}
      /\ Stored(m).bytes_complete = Checked(m).bytes_complete + m.len
  BY <1>1 DEF Stored, Entries
<1> QED
  BY <1>2, CheckedFields

\* A block is only looked at while its download is under way and is not being
\* hashed, and then all lengths agree.
LEMMA AcceptedFacts ==
  ASSUME TypeOK, NEW m \in Messages, Accepted(m)
  PROVE  /\ inb[m.id].live /\ ~inb[m.id].done /\ inb[m.id].hash = "none"
         /\ m.eof \in 1 .. BlockSize * MaxBlock /\ Opened(m).eof = m.eof
<1>1. m.eof \in 0 .. BlockSize * MaxBlock /\ m.eof > 0
  BY MessageType DEF Accepted
<1>2. m.eof \in 1 .. BlockSize * MaxBlock
  BY <1>1, SizeAssumption
<1> QED
  BY <1>2, OpenedFields DEF Accepted, Wanted, Arrives

\* The bytes from m's offset on are those of m, the others stay, and the file only grows.
LEMMA FileFields ==
  ASSUME TypeOK, NEW m \in Messages
  PROVE  /\ OpenedFile(m).val = incoming[m.id].val
         /\ OpenedFile(m).len = Max2(incoming[m.id].len, m.eof)
         /\ StoredFile(m).len = OpenedFile(m).len
         /\ \A i \in ByteNumbers :
              StoredFile(m).val[i] =
                IF m.off <= i /\ i < m.off + m.len
                THEN IF m.bytes = "own" THEN "true" ELSE "other"
                ELSE incoming[m.id].val[i]
<1>1. incoming[m.id] \in Files
  BY MessageType DEF TypeOK
<1>2. OpenedFile(m).val = incoming[m.id].val /\ OpenedFile(m).len = Max2(incoming[m.id].len, m.eof)
  BY <1>1 DEF OpenedFile, Files
<1>3. OpenedFile(m) \in Files
  BY OpenedType
<1> QED
  BY <1>2, <1>3 DEF StoredFile, Written, Files

-----------------------------------------------------------------------------
(* What a step does to one id.                                             *)

DiskKept(id) ==
  incoming'[id] = incoming[id] /\ bitmap'[id] = bitmap[id] /\ public'[id] = public[id]

\* Nothing, or the tree is handed to the entry.
Kept(id) ==
  /\ \/ inb'[id] = inb[id]
     \/ inb'[id] = [inb[id] EXCEPT !.segment_hashes = TRUE] /\ TreeOnDisk(id)'
  /\ DiskKept(id)

\* A block came and was not taken; the mapping is open.
Opens(id) ==
  \E m \in Messages :
    /\ m.id = id /\ Accepted(m)
    /\ inb'[id] \in {Opened(m), Checked(m)}
    /\ incoming'[id] = OpenedFile(m)
    /\ bitmap'[id] = Opened(m).bits
    /\ public'[id] = public[id]

\* The entry counts the block of m.
Counts(id, m) ==
  /\ m.id = id /\ Verified(m)
  /\ inb'[id].live = Stored(m).live /\ inb'[id].eof = Stored(m).eof
  /\ inb'[id].bits = Stored(m).bits /\ inb'[id].bytes_complete = Stored(m).bytes_complete
  /\ Kind[id] # "sha256" => inb'[id].hash = "none"

\* A block was written.
Writes(id) ==
  \E m \in Messages :
    /\ Counts(id, m)
    /\ incoming'[id] = StoredFile(m) /\ bitmap'[id] = Stored(m).bits
    /\ public'[id] = public[id]
    /\ Kind[id] = "blake3" => inb'[id].mapped /\ (inb'[id].done <=> Completes(m))
    /\ Kind[id] = "sha256" => ~inb'[id].done

\* The last block was written and the file renamed.
Moves(id) ==
  \E m \in Messages :
    /\ Counts(id, m) /\ Completes(m) /\ Kind[id] # "sha256" /\ inb'[id].done
    /\ incoming'[id] = Absent /\ public'[id] = StoredFile(m)
    /\ bitmap'[id] = IF Kind[id] = "blake3" THEN {} ELSE Stored(m).bits

\* The last block of a tree was written and some of its blocks are bad.
Retries(id) ==
  \E m \in Messages, bad \in SUBSET BlockNumbers :
    /\ m.id = id /\ Verified(m) /\ Kind[id] = "tree"
    /\ \A k \in bad : k < Blocks(m.eof)
    /\ inb'[id].live /\ inb'[id].hash = "none"
    /\ inb'[id].eof = Stored(m).eof /\ inb'[id].bits = Stored(m).bits \ bad
    /\ inb'[id].bytes_complete =
         Max2(0, Stored(m).bytes_complete - BytesOf(bad \cap Stored(m).bits, Stored(m).eof))
    /\ incoming'[id] = StoredFile(m) /\ bitmap'[id] = inb'[id].bits
    /\ public'[id] = public[id]

Begins(id) ==
  /\ \E i \in Ids : Get(i)
  /\ ~inb[id].live /\ inb'[id] = NewEntry(id) /\ DiskKept(id)
  /\ Kind[id] = "tree" => ~Exists(public[id])

Hashes(id) ==
  /\ inb[id].hash = "running" /\ DiskKept(id)
  /\ \E h \in {"match", "mismatch", "dead"} : inb'[id] = [inb[id] EXCEPT !.hash = h]

Finishes(id) ==
  /\ \E remapped \in BOOLEAN : inb'[id] = Finished(id, remapped)
  /\ public'[id] = IF Publishes(id) THEN incoming[id] ELSE public[id]
  /\ incoming'[id] = IF Publishes(id) THEN Absent ELSE incoming[id]
  /\ bitmap'[id] = IF ClearsBitmap(id) THEN {} ELSE bitmap[id]

\* receive_content panics: the mapping was opened, no byte copied.
DiesInCopy(id) ==
  \E m \in Messages :
    /\ m.id = id /\ Accepted(m)
    /\ incoming'[id] = OpenedFile(m) /\ bitmap'[id] = Opened(m).bits
    /\ public'[id] = public[id]

DiesInWrite(id) ==
  \E m \in Messages :
    /\ m.id = id /\ Verified(m)
    /\ incoming'[id] = StoredFile(m) /\ bitmap'[id] = Opened(m).bits
    /\ public'[id] = public[id]

DiesInRename(id) ==
  /\ "tornRename" \in Faults /\ incoming'[id] = Absent
  /\ \/ \E m \in Messages :
          /\ m.id = id /\ Verified(m) /\ Completes(m) /\ Kind[id] = "blake3"
          /\ public'[id] = StoredFile(m) /\ bitmap'[id] = Stored(m).bits
     \/ Publishes(id) /\ public'[id] = incoming[id] /\ bitmap'[id] = bitmap[id]

Dies(id) ==
  /\ inb'[id] = NoEntry
  /\ DiskKept(id) \/ DiesInCopy(id) \/ DiesInWrite(id) \/ DiesInRename(id)

StepOf(id) ==
  \/ Kept(id) \/ Opens(id) \/ Writes(id) \/ Moves(id) \/ Retries(id) \/ Begins(id)
  \/ Hashes(id) \/ Finishes(id) \/ Dies(id)

\* What replaces the entry and the file of one id keeps those of the others.
LEMMA OthersKept ==
  ASSUME TypeOK, NEW i \in Ids, NEW id \in Ids, id # i, NEW e, NEW f,
         Open(i, e, f) /\ UNCHANGED public
  PROVE  Kept(id)
BY DEF TypeOK, Open, Kept, DiskKept

\* Publishing one content leaves the files of the others alone.
LEMMA PublishOthersKept ==
  ASSUME TypeOK, NEW i \in Ids, NEW id \in Ids, id # i, NEW f, NEW keep, Publish(i, f, keep)
  PROVE  DiskKept(id)
BY DEF TypeOK, Publish, DiskKept

\* Opening or publishing sets the files of the id itself.
LEMMA OwnFiles ==
  ASSUME TypeOK, NEW i \in Ids
  PROVE  /\ \A e, f : Open(i, e, f) =>
              inb'[i] = e /\ incoming'[i] = f /\ bitmap'[i] = e.bits
         /\ \A f, keep : Publish(i, f, keep) =>
              public'[i] = f /\ incoming'[i] = Absent /\ bitmap'[i] = keep
BY DEF TypeOK, Open, Publish

\* A block that is not taken.
LEMMA IgnoredOf ==
  ASSUME IndInv, NEW m \in Messages, NEW id \in Ids,
         \/ LateDuplicate(m) \/ RefuseEof(m) \/ PastEof(m) \/ NothingNew(m)
         \/ NotReady(m) \/ CvMismatch(m)
  PROVE  StepOf(id)
<1>0. TypeOK /\ m.id \in Ids
  BY MessageType DEF IndInv
<1>1. CASE LateDuplicate(m) \/ RefuseEof(m)
  BY <1>1 DEF LateDuplicate, RefuseEof, disk, StepOf, Kept, DiskKept
<1>2. CASE PastEof(m) \/ NothingNew(m) \/ NotReady(m) \/ CvMismatch(m)
  <2>1. Accepted(m) /\ public' = public
    BY <1>2 DEF PastEof, NothingNew, NotReady, CvMismatch, NewBlock, InRange
  <2>2. PICK e \in {Opened(m), Checked(m)} : Open(m.id, e, OpenedFile(m))
    BY <1>2 DEF PastEof, NothingNew, NotReady, CvMismatch
  <2>3. CASE id = m.id
    <3>1. inb'[id] = e /\ incoming'[id] = OpenedFile(m) /\ bitmap'[id] = e.bits
      BY <1>0, <2>2, <2>3, OwnFiles
    <3>2. e.bits = Opened(m).bits
      BY <1>0, CheckedFields
    <3> QED
      BY <2>1, <2>2, <2>3, <3>1, <3>2 DEF StepOf, Opens
  <2>4. CASE id # m.id
    BY <1>0, <2>1, <2>2, <2>4, OthersKept DEF StepOf
  <2> QED
    BY <2>3, <2>4
<1> QED
  BY <1>1, <1>2

\* The entry a block is counted in is neither done nor being hashed.
LEMMA StoredEntry ==
  ASSUME TypeOK, NEW m \in Messages, Verified(m)
  PROVE  /\ Stored(m) \in Entries /\ Stored(m).live /\ Stored(m).hash = "none"
         /\ ~Stored(m).done /\ Stored(m).mapped
<1>1. NewBlock(m) /\ Accepted(m)
  BY DEF Verified, NewBlock, InRange
<1>2. inb[m.id].live /\ ~inb[m.id].done /\ inb[m.id].hash = "none"
  BY <1>1, AcceptedFacts
<1>3. Opened(m).live /\ ~Opened(m).done /\ Opened(m).hash = "none"
  BY <1>2, OpenedFields
<1> QED
  BY <1>1, <1>3, StoredType, StoredFields

\* A block that is written and does not end the download, or ends a SHA-256 or a
\* blake3 download.
LEMMA StoredOf ==
  ASSUME IndInv, NEW m \in Messages, NEW id \in Ids,
         StoreBlock(m) \/ CompleteBlake3(m) \/ CompleteSha256(m)
  PROVE  StepOf(id)
<1>0. Verified(m) /\ Accepted(m) /\ NewBlock(m) /\ TypeOK /\ m.id \in Ids
  BY MessageType DEF StoreBlock, CompleteBlake3, CompleteSha256, Verified, NewBlock, InRange, IndInv
<1>1. /\ Stored(m) \in Entries /\ Stored(m).hash = "none" /\ ~Stored(m).done /\ Stored(m).mapped
  BY <1>0, StoredEntry
<1>2. CASE StoreBlock(m)
  <2>1. CASE id = m.id
    <3>1. inb'[id] = Stored(m) /\ incoming'[id] = StoredFile(m) /\ bitmap'[id] = Stored(m).bits
          /\ public' = public
      BY <1>0, <1>2, <2>1, OwnFiles DEF StoreBlock
    <3> QED
      BY <1>0, <1>1, <1>2, <2>1, <3>1 DEF StoreBlock, StepOf, Writes, Counts
  <2>2. CASE id # m.id
    BY <1>0, <1>2, <2>2, OthersKept DEF StoreBlock, StepOf
  <2> QED
    BY <2>1, <2>2
<1>3. CASE CompleteBlake3(m)
  <2> DEFINE e == [Stored(m) EXCEPT !.done = TRUE]
  <2>1. /\ e.live = Stored(m).live /\ e.eof = Stored(m).eof /\ e.bits = Stored(m).bits
        /\ e.bytes_complete = Stored(m).bytes_complete /\ e.hash = "none" /\ e.done /\ e.mapped
    BY <1>1 DEF Entries
  <2>2. \/ inb' = [inb EXCEPT ![m.id] = e] /\ Publish(m.id, StoredFile(m), {})
        \/ Open(m.id, e, StoredFile(m)) /\ UNCHANGED public
    BY <1>3 DEF CompleteBlake3
  <2>3. Kind[m.id] = "blake3" /\ Completes(m)
    BY <1>3 DEF CompleteBlake3
  <2> HIDE DEF e
  <2>4. CASE id = m.id
    <3>1. CASE Open(m.id, e, StoredFile(m)) /\ UNCHANGED public
      <4>1. inb'[id] = e /\ incoming'[id] = StoredFile(m) /\ bitmap'[id] = Stored(m).bits
        BY <1>0, <2>1, <2>4, <3>1, OwnFiles
      <4> QED
        BY <1>0, <2>1, <2>3, <2>4, <3>1, <4>1 DEF StepOf, Writes, Counts
    <3>2. CASE inb' = [inb EXCEPT ![m.id] = e] /\ Publish(m.id, StoredFile(m), {})
      <4>1. inb'[id] = e
        BY <1>0, <2>4, <3>2 DEF TypeOK
      <4>2. incoming'[id] = Absent /\ public'[id] = StoredFile(m) /\ bitmap'[id] = {}
        BY <1>0, <2>4, <3>2, OwnFiles
      <4> QED
        BY <1>0, <2>1, <2>3, <2>4, <4>1, <4>2 DEF StepOf, Moves, Counts
    <3> QED
      BY <2>2, <3>1, <3>2
  <2>5. CASE id # m.id
    <3>1. CASE Open(m.id, e, StoredFile(m)) /\ UNCHANGED public
      BY <1>0, <2>5, <3>1, OthersKept DEF StepOf
    <3>2. CASE inb' = [inb EXCEPT ![m.id] = e] /\ Publish(m.id, StoredFile(m), {})
      <4>1. inb'[id] = inb[id]
        BY <1>0, <2>5, <3>2 DEF TypeOK
      <4> QED
        BY <1>0, <2>5, <3>2, <4>1, PublishOthersKept DEF StepOf, Kept
    <3> QED
      BY <2>2, <3>1, <3>2
  <2> QED
    BY <2>4, <2>5
<1>4. CASE CompleteSha256(m)
  <2>1. PICK readOnly \in MmapResults :
          Open(m.id, [Stored(m) EXCEPT !.mapped = FALSE,
                                       !.hash = IF readOnly THEN "running" ELSE @], StoredFile(m))
    BY <1>4 DEF CompleteSha256
  <2> DEFINE e == [Stored(m) EXCEPT !.mapped = FALSE,
                                    !.hash = IF readOnly THEN "running" ELSE @]
  <2>2. /\ e.live = Stored(m).live /\ e.eof = Stored(m).eof /\ e.bits = Stored(m).bits
        /\ e.bytes_complete = Stored(m).bytes_complete /\ ~e.done
    BY <1>1 DEF Entries
  <2>3. Kind[m.id] = "sha256" /\ UNCHANGED public
    BY <1>4 DEF CompleteSha256
  <2>4. Open(m.id, e, StoredFile(m))
    BY <2>1
  <2> HIDE DEF e
  <2>5. CASE id = m.id
    <3>1. inb'[id] = e /\ incoming'[id] = StoredFile(m) /\ bitmap'[id] = Stored(m).bits
      BY <1>0, <2>2, <2>4, <2>5, OwnFiles
    <3> QED
      BY <1>0, <2>2, <2>3, <2>5, <3>1 DEF StepOf, Writes, Counts
  <2>6. CASE id # m.id
    BY <1>0, <2>3, <2>4, <2>6, OthersKept DEF StepOf
  <2> QED
    BY <2>5, <2>6
<1> QED
  BY <1>2, <1>3, <1>4

\* The last block of a tree: it is published, or some of its blocks are fetched again.
LEMMA TreeOfStep ==
  ASSUME IndInv, NEW m \in Messages, NEW id \in Ids, CompleteTree(m)
  PROVE  StepOf(id)
<1>0. /\ Verified(m) /\ Completes(m) /\ Accepted(m) /\ NewBlock(m) /\ TypeOK /\ m.id \in Ids
      /\ Kind[m.id] = "tree"
  BY MessageType DEF CompleteTree, Verified, NewBlock, InRange, IndInv
<1>1. Stored(m) \in Entries /\ Stored(m).hash = "none" /\ ~Stored(m).done
  BY <1>0, StoredEntry
<1>2. ASSUME PublishTree(m) PROVE StepOf(id)
  <2> DEFINE done == [Stored(m) EXCEPT !.done = TRUE, !.mapped = FALSE]
             failed == [Stored(m) EXCEPT !.done = TRUE]
  <2>1. /\ done.live = Stored(m).live /\ done.eof = Stored(m).eof /\ done.bits = Stored(m).bits
        /\ done.bytes_complete = Stored(m).bytes_complete /\ done.hash = "none" /\ done.done
        /\ failed.live = Stored(m).live /\ failed.eof = Stored(m).eof
        /\ failed.bits = Stored(m).bits /\ failed.hash = "none"
        /\ failed.bytes_complete = Stored(m).bytes_complete
    BY <1>1 DEF Entries
  <2>2. CASE Open(m.id, failed, StoredFile(m)) /\ UNCHANGED public
    <3> HIDE DEF failed
    <3>1. CASE id = m.id
      <4>1. inb'[id] = failed /\ incoming'[id] = StoredFile(m) /\ bitmap'[id] = Stored(m).bits
        BY <1>0, <2>1, <2>2, <3>1, OwnFiles
      <4> QED
        BY <1>0, <2>1, <2>2, <3>1, <4>1 DEF StepOf, Writes, Counts
    <3>2. CASE id # m.id
      BY <1>0, <2>2, <3>2, OthersKept DEF StepOf
    <3> QED
      BY <3>1, <3>2
  <2>3. ASSUME NEW handed \in MmapResults,
               inb' = [j \in Ids |->
                         IF j = m.id THEN done
                         ELSE IF j \in BlakeIds /\ inb[j].live /\ TreeOf[j] = m.id /\ handed
                         THEN [inb[j] EXCEPT !.segment_hashes = TRUE]
                         ELSE inb[j]],
               Publish(m.id, StoredFile(m), Stored(m).bits)
        PROVE  StepOf(id)
    <3> HIDE DEF done
    <3>1. CASE id = m.id
      <4>1. /\ inb'[id] = done /\ incoming'[id] = Absent /\ public'[id] = StoredFile(m)
            /\ bitmap'[id] = Stored(m).bits
        BY <1>0, <2>3, <3>1, OwnFiles
      <4> QED
        BY <1>0, <2>1, <3>1, <4>1 DEF StepOf, Moves, Counts
    <3>2. CASE id # m.id
      <4>0. Exists(public'[m.id])
        <5>1. public'[m.id] = StoredFile(m)
          BY <1>0, <2>3, OwnFiles
        <5>2. StoredFile(m).len = Max2(incoming[m.id].len, m.eof) /\ m.eof \in Nat
          BY <1>0, FileFields, MessageType, SizeAssumption
        <5>3. incoming[m.id].len \in Int
          BY <1>0, SizeAssumption DEF TypeOK, Files
        <5> QED
          BY <5>1, <5>2, <5>3 DEF Exists, Max2
      <4>1. \/ inb'[id] = inb[id]
            \/ inb'[id] = [inb[id] EXCEPT !.segment_hashes = TRUE] /\ TreeOnDisk(id)'
        BY <2>3, <3>2, <4>0 DEF BlakeIds, TreeOnDisk
      <4>2. DiskKept(id)
        BY <1>0, <2>3, <3>2, PublishOthersKept
      <4> QED
        BY <4>1, <4>2 DEF StepOf, Kept
    <3> QED
      BY <3>1, <3>2
  <2> QED
    BY <1>2, <2>2, <2>3 DEF PublishTree
<1>3. ASSUME NEW bad \in BadBlocks(m.id, StoredFile(m), m.eof), RetryTree(m, bad)
      PROVE  StepOf(id)
  <2> DEFINE e == [Stored(m) EXCEPT !.hash_failures = @ + 1]
             n == Max2(0, e.bytes_complete - BytesOf(bad \cap e.bits, e.eof))
             given == [e EXCEPT !.done = TRUE]
             again == [e EXCEPT !.bits = @ \ bad, !.bytes_complete = n]
             f == IF e.hash_failures > 2 THEN given ELSE again
  <2>1. /\ DOMAIN e = DOMAIN Stored(m)
        /\ e.live = Stored(m).live /\ e.eof = Stored(m).eof /\ e.bits = Stored(m).bits
        /\ e.bytes_complete = Stored(m).bytes_complete /\ e.hash = "none"
    BY <1>1 DEF Entries
  <2>2. DOMAIN Stored(m) = {"live", "eof", "mapped", "bits", "bytes_complete",
                            "hash_failures", "hash", "segment_hashes", "done"}
    BY <1>1 DEF Entries
  <2>3. Open(m.id, f, StoredFile(m)) /\ UNCHANGED public
    BY <1>3 DEF RetryTree
  <2>4. bad \in SUBSET BlockNumbers /\ \A k \in bad : k < Blocks(m.eof)
    <3>1. m.eof \in 1 .. BlockSize * MaxBlock
      BY <1>0, AcceptedFacts
    <3>2. 0 \in BlockNumbers /\ 0 < Blocks(m.eof)
      <4>1. Blocks(m.eof) \in Nat \ {0} /\ MaxBlock \in Nat \ {0}
        BY <3>1, BlocksOfFile, SizeAssumption
      <4> QED
        BY <4>1 DEF BlockNumbers
    <3>3. \/ bad \in {{0}, {}}
          \/ bad \in SUBSET {k \in BlockNumbers : k < Blocks(m.eof)}
      BY <1>3 DEF BadBlocks
    <3> QED
      BY <3>2, <3>3
  <2>5. CASE id # m.id
    <3> HIDE DEF f
    <3> QED
      BY <1>0, <2>3, <2>5, OthersKept DEF StepOf
  <2>6. CASE id = m.id
    <3>1. inb'[id] = f /\ incoming'[id] = StoredFile(m) /\ bitmap'[id] = f.bits
      <4> HIDE DEF f
      <4> QED
        BY <1>0, <2>3, <2>6, OwnFiles
    <3>2. CASE f = given
      <4>1. /\ given.live = Stored(m).live /\ given.eof = Stored(m).eof /\ given.hash = "none"
            /\ given.bits = Stored(m).bits /\ given.bytes_complete = Stored(m).bytes_complete
        <5> HIDE DEF e
        <5> QED
          BY <2>1, <2>2
      <4> HIDE DEF f, given
      <4> QED
        BY <1>0, <2>3, <2>6, <3>1, <3>2, <4>1 DEF StepOf, Writes, Counts
    <3>3. CASE f = again
      <4>1. /\ again.live = Stored(m).live /\ again.eof = Stored(m).eof /\ again.hash = "none"
            /\ again.bits = e.bits \ bad /\ again.bytes_complete = n
        <5> HIDE DEF e, n
        <5> QED
          BY <2>1, <2>2
      <4>2. n = Max2(0, Stored(m).bytes_complete - BytesOf(bad \cap Stored(m).bits, Stored(m).eof))
        <5> HIDE DEF e
        <5> QED
          BY <2>1
      <4>3. Stored(m).live
        BY <1>0, StoredEntry
      <4> HIDE DEF f, again, n, e
      <4>4. Retries(id)
        BY <1>0, <2>1, <2>3, <2>4, <2>6, <3>1, <3>3, <4>1, <4>2, <4>3 DEF Retries
      <4> QED
        BY <4>4 DEF StepOf
    <3> QED
      BY <3>2, <3>3
  <2> QED
    BY <2>5, <2>6
<1> QED
  BY <1>2, <1>3 DEF CompleteTree

\* The process dies: of the files at most those of one id change.
LEMMA CrashOf ==
  ASSUME IndInv, NEW id \in Ids, Dying
  PROVE  StepOf(id)
<1>0. TypeOK /\ inb'[id] = NoEntry
  BY DEF Dying, Crash, PanicInReceive, CrashInWrite, CrashInRename, Restarting, IndInv
<1>4. ASSUME NEW m \in Messages, PanicInReceive(m) PROVE StepOf(id)
  <2>1. m.id \in Ids /\ Accepted(m)
    BY <1>4, MessageType DEF PanicInReceive, NewBlock, InRange
  <2>2. CASE id = m.id
    BY <1>0, <1>4, <2>1, <2>2 DEF PanicInReceive, TypeOK, StepOf, Dies, DiesInCopy
  <2>3. CASE id # m.id
    BY <1>0, <1>4, <2>1, <2>3 DEF PanicInReceive, TypeOK, StepOf, Dies, DiskKept
  <2> QED
    BY <2>2, <2>3
<1>1. CASE Crash
  BY <1>0, <1>1 DEF Crash, disk, StepOf, Dies, DiskKept
<1>2. ASSUME NEW m \in Messages, CrashInWrite(m) PROVE StepOf(id)
  <2>1. m.id \in Ids
    BY MessageType
  <2>2. CASE id = m.id
    BY <1>0, <1>2, <2>1, <2>2 DEF CrashInWrite, TypeOK, StepOf, Dies, DiesInWrite
  <2>3. CASE id # m.id
    BY <1>0, <1>2, <2>1, <2>3 DEF CrashInWrite, TypeOK, StepOf, Dies, DiskKept
  <2> QED
    BY <2>2, <2>3
<1>3. CASE CrashInRename
  <2>1. "tornRename" \in Faults
    BY <1>3 DEF CrashInRename
  <2>2. ASSUME NEW i \in Ids, NEW f, NEW keep, Publish(i, f, keep), i # id
        PROVE  StepOf(id)
    BY <1>0, <2>2, PublishOthersKept DEF StepOf, Dies
  <2>3. ASSUME NEW m \in Messages, Verified(m), Completes(m), Kind[m.id] = "blake3",
               Publish(m.id, StoredFile(m), Stored(m).bits)
        PROVE  StepOf(id)
    <3>1. m.id \in Ids
      BY MessageType
    <3>2. CASE id = m.id
      <4>1. public'[id] = StoredFile(m) /\ incoming'[id] = Absent /\ bitmap'[id] = Stored(m).bits
        BY <1>0, <2>3, <3>2, OwnFiles
      <4> QED
        BY <1>0, <2>1, <2>3, <3>2, <4>1 DEF StepOf, Dies, DiesInRename
    <3> QED
      BY <2>2, <2>3, <3>1, <3>2
  <2>4. ASSUME NEW i \in Ids, Publishes(i), Publish(i, incoming[i], bitmap[i])
        PROVE  StepOf(id)
    <3>1. CASE id = i
      <4>1. public'[id] = incoming[id] /\ incoming'[id] = Absent /\ bitmap'[id] = bitmap[id]
        BY <1>0, <2>4, <3>1, OwnFiles
      <4> QED
        BY <1>0, <2>1, <2>4, <3>1, <4>1 DEF StepOf, Dies, DiesInRename
    <3> QED
      BY <2>2, <2>4, <3>1
  <2> QED
    BY <1>3, <2>3, <2>4 DEF CrashInRename
<1> QED
  BY <1>1, <1>2, <1>3, <1>4 DEF Dying

\* Every step of the engine is one of these to each id.
LEMMA Steps ==
  ASSUME IndInv, [Next]_vars, NEW id \in Ids
  PROVE  StepOf(id)
<1>0. inb \in [Ids -> Entries]
  BY DEF IndInv, TypeOK
<1>1. ASSUME NEW m \in Messages, Receive(m) PROVE StepOf(id)
  BY <1>1, IgnoredOf, StoredOf, TreeOfStep DEF Receive
<1>2. ASSUME NEW i \in Ids, Get(i) PROVE StepOf(id)
  <2>1. \/ inb'[id] = inb[id]
        \/ /\ ~inb[id].live /\ inb'[id] = NewEntry(id)
           /\ Kind[id] = "tree" => ~Exists(public[id])
    <3>1. CASE id = i
      BY <1>2, <3>1 DEF Get
    <3>2. CASE id # i /\ id = TreeOf[i] /\ Kind[i] = "blake3" /\ ~TreeOnDisk(i) /\ ~inb[id].live
      <4>1. ~Exists(public[id])
        BY <3>2 DEF TreeOnDisk
      <4> QED
        BY <1>2, <3>2, <4>1 DEF Get
    <3>3. CASE id # i /\ ~(id = TreeOf[i] /\ Kind[i] = "blake3" /\ ~TreeOnDisk(i) /\ ~inb[id].live)
      BY <1>2, <3>3 DEF Get
    <3> QED
      BY <3>1, <3>2, <3>3
  <2> QED
    BY <1>2, <2>1 DEF Get, disk, StepOf, Kept, Begins, DiskKept
<1>3. ASSUME NEW i \in Ids, HashDone(i) \/ HashDies(i) PROVE StepOf(id)
  <2>1. DiskKept(id)
    BY <1>3 DEF HashDone, HashDies, disk, DiskKept
  <2>2. PICK h \in {"match", "mismatch", "dead"} :
          inb' = [inb EXCEPT ![i].hash = h] /\ inb[i].hash = "running"
    BY <1>3 DEF HashDone, HashDies
  <2>3. CASE i = id
    BY <1>0, <2>1, <2>2, <2>3 DEF StepOf, Hashes
  <2>4. CASE i # id
    BY <1>0, <2>1, <2>2, <2>4 DEF StepOf, Kept
  <2> QED
    BY <2>3, <2>4
<1>4. CASE UNCHANGED vars \/ (\E i \in Ids : Quiet(i)) \/ (\E q \in net : Lose(q))
  BY <1>4 DEF vars, Quiet, Lose, disk, StepOf, Kept, DiskKept
<1>5. ASSUME NEW asked \in SUBSET Ids, Maintain(asked) PROVE StepOf(id)
  BY <1>5 DEF Maintain, MmapResults, StepOf, Finishes
<1>6. CASE Dying
  BY <1>6, CrashOf
<1> QED
  BY <1>1, <1>2, <1>3, <1>4, <1>5, <1>6 DEF Next, Maintenance, Dying

-----------------------------------------------------------------------------
(* The invariants of one id.                                               *)

\* The bits of an entry are those of its bitmap file until it is done.
BitsOnDisk(id) == inb[id].live /\ ~inb[id].done => inb[id].bits = bitmap[id]

\* Only a SHA-256 download is hashed, and only while it is live.
HashedIsLive(id) == inb[id].hash # "none" => inb[id].live /\ Kind[id] = "sha256"

\* A mapping that is still written to, or that is being hashed, is that of a file.
MappedIsThere(id) ==
  inb[id].mapped \/ inb[id].hash # "none" =>
    inb[id].live /\ (~inb[id].done => Exists(incoming[id]))

Shape(id) == BitsOnDisk(id) /\ HashedIsLive(id) /\ MappedIsThere(id)

Accounted(id) ==
  inb[id].live /\ (inb[id].mapped \/ inb[id].bytes_complete # 0) =>
    inb[id].bytes_complete = BytesOf(InFile(inb[id].bits, inb[id].eof), inb[id].eof)

\* A bit on disk stands for bytes that were written.
HasData(id) ==
  \A k \in bitmap[id] :
    \/ \E i \in BytesIn(k, BlockSize * MaxBlock) : incoming[id].val[i] # "hole"
    \/ Kind[id] = "tree" /\ Exists(public[id])

\* The blocks of b of which the tree that is here has the right leaf.
RightBlocks(b) == {k \in BlockNumbers : LeafRight(b, k)}

\* Bits of a blake3 download, on disk and in an entry, stand for the content's blocks.
OnDiskVerified(b) == \A k \in bitmap[b] \cap RightBlocks(b) : BlockCorrect(b, incoming[b], k)

ServedVerified(b) ==
  inb[b].live /\ inb[b].mapped =>
    \A k \in inb[b].bits \cap RightBlocks(b) :
      BlockCorrect(b, IF Exists(incoming[b]) THEN incoming[b] ELSE public[b], k)

\* Of the blocks ks no byte is another than the content's, or a hole.
NoWrong(b, ks, val) ==
  \A k \in ks : \A i \in BytesIn(k, TrueEof[b]) : val[i] \in {"hole", "true"}

\* No block of a blake3 file whose leaf is right has a wrong byte.
VerifiedOrHole(b) ==
  /\ NoWrong(b, RightBlocks(b), incoming[b].val)
  /\ NoWrong(b, RightBlocks(b), public[b].val)

\* Where peers state the content's own length, its files and mappings have it.
TrueLength(id) ==
  /\ inb[id].mapped \/ inb[id].hash # "none" => inb[id].eof = TrueEof[id]
  /\ incoming[id].len \in {-1, TrueEof[id]}

\* The entry that counts a block is that of a live download of a file that is there.
LEMMA WrittenFacts ==
  ASSUME IndInv, NEW m \in Messages, Verified(m)
  PROVE  /\ m.id \in Ids /\ Blk(m) \in BlockNumbers /\ Blk(m) \notin Opened(m).bits
         /\ Accepted(m) /\ Fits(m, Opened(m)) /\ Opened(m).eof = m.eof
         /\ m.eof \in 1 .. BlockSize * MaxBlock /\ m.off < m.eof
         /\ m.len \in Nat /\ m.len > 0 /\ Blk(m) < Blocks(m.eof)
<1>1. NewBlock(m) /\ Accepted(m) /\ TypeOK /\ m.off < m.eof
  BY DEF Verified, NewBlock, InRange, IndInv
<1>2. /\ m.id \in Ids /\ Blk(m) \in BlockNumbers /\ Blk(m) \in Nat /\ Blk(m) \notin Opened(m).bits
      /\ Fits(m, Opened(m)) /\ Opened(m).eof = m.eof /\ m.eof \in 1 .. BlockSize * MaxBlock
  BY <1>1, MessageType, BlkType, StoredType, AcceptedFacts DEF NewBlock
<1>3. Blk(m) < Blocks(m.eof)
  <2>1. Blk(m) * BlockSize < m.eof
    <3>1. m.off \in Nat /\ Blk(m) * BlockSize \in Nat /\ Blk(m) * BlockSize <= m.off /\ m.eof \in Int
      BY <1>2, MessageType, BlkType
    <3> QED
      BY <1>1, <3>1
  <2> QED
    BY <1>2, <2>1, BlockOfFile
<1>4. m.len \in Nat /\ m.len > 0
  <2>1. m.len = BlockSize \/ m.off + m.len = m.eof
    BY <1>2 DEF Fits
  <2>2. m.len \in Nat /\ m.off \in Nat /\ m.eof \in Int /\ BlockSize \in Nat \ {0}
    BY <1>2, MessageType, SizeAssumption
  <2> QED
    BY <1>1, <2>1, <2>2
<1> QED
  BY <1>1, <1>2, <1>3, <1>4

\* Peers send only what a request names: blocks.
Asked == "unasked" \notin Faults

\* A block that is taken is then the whole of the file's block.
LEMMA AskedFacts ==
  ASSUME Asked, IndInv, NEW m \in Messages, Verified(m)
  PROVE  /\ m.off = Blk(m) * BlockSize /\ m.len = BlockLen(Blk(m), m.eof)
         /\ m.len \in 1 .. BlockSize
<1>1. /\ m.eof \in 1 .. BlockSize * MaxBlock /\ Blk(m) < Blocks(m.eof) /\ Blk(m) \in Nat
      /\ Fits(m, Opened(m)) /\ Opened(m).eof = m.eof /\ m.len \in Nat
  BY WrittenFacts, BlkType
<1>2. /\ m.off = Blk(m) * BlockSize
      /\ m.len = BlockLen(Blk(m), m.eof) \/ m.len = Min2(1, BlockLen(Blk(m), m.eof))
  BY DEF Messages, Sendable, Asked
<1>3. BlockLen(Blk(m), m.eof) \in 1 .. BlockSize /\ BlockSize \in Nat
  BY <1>1, BlockOfFile, SizeAssumption
<1>4. m.len \in 1 .. BlockSize /\ m.len <= BlockLen(Blk(m), m.eof)
  BY <1>2, <1>3 DEF Min2
<1>5. m.len = BlockLen(Blk(m), m.eof)
  <2>1. m.len = BlockSize \/ Blk(m) * BlockSize + m.len = m.eof
    BY <1>1, <1>2 DEF Fits
  <2>2. CASE m.len = BlockSize
    BY <1>3, <1>4, <2>2
  <2>3. CASE Blk(m) * BlockSize + m.len = m.eof
    <3>1. Blk(m) * BlockSize \in Nat /\ m.eof \in Nat
      BY <1>1, BlkType, SizeAssumption
    <3>2. m.eof - Blk(m) * BlockSize = m.len
      BY <1>1, <2>3, <3>1
    <3> QED
      BY <1>3, <1>4, <3>1, <3>2 DEF BlockLen, Max2, Min2
  <2> QED
    BY <2>1, <2>2, <2>3
<1> QED
  BY <1>2, <1>4, <1>5

\* A length of the content's own file.
LEMMA TrueLen ==
  ASSUME NEW id \in Ids
  PROVE  /\ TrueEof[id] \in 1 .. BlockSize * MaxBlock /\ TrueEof[id] \in Nat
BY SizeAssumption

\* The file a block was written into is there, and has data in the block.
LEMMA WrittenData ==
  ASSUME IndInv, NEW m \in Messages, Verified(m)
  PROVE  /\ \E i \in BytesIn(Blk(m), BlockSize * MaxBlock) : StoredFile(m).val[i] # "hole"
         /\ \A i \in ByteNumbers :
              incoming[m.id].val[i] # "hole" => StoredFile(m).val[i] # "hole"
         /\ StoredFile(m).len = Max2(incoming[m.id].len, m.eof) /\ Exists(StoredFile(m))
<1>1. /\ TypeOK /\ m.id \in Ids /\ m.eof \in 1 .. BlockSize * MaxBlock /\ m.off < m.eof
      /\ m.len \in Nat /\ m.len > 0 /\ m.off \in Nat
  BY WrittenFacts, MessageType DEF IndInv
<1>2. /\ \A i \in ByteNumbers :
           StoredFile(m).val[i] = IF m.off <= i /\ i < m.off + m.len
                                  THEN IF m.bytes = "own" THEN "true" ELSE "other"
                                  ELSE incoming[m.id].val[i]
      /\ StoredFile(m).len = Max2(incoming[m.id].len, m.eof)
  BY <1>1, FileFields
<1>3. m.off \in BytesIn(Blk(m), BlockSize * MaxBlock)
  <2>1. BlockSize * MaxBlock \in Nat /\ m.eof \in Nat /\ m.eof <= BlockSize * MaxBlock
    BY <1>1, SizeAssumption
  <2>2. m.off \in ByteNumbers
    BY <1>1, <2>1 DEF ByteNumbers
  <2>3. (Blk(m) + 1) * BlockSize = Blk(m) * BlockSize + BlockSize
    BY BlkType, SizeAssumption
  <2> QED
    BY <1>1, <2>1, <2>2, <2>3, BlkType DEF BytesIn
<1>4. StoredFile(m).val[m.off] # "hole"
  <2>1. m.off \in ByteNumbers /\ m.off <= m.off /\ m.off < m.off + m.len
    BY <1>1, <1>3 DEF BytesIn
  <2> QED
    BY <1>2, <2>1
<1>5. Exists(StoredFile(m))
  <2>1. incoming[m.id].len \in Int /\ m.eof \in Nat
    BY <1>1, SizeAssumption DEF TypeOK, Files
  <2> QED
    BY <1>2, <2>1 DEF Max2, Exists
<1> QED
  BY <1>2, <1>3, <1>4, <1>5

\* The shape of the state of an id is kept by every step.
LEMMA ShapeStep ==
  ASSUME IndInv, NEW id \in Ids, Shape(id), StepOf(id)
  PROVE  Shape(id)'
<1> USE DEF Shape
<1>0. /\ TypeOK /\ inb[id] \in Entries /\ incoming[id] \in Files
  BY DEF IndInv, TypeOK
<1>1. CASE Kept(id)
  BY <1>0, <1>1 DEF Kept, DiskKept, Entries, BitsOnDisk, HashedIsLive, MappedIsThere
<1>2. CASE Opens(id)
  <2>1. PICK m \in Messages :
          /\ m.id = id /\ Accepted(m) /\ inb'[id] \in {Opened(m), Checked(m)}
          /\ incoming'[id] = OpenedFile(m) /\ bitmap'[id] = Opened(m).bits
    BY <1>2 DEF Opens
  <2>2. /\ inb'[id].live /\ inb'[id].hash = "none" /\ inb'[id].bits = bitmap'[id]
    <3>1. inb[id].live /\ inb[id].hash = "none"
      BY <1>0, <2>1, AcceptedFacts
    <3>2. Opened(m).live /\ Opened(m).hash = "none"
      BY <1>0, <2>1, <3>1, OpenedFields
    <3>3. Checked(m).live /\ Checked(m).hash = "none" /\ Checked(m).bits = Opened(m).bits
      BY <1>0, <3>2, CheckedFields
    <3> QED
      BY <2>1, <3>2, <3>3
  <2>3. /\ incoming'[id].val = incoming[id].val
        /\ incoming'[id].len = Max2(incoming[id].len, m.eof)
    BY <1>0, <2>1, FileFields
  <2>4. Exists(incoming'[id])
    <3>1. incoming[id].len \in Int /\ m.eof \in Nat
      BY <1>0, <2>1, MessageType, SizeAssumption DEF Files
    <3> QED
      BY <2>3, <3>1 DEF Max2, Exists
  <2> QED
    BY <2>2, <2>3, <2>4 DEF BitsOnDisk, HashedIsLive, MappedIsThere
<1>3. CASE Writes(id)
  <2>1. PICK m \in Messages :
          /\ Counts(id, m) /\ incoming'[id] = StoredFile(m) /\ bitmap'[id] = Stored(m).bits
    BY <1>3 DEF Writes
  <2>2. /\ Verified(m) /\ m.id = id /\ inb'[id].live
        /\ inb'[id].bits = bitmap'[id] /\ (Kind[id] # "sha256" => inb'[id].hash = "none")
    BY <1>0, <2>1, StoredEntry DEF Counts
  <2> QED
    BY <2>1, <2>2, WrittenData DEF BitsOnDisk, HashedIsLive, MappedIsThere
<1>4. CASE Moves(id)
  <2>1. PICK m \in Messages :
          /\ Counts(id, m) /\ inb'[id].done /\ incoming'[id] = Absent /\ Kind[id] # "sha256"
    BY <1>4 DEF Moves
  <2>2. inb'[id].live /\ inb'[id].hash = "none"
    BY <1>0, <2>1, StoredEntry DEF Counts
  <2> QED
    BY <2>1, <2>2 DEF BitsOnDisk, HashedIsLive, MappedIsThere
<1>5. CASE Retries(id)
  <2>1. PICK m \in Messages :
          /\ m.id = id /\ Verified(m) /\ incoming'[id] = StoredFile(m)
          /\ bitmap'[id] = inb'[id].bits /\ inb'[id].live /\ inb'[id].hash = "none"
    BY <1>5 DEF Retries
  <2> QED
    BY <2>1, WrittenData DEF BitsOnDisk, HashedIsLive, MappedIsThere
<1>6. CASE Begins(id)
  <2>1. /\ NewEntry(id).live /\ NewEntry(id).bits = bitmap[id] /\ NewEntry(id).hash = "none"
        /\ ~NewEntry(id).mapped
    BY DEF NewEntry, NoEntry
  <2> QED
    BY <1>6, <2>1 DEF Begins, DiskKept, BitsOnDisk, HashedIsLive, MappedIsThere
<1>7. CASE Hashes(id)
  <2>1. inb[id].live /\ Kind[id] = "sha256"
    BY <1>7 DEF Hashes, HashedIsLive
  <2>2. /\ inb'[id].live = inb[id].live /\ inb'[id].done = inb[id].done
        /\ inb'[id].bits = inb[id].bits /\ inb'[id].mapped = inb[id].mapped
    BY <1>0, <1>7 DEF Hashes, Entries
  <2> QED
    BY <1>7, <2>1, <2>2 DEF Hashes, DiskKept, BitsOnDisk, HashedIsLive, MappedIsThere
<1>8. CASE Finishes(id)
  <2>1. PICK remapped \in BOOLEAN : inb'[id] = Finished(id, remapped)
    BY <1>8 DEF Finishes
  <2>2. /\ public'[id] = IF Publishes(id) THEN incoming[id] ELSE public[id]
        /\ incoming'[id] = IF Publishes(id) THEN Absent ELSE incoming[id]
        /\ bitmap'[id] = IF ClearsBitmap(id) THEN {} ELSE bitmap[id]
    BY <1>8 DEF Finishes
  <2>4. CASE inb'[id] = NoEntry
    BY <2>4 DEF NoEntry, BitsOnDisk, HashedIsLive, MappedIsThere
  <2>5. CASE inb[id].hash = "mismatch" /\ ~inb[id].done /\ ~(inb[id].hash_failures >= 2)
    <3>1. /\ inb'[id].live = inb[id].live /\ inb'[id].bits = {} /\ inb'[id].hash = "none"
          /\ inb'[id].done = inb[id].done /\ inb'[id].mapped = remapped
      BY <1>0, <2>1, <2>5 DEF Finished, Entries
    <3>2. inb[id].hash_failures < 2
      BY <1>0, <2>5 DEF Entries
    <3>3. bitmap'[id] = {} /\ incoming'[id] = incoming[id] /\ inb[id].live
      BY <2>2, <2>5, <3>2 DEF ClearsBitmap, Publishes, HashedIsLive
    <3>4. Exists(incoming[id])
      BY <2>5 DEF MappedIsThere
    <3> QED
      BY <3>1, <3>3, <3>4 DEF BitsOnDisk, HashedIsLive, MappedIsThere
  <2>6. CASE inb[id].hash = "dead" /\ ~inb[id].done
    <3>1. /\ inb'[id].live = inb[id].live /\ inb'[id].bits = inb[id].bits
          /\ inb'[id].hash = "none" /\ inb'[id].done = inb[id].done
          /\ inb'[id].mapped = inb[id].mapped
      BY <1>0, <2>1, <2>6 DEF Finished, Entries
    <3>2. bitmap'[id] = bitmap[id] /\ incoming'[id] = incoming[id]
      BY <2>2, <2>6 DEF ClearsBitmap, Publishes
    <3> QED
      BY <3>1, <3>2 DEF BitsOnDisk, HashedIsLive, MappedIsThere
  <2>7. CASE inb'[id] = inb[id] /\ inb[id].hash \notin {"match", "mismatch", "dead"}
    <3>1. bitmap'[id] = bitmap[id] /\ incoming'[id] = incoming[id]
      BY <2>2, <2>7 DEF ClearsBitmap, Publishes
    <3> QED
      BY <2>7, <3>1 DEF BitsOnDisk, HashedIsLive, MappedIsThere
  <2> QED
    BY <2>1, <2>4, <2>5, <2>6, <2>7 DEF Finished
<1>9. CASE Dies(id)
  BY <1>9 DEF Dies, NoEntry, BitsOnDisk, HashedIsLive, MappedIsThere
<1> QED
  BY <1>1, <1>2, <1>3, <1>4, <1>5, <1>6, <1>7, <1>8, <1>9 DEF StepOf

-----------------------------------------------------------------------------
(* bytes_complete.                                                         *)

\* Opening counts the blocks that are marked.
LEMMA OpenedAccounted ==
  ASSUME IndInv, NEW m \in Messages, Accepted(m), Accounted(m.id)
  PROVE  /\ Opened(m).bits \in SUBSET BlockNumbers
         /\ Opened(m).bytes_complete = BytesOf(InFile(Opened(m).bits, m.eof), m.eof)
<1>0. TypeOK /\ inb[m.id] \in Entries /\ Opened(m) \in Entries
  BY MessageType, OpenedType DEF IndInv, TypeOK
<1>1. Opened(m).bits \in SUBSET BlockNumbers
  BY <1>0 DEF Entries
<1>2. inb[m.id].live /\ Opened(m).eof = m.eof
  BY <1>0, AcceptedFacts
<1>3. CASE inb[m.id].mapped
  <2>1. /\ Opened(m).bits = inb[m.id].bits /\ inb[m.id].eof = m.eof
        /\ Opened(m).bytes_complete = inb[m.id].bytes_complete
    BY <1>0, <1>2, <1>3, OpenedFields
  <2>2. inb[m.id].bytes_complete = BytesOf(InFile(inb[m.id].bits, inb[m.id].eof), inb[m.id].eof)
    BY <1>2, <1>3 DEF Accounted
  <2> QED
    BY <1>1, <2>1, <2>2
<1>4. CASE ~inb[m.id].mapped
  <2>1. /\ Opened(m).bits = inb[m.id].bits \ {Blocks(m.eof) - 1}
        /\ Opened(m).bytes_complete = BlockSize * Cardinality(InFile(Opened(m).bits, m.eof))
    BY <1>0, <1>4, OpenedFields
  <2>2. Blocks(m.eof) - 1 \notin Opened(m).bits
    BY <2>1
  <2> QED
    BY <1>1, <2>1, <2>2, BytesOfWhole
<1> QED
  BY <1>1, <1>3, <1>4

\* A block that is written adds its own bytes.
LEMMA StoredAccounted ==
  ASSUME Asked, IndInv, NEW m \in Messages, Verified(m), Accounted(m.id)
  PROVE  /\ Stored(m).bits \in SUBSET BlockNumbers /\ Stored(m).eof = m.eof
         /\ Stored(m).bytes_complete = BytesOf(InFile(Stored(m).bits, m.eof), m.eof)
<1>1. /\ Accepted(m) /\ Blk(m) \in BlockNumbers /\ Blk(m) \notin Opened(m).bits
      /\ Blk(m) < Blocks(m.eof) /\ m.len = BlockLen(Blk(m), m.eof) /\ Opened(m).eof = m.eof
      /\ m.eof \in 1 .. BlockSize * MaxBlock /\ TypeOK
  BY WrittenFacts, AskedFacts DEF IndInv
<1>2. /\ Opened(m).bits \in SUBSET BlockNumbers
      /\ Opened(m).bytes_complete = BytesOf(InFile(Opened(m).bits, m.eof), m.eof)
  BY <1>1, OpenedAccounted
<1>3. /\ Stored(m).bits = Opened(m).bits \cup {Blk(m)} /\ Stored(m).eof = m.eof
      /\ Stored(m).bytes_complete = Opened(m).bytes_complete + m.len
  BY <1>1, StoredFields
<1> QED
  BY <1>1, <1>2, <1>3, BytesOfMore

\* No step miscounts: duplicates, resumed bitmaps, failed hashes, bad blocks of a tree.
LEMMA AccountedStep ==
  ASSUME Asked, IndInv, NEW id \in Ids, Accounted(id), StepOf(id)
  PROVE  Accounted(id)'
<1>0. TypeOK /\ inb[id] \in Entries
  BY DEF IndInv, TypeOK
<1>1. CASE Kept(id)
  BY <1>0, <1>1 DEF Kept, Entries, Accounted
<1>2. CASE Opens(id)
  <2>1. PICK m \in Messages :
          m.id = id /\ Accepted(m) /\ inb'[id] \in {Opened(m), Checked(m)}
    BY <1>2 DEF Opens
  <2>2. /\ Opened(m).eof = m.eof
        /\ Opened(m).bytes_complete = BytesOf(InFile(Opened(m).bits, m.eof), m.eof)
    BY <1>0, <2>1, AcceptedFacts, OpenedAccounted
  <2> QED
    BY <1>0, <2>1, <2>2, CheckedFields DEF Accounted
<1>3. CASE Writes(id) \/ Moves(id)
  <2>1. PICK m \in Messages : Counts(id, m)
    BY <1>3 DEF Writes, Moves
  <2> QED
    BY <2>1, StoredAccounted DEF Counts, Accounted
<1>4. CASE Retries(id)
  <2>1. PICK m \in Messages, bad \in SUBSET BlockNumbers :
          /\ m.id = id /\ Verified(m) /\ \A k \in bad : k < Blocks(m.eof)
          /\ inb'[id].eof = Stored(m).eof /\ inb'[id].bits = Stored(m).bits \ bad
          /\ inb'[id].bytes_complete =
               Max2(0, Stored(m).bytes_complete - BytesOf(bad \cap Stored(m).bits, Stored(m).eof))
    BY <1>4 DEF Retries
  <2>2. /\ Stored(m).bits \in SUBSET BlockNumbers /\ Stored(m).eof = m.eof
        /\ Stored(m).bytes_complete = BytesOf(InFile(Stored(m).bits, m.eof), m.eof)
        /\ m.eof \in 1 .. BlockSize * MaxBlock
    BY <2>1, StoredAccounted, WrittenFacts
  <2> DEFINE rest == BytesOf(InFile(Stored(m).bits \ bad, m.eof), m.eof)
  <2>3. /\ rest = Stored(m).bytes_complete - BytesOf(bad \cap Stored(m).bits, m.eof)
        /\ rest \in Nat
    <3>1. /\ rest = BytesOf(InFile(Stored(m).bits, m.eof), m.eof)
                      - BytesOf(bad \cap Stored(m).bits, m.eof)
          /\ rest \in Nat
      BY <2>1, <2>2, BytesOfLess
    <3> QED
      BY <2>2, <3>1
  <2>4. inb'[id].bytes_complete = Max2(0, rest)
    BY <2>1, <2>2, <2>3
  <2>5. inb'[id].bytes_complete = rest
    <3> HIDE DEF rest
    <3> QED
      BY <2>3, <2>4 DEF Max2
  <2> QED
    BY <2>1, <2>2, <2>5 DEF Accounted
<1>5. CASE Begins(id)
  BY <1>5 DEF Begins, NewEntry, NoEntry, Accounted
<1>6. CASE Hashes(id)
  BY <1>0, <1>6 DEF Hashes, Entries, Accounted
<1>7. CASE Finishes(id)
  <2>1. PICK remapped \in BOOLEAN : inb'[id] = Finished(id, remapped)
    BY <1>7 DEF Finishes
  <2>2. CASE inb'[id] = NoEntry
    BY <2>2 DEF NoEntry, Accounted
  <2>3. CASE inb[id].hash = "mismatch" /\ ~inb[id].done /\ ~(inb[id].hash_failures >= 2)
    <3>1. inb'[id].bits = {} /\ inb'[id].bytes_complete = 0
      BY <1>0, <2>1, <2>3 DEF Finished, Entries
    <3>2. BytesOf(InFile({}, inb'[id].eof), inb'[id].eof) = 0
      BY BytesOfWhole
    <3> QED
      BY <3>1, <3>2 DEF Accounted
  <2>4. CASE inb[id].hash = "dead" /\ ~inb[id].done
    <3>1. /\ inb'[id].live = inb[id].live /\ inb'[id].bits = inb[id].bits
          /\ inb'[id].mapped = inb[id].mapped /\ inb'[id].eof = inb[id].eof
          /\ inb'[id].bytes_complete = inb[id].bytes_complete
      BY <1>0, <2>1, <2>4 DEF Finished, Entries
    <3> QED
      BY <3>1 DEF Accounted
  <2>5. CASE inb'[id] = inb[id]
    BY <2>5 DEF Accounted
  <2> QED
    BY <2>1, <2>2, <2>3, <2>4, <2>5 DEF Finished
<1>8. CASE Dies(id)
  BY <1>8 DEF Dies, NoEntry, Accounted
<1> QED
  BY <1>1, <1>2, <1>3, <1>4, <1>5, <1>6, <1>7, <1>8 DEF StepOf

\* bytes_complete is the number of bytes of the blocks marked in the bitmap, for
\* every block size and length, if peers send only the blocks they are asked for:
\* whatever arrives twice or cut short, is resumed or is fetched again.
THEOREM AccountingCorrect ==
  ASSUME Asked
  PROVE  Spec => []BytesAccounted
<1> DEFINE All == \A id \in Ids : Accounted(id)
<1>1. Init => All
  BY DEF Init, NoEntry, Accounted
<1>2. IndInv /\ All /\ [Next]_vars => All'
  BY Steps, AccountedStep
<1>3. All => BytesAccounted
  BY DEF Accounted, InFile, BytesAccounted
<1> HIDE DEF All
<1> QED
  BY IndInvInit, IndInvStep, <1>1, <1>2, <1>3, PTL DEF Spec

-----------------------------------------------------------------------------
(* Bits and bytes on disk.                                                 *)

\* A process that dies in a rename leaves a bitmap without its file behind; the
\* theorems on the bitmaps' meaning are about nodes to which this does not happen.
RenamesWhole == "tornRename" \notin Faults

\* A step keeps data under every bit of the bitmap on disk.
LEMMA HasDataStep ==
  ASSUME IndInv, IndInv', RenamesWhole, NEW id \in Ids, Shape(id), HasData(id), StepOf(id)
  PROVE  HasData(id)'
<1>0. TypeOK /\ inb[id] \in Entries /\ bitmap[id] \in SUBSET BlockNumbers /\ incoming[id] \in Files
      /\ bitmap'[id] \in SUBSET BlockNumbers
  BY DEF IndInv, TypeOK
<1>1. ASSUME bitmap'[id] \subseteq bitmap[id], incoming'[id].val = incoming[id].val,
             public'[id] = public[id]
      PROVE  HasData(id)'
  BY <1>1 DEF HasData
<1>2. ASSUME NEW m \in Messages, m.id = id, Verified(m), incoming'[id] = StoredFile(m),
             bitmap'[id] \subseteq bitmap[id] \cup {Blk(m)}, public'[id] = public[id]
      PROVE  HasData(id)'
  <2>1. /\ \E i \in BytesIn(Blk(m), BlockSize * MaxBlock) : incoming'[id].val[i] # "hole"
        /\ \A i \in ByteNumbers : incoming[id].val[i] # "hole" => incoming'[id].val[i] # "hole"
    BY <1>2, WrittenData
  <2>2. \A k : BytesIn(k, BlockSize * MaxBlock) \subseteq ByteNumbers
    BY DEF BytesIn
  <2> QED
    BY <1>2, <2>1, <2>2 DEF HasData
<1>3. ASSUME NEW m \in Messages, m.id = id, Accepted(m)
      PROVE  Opened(m).bits \subseteq bitmap[id]
  <2>1. inb[id].bits = bitmap[id]
    BY <1>0, <1>3, AcceptedFacts DEF Shape, BitsOnDisk
  <2> QED
    BY <1>0, <1>3, <2>1, OpenedFields
<1>4. ASSUME NEW m \in Messages, m.id = id, Verified(m)
      PROVE  /\ Opened(m).bits \subseteq bitmap[id]
             /\ Stored(m).bits \subseteq bitmap[id] \cup {Blk(m)}
  BY <1>0, <1>3, <1>4, WrittenFacts, StoredFields
<1>5. CASE Kept(id) \/ Begins(id) \/ Hashes(id)
  BY <1>1, <1>5 DEF Kept, Begins, Hashes, DiskKept
<1>6. CASE Opens(id)
  BY <1>0, <1>1, <1>3, <1>6, FileFields DEF Opens
<1>7. CASE Writes(id)
  BY <1>2, <1>4, <1>7 DEF Writes, Counts
<1>8. CASE Moves(id)
  <2>1. PICK m \in Messages :
          /\ Verified(m) /\ m.id = id /\ Kind[id] # "sha256" /\ public'[id] = StoredFile(m)
          /\ bitmap'[id] = IF Kind[id] = "blake3" THEN {} ELSE Stored(m).bits
    BY <1>8 DEF Moves, Counts
  <2>2. Exists(public'[id])
    BY <2>1, WrittenData
  <2>3. Kind[id] \in Kinds
    BY KindAssumption
  <2> QED
    BY <2>1, <2>2, <2>3 DEF HasData, Kinds
<1>9. CASE Retries(id)
  <2>1. PICK m \in Messages, bad \in SUBSET BlockNumbers :
          /\ m.id = id /\ Verified(m) /\ incoming'[id] = StoredFile(m)
          /\ bitmap'[id] = Stored(m).bits \ bad /\ public'[id] = public[id]
    BY <1>9 DEF Retries
  <2> QED
    BY <1>2, <1>4, <2>1
<1>10. CASE Finishes(id)
  <2>1. CASE Publishes(id)
    <3>1. ClearsBitmap(id)
      BY <2>1 DEF Publishes, ClearsBitmap
    <3> QED
      BY <1>10, <3>1 DEF Finishes, HasData
  <2>2. CASE ~Publishes(id)
    BY <1>1, <1>10, <2>2 DEF Finishes
  <2> QED
    BY <2>1, <2>2
<1>11. CASE Dies(id)
  <2>1. DiskKept(id) \/ DiesInCopy(id) \/ DiesInWrite(id)
    BY <1>11 DEF Dies, DiesInRename, RenamesWhole
  <2>4. CASE DiesInCopy(id)
    BY <1>0, <1>1, <1>3, <2>4, FileFields DEF DiesInCopy
  <2>2. CASE DiskKept(id)
    BY <1>1, <2>2 DEF DiskKept
  <2>3. CASE DiesInWrite(id)
    <3>1. PICK m \in Messages :
            /\ m.id = id /\ Verified(m) /\ incoming'[id] = StoredFile(m)
            /\ bitmap'[id] = Opened(m).bits /\ public'[id] = public[id]
      BY <2>3 DEF DiesInWrite
    <3> QED
      BY <1>2, <1>4, <3>1
  <2> QED
    BY <2>1, <2>2, <2>3, <2>4
<1> QED
  BY <1>5, <1>6, <1>7, <1>8, <1>9, <1>10, <1>11 DEF StepOf

\* The shape of every id's state, as an invariant of the engine.
LEMMA ShapeInvariant ==
  /\ Init => \A id \in Ids : Shape(id)
  /\ IndInv /\ (\A id \in Ids : Shape(id)) /\ [Next]_vars => (\A id \in Ids : Shape(id))'
<1>1. Init => \A id \in Ids : Shape(id)
  BY DEF Init, NoEntry, Shape, BitsOnDisk, HashedIsLive, MappedIsThere
<1>2. IndInv /\ (\A id \in Ids : Shape(id)) /\ [Next]_vars => (\A id \in Ids : Shape(id))'
  BY Steps, ShapeStep
<1> QED
  BY <1>1, <1>2

\* A bit from which a restarted node resumes is never set for a block of which
\* nothing was written, whatever peers send and wherever the process dies, except in
\* the middle of a rename.
THEOREM BitsHaveDataCorrect ==
  ASSUME RenamesWhole
  PROVE  Spec => []BitsHaveData
<1> DEFINE Shapes == \A id \in Ids : Shape(id)
           All == \A id \in Ids : HasData(id)
<1>1. Init => Shapes /\ All
  BY ShapeInvariant DEF Init, HasData
<1>2. IndInv /\ Shapes /\ [Next]_vars => Shapes'
  BY ShapeInvariant
<1>3. IndInv /\ IndInv' /\ Shapes /\ All /\ [Next]_vars => All'
  BY Steps, HasDataStep
<1>4. All => BitsHaveData
  BY DEF HasData, BitsHaveData
<1> HIDE DEF Shapes, All
<1> QED
  BY IndInvInit, IndInvStep, <1>1, <1>2, <1>3, <1>4, PTL DEF Spec

-----------------------------------------------------------------------------
(* The blocks of a blake3 download.                                        *)

\* A tree that is here is not being downloaded any more.
TreeOnce(t) ==
  Kind[t] = "tree" /\ Exists(public[t]) => ~inb[t].live \/ inb[t].done

\* Nothing of b is here.
Empty(b) ==
  bitmap[b] = {} /\ inb[b].bits = {} /\ incoming[b].val = Absent.val /\ public[b] = Absent

\* Without its tree, nothing of a blake3 content is here.
TreeFirst(b) == TreeOnDisk(b) \/ (Empty(b) /\ ~inb[b].segment_hashes)

\* The tree that is here for b stays.
TreeStays(b) == TreeOnDisk(b) => public'[TreeOf[b]] = public[TreeOf[b]]

\* A published tree is neither downloaded again nor replaced.
LEMMA TreeOnceStep ==
  ASSUME IndInv, NEW t \in Ids, Kind[t] = "tree", Shape(t), TreeOnce(t), StepOf(t)
  PROVE  /\ TreeOnce(t)'
         /\ Exists(public[t]) => public'[t] = public[t]
<1>0. TypeOK /\ inb[t] \in Entries /\ inb[t].hash = "none"
  BY DEF IndInv, TypeOK, TreesRetried
<1>1. ~Publishes(t) /\ ~Hashes(t)
  BY <1>0 DEF Publishes, Hashes
<1>2. ASSUME NEW m \in Messages, m.id = t, Accepted(m) PROVE ~Exists(public[t])
  <2>1. inb[t].live /\ ~inb[t].done
    BY <1>0, <1>2, AcceptedFacts
  <2> QED
    BY <2>1 DEF TreeOnce
<1>3. ASSUME NEW m \in Messages, m.id = t, Verified(m) PROVE ~Exists(public[t])
  BY <1>2, <1>3, WrittenFacts
<1>4. CASE Kept(t)
  <2>1. inb'[t].live = inb[t].live /\ inb'[t].done = inb[t].done
    BY <1>0, <1>4 DEF Kept, Entries
  <2> QED
    BY <1>4, <2>1 DEF Kept, DiskKept, TreeOnce
<1>5. CASE Opens(t) \/ Writes(t) \/ Retries(t)
  <2>1. ~Exists(public[t]) /\ public'[t] = public[t]
    BY <1>2, <1>3, <1>5 DEF Opens, Writes, Retries, Counts
  <2> QED
    BY <2>1 DEF TreeOnce
<1>6. CASE Moves(t)
  BY <1>3, <1>6 DEF Moves, Counts, TreeOnce
<1>7. CASE Begins(t)
  BY <1>7 DEF Begins, DiskKept, TreeOnce
<1>8. CASE Finishes(t)
  <2>1. public'[t] = public[t]
    BY <1>1, <1>8 DEF Finishes
  <2>2. inb'[t] \in {NoEntry, inb[t]}
    BY <1>0, <1>8 DEF Finishes, Finished
  <2> QED
    BY <2>1, <2>2 DEF NoEntry, TreeOnce
<1>9. CASE Dies(t)
  <2>1. ~inb'[t].live
    BY <1>9 DEF Dies, NoEntry
  <2>2. public'[t] = public[t]
    BY <1>1, <1>9 DEF Dies, DiskKept, DiesInCopy, DiesInWrite, DiesInRename
  <2> QED
    BY <2>1, <2>2 DEF TreeOnce
<1> QED
  BY <1>1, <1>4, <1>5, <1>6, <1>7, <1>8, <1>9 DEF StepOf

\* Without its tree no block is taken.
LEMMA NeedsTree ==
  ASSUME IndInv, NEW b \in BlakeIds, NEW m \in Messages, m.id = b,
         ~TreeOnDisk(b), ~inb[b].segment_hashes
  PROVE  ~Verified(m) /\ ~Opened(m).segment_hashes /\ ~Checked(m).segment_hashes
<1>1. Kind[b] = "blake3" /\ b \in Ids /\ inb[b] \in Entries /\ Opened(m) \in Entries
  BY OpenedType DEF BlakeIds, IndInv, TypeOK
<1>2. Opened(m).segment_hashes = inb[b].segment_hashes
  BY <1>1 DEF Opened, Entries
<1>3. ~Checked(m).segment_hashes
  BY <1>1, <1>2 DEF Checked, Entries
<1> QED
  BY <1>1, <1>2, <1>3 DEF Verified

\* Without its tree nothing of a blake3 content appears.
LEMMA EmptyKept ==
  ASSUME IndInv, NEW b \in BlakeIds, Shape(b), ~TreeOnDisk(b), TreeFirst(b), StepOf(b)
  PROVE  Empty(b)' /\ (inb'[b].segment_hashes => TreeOnDisk(b)')
<1>0. /\ TypeOK /\ b \in Ids /\ Kind[b] = "blake3" /\ inb[b] \in Entries
      /\ Empty(b) /\ ~inb[b].segment_hashes /\ inb[b].hash = "none"
  BY DEF IndInv, BlakeIds, TypeOK, TreeFirst, Shape, HashedIsLive
<1>1. ~Publishes(b) /\ ~ClearsBitmap(b) /\ ~Hashes(b)
  BY <1>0 DEF Publishes, ClearsBitmap, Hashes
<1>2. ~Writes(b) /\ ~Moves(b) /\ ~Retries(b) /\ ~DiesInWrite(b) /\ ~DiesInRename(b)
  BY <1>0, <1>1, NeedsTree DEF Writes, Moves, Retries, Counts, DiesInWrite, DiesInRename
<1>3. ~NoEntry.segment_hashes /\ NoEntry.bits = {}
  BY DEF NoEntry
<1>4. CASE Kept(b)
  <2>1. inb'[b].bits = {}
    BY <1>0, <1>4 DEF Kept, Entries, Empty
  <2>2. inb'[b].segment_hashes => TreeOnDisk(b)'
    BY <1>0, <1>4 DEF Kept
  <2> QED
    BY <1>0, <1>4, <2>1, <2>2 DEF Kept, DiskKept, Empty
<1>5. ASSUME NEW m \in Messages, m.id = b
      PROVE  /\ Opened(m).bits = {} /\ Checked(m).bits = {}
             /\ OpenedFile(m).val = incoming[b].val
  <2>1. Opened(m).bits = {}
    BY <1>0, <1>5, OpenedFields DEF Empty
  <2> QED
    BY <1>0, <1>5, <2>1, CheckedFields, FileFields
<1>6. CASE Opens(b)
  <2>1. PICK m \in Messages :
          /\ m.id = b /\ inb'[b] \in {Opened(m), Checked(m)}
          /\ incoming'[b] = OpenedFile(m) /\ bitmap'[b] = Opened(m).bits
          /\ public'[b] = public[b]
    BY <1>6 DEF Opens
  <2> QED
    BY <1>0, <1>5, <2>1, NeedsTree DEF Empty
<1>7. CASE Begins(b)
  <2>1. NewEntry(b).bits = bitmap[b] /\ ~NewEntry(b).segment_hashes
    BY DEF NewEntry, NoEntry
  <2> QED
    BY <1>0, <1>7, <2>1 DEF Begins, DiskKept, Empty
<1>8. CASE Finishes(b)
  <2>1. DiskKept(b)
    BY <1>1, <1>8 DEF Finishes, DiskKept
  <2>2. inb'[b] \in {NoEntry, inb[b]}
    BY <1>0, <1>8 DEF Finishes, Finished
  <2> QED
    BY <1>0, <1>3, <2>1, <2>2 DEF DiskKept, Empty
<1>9. CASE Dies(b)
  <2>1. DiskKept(b) \/ DiesInCopy(b)
    BY <1>2, <1>9 DEF Dies
  <2>2. /\ bitmap'[b] = {} /\ incoming'[b].val = Absent.val /\ public'[b] = Absent
    BY <1>0, <1>5, <2>1 DEF DiskKept, DiesInCopy, Empty
  <2> QED
    BY <1>3, <1>9, <2>2 DEF Dies, Empty
<1> QED
  BY <1>1, <1>2, <1>4, <1>6, <1>7, <1>8, <1>9 DEF StepOf

\* Trees come first, and once.
Rooted == (\A t \in Ids : TreeOnce(t)) /\ (\A b \in BlakeIds : TreeFirst(b))

\* What a step means for the tree of a blake3 content.
LEMMA RootedStep ==
  ASSUME IndInv, \A id \in Ids : Shape(id), Rooted, [Next]_vars
  PROVE  /\ Rooted'
         /\ \A b \in BlakeIds : TreeStays(b)
<1>1. \A t \in Ids : TreeOnce(t)'
  BY Steps, TreeOnceStep DEF Rooted, TreeOnce
<1>2. ASSUME NEW b \in BlakeIds PROVE TreeStays(b)
  <2>1. TreeOf[b] \in Ids /\ Kind[TreeOf[b]] = "tree"
    BY TreeAssumption
  <2> QED
    BY <2>1, Steps, TreeOnceStep DEF Rooted, TreeStays, TreeOnDisk
<1>3. ASSUME NEW b \in BlakeIds PROVE TreeFirst(b)'
  <2>1. b \in Ids /\ StepOf(b) /\ Shape(b) /\ TreeFirst(b)
    BY Steps DEF BlakeIds, Rooted
  <2>2. CASE TreeOnDisk(b)
    BY <1>2, <2>2 DEF TreeStays, TreeOnDisk, TreeFirst
  <2>3. CASE ~TreeOnDisk(b)
    BY <2>1, <2>3, EmptyKept DEF TreeFirst
  <2> QED
    BY <2>2, <2>3
<1> QED
  BY <1>1, <1>2, <1>3 DEF Rooted

\* Nothing is here at first.
LEMMA RootedInit == Init => Rooted
BY DEF Init, NoEntry, Absent, Exists, Rooted, TreeOnce, TreeFirst, Empty, BlakeIds

\* While the tree is here its leaves are the same.
LEMMA RightBlocksStay ==
  ASSUME NEW b \in BlakeIds, TreeOnDisk(b), TreeStays(b)
  PROVE  RightBlocks(b)' = RightBlocks(b) /\ (Vouched(b)' <=> Vouched(b)) /\ TreeOnDisk(b)'
BY DEF TreeStays, RightBlocks, LeafRight, HasLength, Leafless, BlockCorrect, Vouched, TreeOnDisk

\* Blocks do not overlap.
LEMMA OtherBlocks ==
  ASSUME NEW j \in BlockNumbers, NEW k \in BlockNumbers, k # j, NEW n \in Int, NEW i \in BytesIn(k, n)
  PROVE  i < j * BlockSize \/ i >= j * BlockSize + BlockSize
<1>1. /\ i \in Int /\ k * BlockSize <= i /\ i < (k + 1) * BlockSize
      /\ BlockSize \in Nat /\ j \in Nat /\ k \in Nat
  BY SizeAssumption DEF BytesIn, ByteNumbers, BlockNumbers
<1>2. CASE k < j
  <2>1. (k + 1) * BlockSize <= j * BlockSize
    BY <1>1, <1>2
  <2> QED
    BY <1>1, <2>1
<1>3. CASE j < k
  <2>1. (j + 1) * BlockSize <= k * BlockSize /\ (j + 1) * BlockSize = j * BlockSize + BlockSize
    BY <1>1, <1>3
  <2> QED
    BY <1>1, <2>1
<1> QED
  BY <1>1, <1>2, <1>3

\* The bytes of a block are within its length.
LEMMA BytesWithin ==
  ASSUME NEW k \in BlockNumbers, NEW n \in Nat, NEW i \in BytesIn(k, n)
  PROVE  k * BlockSize <= i /\ i < k * BlockSize + BlockLen(k, n)
<1>1. /\ i \in Int /\ k * BlockSize <= i /\ i < (k + 1) * BlockSize /\ i < n
      /\ BlockSize \in Nat /\ k \in Nat
  BY SizeAssumption DEF BytesIn, ByteNumbers, BlockNumbers
<1>2. (k + 1) * BlockSize = k * BlockSize + BlockSize /\ k * BlockSize \in Int
  BY <1>1
<1> QED
  BY <1>1, <1>2 DEF BlockLen, Max2, Min2

\* What a blake3 download writes has been checked against its leaf.
LEMMA BlakeWritten ==
  ASSUME Asked, IndInv, NEW b \in BlakeIds, Shape(b), NEW m \in Messages, m.id = b, Verified(m)
  PROVE  /\ Kind[b] = "blake3" /\ b \in Ids /\ Blk(m) \in BlockNumbers
         /\ Blk(m) \in RightBlocks(b) => BlockCorrect(b, StoredFile(m), Blk(m))
         /\ Exists(StoredFile(m))
         /\ \A k \in BlockNumbers \ {Blk(m)}, n \in Nat : \A i \in BytesIn(k, n) :
              StoredFile(m).val[i] = incoming[b].val[i]
         /\ Opened(m).bits \subseteq bitmap[b] /\ Blk(m) \notin Opened(m).bits
         /\ Stored(m).bits = Opened(m).bits \cup {Blk(m)}
<1>1. Kind[b] = "blake3" /\ b \in Ids /\ TypeOK
  BY DEF BlakeIds, IndInv
<1>2. CvMatches(m)
  BY <1>1 DEF Verified
<1>3. /\ Blk(m) \in BlockNumbers /\ Blk(m) \notin Opened(m).bits /\ Accepted(m)
      /\ m.off = Blk(m) * BlockSize /\ m.len \in 1 .. BlockSize
  BY WrittenFacts, AskedFacts
<1>4. Opened(m).bits \subseteq bitmap[b]
  <2>1. inb[b].bits = bitmap[b]
    BY <1>1, <1>3, AcceptedFacts DEF Shape, BitsOnDisk
  <2> QED
    BY <1>1, <2>1, OpenedFields
<1>5. Stored(m).bits = Opened(m).bits \cup {Blk(m)}
  BY <1>1, StoredFields
<1>6. \A i \in ByteNumbers :
        StoredFile(m).val[i] = IF m.off <= i /\ i < m.off + m.len
                               THEN IF m.bytes = "own" THEN "true" ELSE "other"
                               ELSE incoming[b].val[i]
  BY <1>1, FileFields
<1>7. ASSUME NEW k \in BlockNumbers \ {Blk(m)}, NEW n \in Nat, NEW i \in BytesIn(k, n)
      PROVE  StoredFile(m).val[i] = incoming[b].val[i]
  <2>1. i < m.off \/ i >= m.off + BlockSize
    BY <1>3, <1>7, OtherBlocks
  <2>2. i \in ByteNumbers /\ i \in Int /\ m.off \in Int /\ BlockSize \in Int
    BY MessageType, SizeAssumption DEF BytesIn, ByteNumbers
  <2>3. ~(m.off <= i /\ i < m.off + m.len)
    BY <1>3, <2>1, <2>2
  <2> QED
    BY <1>6, <2>2, <2>3
<1>8. ASSUME Blk(m) \in RightBlocks(b) PROVE BlockCorrect(b, StoredFile(m), Blk(m))
  <2>1. m.bytes = "own" /\ m.len = BlockLen(Blk(m), TrueEof[b])
    <3>1. WholeBlock(m)
      BY <1>2, <1>8 DEF CvMatches, RightBlocks
    <3>2. m.bytes # "shifted" /\ m.bytes \in {"own", "shifted", "other"}
      BY DEF Messages, Sendable, Asked
    <3> QED
      BY <3>1, <3>2 DEF WholeBlock
  <2>2. ASSUME NEW i \in BytesIn(Blk(m), TrueEof[b]) PROVE StoredFile(m).val[i] = "true"
    <3>1. m.off <= i /\ i < m.off + m.len
      BY <1>1, <1>3, <2>1, BytesWithin, TrueLen
    <3>2. i \in ByteNumbers
      BY DEF BytesIn
    <3> QED
      BY <1>6, <2>1, <3>1, <3>2
  <2> QED
    BY <2>2 DEF BlockCorrect
<1> QED
  BY <1>1, <1>3, <1>4, <1>5, <1>7, <1>8, WrittenData

\* A blake3 download is never hashed as a whole.
LEMMA BlakeNotHashed ==
  ASSUME NEW b \in BlakeIds, Shape(b)
  PROVE  inb[b].hash = "none" /\ ~Publishes(b) /\ ~ClearsBitmap(b) /\ ~Hashes(b) /\ ~Retries(b)
<1>1. Kind[b] = "blake3"
  BY DEF BlakeIds
<1>2. inb[b].hash = "none"
  BY <1>1 DEF Shape, HashedIsLive
<1> QED
  BY <1>1, <1>2 DEF Publishes, ClearsBitmap, Hashes, Retries

\* A block that is written leaves no wrong block where there was none.
LEMMA WrittenHole ==
  ASSUME Asked, IndInv, NEW b \in BlakeIds, Shape(b), NEW m \in Messages, m.id = b, Verified(m),
         NoWrong(b, RightBlocks(b), incoming[b].val)
  PROVE  NoWrong(b, RightBlocks(b), StoredFile(m).val)
<1>1. ASSUME NEW k \in RightBlocks(b), NEW i \in BytesIn(k, TrueEof[b])
      PROVE  StoredFile(m).val[i] \in {"hole", "true"}
  <2>1. k \in BlockNumbers /\ b \in Ids /\ TrueEof[b] \in Nat
    BY TrueLen DEF RightBlocks, BlakeIds
  <2>2. CASE k = Blk(m)
    BY <1>1, <2>2, BlakeWritten DEF BlockCorrect
  <2>3. CASE k # Blk(m)
    BY <1>1, <2>1, <2>3, BlakeWritten DEF NoWrong
  <2> QED
    BY <2>2, <2>3
<1> QED
  BY <1>1 DEF NoWrong

\* A step writes no wrong block into a blake3 file.
LEMMA HoleStep ==
  ASSUME Asked, IndInv, NEW b \in BlakeIds, Shape(b), TreeFirst(b), TreeStays(b),
         VerifiedOrHole(b), StepOf(b)
  PROVE  VerifiedOrHole(b)'
<1>0. TypeOK /\ b \in Ids
  BY DEF IndInv, BlakeIds
<1> DEFINE ks == RightBlocks(b)
<1>a. \A xs : NoWrong(b, xs, Absent.val)
  <2>1. \A k, n : BytesIn(k, n) \subseteq ByteNumbers
    BY DEF BytesIn
  <2> QED
    BY <2>1 DEF NoWrong, Absent
<1>b. CASE ~TreeOnDisk(b)
  <2>1. incoming'[b].val = Absent.val /\ public'[b].val = Absent.val
    BY <1>b, EmptyKept DEF Empty
  <2> QED
    BY <1>a, <2>1 DEF VerifiedOrHole, NoWrong
<1>c. CASE TreeOnDisk(b)
  <2>0. /\ RightBlocks(b)' = ks
        /\ NoWrong(b, ks, incoming[b].val) /\ NoWrong(b, ks, public[b].val)
    BY <1>c, RightBlocksStay DEF VerifiedOrHole
  <2>1. ASSUME NoWrong(b, ks, incoming'[b].val), NoWrong(b, ks, public'[b].val)
        PROVE  VerifiedOrHole(b)'
    BY <2>0, <2>1 DEF VerifiedOrHole, NoWrong
  <2>2. ASSUME NEW m \in Messages, m.id = b, Verified(m)
        PROVE  NoWrong(b, ks, StoredFile(m).val)
    BY <2>0, <2>2, WrittenHole
  <2> HIDE DEF ks
  <2>3. ASSUME incoming'[b].val = incoming[b].val, public'[b] = public[b]
        PROVE  VerifiedOrHole(b)'
    BY <2>0, <2>1, <2>3
  <2>4. ASSUME NEW m \in Messages, m.id = b, Verified(m),
               incoming'[b] \in {StoredFile(m), Absent}, public'[b] \in {StoredFile(m), public[b]}
        PROVE  VerifiedOrHole(b)'
    BY <1>a, <2>0, <2>1, <2>2, <2>4
  <2>5. CASE Kept(b) \/ Begins(b) \/ Hashes(b)
    BY <2>3, <2>5 DEF Kept, Begins, Hashes, DiskKept
  <2>6. CASE Opens(b)
    BY <1>0, <2>3, <2>6, FileFields DEF Opens
  <2>7. CASE Writes(b) \/ Moves(b) \/ Retries(b)
    <3>1. \E m \in Messages :
            /\ m.id = b /\ Verified(m) /\ incoming'[b] \in {StoredFile(m), Absent}
            /\ public'[b] \in {StoredFile(m), public[b]}
      BY <2>7 DEF Writes, Moves, Retries, Counts
    <3> QED
      BY <2>4, <3>1
  <2>8. CASE Finishes(b)
    BY <2>3, <2>8, BlakeNotHashed DEF Finishes
  <2>9. CASE Dies(b)
    <3>1. CASE DiskKept(b)
      BY <2>3, <3>1 DEF DiskKept
    <3>2. CASE DiesInCopy(b)
      BY <1>0, <2>3, <3>2, FileFields DEF DiesInCopy
    <3>3. CASE DiesInWrite(b) \/ DiesInRename(b)
      <4>1. \E m \in Messages :
              /\ m.id = b /\ Verified(m) /\ incoming'[b] \in {StoredFile(m), Absent}
              /\ public'[b] \in {StoredFile(m), public[b]}
        BY <3>3, BlakeNotHashed DEF DiesInWrite, DiesInRename
      <4> QED
        BY <2>4, <4>1
    <3> QED
      BY <2>9, <3>1, <3>2, <3>3 DEF Dies
  <2> QED
    BY <2>5, <2>6, <2>7, <2>8, <2>9 DEF StepOf
<1> QED
  BY <1>b, <1>c

\* If peers send the blocks they are asked for, with whatever bytes, and wherever the
\* process dies: a block of a blake3 file of which the tree here has the right leaf,
\* half-loaded or published, is the content's own block or was never written.
THEOREM NoWrongBlock ==
  ASSUME Asked
  PROVE  Spec => [](\A b \in BlakeIds : VerifiedOrHole(b))
<1> DEFINE Shapes == \A id \in Ids : Shape(id)
           All == \A b \in BlakeIds : VerifiedOrHole(b)
<1>0. Init => All
  <2>1. \A k, n : BytesIn(k, n) \subseteq ByteNumbers
    BY DEF BytesIn
  <2> QED
    BY <2>1 DEF Init, Absent, VerifiedOrHole, NoWrong, BlakeIds
<1>1. Init => Shapes /\ Rooted /\ All
  BY <1>0, ShapeInvariant, RootedInit
<1>2. IndInv /\ Shapes /\ [Next]_vars => Shapes'
  BY ShapeInvariant
<1>3. IndInv /\ Shapes /\ Rooted /\ [Next]_vars => Rooted'
  BY RootedStep
<1>4. IndInv /\ Shapes /\ Rooted /\ All /\ [Next]_vars => All'
  <2>1. ASSUME IndInv, Shapes, Rooted, All, [Next]_vars, NEW b \in BlakeIds
        PROVE  VerifiedOrHole(b)'
    <3>1. b \in Ids /\ TreeFirst(b) /\ TreeStays(b) /\ StepOf(b) /\ Shape(b)
      BY <2>1, RootedStep, Steps DEF Rooted, BlakeIds
    <3> QED
      BY <2>1, <3>1, HoleStep
  <2> QED
    BY <2>1
<1> HIDE DEF Shapes, All
<1>5. Spec => []All
  BY IndInvInit, IndInvStep, <1>1, <1>2, <1>3, <1>4, PTL DEF Spec
<1> QED
  BY <1>5 DEF All

\* What is written keeps every marked block of a right leaf the content's.
LEMMA WrittenBits ==
  ASSUME Asked, IndInv, NEW b \in BlakeIds, Shape(b), OnDiskVerified(b),
         NEW m \in Messages, m.id = b, Verified(m)
  PROVE  \A k \in Stored(m).bits \cap RightBlocks(b) : BlockCorrect(b, StoredFile(m), k)
<1>1. ASSUME NEW k \in Opened(m).bits \cap RightBlocks(b)
      PROVE  BlockCorrect(b, StoredFile(m), k)
  <2>1. k \in bitmap[b] \cap RightBlocks(b) /\ k \in BlockNumbers \ {Blk(m)}
    BY <1>1, BlakeWritten DEF RightBlocks
  <2>2. \A i \in BytesIn(k, TrueEof[b]) : incoming[b].val[i] = "true"
    BY <2>1 DEF OnDiskVerified, BlockCorrect
  <2>3. TrueEof[b] \in Nat
    BY TrueLen DEF BlakeIds
  <2>4. \A i \in BytesIn(k, TrueEof[b]) : StoredFile(m).val[i] = incoming[b].val[i]
    BY <2>1, <2>3, BlakeWritten
  <2> QED
    BY <2>2, <2>4 DEF BlockCorrect
<1> QED
  BY <1>1, BlakeWritten

\* The same with the tree here throughout.
LEMMA VerifiedWithTree ==
  ASSUME Asked, IndInv, RenamesWhole, NEW b \in BlakeIds, Shape(b), Shape(b)',
         TreeOnDisk(b), TreeStays(b), OnDiskVerified(b), ServedVerified(b), StepOf(b)
  PROVE  OnDiskVerified(b)' /\ ServedVerified(b)'
<1> DEFINE ks == RightBlocks(b)
<1>0. /\ TypeOK /\ b \in Ids /\ Kind[b] = "blake3" /\ inb[b] \in Entries
      /\ bitmap[b] \in SUBSET BlockNumbers /\ RightBlocks(b)' = ks
  BY RightBlocksStay DEF IndInv, BlakeIds, TypeOK
<1>1. ASSUME NEW m \in Messages, m.id = b, Verified(m)
      PROVE  \A k \in Stored(m).bits \cap ks : BlockCorrect(b, StoredFile(m), k)
  BY <1>1, WrittenBits
<1>a. /\ \A k \in bitmap[b] \cap ks : BlockCorrect(b, incoming[b], k)
      /\ inb[b].live /\ inb[b].mapped =>
           \A k \in inb[b].bits \cap ks :
             BlockCorrect(b, IF Exists(incoming[b]) THEN incoming[b] ELSE public[b], k)
  BY DEF OnDiskVerified, ServedVerified
<1>b. /\ OnDiskVerified(b)' <=> \A k \in bitmap'[b] \cap ks : BlockCorrect(b, incoming'[b], k)
      /\ ServedVerified(b)' <=>
           (inb'[b].live /\ inb'[b].mapped =>
              \A k \in inb'[b].bits \cap ks :
                BlockCorrect(b, IF Exists(incoming'[b]) THEN incoming'[b] ELSE public'[b], k))
  BY <1>0 DEF OnDiskVerified, ServedVerified, BlockCorrect
<1> HIDE DEF ks
<1>2. CASE Kept(b)
  <2>1. /\ inb'[b].live = inb[b].live /\ inb'[b].mapped = inb[b].mapped
        /\ inb'[b].bits = inb[b].bits
    BY <1>0, <1>2 DEF Kept, Entries
  <2> QED
    BY <1>2, <1>a, <1>b, <2>1 DEF Kept, DiskKept
<1>c. ASSUME NEW m \in Messages, m.id = b, Accepted(m)
      PROVE  /\ inb[b].live /\ ~inb[b].done /\ Opened(m).bits \subseteq bitmap[b]
             /\ \A k \in Opened(m).bits \cap ks : BlockCorrect(b, OpenedFile(m), k)
  <2>1. inb[b].live /\ ~inb[b].done /\ inb[b].bits = bitmap[b]
    BY <1>0, <1>c, AcceptedFacts DEF Shape, BitsOnDisk
  <2>2. Opened(m).bits \subseteq bitmap[b]
    BY <1>0, <1>c, <2>1, OpenedFields
  <2> QED
    BY <1>0, <1>a, <1>c, <2>1, <2>2, FileFields DEF BlockCorrect
<1>3. CASE Opens(b)
  <2>1. PICK m \in Messages :
          /\ m.id = b /\ Accepted(m) /\ inb'[b] \in {Opened(m), Checked(m)}
          /\ incoming'[b] = OpenedFile(m) /\ bitmap'[b] = Opened(m).bits
    BY <1>3 DEF Opens
  <2>3. ~Opened(m).done /\ Opened(m).mapped
    BY <1>0, <1>c, <2>1, OpenedFields
  <2>4. ~inb'[b].done /\ inb'[b].mapped /\ inb'[b].bits = Opened(m).bits
    BY <1>0, <2>1, <2>3, CheckedFields
  <2>5. Exists(incoming'[b])
    BY <2>4 DEF Shape, MappedIsThere
  <2> QED
    BY <1>b, <1>c, <2>1, <2>4, <2>5
<1>4. CASE Writes(b)
  <2>1. PICK m \in Messages :
          /\ m.id = b /\ Verified(m) /\ inb'[b].bits = Stored(m).bits
          /\ incoming'[b] = StoredFile(m) /\ bitmap'[b] = Stored(m).bits
    BY <1>4 DEF Writes, Counts
  <2> QED
    BY <1>1, <1>b, <2>1, WrittenData
<1>5. CASE Moves(b)
  <2>1. PICK m \in Messages :
          /\ m.id = b /\ Verified(m) /\ inb'[b].bits = Stored(m).bits
          /\ incoming'[b] = Absent /\ public'[b] = StoredFile(m) /\ bitmap'[b] = {}
    BY <1>0, <1>5 DEF Moves, Counts
  <2>2. ~Exists(Absent)
    BY DEF Exists, Absent
  <2> QED
    BY <1>1, <1>b, <2>1, <2>2
<1>6. CASE Begins(b)
  <2>1. ~NewEntry(b).mapped
    BY DEF NewEntry, NoEntry
  <2> QED
    BY <1>6, <1>a, <1>b, <2>1 DEF Begins, DiskKept
<1>7. CASE Finishes(b)
  <2>1. DiskKept(b)
    BY <1>7, BlakeNotHashed DEF Finishes, DiskKept
  <2>2. inb'[b] \in {NoEntry, inb[b]}
    BY <1>7, BlakeNotHashed DEF Finishes, Finished
  <2> QED
    BY <1>a, <1>b, <2>1, <2>2 DEF DiskKept, NoEntry
<1>8. CASE Dies(b)
  <2>1. ~inb'[b].live
    BY <1>8 DEF Dies, NoEntry
  <2>2. DiskKept(b) \/ DiesInCopy(b) \/ DiesInWrite(b)
    BY <1>8 DEF Dies, DiesInRename, RenamesWhole
  <2>3. CASE DiskKept(b)
    BY <1>a, <1>b, <2>1, <2>3 DEF DiskKept
  <2>5. CASE DiesInCopy(b)
    BY <1>b, <1>c, <2>1, <2>5 DEF DiesInCopy
  <2>4. CASE DiesInWrite(b)
    <3>1. PICK m \in Messages :
            /\ m.id = b /\ Verified(m) /\ incoming'[b] = StoredFile(m)
            /\ bitmap'[b] = Opened(m).bits
      BY <2>4 DEF DiesInWrite
    <3>2. Opened(m).bits \subseteq Stored(m).bits
      BY <3>1, BlakeWritten
    <3> QED
      BY <1>1, <1>b, <2>1, <3>1, <3>2
  <2> QED
    BY <2>2, <2>3, <2>4, <2>5
<1> QED
  BY <1>2, <1>3, <1>4, <1>5, <1>6, <1>7, <1>8, BlakeNotHashed DEF StepOf

\* A step keeps what is marked, and what would be served, verified.
LEMMA VerifiedStep ==
  ASSUME Asked, IndInv, RenamesWhole, NEW b \in BlakeIds, Shape(b), Shape(b)',
         TreeFirst(b), TreeStays(b), OnDiskVerified(b), ServedVerified(b), StepOf(b)
  PROVE  OnDiskVerified(b)' /\ ServedVerified(b)'
<1>1. CASE ~TreeOnDisk(b)
  <2>1. bitmap'[b] = {} /\ inb'[b].bits = {}
    BY <1>1, EmptyKept DEF Empty
  <2> QED
    BY <2>1 DEF OnDiskVerified, ServedVerified
<1>2. CASE TreeOnDisk(b)
  BY <1>2, VerifiedWithTree
<1> QED
  BY <1>1, <1>2

\* The bits of blake3 downloads are true, as an invariant.
AllVerified == Rooted /\ \A b \in BlakeIds : OnDiskVerified(b) /\ ServedVerified(b)

\* Marked and served blocks of blake3 contents are verified throughout.
LEMMA VerifiedInvariant ==
  ASSUME RenamesWhole, Asked
  PROVE  /\ Init => AllVerified
         /\ IndInv /\ (\A id \in Ids : Shape(id)) /\ AllVerified /\ [Next]_vars => AllVerified'
<1>1. Init => AllVerified
  BY RootedInit DEF Init, NoEntry, OnDiskVerified, ServedVerified, AllVerified, BlakeIds
<1>2. ASSUME IndInv, \A id \in Ids : Shape(id), AllVerified, [Next]_vars PROVE AllVerified'
  <2>1. Rooted' /\ Rooted /\ \A b \in BlakeIds : TreeStays(b)
    BY <1>2, RootedStep DEF AllVerified
  <2>2. \A id \in Ids : Shape(id)'
    BY <1>2, ShapeInvariant
  <2>3. ASSUME NEW b \in BlakeIds PROVE OnDiskVerified(b)' /\ ServedVerified(b)'
    <3>1. /\ b \in Ids /\ Shape(b) /\ Shape(b)' /\ TreeFirst(b) /\ TreeStays(b)
          /\ OnDiskVerified(b) /\ ServedVerified(b) /\ StepOf(b)
      BY <1>2, <2>1, <2>2, Steps DEF BlakeIds, Rooted, AllVerified
    <3> QED
      BY <1>2, <3>1, VerifiedStep
  <2> QED
    BY <2>1, <2>3 DEF AllVerified
<1> QED
  BY <1>1, <1>2

\* A block that serve_block would hand to another peer was checked against its leaf:
\* the tree is here, and where it has the right leaf the block is the content's.  Peers
\* send the blocks they are asked for, and no rename is torn.
THEOREM ServedBlocksCorrect ==
  ASSUME RenamesWhole, Asked
  PROVE  Spec => []ServedBlocksVerified
<1> DEFINE Shapes == \A id \in Ids : Shape(id)
<1>1. Init => Shapes /\ AllVerified
  BY ShapeInvariant, VerifiedInvariant
<1>2. IndInv /\ Shapes /\ [Next]_vars => Shapes'
  BY ShapeInvariant
<1>3. IndInv /\ Shapes /\ AllVerified /\ [Next]_vars => AllVerified'
  BY VerifiedInvariant
<1>4. IndInv /\ AllVerified => ServedBlocksVerified
  <2>1. ASSUME IndInv, AllVerified, NEW b \in BlakeIds, inb[b].live, inb[b].mapped,
               NEW k \in inb[b].bits
        PROVE  /\ TreeOnDisk(b)
               /\ LeafRight(b, k) =>
                    BlockCorrect(b, IF Exists(incoming[b]) THEN incoming[b] ELSE public[b], k)
    <3>1. TreeFirst(b) /\ ServedVerified(b) /\ inb[b] \in Entries
      BY <2>1 DEF AllVerified, Rooted, BlakeIds, IndInv, TypeOK
    <3>2. TreeOnDisk(b)
      BY <2>1, <3>1 DEF TreeFirst, Empty
    <3>3. k \in BlockNumbers
      BY <3>1 DEF Entries
    <3> QED
      BY <2>1, <3>1, <3>2, <3>3 DEF ServedVerified, RightBlocks
  <2> QED
    BY <2>1 DEF ServedBlocksVerified
<1> HIDE DEF Shapes
<1> QED
  BY IndInvInit, IndInvStep, <1>1, <1>2, <1>3, <1>4, PTL DEF Spec

-----------------------------------------------------------------------------
(* What is published.                                                      *)

\* Peers state the lengths of a content truthfully, or state none; of a tree they
\* may state any.
HonestLengths == \A id \in Ids : Kind[id] # "tree" => Eofs[id] \subseteq {0, TrueEof[id]}

\* Where there are blake3 contents, no rename is torn and peers send the blocks they
\* are asked for; a SHA-256 is hashed in the end, whatever was resumed or sent.
BlocksWhole == BlakeIds = {} \/ (RenamesWhole /\ Asked)

\* Files and mappings have the length that peers state.
LEMMA TrueLengthStep ==
  ASSUME IndInv, NEW id \in Ids, Eofs[id] \subseteq {0, TrueEof[id]},
         Shape(id), TrueLength(id), StepOf(id)
  PROVE  TrueLength(id)'
<1>0. /\ TypeOK /\ inb[id] \in Entries /\ Absent.len = -1
      /\ TrueEof[id] \in Nat
  BY SizeAssumption DEF IndInv, TypeOK, Absent
<1>1. ASSUME NEW m \in Messages, m.id = id, Accepted(m)
      PROVE  /\ m.eof = TrueEof[id] /\ Opened(m).eof = TrueEof[id]
             /\ OpenedFile(m).len = TrueEof[id]
  <2>1. m.eof \in Eofs[id] /\ m.eof > 0
    BY <1>1 DEF Messages, Sendable, Accepted
  <2>2. m.eof = TrueEof[id]
    BY <2>1
  <2>3. OpenedFile(m).len = Max2(incoming[id].len, m.eof)
    BY <1>0, <1>1, FileFields
  <2>4. OpenedFile(m).len = TrueEof[id]
    BY <1>0, <2>2, <2>3 DEF Max2, TrueLength
  <2> QED
    BY <1>0, <1>1, <2>2, <2>4, AcceptedFacts
<1>2. ASSUME NEW m \in Messages, m.id = id, Verified(m)
      PROVE  Stored(m).eof = TrueEof[id] /\ StoredFile(m).len = TrueEof[id]
  <2>1. Accepted(m)
    BY <1>2, WrittenFacts
  <2> QED
    BY <1>0, <1>1, <1>2, <2>1, StoredFields, FileFields
<1>3. CASE Kept(id)
  BY <1>0, <1>3 DEF Kept, DiskKept, Entries, TrueLength
<1>4. CASE Opens(id)
  BY <1>0, <1>1, <1>4, CheckedFields DEF Opens, TrueLength
<1>5. CASE Writes(id) \/ Moves(id) \/ Retries(id)
  <2>1. PICK m \in Messages :
          /\ m.id = id /\ Verified(m) /\ inb'[id].eof = Stored(m).eof
          /\ incoming'[id] \in {StoredFile(m), Absent}
    BY <1>5 DEF Writes, Moves, Retries, Counts
  <2> QED
    BY <1>0, <1>2, <2>1 DEF TrueLength
<1>6. CASE Begins(id)
  BY <1>6 DEF Begins, DiskKept, NewEntry, NoEntry, TrueLength
<1>7. CASE Hashes(id)
  BY <1>0, <1>7 DEF Hashes, DiskKept, Entries, TrueLength
<1>8. CASE Finishes(id)
  <2>1. incoming'[id] \in {incoming[id], Absent}
    BY <1>8 DEF Finishes
  <2>2. PICK remapped \in BOOLEAN : inb'[id] = Finished(id, remapped)
    BY <1>8 DEF Finishes
  <2>3. CASE inb'[id] = NoEntry
    BY <1>0, <2>1, <2>3 DEF NoEntry, TrueLength
  <2>4. CASE inb[id].hash = "none"
    BY <1>0, <2>1, <2>2, <2>3, <2>4 DEF Finished, TrueLength
  <2>5. CASE inb[id].hash # "none" /\ inb'[id] # NoEntry
    <3>1. inb'[id].eof = inb[id].eof
      BY <1>0, <2>2, <2>5 DEF Finished, Entries
    <3> QED
      BY <1>0, <2>1, <2>5, <3>1 DEF TrueLength
  <2> QED
    BY <2>3, <2>4, <2>5
<1>9. CASE Dies(id)
  <2>1. inb'[id] = NoEntry
    BY <1>9 DEF Dies
  <2>2. \/ incoming'[id] \in {incoming[id], Absent}
        \/ \E m \in Messages : m.id = id /\ Accepted(m) /\ incoming'[id] = OpenedFile(m)
        \/ \E m \in Messages : m.id = id /\ Verified(m) /\ incoming'[id] = StoredFile(m)
    BY <1>9 DEF Dies, DiskKept, DiesInCopy, DiesInWrite, DiesInRename
  <2>3. incoming'[id].len \in {-1, TrueEof[id]}
    BY <1>0, <1>1, <1>2, <2>2 DEF TrueLength
  <2> QED
    BY <2>1, <2>3 DEF NoEntry, TrueLength
<1> QED
  BY <1>3, <1>4, <1>5, <1>6, <1>7, <1>8, <1>9 DEF StepOf

\* Every byte of a file is in one of its blocks.
LEMMA ByteInBlock ==
  ASSUME NEW n \in 1 .. BlockSize * MaxBlock, NEW i \in ByteNumbers, i < n
  PROVE  \E k \in BlockNumbers : k < Blocks(n) /\ i \in BytesIn(k, n)
<1>1. i \in Nat /\ BlockSize \in Nat \ {0} /\ n \in Nat
  BY SizeAssumption DEF ByteNumbers
<1> DEFINE k == i \div BlockSize
<1>2. k \in Nat /\ k * BlockSize <= i /\ i < k * BlockSize + BlockSize
  BY <1>1
<1> HIDE DEF k
<1>3. k * BlockSize \in Nat /\ (k + 1) * BlockSize = k * BlockSize + BlockSize
  BY <1>1, <1>2
<1>4. k * BlockSize < n
  BY <1>1, <1>2, <1>3
<1>5. k \in BlockNumbers /\ k < Blocks(n)
  <2>1. n \in 0 .. BlockSize * MaxBlock
    BY SizeAssumption
  <2> QED
    BY <1>2, <1>4, <2>1, BlockInFile, BlockOfFile
<1>6. i \in BytesIn(k, n)
  BY <1>2, <1>3 DEF BytesIn
<1> QED
  BY <1>5, <1>6

\* Of a tree that is the content's every leaf is right.
LEMMA AllLeavesRight ==
  ASSUME NEW b \in BlakeIds, Vouched(b), NEW m \in Messages, m.id = b, HasLeaf(m),
         NEW k \in BlockNumbers, k < Blocks(TrueEof[b])
  PROVE  k \in RightBlocks(b)
<1> DEFINE t == TreeOf[b]
<1>1. /\ public[t].len = TrueEof[t]
      /\ \A i \in ByteNumbers : i < TrueEof[t] => public[t].val[i] = "true"
  BY DEF Vouched, Correct, HashMatches
<1>2. HasLength(b)
  BY <1>1 DEF HasLength
<1>3. Blocks(TrueEof[b]) # 1
  BY <1>2 DEF HasLeaf, Leafless
<1>4. ~Leafless(b, k)
  <2>1. Blocks(TrueEof[b]) \in Nat /\ k \in Nat
    BY BlocksOfFile, TrueLen DEF BlakeIds, BlockNumbers
  <2> QED
    BY <1>3, <2>1 DEF Leafless
<1>5. BlockCorrect(t, public[t], LeafBlock[b][k])
  BY <1>1 DEF BlockCorrect, BytesIn
<1> QED
  BY <1>2, <1>4, <1>5 DEF RightBlocks, LeafRight

\* With the content's tree the last block of a blake3 download completes the content,
\* not a count of bytes.
LEMMA LastBlock ==
  ASSUME Asked, IndInv, NEW b \in BlakeIds, Shape(b), Accounted(b), OnDiskVerified(b),
         TrueLength(b), Vouched(b), Eofs[b] \subseteq {0, TrueEof[b]},
         NEW m \in Messages, m.id = b, Verified(m), Completes(m)
  PROVE  Correct(b, StoredFile(m))
<1>0. /\ TypeOK /\ b \in Ids /\ Kind[b] = "blake3"
      /\ TrueEof[b] \in 1 .. BlockSize * MaxBlock /\ TrueEof[b] \in Nat
  BY TrueLen DEF IndInv, BlakeIds
<1>1. /\ Accepted(m) /\ m.eof = TrueEof[b] /\ HasLeaf(m)
      /\ StoredFile(m).len = Max2(incoming[b].len, m.eof)
  <2>1. Accepted(m)
    BY WrittenFacts
  <2>2. m.eof \in Eofs[b] /\ m.eof > 0
    BY <2>1 DEF Messages, Sendable, Accepted
  <2>3. StoredFile(m).len = Max2(incoming[b].len, m.eof)
    BY <1>0, <2>1, FileFields
  <2>4. HasLeaf(m)
    BY <1>0 DEF Verified, CvMatches
  <2> QED
    BY <2>1, <2>2, <2>3, <2>4
<1>2. /\ Stored(m).bits \in SUBSET BlockNumbers
      /\ BytesOf(InFile(Stored(m).bits, m.eof), m.eof) = m.eof
  BY StoredAccounted DEF Completes
<1>3. \A k \in Nat : k < Blocks(TrueEof[b]) => k \in Stored(m).bits
  BY <1>0, <1>1, <1>2, FullBitmap
<1>4. ASSUME NEW i \in ByteNumbers, i < TrueEof[b] PROVE StoredFile(m).val[i] = "true"
  <2>1. PICK k \in BlockNumbers : k < Blocks(TrueEof[b]) /\ i \in BytesIn(k, TrueEof[b])
    BY <1>0, <1>4, ByteInBlock
  <2>2. k \in Stored(m).bits /\ k \in RightBlocks(b)
    BY <1>1, <1>3, <2>1, AllLeavesRight DEF BlockNumbers
  <2> QED
    BY <2>1, <2>2, WrittenBits DEF BlockCorrect
<1>5. StoredFile(m).len = TrueEof[b]
  BY <1>0, <1>1 DEF Max2, TrueLength
<1> QED
  BY <1>0, <1>4, <1>5 DEF Correct, HashMatches

\* A content is under way while its download is live and not done.
UnderWay(id) == inb[id].live /\ ~inb[id].done

\* What is published under id was checked against the hash in it: as a whole, or
\* block by block against the tree of that hash.
Worth(id) == Kind[id] = "sha256" \/ (Kind[id] = "blake3" /\ Vouched(id))

\* A step to the id of a content leaves its public file as it was or, as it ends
\* the download, replaces it by the content; only Get starts a download.
Settles(id) ==
  /\ \/ public'[id] = public[id]
     \/ (Worth(id) => Correct(id, public'[id])) /\ UnderWay(id) /\ ~UnderWay(id)'
  /\ UnderWay(id)' => UnderWay(id) \/ Begins(id)

\* What the files and the entry of one id are known to be.
Sound(id) ==
  /\ Shape(id)
  /\ Kind[id] # "tree" => TrueLength(id)
  /\ id \in BlakeIds => Accounted(id) /\ OnDiskVerified(id) /\ ServedVerified(id)

\* A step publishes a content only whole, and never changes one that is published.
LEMMA SettlesStep ==
  ASSUME IndInv, HonestLengths, BlocksWhole, NEW id \in Ids, Kind[id] # "tree", Sound(id),
         VerdictNotStale, StepOf(id)
  PROVE  Settles(id)
<1>0. /\ TypeOK /\ inb[id] \in Entries /\ Eofs[id] \subseteq {0, TrueEof[id]}
      /\ TrueEof[id] \in Nat /\ Kind[id] \in {"sha256", "blake3"}
      /\ Shape(id) /\ TrueLength(id)
  BY SizeAssumption, KindAssumption DEF IndInv, TypeOK, HonestLengths, Kinds, Sound
<1>1. ASSUME NEW m \in Messages, m.id = id, Verified(m)
      PROVE  /\ UnderWay(id)
             /\ Kind[id] = "blake3" /\ Completes(m) /\ Worth(id) =>
                  Correct(id, StoredFile(m))
  <2>1. UnderWay(id)
    BY <1>0, <1>1, WrittenFacts, AcceptedFacts DEF UnderWay
  <2>2. ASSUME Kind[id] = "blake3", Completes(m), Worth(id) PROVE Correct(id, StoredFile(m))
    <3>1. id \in BlakeIds /\ Vouched(id) /\ Asked
      BY <2>2 DEF BlakeIds, Worth, BlocksWhole
    <3> QED
      BY <1>0, <1>1, <2>2, <3>1, LastBlock DEF Sound
  <2> QED
    BY <2>1, <2>2
<1>2. ASSUME Publishes(id)
      PROVE  Correct(id, incoming[id]) /\ UnderWay(id)
  <2>1. HashMatches(id, incoming[id], inb[id].eof) /\ inb[id].live /\ ~inb[id].done
    BY <1>0, <1>2 DEF Publishes, VerdictNotStale, Shape, HashedIsLive
  <2>2. incoming[id].len \in {-1, TrueEof[id]} /\ inb[id].eof = TrueEof[id]
        /\ incoming[id].len >= inb[id].eof
    BY <1>0, <2>1 DEF TrueLength, HashMatches
  <2>3. incoming[id].len = TrueEof[id]
    BY <1>0, <2>2
  <2> QED
    BY <2>1, <2>2, <2>3 DEF Correct, UnderWay
<1>4. CASE Kept(id)
  <2>1. inb'[id].live = inb[id].live /\ inb'[id].done = inb[id].done
    BY <1>0, <1>4 DEF Kept, Entries
  <2> QED
    BY <1>4, <2>1 DEF Kept, DiskKept, Settles, UnderWay
<1>5. CASE Opens(id)
  <2>1. UnderWay(id)
    BY <1>0, <1>5, AcceptedFacts DEF Opens, UnderWay
  <2> QED
    BY <1>5, <2>1 DEF Opens, Settles
<1>6. CASE Writes(id) \/ Retries(id)
  BY <1>1, <1>6 DEF Writes, Retries, Counts, Settles
<1>7. CASE Moves(id)
  <2>1. PICK m \in Messages :
          /\ m.id = id /\ Verified(m) /\ Completes(m) /\ Kind[id] # "sha256" /\ inb'[id].done
          /\ public'[id] = StoredFile(m)
    BY <1>7 DEF Moves, Counts
  <2> QED
    BY <1>0, <1>1, <2>1 DEF Settles, UnderWay
<1>8. CASE Begins(id)
  BY <1>8 DEF Begins, DiskKept, Settles
<1>9. CASE Hashes(id)
  <2>1. inb'[id].live = inb[id].live /\ inb'[id].done = inb[id].done
    BY <1>0, <1>9 DEF Hashes, Entries
  <2> QED
    BY <1>9, <2>1 DEF Hashes, DiskKept, Settles, UnderWay
<1>10. CASE Finishes(id)
  <2>1. PICK remapped \in BOOLEAN : inb'[id] = Finished(id, remapped)
    BY <1>10 DEF Finishes
  <2>2. UnderWay(id)' => UnderWay(id)
    <3>1. ~NoEntry.live
      BY DEF NoEntry
    <3>2. inb'[id] # NoEntry =>
            inb'[id].live = inb[id].live /\ inb'[id].done = inb[id].done
      BY <1>0, <2>1 DEF Finished, Entries
    <3> QED
      BY <3>1, <3>2 DEF UnderWay
  <2>3. Publishes(id) => ~UnderWay(id)'
    BY <2>1 DEF Publishes, Finished, UnderWay, NoEntry
  <2> QED
    BY <1>2, <1>10, <2>2, <2>3 DEF Finishes, Settles
<1>11. CASE Dies(id)
  <2>1. ~UnderWay(id)'
    BY <1>11 DEF Dies, NoEntry, UnderWay
  <2>2. \/ public'[id] = public[id]
        \/ Publishes(id) /\ public'[id] = incoming[id]
        \/ \E m \in Messages : /\ m.id = id /\ Verified(m) /\ Completes(m) /\ Kind[id] = "blake3"
                               /\ public'[id] = StoredFile(m)
    BY <1>11 DEF Dies, DiskKept, DiesInCopy, DiesInWrite, DiesInRename
  <2> QED
    BY <1>1, <1>2, <2>1, <2>2 DEF Settles
<1> QED
  BY <1>4, <1>5, <1>6, <1>7, <1>8, <1>9, <1>10, <1>11 DEF StepOf

\* All that the published files rest on, as one inductive invariant.
StoreInv == IndInv /\ VerdictNotStale /\ Rooted /\ \A id \in Ids : Sound(id)

\* The invariant for the content store holds throughout.
LEMMA StoreInvariant ==
  ASSUME HonestLengths, BlocksWhole
  PROVE  Spec => []StoreInv
<1> DEFINE All == \A id \in Ids : Sound(id)
<1>1. Init => VerdictNotStale /\ Rooted /\ All
  <2>1. Init => Rooted /\ \A id \in Ids : Shape(id)
    BY ShapeInvariant, RootedInit
  <2> QED
    BY <2>1 DEF Init, NoEntry, Absent, VerdictNotStale, Sound, Accounted, TrueLength,
                OnDiskVerified, ServedVerified
<1>2. ASSUME IndInv, Rooted, All, [Next]_vars PROVE Rooted' /\ All'
  <2>1. \A id \in Ids : Shape(id)
    BY <1>2 DEF Sound
  <2>2. Rooted' /\ (\A b \in BlakeIds : TreeStays(b))
    BY <1>2, <2>1, RootedStep
  <2>3. ASSUME NEW id \in Ids PROVE Sound(id)'
    <3>1. StepOf(id) /\ Shape(id) /\ Shape(id)'
      BY <1>2, <2>1, Steps, ShapeStep
    <3>2. Kind[id] # "tree" => TrueLength(id)'
      BY <1>2, <3>1, TrueLengthStep DEF HonestLengths, Sound
    <3>3. ASSUME id \in BlakeIds
          PROVE  Accounted(id)' /\ OnDiskVerified(id)' /\ ServedVerified(id)'
      <4>1. /\ Asked /\ RenamesWhole /\ TreeFirst(id) /\ TreeStays(id)
            /\ Accounted(id) /\ OnDiskVerified(id) /\ ServedVerified(id)
        BY <1>2, <2>2, <3>3 DEF BlocksWhole, Rooted, Sound
      <4> QED
        BY <1>2, <3>1, <3>3, <4>1, AccountedStep, VerifiedStep
    <3> QED
      BY <3>1, <3>2, <3>3 DEF Sound
  <2> QED
    BY <2>2, <2>3
<1>3. IndInv /\ Rooted /\ All /\ [Next]_vars => Rooted' /\ All'
  BY <1>2
<1>4. StoreInv <=> IndInv /\ VerdictNotStale /\ Rooted /\ All
  BY DEF StoreInv
<1> HIDE DEF All
<1> QED
  BY IndInvInit, IndInvStep, VerdictStep, <1>1, <1>3, <1>4, PTL DEF Spec

\* Every step settles the contents it touches, and a content whose tree comes with
\* the step is not here yet.
LEMMA SettlesAll ==
  ASSUME HonestLengths, BlocksWhole, StoreInv, [Next]_vars, NEW id \in Ids, Kind[id] # "tree"
  PROVE  /\ Settles(id)
         /\ Worth(id) => Worth(id)'
         /\ ~Worth(id) /\ Worth(id)' => ~Exists(public'[id])
<1>1. Settles(id)
  BY Steps, SettlesStep DEF StoreInv
<1>2. CASE Kind[id] # "blake3"
  BY <1>1, <1>2 DEF Worth
<1>3. CASE Kind[id] = "blake3"
  <2>1. id \in BlakeIds /\ IndInv /\ TreeFirst(id) /\ TreeStays(id) /\ StepOf(id) /\ Shape(id)
    BY <1>3, Steps, RootedStep DEF BlakeIds, StoreInv, Rooted, Sound
  <2>2. CASE TreeOnDisk(id)
    BY <1>1, <1>3, <2>1, <2>2, RightBlocksStay DEF Worth
  <2>3. CASE ~TreeOnDisk(id)
    <3>1. ~Worth(id)
      <4>1. ~Exists(public[TreeOf[id]])
        BY <1>3, <2>3 DEF TreeOnDisk
      <4>2. TrueEof[TreeOf[id]] \in Nat
        BY <2>1, TreeAssumption, TrueLen
      <4> QED
        BY <1>3, <4>1, <4>2 DEF Worth, Vouched, Correct, Exists
    <3>2. ~Exists(public'[id])
      BY <2>1, <2>3, EmptyKept DEF Empty, Exists, Absent
    <3> QED
      BY <1>1, <3>1, <3>2
  <2> QED
    BY <2>2, <2>3
<1> QED
  BY <1>2, <1>3

\* A file published under a SHA-256 is the content of that hash, whole and of its
\* length, and so is one published under a blake3 id if the tree here is the content's:
\* however often the process dies or a rename fails.  Peers state the content's length
\* truthfully; for blake3 ids they send the blocks they are asked for and no rename is
\* torn.
THEOREM PublishedContentCorrect ==
  ASSUME HonestLengths, BlocksWhole
  PROVE  Spec => []PublishedIsContent
<1>1. Init => PublishedIsContent
  BY DEF Init, PublishedIsContent, Absent, Exists
<1>2. ASSUME StoreInv, PublishedIsContent, [Next]_vars PROVE PublishedIsContent'
  <2>1. ASSUME NEW id \in Ids, Worth(id)', Exists(public'[id]) PROVE Correct(id, public'[id])
    <3>1. Kind[id] # "tree"
      BY <2>1 DEF Worth
    <3>2. Worth(id) /\ Settles(id)
      BY <1>2, <2>1, <3>1, SettlesAll
    <3> QED
      BY <1>2, <2>1, <3>2 DEF Settles, PublishedIsContent, Worth
  <2> QED
    BY <2>1 DEF PublishedIsContent, Worth, Correct, HashMatches
<1>3. StoreInv /\ PublishedIsContent /\ [Next]_vars => PublishedIsContent'
  BY <1>2
<1> QED
  BY <1>1, <1>3, StoreInvariant, PTL DEF Spec

\* The download engine implements the content store it promises: what enters the
\* store was wanted, is the content its id names, and never leaves it.
THEOREM EngineIsAStore ==
  ASSUME HonestLengths, BlocksWhole
  PROVE  Spec => ImplementsContentStore
<1> DEFINE Contents == {id \in Ids : Kind[id] # "tree"}
           W == {id \in Ids : Kind[id] # "tree" /\ inb[id].live /\ ~inb[id].done}
           S == {id \in Ids : /\ Kind[id] = "sha256" \/ (Kind[id] = "blake3" /\ Vouched(id))
                              /\ Correct(id, public[id])}
<1>1. Init => Store!Init
  <2>1. ASSUME NEW id \in Ids PROVE ~Correct(id, Absent) /\ ~NoEntry.live
    BY SizeAssumption DEF Correct, Absent, NoEntry
  <2> QED
    BY <2>1 DEF Init, Store!Init
<1>2. ASSUME StoreInv, [Next]_vars PROVE [Store!Next]_(Store!vars)
  <2>1. \A id \in Contents : Settles(id)
    BY <1>2, SettlesAll
  <2>2. S \subseteq S' /\ S' \ S \subseteq W \ W'
    <3>1. \A id \in Ids : id \in S <=> Worth(id) /\ Correct(id, public[id])
      BY DEF Worth
    <3>2. \A id \in Ids : id \in S' <=> Worth(id)' /\ Correct(id, public'[id])
      BY DEF Worth, Correct, HashMatches
    <3>3. \A id \in Ids : Correct(id, public'[id]) => Exists(public'[id])
      BY TrueLen DEF Correct, Exists
    <3>4. \A id \in Ids : (Worth(id) => Kind[id] # "tree") /\ (Worth(id)' => Kind[id] # "tree")
      BY DEF Worth
    <3>5. ASSUME NEW id \in Ids, id \in S PROVE id \in S'
      BY <1>2, <2>1, <3>1, <3>2, <3>4, <3>5, SettlesAll DEF Settles
    <3>6. ASSUME NEW id \in Ids, id \in S', id \notin S PROVE id \in W \ W'
      BY <1>2, <2>1, <3>1, <3>2, <3>3, <3>4, <3>6, SettlesAll DEF Settles, UnderWay
    <3> QED
      BY <3>5, <3>6
  <2>3. ASSUME NEW i \in Ids, Get(i) PROVE Store!Next
    <3>1. i \in Contents /\ public' = public
      BY <2>3 DEF Get, disk
    <3>2. W' = W \cup {i}
      <4>1. ASSUME NEW j \in Contents PROVE UnderWay(j)' <=> UnderWay(j) \/ j = i
        <5>1. NewEntry(j).live /\ ~NewEntry(j).done
          BY DEF NewEntry, NoEntry
        <5>2. Kind[i] = "blake3" => Kind[TreeOf[i]] = "tree"
          BY <3>1, TreeAssumption DEF BlakeIds
        <5>3. inb'[j] = IF j = i THEN NewEntry(j) ELSE inb[j]
          BY <2>3, <4>1, <5>2 DEF Get
        <5> QED
          BY <5>1, <5>3 DEF UnderWay
      <4> QED
        BY <3>1, <4>1 DEF UnderWay
    <3>3. S' = S
      BY <3>1 DEF Vouched, Correct, HashMatches
    <3> QED
      BY <3>1, <3>2, <3>3 DEF Store!Next, Store!Want
  <2>4. ASSUME ~\E i \in Ids : Get(i) PROVE Store!Next
    <3>1. W' \subseteq W
      BY <2>1, <2>4 DEF Settles, UnderWay, Begins
    <3> DEFINE got == (W \ W') \cap S'
               lost == (W \ W') \ S'
    <3>2. got \in SUBSET Contents /\ lost \in SUBSET Contents /\ got \cup lost \subseteq W
      OBVIOUS
    <3>3. W' = W \ (got \cup lost) /\ S' = S \cup got
      BY <2>2, <3>1
    <3> QED
      BY <3>2, <3>3 DEF Store!Next, Store!Settle
  <2> QED
    BY <2>3, <2>4
<1>3. StoreInv /\ [Next]_vars => [Store!Next]_(Store!vars)
  BY <1>2
<1> QED
  BY <1>1, <1>3, StoreInvariant, PTL DEF Spec, ImplementsContentStore, Store!Spec

=============================================================================

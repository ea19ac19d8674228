------------------------------ MODULE Inbound ------------------------------
(***************************************************************************)
(* The download engine of one node: InboundState, Content::receive,        *)
(* InboundState::receive_content, InboundState::finished and the download  *)
(* part of maintenance() in src/main.rs.                                   *)
(*                                                                         *)
(* A download is keyed by its id.  An id is the SHA-256 of a file, or      *)
(* "blake3/<hash>" with beside it "blake3_tree_v2/<hash>", the file of the *)
(* chaining values against which the blocks of blake3/<hash> are checked.  *)
(* The blocks of a download arrive over UDP from any peer, in any order,   *)
(* any number of times, and are written into a memory map of               *)
(* cjp2p/incoming/<id>; a bitmap file beside it says which blocks are      *)
(* there and survives a restart.  A complete SHA-256 download is hashed by *)
(* a thread, a complete tree is checked for consistency, a blake3 download *)
(* had each of its blocks checked before it was written; then the file is  *)
(* renamed to cjp2p/public/<id>.                                           *)
(*                                                                         *)
(* The module models a node to which no browser is attached: with          *)
(* ps.content_gateways empty, as it is for /get downloads, the loops over  *)
(* them do nothing.                                                        *)
(***************************************************************************)
EXTENDS Integers, FiniteSets

CONSTANTS
  Ids,        \* the content ids this node may download
  Kind,       \* Kind[id]: the form of the id, one of Kinds
  TreeOf,     \* TreeOf[b]: the tree id beside the blake3 id b
  LeafBlock,  \* LeafBlock[b][k]: the block of TreeOf[b] holding the CV of block k
  BlockSize,  \* bytes of a block (BLOCK_SIZE!(), 4096 in the code)
  MaxBlock,   \* no file has more blocks than this; next_block saturates here
  TrueEof,    \* TrueEof[id]: length of the file whose hash the id is
  Eofs,       \* Eofs[id]: the lengths peers state for id (TrueEof[id] and others)
  Faults      \* what goes wrong around the node in this instance

Kinds == {"sha256", "blake3", "tree"}

AllFaults ==
  { "corrupt",     \* a peer's copy of a block is not the content's
    "short",       \* peers answer an unverified source address with a few bytes
    "unasked",     \* peers send what no request names: any offset, any length
    "crash",       \* the process dies between two handlers and is started again
    "tornWrite",   \* it dies between the copy of a block and its bitmap bit
    "tornRename",  \* it dies between the rename to public and the bitmap's removal
    "renameFails", \* the rename to public returns an error
    "mmapFails",   \* make_read_only / make_mut returns an error
    "hashDies" }   \* the hashing thread ends without a result

BlockNumbers == 0 .. MaxBlock - 1

BlakeIds == {id \in Ids : Kind[id] = "blake3"}

ASSUME KindAssumption == Kind \in [Ids -> Kinds]
ASSUME TreeAssumption ==
  /\ TreeOf \in [BlakeIds -> {id \in Ids : Kind[id] = "tree"}]
  /\ \A b, c \in BlakeIds : TreeOf[b] = TreeOf[c] => b = c
  /\ LeafBlock \in [BlakeIds -> [BlockNumbers -> BlockNumbers]]
ASSUME SizeAssumption ==
  /\ BlockSize \in Nat \ {0}
  /\ MaxBlock \in Nat \ {0}
  /\ TrueEof \in [Ids -> 1 .. BlockSize * MaxBlock]
  /\ Eofs \in [Ids -> SUBSET (0 .. BlockSize * MaxBlock)]
ASSUME FaultAssumption == Faults \subseteq AllFaults

VARIABLES
  inb,        \* inb[id]: the entry of inbound_states, .live when there is one
  incoming,   \* incoming[id]: the file cjp2p/incoming/<id>
  bitmap,     \* bitmap[id]: the bits set in <id>.bitmap on disk ({} when there is none)
  public,     \* public[id]: the file cjp2p/public/<id>
  next_block, \* next_block[id]: InboundState::next_block
  fresh,      \* fresh[id]: last_activity is at most a second old
  net         \* block requests in flight, or whose answers are: <<id, block>>

vars == <<inb, incoming, bitmap, public, next_block, fresh, net>>

disk == <<incoming, bitmap, public>>

-----------------------------------------------------------------------------
(* Sizes and file contents.                                                *)

Min2(a, b) == IF a <= b THEN a ELSE b

Max2(a, b) == IF a >= b THEN a ELSE b

\* Number of blocks of a file of n bytes.
Blocks(n) == (n + BlockSize - 1) \div BlockSize

\* Bytes of block k in a file of n bytes.
BlockLen(k, n) == Max2(0, Min2(BlockSize, n - k * BlockSize))

ByteNumbers == 0 .. BlockSize * MaxBlock - 1

\* The bytes of block k below n.
BytesIn(k, n) == {i \in ByteNumbers : k * BlockSize <= i /\ i < (k + 1) * BlockSize /\ i < n}

\* A byte of a file on disk was never written, or is the content's own byte of
\* that place, or some other byte.
Values == {"hole", "true", "other"}

\* A file has a length and its bytes; Absent is no file at all.
Files == [len : {-1} \cup (0 .. BlockSize * MaxBlock), val : [ByteNumbers -> Values]]

Absent == [len |-> -1, val |-> [i \in ByteNumbers |-> "hole"]]

Exists(f) == f.len >= 0

BlockCorrect(id, f, k) == \A i \in BytesIn(k, TrueEof[id]) : f.val[i] = "true"

\* The first n bytes of f are a file whose hash is id.
HashMatches(id, f, n) ==
  /\ n = TrueEof[id]
  /\ f.len >= n
  /\ \A i \in ByteNumbers : i < n => f.val[i] = "true"

Correct(id, f) == f.len = TrueEof[id] /\ HashMatches(id, f, f.len)

-----------------------------------------------------------------------------
(* The entry of a download.                                                *)

\* The length assumed until the first block arrives (1 << 18 in the code).
InitEof == BlockSize * (MaxBlock + 1)

HashStates == {"none", "running", "match", "mismatch", "dead"}

Entries ==
  [live : BOOLEAN, eof : 0 .. InitEof, mapped : BOOLEAN, bits : SUBSET BlockNumbers,
   bytes_complete : Int, hash_failures : 0 .. 3, hash : HashStates,
   segment_hashes : BOOLEAN, done : BOOLEAN]

NoEntry ==
  [live |-> FALSE, eof |-> InitEof, mapped |-> FALSE, bits |-> {},
   bytes_complete |-> 0, hash_failures |-> 0, hash |-> "none",
   segment_hashes |-> FALSE, done |-> FALSE]

TreeOnDisk(id) == Kind[id] = "blake3" /\ Exists(public[TreeOf[id]])

\* InboundState::new: the bitmap of an earlier session is opened, nothing is mapped.
NewEntry(id) ==
  [NoEntry EXCEPT !.live = TRUE, !.bits = bitmap[id], !.segment_hashes = TreeOnDisk(id)]

-----------------------------------------------------------------------------
(* Requests: PleaseSendContent::new_messages and InboundState::request_blocks *)
(* on the record r = [next_block, fresh, net].                              *)

Requests == [next_block |-> next_block, fresh |-> fresh, net |-> net]

\* The first block at or after n that is past the end or not in the bitmap.
\* The bitmap is only looked at once something has arrived.
FirstMissing(e, n) ==
  IF e.bytes_complete <= 0 THEN n
  ELSE CHOOSE k \in n .. MaxBlock :
         /\ k * BlockSize >= e.eof \/ k \notin e.bits
         /\ \A j \in n .. k - 1 : j * BlockSize < e.eof /\ j \in e.bits

\* new_messages has no block to ask for: everything from n on is there.
NothingToAsk(e, n) ==
  e.bytes_complete > 0 /\ FirstMissing(e, n) * BlockSize >= e.eof

Ask(r, id, e) ==
  LET n == FirstMissing(e, r.next_block[id])
  IN  IF NothingToAsk(e, r.next_block[id])
      THEN [r EXCEPT !.next_block[id] = IF Kind[id] = "tree" THEN 0 ELSE n]
      ELSE [next_block |-> [r.next_block EXCEPT ![id] = n],
            fresh      |-> [r.fresh EXCEPT ![id] = TRUE],
            net        |-> r.net \cup {<<id, n>>}]

\* i.next_block += 1, saturating at a block past every end.
Bump(r, id) == [r EXCEPT !.next_block[id] = Min2(@ + 1, MaxBlock)]

AskAndBump(r, id, e) == Bump(Ask(r, id, e), id)

Restart(r, id) == [r EXCEPT !.next_block[id] = 0]

\* Content::receive asks for a block of another download that still misses some.
Unfinished(r, id, e) ==
  e.live /\ r.next_block[id] * BlockSize < e.eof /\ e.bytes_complete # e.eof

\* One block in 101 makes room for one more request in flight, of whichever
\* download comes first in the hash map.
Growable(id) ==
  /\ Unfinished(Requests, id, inb[id])
  /\ Kind[id] = "blake3" => inb[id].segment_hashes

Grown == {Requests} \cup {AskAndBump(Requests, id, inb[id]) : id \in {j \in Ids : Growable(j)}}

\* What is asked for when r answered nothing: another download, or the same one
\* again from its start.
Fallback(r, id, entries) ==
  LET others == {j \in Ids : Unfinished(r, j, entries[j])}
      again(s) == AskAndBump(Restart(s, id), id, entries[id])
  IN  IF others = {} THEN {again(r)}
      ELSE { IF NothingToAsk(entries[j], r.next_block[j])
             THEN again(AskAndBump(r, j, entries[j]))
             ELSE AskAndBump(r, j, entries[j]) : j \in others }

SetRequests(r) ==
  /\ next_block' = r.next_block
  /\ fresh' = r.fresh
  /\ net' = r.net

\* receive_content returned early: only the fallback of Content::receive asks.
\* touched: the early return set last_activity.
ReplyEarly(id, touched) ==
  \E g \in Grown :
    LET r == [g EXCEPT !.fresh[id] = @ \/ touched]
    IN  \E f \in Fallback(r, id, inb') : SetRequests(f)

\* receive_content ran to its end with the entry e: it asks for the next block
\* itself.  retry: the tree check then failed and next_block is 0 again.
ReplyAtEnd(id, e, retry) ==
  \E g \in Grown :
    LET s == AskAndBump([g EXCEPT !.fresh[id] = TRUE], id, e)
        r == IF retry THEN Restart(s, id) ELSE s
    IN  IF NothingToAsk(e, g.next_block[id])
        THEN \E f \in Fallback(r, id, inb') : SetRequests(f)
        ELSE SetRequests(r)

-----------------------------------------------------------------------------
(* Blocks that arrive.                                                     *)

\* The block a Content is taken for.
Blk(m) == m.off \div BlockSize

\* A Content for m.id at offset m.off of a file said to have m.eof bytes.  Peers
\* answer requests with whole blocks or, "short", with a few bytes of one
\* (Content::new_block); receive_content asks neither whether it requested the
\* offset nor whether it is a block's.  m.bytes: "own", the content's bytes at
\* m.off; "shifted", those of block Blk(m), which does not begin there; "other".
Sendable(m) ==
  /\ m.eof \in Eofs[m.id]
  /\ \/ "unasked" \in Faults
     \/ /\ m.off = Blk(m) * BlockSize
        /\ \/ m.len = BlockLen(Blk(m), m.eof)
           \/ "short" \in Faults /\ m.len = Min2(1, BlockLen(Blk(m), m.eof))
  /\ m.bytes = "own" => m.len = 0 \/ m.off + m.len <= TrueEof[m.id]
  /\ m.bytes = "shifted" =>
       /\ "unasked" \in Faults /\ m.off # Blk(m) * BlockSize
       /\ m.len > 0 /\ m.len = BlockLen(Blk(m), TrueEof[m.id])
  /\ m.bytes = "other" =>
       m.len > 0 /\ ("corrupt" \in Faults \/ m.off + m.len > TrueEof[m.id])

Messages ==
  { m \in [id : Ids, off : 0 .. BlockSize * MaxBlock, eof : UNION {Eofs[i] : i \in Ids},
           len : 0 .. BlockSize * MaxBlock, bytes : {"own", "shifted", "other"}] : Sendable(m) }

\* Mutant of Opened: a resumed bitmap is trusted for the last block as well.
OpenedTrusting(m) ==
  LET e == inb[m.id]
  IN  IF e.mapped THEN e
      ELSE [e EXCEPT !.eof = m.eof, !.mapped = TRUE,
                     !.bytes_complete =
                       BlockSize * Cardinality({k \in e.bits : k < Blocks(m.eof)})]

\* The mapping and the bitmap are made when the first block arrives: the last
\* block's bit is cleared, the others count as complete.
Opened(m) ==
  LET e == inb[m.id]
      kept == e.bits \ {Blocks(m.eof) - 1}
  IN  IF e.mapped THEN e
      ELSE [e EXCEPT !.eof = m.eof, !.mapped = TRUE, !.bits = kept,
                     !.bytes_complete =
                       BlockSize * Cardinality({k \in kept : k < Blocks(m.eof)})]

\* incoming/<id> is created or extended with zeros, never cut.
OpenedFile(m) == [incoming[m.id] EXCEPT !.len = Max2(@, m.eof)]

\* The file after the bytes of m are copied over it, at m's offset.
Written(m, f) ==
  [f EXCEPT !.val = [i \in ByteNumbers |->
     IF m.off <= i /\ i < m.off + m.len THEN IF m.bytes = "own" THEN "true" ELSE "other"
     ELSE f.val[i]]]

\* A block is taken when it is whole or ends the file.
Fits(m, e) == m.len = BlockSize \/ m.off + m.len = e.eof

\* leaf_cv_in_tree_v2: the tree's length gives the number of its leaves, and
\* gives none for a tree of a single leaf.  A tree of another length is some
\* other content's: it may have a leaf there or none.
HasLength(b) == public[TreeOf[b]].len = TrueEof[TreeOf[b]]

Leafless(b, k) == Blocks(TrueEof[b]) = 1 \/ k >= Blocks(TrueEof[b])

NoLeaf(m) == HasLength(m.id) => Leafless(m.id, Blk(m))

HasLeaf(m) == HasLength(m.id) => ~Leafless(m.id, Blk(m))

\* The leaf of block k in the tree that is here is that of the content's block.
LeafRight(b, k) ==
  /\ HasLength(b)
  /\ ~Leafless(b, k)
  /\ BlockCorrect(TreeOf[b], public[TreeOf[b]], LeafBlock[b][k])

\* The bytes of m are those of the content's block, wherever they are to go.
WholeBlock(m) ==
  /\ m.bytes # "other"
  /\ m.bytes = "own" => m.off = Blk(m) * BlockSize
  /\ m.len = BlockLen(Blk(m), TrueEof[m.id])

\* The chaining value of the bytes is compared with the leaf.  Of a wrong leaf it
\* may be equal or not: the peer may have made both from another file.
CvMatches(m) == HasLeaf(m) /\ (LeafRight(m.id, Blk(m)) => WholeBlock(m))

CvDiffers(m) == HasLeaf(m) /\ (LeafRight(m.id, Blk(m)) => ~WholeBlock(m))

\* A download of m's id is under way; anything else is dropped on arrival.
Arrives(m) == inb[m.id].live /\ (<<m.id, Blk(m)>> \in net \/ "unasked" \in Faults)

\* The download already has all its blocks and waits to be hashed or removed.
LateDuplicate(m) ==
  /\ Arrives(m)
  /\ inb[m.id].done \/ inb[m.id].hash # "none"
  /\ UNCHANGED <<inb, disk>>
  /\ ReplyEarly(m.id, FALSE)

\* Mutant of Wanted: blocks are still taken while the file is being hashed.
WantedWhileHashing(m) == Arrives(m) /\ ~inb[m.id].done

Wanted(m) == Arrives(m) /\ ~inb[m.id].done /\ inb[m.id].hash = "none"

\* A length of zero, or one other than the length the mapping was made with.
RefuseEof(m) ==
  /\ Wanted(m)
  /\ m.eof = 0 \/ (inb[m.id].mapped /\ inb[m.id].eof # m.eof)
  /\ UNCHANGED <<inb, disk>>
  /\ ReplyEarly(m.id, FALSE)

Accepted(m) ==
  Wanted(m) /\ m.eof > 0 /\ (inb[m.id].mapped => inb[m.id].eof = m.eof)

\* The mapping is open; the entry becomes e, the file f and the bitmap e's.
Open(id, e, f) ==
  /\ inb' = [inb EXCEPT ![id] = e]
  /\ incoming' = [incoming EXCEPT ![id] = f]
  /\ bitmap' = [bitmap EXCEPT ![id] = e.bits]

PastEof(m) ==
  /\ Accepted(m)
  /\ m.off >= m.eof
  /\ Open(m.id, Opened(m), OpenedFile(m))
  /\ UNCHANGED public
  /\ ReplyEarly(m.id, FALSE)

InRange(m) == Accepted(m) /\ m.off < m.eof

\* The block is already there, or is neither whole nor the end of the file.
NothingNew(m) ==
  /\ InRange(m)
  /\ Blk(m) \in Opened(m).bits \/ ~Fits(m, Opened(m))
  /\ Open(m.id, Opened(m), OpenedFile(m))
  /\ UNCHANGED public
  /\ ReplyAtEnd(m.id, Opened(m), FALSE)

NewBlock(m) == InRange(m) /\ Blk(m) \notin Opened(m).bits /\ Fits(m, Opened(m))

\* The tree is loaded from public/ as soon as it is there.
Checked(m) == [Opened(m) EXCEPT !.segment_hashes = @ \/ TreeOnDisk(m.id)]

\* A block of a blake3 download that no leaf of the tree, or no tree, vouches for.
NotReady(m) ==
  /\ NewBlock(m)
  /\ Kind[m.id] = "blake3"
  /\ Checked(m).segment_hashes => NoLeaf(m)
  /\ Open(m.id, Checked(m), OpenedFile(m))
  /\ UNCHANGED public
  /\ ReplyEarly(m.id, FALSE)

CvMismatch(m) ==
  /\ NewBlock(m)
  /\ Kind[m.id] = "blake3"
  /\ Checked(m).segment_hashes /\ CvDiffers(m)
  /\ Open(m.id, Checked(m), OpenedFile(m))
  /\ UNCHANGED public
  /\ ReplyEarly(m.id, TRUE)

\* The bytes go into the mapping.
InMap(m) == m.off + m.len <= OpenedFile(m).len

\* Mutant of Verified: without a tree the block is taken unchecked.
VerifiedIfTree(m) ==
  /\ NewBlock(m)
  /\ Kind[m.id] = "blake3" /\ Checked(m).segment_hashes => CvMatches(m)
  /\ InMap(m)

Verified(m) ==
  /\ NewBlock(m)
  /\ Kind[m.id] = "blake3" => Checked(m).segment_hashes /\ CvMatches(m)
  /\ InMap(m)

\* The entry and the file with the block in them.
Stored(m) ==
  [Checked(m) EXCEPT !.bytes_complete = @ + m.len, !.bits = @ \cup {Blk(m)}]

StoredFile(m) == Written(m, OpenedFile(m))

Completes(m) == Stored(m).bytes_complete = Stored(m).eof

StoreBlock(m) ==
  /\ Verified(m)
  /\ ~Completes(m)
  /\ Open(m.id, Stored(m), StoredFile(m))
  /\ UNCHANGED public
  /\ ReplyAtEnd(m.id, Stored(m), FALSE)

RenameResults == {TRUE} \cup (IF "renameFails" \in Faults THEN {FALSE} ELSE {})

MmapResults == {TRUE} \cup (IF "mmapFails" \in Faults THEN {FALSE} ELSE {})

\* The file f becomes public/<id>; keep: its bitmap stays behind.
Publish(id, f, keep) ==
  /\ public' = [public EXCEPT ![id] = f]
  /\ incoming' = [incoming EXCEPT ![id] = Absent]
  /\ bitmap' = [bitmap EXCEPT ![id] = keep]

\* The last block of a blake3 download.
CompleteBlake3(m) ==
  /\ Verified(m)
  /\ Completes(m)
  /\ Kind[m.id] = "blake3"
  /\ LET e == [Stored(m) EXCEPT !.done = TRUE]
     IN  /\ \E renamed \in RenameResults :
              IF renamed
              THEN /\ inb' = [inb EXCEPT ![m.id] = e]
                   /\ Publish(m.id, StoredFile(m), {})
              ELSE /\ Open(m.id, e, StoredFile(m))
                   /\ UNCHANGED public
         /\ ReplyAtEnd(m.id, e, FALSE)

\* The last block of a SHA-256 download: the mapping is handed to a thread that
\* hashes it, and is lost if it cannot be made read-only.
CompleteSha256(m) ==
  /\ Verified(m)
  /\ Completes(m)
  /\ Kind[m.id] = "sha256"
  /\ \E readOnly \in MmapResults :
       LET e == [Stored(m) EXCEPT !.mapped = FALSE,
                                  !.hash = IF readOnly THEN "running" ELSE @]
       IN  /\ Open(m.id, e, StoredFile(m))
           /\ ReplyAtEnd(m.id, e, FALSE)
  /\ UNCHANGED public

\* check_tree_v2_data: the blocks found bad.  The number of leaves of a tree of
\* one leaf cannot be derived from its length; of a tree that is not the
\* content's the check finds some blocks bad, perhaps none (module TreeV2).
BadBlocks(t, f, eof) ==
  IF \E b \in BlakeIds : TreeOf[b] = t /\ Blocks(TrueEof[b]) = 1 THEN {{0}}
  ELSE IF HashMatches(t, f, eof) THEN {{}}
  ELSE SUBSET {k \in BlockNumbers : k < Blocks(eof)}

\* Bytes of the blocks in ks, all of them below Blocks(n).
BytesOf(ks, n) ==
  BlockSize * Cardinality(ks)
    - (IF Blocks(n) - 1 \in ks THEN BlockSize - BlockLen(Blocks(n) - 1, n) ELSE 0)

\* The tree is published and its mapping handed to the content's download.
PublishTree(m) ==
  \E renamed \in RenameResults, handed \in MmapResults :
    IF renamed
    THEN /\ inb' = [j \in Ids |->
                      IF j = m.id THEN [Stored(m) EXCEPT !.done = TRUE, !.mapped = FALSE]
                      ELSE IF j \in BlakeIds /\ inb[j].live /\ TreeOf[j] = m.id /\ handed
                      THEN [inb[j] EXCEPT !.segment_hashes = TRUE]
                      ELSE inb[j]]
         /\ Publish(m.id, StoredFile(m), Stored(m).bits)
    ELSE /\ Open(m.id, [Stored(m) EXCEPT !.done = TRUE], StoredFile(m))
         /\ UNCHANGED public

\* Mutant of RetryTree: every bad block counts as a whole one.
RetryTreeWhole(m, bad) ==
  LET e == [Stored(m) EXCEPT !.hash_failures = @ + 1]
  IN  /\ Open(m.id,
              IF e.hash_failures > 2 THEN [e EXCEPT !.done = TRUE]
              ELSE [e EXCEPT !.bits = @ \ bad,
                             !.bytes_complete = Max2(0, @ - BlockSize * Cardinality(bad \cap e.bits))],
              StoredFile(m))
      /\ UNCHANGED public

\* The tree's bad blocks are fetched again, three times at most.
RetryTree(m, bad) ==
  LET e == [Stored(m) EXCEPT !.hash_failures = @ + 1]
  IN  /\ Open(m.id,
              IF e.hash_failures > 2 THEN [e EXCEPT !.done = TRUE]
              ELSE [e EXCEPT !.bits = @ \ bad,
                             !.bytes_complete = Max2(0, @ - BytesOf(bad \cap e.bits, e.eof))],
              StoredFile(m))
      /\ UNCHANGED public

CompleteTree(m) ==
  /\ Verified(m)
  /\ Completes(m)
  /\ Kind[m.id] = "tree"
  /\ \E bad \in BadBlocks(m.id, StoredFile(m), m.eof) :
       /\ IF bad = {} THEN PublishTree(m) ELSE RetryTree(m, bad)
       /\ ReplyAtEnd(m.id, Stored(m), bad # {} /\ ~inb'[m.id].done)

Receive(m) ==
  \/ LateDuplicate(m)
  \/ RefuseEof(m)
  \/ PastEof(m)
  \/ NothingNew(m)
  \/ NotReady(m)
  \/ CvMismatch(m)
  \/ StoreBlock(m)
  \/ CompleteBlake3(m)
  \/ CompleteSha256(m)
  \/ CompleteTree(m)

-----------------------------------------------------------------------------
(* The user, the hashing thread, the clock and the network.                *)

\* Mutant of Get: the tree of a blake3 id is not asked for.
GetAlone(id) ==
  /\ Kind[id] # "tree"
  /\ ~inb[id].live
  /\ inb' = [inb EXCEPT ![id] = NewEntry(id)]
  /\ next_block' = [next_block EXCEPT ![id] = 0]
  /\ fresh' = [fresh EXCEPT ![id] = TRUE]
  /\ net' = net \cup {<<id, 0>>}
  /\ UNCHANGED disk

\* /get, /?get=, /?getb3= and a page that is not here: InboundState::new, for a
\* blake3 id also of its tree unless that is public or on its way.
Get(id) ==
  /\ Kind[id] # "tree"
  /\ ~inb[id].live
  /\ LET news == {id} \cup
           (IF Kind[id] = "blake3" /\ ~TreeOnDisk(id) /\ ~inb[TreeOf[id]].live
            THEN {TreeOf[id]} ELSE {})
     IN  /\ inb' = [j \in Ids |-> IF j \in news THEN NewEntry(j) ELSE inb[j]]
         /\ next_block' = [j \in Ids |-> IF j \in news THEN 0 ELSE next_block[j]]
         /\ fresh' = [j \in Ids |-> j \in news \/ fresh[j]]
         /\ net' = net \cup {<<j, 0>> : j \in news}
  /\ UNCHANGED disk

\* The thread hashes the file's first eof bytes and sends whether they match.
HashDone(id) ==
  /\ inb[id].hash = "running"
  /\ inb' = [inb EXCEPT ![id].hash =
               IF HashMatches(id, incoming[id], inb[id].eof) THEN "match" ELSE "mismatch"]
  /\ UNCHANGED <<disk, next_block, fresh, net>>

HashDies(id) ==
  /\ "hashDies" \in Faults
  /\ inb[id].hash = "running"
  /\ inb' = [inb EXCEPT ![id].hash = "dead"]
  /\ UNCHANGED <<disk, next_block, fresh, net>>

\* A second passes without activity on the download.
Quiet(id) ==
  /\ fresh[id]
  /\ fresh' = [fresh EXCEPT ![id] = FALSE]
  /\ UNCHANGED <<inb, disk, next_block, net>>

\* A request, or all answers to it still in flight, are lost.
Lose(q) ==
  /\ q \in net
  /\ net' = net \ {q}
  /\ UNCHANGED <<inb, disk, next_block, fresh>>

-----------------------------------------------------------------------------
(* maintenance(), about once a second.                                     *)


\* InboundState::finished, then the removal of the entries that are done.
\* remapped: make_mut gave the mapping back after a mismatch.
Finished(id, remapped) ==
  LET e == inb[id]
  IN  IF e.done \/ e.hash = "match" THEN NoEntry
      ELSE IF e.hash = "mismatch"
      THEN IF e.hash_failures >= 2 THEN NoEntry
           ELSE [e EXCEPT !.hash = "none", !.hash_failures = @ + 1, !.mapped = remapped,
                          !.bits = {}, !.bytes_complete = 0]
      ELSE IF e.hash = "dead"
      THEN [e EXCEPT !.hash = "none", !.hash_failures = Min2(@ + 1, 3)]
      ELSE e

\* Mutant of Publishes: the thread's answer is not looked at.
PublishesAnyway(id) == inb[id].hash \in {"match", "mismatch"} /\ ~inb[id].done

Publishes(id) == inb[id].hash = "match" /\ ~inb[id].done

ClearsBitmap(id) ==
  /\ ~inb[id].done
  /\ inb[id].hash = "match" \/ (inb[id].hash = "mismatch" /\ inb[id].hash_failures < 2)

\* A download without activity for a second starts over from its first missing
\* block; a random choice leaves some of them for the next time.
Stalled(id) == inb'[id].live /\ inb'[id].bytes_complete # inb'[id].eof /\ ~fresh[id]

Restartable(id) == Stalled(id) /\ (Kind[id] = "blake3" => inb'[id].segment_hashes)

Restarted(id) ==
  IF ~inb'[id].live \/ Stalled(id) \/ (inb[id].hash = "mismatch" /\ ~inb[id].done)
  THEN 0 ELSE next_block[id]

Maintain(asked) ==
  /\ \E remapped \in MmapResults : inb' = [id \in Ids |-> Finished(id, remapped)]
  /\ public' = [id \in Ids |-> IF Publishes(id) THEN incoming[id] ELSE public[id]]
  /\ incoming' = [id \in Ids |-> IF Publishes(id) THEN Absent ELSE incoming[id]]
  /\ bitmap' = [id \in Ids |-> IF ClearsBitmap(id) THEN {} ELSE bitmap[id]]
  /\ asked \subseteq {id \in Ids : Restartable(id)}
  /\ asked = {} => \A id \in Ids : ~Restartable(id)
  /\ next_block' = [id \in Ids |->
       IF id \in asked THEN FirstMissing(inb'[id], 0) ELSE Restarted(id)]
  /\ fresh' = [id \in Ids |-> id \in asked \/ (fresh[id] /\ inb'[id].live)]
  /\ net' = net \cup {<<id, FirstMissing(inb'[id], 0)>> : id \in asked}

Maintenance == \E asked \in SUBSET Ids : Maintain(asked)

-----------------------------------------------------------------------------
(* The process dies.  What it wrote through its maps stays in the files,    *)
(* packets stay in flight, and the node starts with no downloads.           *)

Restarting ==
  /\ inb' = [id \in Ids |-> NoEntry]
  /\ next_block' = [id \in Ids |-> 0]
  /\ fresh' = [id \in Ids |-> FALSE]
  /\ UNCHANGED net

Crash ==
  /\ "crash" \in Faults
  /\ Restarting
  /\ UNCHANGED disk

\* Mutant of CrashInWrite: the bit is set before the bytes are copied.
CrashBeforeWrite(m) ==
  /\ "tornWrite" \in Faults
  /\ Verified(m)
  /\ incoming' = [incoming EXCEPT ![m.id] = OpenedFile(m)]
  /\ bitmap' = [bitmap EXCEPT ![m.id] = Stored(m).bits]
  /\ UNCHANGED public
  /\ Restarting

\* Bytes that do not go into the mapping make receive_content panic before it
\* copies any of them, which ends the process.
PanicInReceive(m) ==
  /\ NewBlock(m)
  /\ Kind[m.id] = "blake3" => Checked(m).segment_hashes /\ CvMatches(m)
  /\ ~InMap(m)
  /\ incoming' = [incoming EXCEPT ![m.id] = OpenedFile(m)]
  /\ bitmap' = [bitmap EXCEPT ![m.id] = Opened(m).bits]
  /\ UNCHANGED public
  /\ Restarting

\* In receive_content, after the bytes are copied and before the bit is set.
CrashInWrite(m) ==
  /\ "tornWrite" \in Faults
  /\ Verified(m)
  /\ incoming' = [incoming EXCEPT ![m.id] = StoredFile(m)]
  /\ bitmap' = [bitmap EXCEPT ![m.id] = Opened(m).bits]
  /\ UNCHANGED public
  /\ Restarting

\* In receive_content or finished, after the rename and before the bitmap's removal.
CrashInRename ==
  /\ "tornRename" \in Faults
  /\ \/ \E m \in Messages :
          /\ Verified(m) /\ Completes(m) /\ Kind[m.id] = "blake3"
          /\ Publish(m.id, StoredFile(m), Stored(m).bits)
     \/ \E id \in Ids :
          /\ Publishes(id)
          /\ Publish(id, incoming[id], bitmap[id])
  /\ Restarting

-----------------------------------------------------------------------------
Init ==
  /\ inb = [id \in Ids |-> NoEntry]
  /\ incoming = [id \in Ids |-> Absent]
  /\ bitmap = [id \in Ids |-> {}]
  /\ public = [id \in Ids |-> Absent]
  /\ next_block = [id \in Ids |-> 0]
  /\ fresh = [id \in Ids |-> FALSE]
  /\ net = {}

Next ==
  \/ \E m \in Messages : Receive(m)
  \/ \E id \in Ids : Get(id)
  \/ \E id \in Ids : HashDone(id)
  \/ \E id \in Ids : HashDies(id)
  \/ \E id \in Ids : Quiet(id)
  \/ \E q \in net : Lose(q)
  \/ Maintenance
  \/ Crash
  \/ \E m \in Messages : PanicInReceive(m)
  \/ \E m \in Messages : CrashInWrite(m)
  \/ CrashInRename

Spec == Init /\ [][Next]_vars

-----------------------------------------------------------------------------
(* Fairness.  The engine's loop calls maintenance for ever and the hashing  *)
(* thread runs to its end.  Maintenance's coin and the order of the hash map   *)
(* let it reach each stalled download again and again.  A peer that has the  *)
(* content answers, and a request sent again and again is answered once.     *)

MaintainWith(id) == \E asked \in SUBSET Ids : id \in asked /\ Maintain(asked)

HonestAnswer(id, k) ==
  /\ <<id, k>> \in net
  /\ \E m \in {[id |-> id, off |-> k * BlockSize, eof |-> TrueEof[id],
                len |-> BlockLen(k, TrueEof[id]), bytes |-> "own"]} : Receive(m)

Fairness ==
  /\ WF_vars(Maintenance)
  /\ \A id \in Ids : SF_vars(MaintainWith(id))
  /\ \A id \in Ids : WF_vars(Quiet(id))
  /\ \A id \in Ids : WF_vars(HashDone(id) \/ HashDies(id))
  /\ \A id \in Ids : \A k \in 0 .. Blocks(TrueEof[id]) - 1 : SF_vars(HonestAnswer(id, k))

FairSpec == Spec /\ Fairness

-----------------------------------------------------------------------------
(* Properties.                                                             *)

\* The type invariant of the module's variables.
TypeOK ==
  /\ inb \in [Ids -> Entries]
  /\ incoming \in [Ids -> Files]
  /\ bitmap \in [Ids -> SUBSET BlockNumbers]
  /\ public \in [Ids -> Files]
  /\ next_block \in [Ids -> 0 .. MaxBlock]
  /\ fresh \in [Ids -> BOOLEAN]
  /\ net \subseteq Ids \X (0 .. MaxBlock)

\* bytes_complete, on which "finished", "stalled" and the served range depend, is
\* the number of bytes of the blocks marked in the bitmap: across duplicates, a
\* resumed bitmap, a failed hash and the clearing of a tree's bad blocks.  It needs
\* peers that answer what they are asked: a Content of the whole file at offset 0
\* adds all of its bytes and sets one bit ("unasked").
BytesAccounted ==
  \A id \in Ids :
    LET e == inb[id]
    IN  e.live /\ (e.mapped \/ e.bytes_complete # 0) =>
          e.bytes_complete = BytesOf({k \in e.bits : k < Blocks(e.eof)}, e.eof)

\* A "hash matched" that finished() has not read yet still tells the truth about
\* the file it is going to rename: nothing wrote to it in between.
VerdictNotStale ==
  \A id \in Ids : inb[id].hash = "match" => HashMatches(id, incoming[id], inb[id].eof)

\* What is published under a SHA-256 begins with all of the content of that hash.
PublishedWasHashed ==
  \A id \in Ids : Kind[id] = "sha256" /\ Exists(public[id]) =>
    HashMatches(id, public[id], TrueEof[id])

\* The tree that is here for b is the tree of b.  Nothing else ties the blocks
\* taken for b to the hash in its id.
Vouched(b) == Correct(TreeOf[b], public[TreeOf[b]])

\* What is published under an id is the file whose hash is the id; under a blake3
\* id, if the tree it was checked against was that file's.
PublishedIsContent ==
  \A id \in Ids :
    /\ Kind[id] = "sha256" \/ (Kind[id] = "blake3" /\ Vouched(id))
    /\ Exists(public[id])
    => Correct(id, public[id])

\* A block of a blake3 download that serve_block would hand to another peer has
\* been checked against its leaf, before or after a restart: the tree is here, and
\* if it has the right leaf the block is the content's.
ServedBlocksVerified ==
  \A b \in BlakeIds : inb[b].live /\ inb[b].mapped =>
    \A k \in inb[b].bits : k < Blocks(inb[b].eof) =>
      /\ TreeOnDisk(b)
      /\ LeafRight(b, k) =>
           BlockCorrect(b, IF Exists(incoming[b]) THEN incoming[b] ELSE public[b], k)

\* A bit on disk, from which a restarted node resumes, is never set for a block of
\* which nothing was written, whatever arrived and wherever the process died.
BitsHaveData ==
  \A id \in Ids : \A k \in bitmap[id] :
    \/ \E i \in BytesIn(k, BlockSize * MaxBlock) : incoming[id].val[i] # "hole"
    \/ Kind[id] = "tree" /\ Exists(public[id])

\* The engine implements ContentStore: a content is wanted while its download is
\* under way, and enters the store only then, complete and correct, for ever.
Store == INSTANCE ContentStore WITH
  Contents <- {id \in Ids : Kind[id] # "tree"},
  wanted <- {id \in Ids : Kind[id] # "tree" /\ inb[id].live /\ ~inb[id].done},
  stored <- {id \in Ids : /\ Kind[id] = "sha256" \/ (Kind[id] = "blake3" /\ Vouched(id))
                          /\ Correct(id, public[id])}

ImplementsContentStore == Store!Spec

\* The entry is complete but nothing will look at it again: its mapping was lost
\* on the way to or from the hashing thread.
Orphaned(id) ==
  inb[id].live /\ ~inb[id].mapped /\ inb[id].hash = "none"
  /\ inb[id].bytes_complete = inb[id].eof

\* No block of a blake3 download can pass its check: its tree was given up, or
\* got past check_tree_v2_data with a wrong block in it.
Unverifiable(id) ==
  /\ Kind[id] = "blake3" /\ inb[id].live
  /\ IF TreeOnDisk(id) THEN ~Correct(TreeOf[id], public[TreeOf[id]])
     ELSE ~inb[TreeOf[id]].live /\ ~inb[id].segment_hashes

\* A Content that was not asked for has made the count another one than that of
\* the bitmap, so that it may never reach the length, or has passed it.
Miscounted(id) ==
  /\ inb[id].live /\ inb[id].mapped
  /\ inb[id].bytes_complete # BytesOf({k \in inb[id].bits : k < Blocks(inb[id].eof)}, inb[id].eof)


\* With peers that serve the content, whatever is lost, doubled, cut short or
\* reordered, a download ends with the content in public/.
HonestPeersComplete ==
  \A id \in Ids : inb[id].live ~> (Correct(id, public[id]) /\ ~inb[id].live)
=============================================================================

------------------------------- MODULE Stream -------------------------------
(***************************************************************************)
(* A live stream `stream/<key>/<name>' (src/main.rs, StreamState).  The    *)
(* origin's browser sends pieces over a websocket; the origin signs the    *)
(* block that each piece extends and keeps the signature beside the data.  *)
(* Viewers ask for blocks, of the origin and of each other, check the      *)
(* signature, keep data, signature and a bit per block, answer requests    *)
(* from what they keep, and copy it to a browser.                          *)
(*                                                                         *)
(* A stream is never rewritten with other bytes, so a byte is its          *)
(* position: held[n] are the positions at which n's file has the stream's  *)
(* byte, the others below fileLen[n] are zeros.  A signature is the length *)
(* of the block content it was made for.                                   *)
(***************************************************************************)
EXTENDS Integers, FiniteSets

CONSTANTS Origin,      \* the node whose key is in the stream's id
          Viewers,     \* nodes with a browser that may open the stream
          BlockSize, MaxBlock,
          Window,      \* how far ahead of the browser blocks are asked for
          PieceLens,   \* lengths of the pieces the origin's browser sends
          Rewinds,     \* how far back it may send a piece again, 0 for never
          MaxNet       \* bound: requests and answers under way

ASSUME StreamAssumption ==
    /\ Origin \notin Viewers
    /\ BlockSize \in Nat \ {0} /\ MaxBlock \in Nat /\ Window \in Nat
    /\ PieceLens \subseteq 1..BlockSize
    /\ Rewinds \subseteq Nat

Nodes == Viewers \cup {Origin}
Blocks == 0..MaxBlock
NoBlock == MaxBlock + 1            \* a block after the last one of the model
MaxLen == (MaxBlock + 1) * BlockSize
Span(b, len) == {b * BlockSize + i : i \in 0..(len - 1)}

Setmin(S) == CHOOSE x \in S : \A y \in S : x <= y
Lower(a, b) == IF a < b THEN a ELSE b

VARIABLES held,      \* positions of the data file that hold stream bytes
          fileLen,   \* data_file_len
          bits,      \* the bitmap file
          sigs,      \* per block, length its kept signature is for; 0: none
          live,      \* stream_states has the stream
          next,      \* next_block
          browser,   \* the gateway: [open, start, waiting]
          gaps,      \* positions copied to the browser as zeros (history)
          asked,     \* PleaseSendContent under way
          sent       \* signed Content under way

disk == <<held, fileLen, bits, sigs>>
vars == <<held, fileLen, bits, sigs, live, next, browser, gaps, asked, sent>>

Request == {r \in [from : Viewers, to : Nodes, block : Blocks] : r.from # r.to}
Answer  == {m \in [from : Nodes, to : Viewers, block : Blocks, size : 1..BlockSize] :
              m.from # m.to}

TypeOK ==
    /\ held \in [Nodes -> SUBSET (0..(MaxLen - 1))]
    /\ fileLen \in [Nodes -> 0..MaxLen]
    /\ bits \in [Nodes -> SUBSET Blocks]
    /\ sigs \in [Nodes -> [Blocks -> 0..BlockSize]]
    /\ live \in [Viewers -> BOOLEAN]
    /\ next \in [Viewers -> 0..NoBlock]
    /\ browser \in [Viewers -> [open : BOOLEAN, start : 0..MaxLen, waiting : BOOLEAN]]
    /\ gaps \in [Viewers -> SUBSET (0..(MaxLen - 1))]
    /\ asked \subseteq Request
    /\ sent \subseteq Answer

Closed == [open |-> FALSE, start |-> 0, waiting |-> FALSE]

Init ==
    /\ held = [n \in Nodes |-> {}]
    /\ fileLen = [n \in Nodes |-> 0]
    /\ bits = [n \in Nodes |-> {}]
    /\ sigs = [n \in Nodes |-> [b \in Blocks |-> 0]]
    /\ live = [v \in Viewers |-> FALSE]
    /\ next = [v \in Viewers |-> 0]
    /\ browser = [v \in Viewers |-> Closed]
    /\ gaps = [v \in Viewers |-> {}]
    /\ asked = {}
    /\ sent = {}

-----------------------------------------------------------------------------
(* A piece [off, off + len) is stored: the file grows to its end and the   *)
(* block gets its bit when it is full or is the last one of the file.      *)
(* A piece that ends inside the file and is no whole block is dropped.     *)

\* Mutant: also at the end of the file.
DroppedIfShort(n, off, len) == len # BlockSize

Dropped(n, off, len) == off + len < fileLen[n] /\ len # BlockSize

Store(n, off, len) ==
    LET end == off + len
        newLen == IF end > fileLen[n] THEN end ELSE fileLen[n]
    IN  /\ held' = [held EXCEPT ![n] = @ \cup (off..(end - 1))]
        /\ fileLen' = [fileLen EXCEPT ![n] = newLen]
        /\ bits' = IF len = BlockSize \/ end = newLen
                   THEN [bits EXCEPT ![n] = @ \cup {off \div BlockSize}]
                   ELSE bits

(* The origin signs the bytes its file already has of the block, followed  *)
(* by the piece, before it looks whether the piece is new.                 *)
Publish(off, len) ==
    LET b == off \div BlockSize
    IN  /\ off <= fileLen[Origin]
        /\ off + len <= (b + 1) * BlockSize  \* pieces are cut at block ends
        /\ off + len <= MaxLen
        /\ sigs' = [sigs EXCEPT ![Origin][b] = off + len - b * BlockSize]
        /\ IF Dropped(Origin, off, len)
           THEN UNCHANGED <<held, fileLen, bits>>
           ELSE Store(Origin, off, len)
        /\ UNCHANGED <<live, next, browser, gaps, asked, sent>>

-----------------------------------------------------------------------------
(* Requests.                                                               *)

(* The next block to ask for: the browser's position when next_block is    *)
(* behind it or a window ahead, then past the blocks whose bit is set.     *)
SkipFrom(v, b) ==
    Setmin({c \in b..NoBlock : \/ c >= fileLen[v] \div BlockSize
                               \/ c \notin bits[v]} \cup {NoBlock})

NextBlock(v, b) ==
    LET g == browser[v]
        away == \/ b * BlockSize < g.start
                \/ b * BlockSize >= g.start + Window
    IN  SkipFrom(v, IF g.open /\ ~g.waiting /\ away THEN g.start \div BlockSize ELSE b)

RequestsFor(v, b, targets) ==
    IF b \in Blocks THEN [from : {v}, to : targets, block : {b}] ELSE {}

InNet == Cardinality(asked) + Cardinality(sent)

(* What n can send of block b: it has the bit, a signature, and bytes.     *)
ServedSize(n, b) ==
    IF b \in bits[n] /\ sigs[n][b] # 0 /\ fileLen[n] > b * BlockSize
    THEN Lower(BlockSize, fileLen[n] - b * BlockSize) ELSE 0

(* The receiver accepts it: the signature is for exactly these bytes.      *)
Verifies(n, b) ==
    LET size == ServedSize(n, b)
    IN  size # 0 /\ sigs[n][b] = size /\ Span(b, size) \subseteq held[n]

(* An answer whose signature does not verify changes nothing where it      *)
(* arrives, so it is not put under way.                                    *)
Serve(r) ==
    /\ r \in asked
    /\ asked' = asked \ {r}
    /\ sent' = IF Verifies(r.to, r.block)
               THEN sent \cup {[from |-> r.to, to |-> r.from, block |-> r.block,
                                size |-> ServedSize(r.to, r.block)]}
               ELSE sent
    /\ UNCHANGED <<disk, live, next, browser, gaps>>

-----------------------------------------------------------------------------
(* The gateway copies from the browser's position to the first block       *)
(* without a bit or the end of the file, as much as the socket takes.      *)

\* Mutant: the bitmap is not looked at.
AvailableEndOfFile(v, start, bitsNow, lenNow) == lenNow

AvailableEnd(v, start, bitsNow, lenNow) ==
    LET zeros == {b \in Blocks : b >= start \div BlockSize /\ b \notin bitsNow}
    IN  IF zeros = {} THEN lenNow ELSE Lower(Setmin(zeros) * BlockSize, lenNow)

(* One call for a gateway at g, over the files as they are after the step. *)
CopyToBrowser(v, g, heldNow, bitsNow, lenNow) ==
    LET end == AvailableEnd(v, g.start, bitsNow, lenNow)
    IN  IF end <= g.start
        THEN browser' = [browser EXCEPT ![v] = [g EXCEPT !.waiting = FALSE]] /\ UNCHANGED gaps
        ELSE \E to \in g.start..end :
               /\ browser' = [browser EXCEPT ![v] = [g EXCEPT !.start = to, !.waiting = to # end]]
               /\ gaps' = [gaps EXCEPT ![v] = @ \cup ((g.start..(to - 1)) \ heldNow)]

(* GET /stream/..: the state is created if need be, everyone is asked, and *)
(* what there is goes out at once.                                         *)
Open(v, start) ==
    LET from == IF live[v] THEN next[v] ELSE 0
        nb == SkipFrom(v, from)
    IN  /\ ~browser[v].open
        /\ live' = [live EXCEPT ![v] = TRUE]
        /\ next' = [next EXCEPT ![v] = nb]
        /\ asked' = asked \cup RequestsFor(v, nb, Nodes \ {v})
        /\ CopyToBrowser(v, [open |-> TRUE, start |-> start, waiting |-> FALSE],
                         held[v], bits[v], fileLen[v])
        /\ UNCHANGED <<disk, sent>>

(* The socket can take more: the main loop's turn for a waiting gateway.   *)
BrowserReads(v) ==
    /\ browser[v].open /\ browser[v].waiting
    /\ CopyToBrowser(v, browser[v], held[v], bits[v], fileLen[v])
    /\ UNCHANGED <<disk, live, next, asked, sent>>

Close(v) ==
    /\ browser[v].open
    /\ browser' = [browser EXCEPT ![v] = Closed]
    /\ gaps' = [gaps EXCEPT ![v] = {}]
    /\ UNCHANGED <<disk, live, next, asked, sent>>

(* Thirty seconds without a viewer; also what a restart of v leaves.       *)
Expire(v) ==
    /\ live[v] /\ ~browser[v].open
    /\ live' = [live EXCEPT ![v] = FALSE]
    /\ UNCHANGED <<disk, next, browser, gaps, asked, sent>>

-----------------------------------------------------------------------------
\* Mutant: the signature of any copy is kept.
ReceiveKeepsSignature(m, grow) ==
    /\ m \in sent
    /\ sigs' = IF live[m.to] THEN [sigs EXCEPT ![m.to][m.block] = m.size] ELSE sigs
    /\ sent' = sent \ {m}
    /\ IF ~live[m.to] \/ Dropped(m.to, m.block * BlockSize, m.size)
       THEN UNCHANGED <<held, fileLen, bits, browser, gaps>>
       ELSE /\ Store(m.to, m.block * BlockSize, m.size)
            /\ UNCHANGED <<browser, gaps>>
    /\ UNCHANGED <<live, next, asked>>

(* A signed block arrives: its signature is kept if it ends past the file, *)
(* the next request goes out, the bytes are stored and copied on.          *)
Receive(m, grow) ==
    LET v == m.to
        off == m.block * BlockSize
        end == off + m.size
        nb == NextBlock(v, next[v])
        \* one time in 101 the window grows by a second request
        nb2 == IF grow THEN NextBlock(v, Lower(nb + 1, NoBlock)) ELSE nb
    IN  /\ m \in sent
        /\ sent' = sent \ {m}
        /\ IF ~live[v] \/ Dropped(v, off, m.size)
           THEN UNCHANGED <<disk, live, next, browser, gaps, asked>>
           ELSE /\ sigs' = IF end > fileLen[v]
                           THEN [sigs EXCEPT ![v][m.block] = m.size] ELSE sigs
                /\ next' = [next EXCEPT ![v] = Lower(nb2 + 1, NoBlock)]
                /\ asked' = asked \cup RequestsFor(v, nb, {m.from})
                                  \cup RequestsFor(v, nb2, {m.from})
                /\ Store(v, off, m.size)
                /\ IF browser[v].open
                   THEN CopyToBrowser(v, browser[v], held'[v], bits'[v], fileLen'[v])
                   ELSE UNCHANGED <<browser, gaps>>
                /\ UNCHANGED live

\* Mutant: without going back to the browser.
StallGoesOn(v) ==
    /\ live[v]
    /\ next' = [next EXCEPT ![v] = NextBlock(v, next[v])]
    /\ asked' = asked \cup RequestsFor(v, NextBlock(v, next[v]), Nodes \ {v})
    /\ UNCHANGED <<disk, live, browser, gaps, sent>>

(* maintenance(): a second without a block.  Ask again from the browser's  *)
(* position: the origin, who answered before (ss.peers), and the best      *)
(* peers; in the model these are all nodes.                                *)
Stall(v) ==
    LET nb == NextBlock(v, IF browser[v].open THEN browser[v].start \div BlockSize ELSE next[v])
    IN  /\ live[v]
        /\ next' = [next EXCEPT ![v] = nb]
        /\ asked' = asked \cup RequestsFor(v, nb, Nodes \ {v})
        /\ UNCHANGED <<disk, live, browser, gaps, sent>>

Lose ==
    \/ \E r \in asked : asked' = asked \ {r} /\ UNCHANGED sent
    \/ \E m \in sent : sent' = sent \ {m} /\ UNCHANGED asked

LoseOne == Lose /\ UNCHANGED <<disk, live, next, browser, gaps>>

(* MaxNet bounds what is under way before anybody asks again.              *)
Room == InNet + Cardinality(Nodes) - 1 <= MaxNet

Next ==
    \/ \E len \in PieceLens, back \in Rewinds \cup {0} :
          fileLen[Origin] - back >= 0 /\ Publish(fileLen[Origin] - back, len)
    \/ \E r \in asked : Serve(r)
    \/ \E m \in sent, grow \in BOOLEAN : (grow => Room) /\ Receive(m, grow)
    \/ \E v \in Viewers :
          \/ \E b \in Blocks : Room /\ Open(v, b * BlockSize)
          \/ BrowserReads(v)
          \/ Close(v)
          \/ Expire(v)
          \/ Room /\ Stall(v)
    \/ LoseOne

Spec == Init /\ [][Next]_vars

(* The socket of an open browser can be written to now and then, and       *)
(* maintenance() runs every second.  A datagram that is sent again and     *)
(* again arrives once.                                                     *)
Fairness ==
    /\ \A v \in Viewers :
          /\ WF_vars(BrowserReads(v) /\ browser'[v].start # browser[v].start)
          /\ SF_vars(Room /\ Stall(v))
    /\ \A r \in Request : SF_vars(Serve(r))
    /\ \A m \in Answer : SF_vars(Receive(m, FALSE))

FairSpec == Spec /\ Fairness

-----------------------------------------------------------------------------
(* A kept signature is for bytes that are there: no node ever offers a     *)
(* block on a signature that was stored for data it did not store.  (The   *)
(* signature is written in SignedMessage::receive, the data later, in      *)
(* Content::receive, which has conditions of its own.)                     *)
SignedPrefixHeld ==
    \A n \in Nodes, b \in Blocks : Span(b, sigs[n][b]) \subseteq held[n]

(* What a browser gets in place of stream bytes is at most the tail of a   *)
(* block whose beginning it got: never a whole missing block, whatever the *)
(* order in which blocks arrive.                                           *)
GapsOnlyInsideBlocks ==
    \A v \in Viewers : \A p \in gaps[v] :
        (p \div BlockSize) * BlockSize \in held[v]

(* The blocks a whole copy of which a viewer can pass on.                  *)
WholeServable(v) ==
    {b \in Blocks : Verifies(v, b) /\ ServedSize(v, b) = BlockSize}

(* A viewer that can pass a whole block on stays able to: a late answer    *)
(* with an older, shorter copy of it changes neither data nor signature.   *)
WholeStaysServable ==
    [][\A v \in Viewers : WholeServable(v) \subseteq WholeServable(v)']_vars

(* A browser that stays gets up to the end of what the origin has, again   *)
(* and again, whatever is lost, late or out of order on the way.           *)
BrowserCatchesUp ==
    \A v \in Viewers :
        []<>(browser[v].open => browser[v].start >= fileLen[Origin])
=============================================================================

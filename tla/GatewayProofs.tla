---------------------------- MODULE GatewayProofs ----------------------------
(***************************************************************************)
(* Theorems about Gateway, for any number of connections, contents, ranges *)
(* and sizes: every answer has the announced length and no connection is   *)
(* lost or kept in two places.                                             *)
(***************************************************************************)
EXTENDS Gateway, SequenceTheorems, FiniteSetTheorems, NaturalsInduction, TLAPS

-----------------------------------------------------------------------------
(* Lists.                                                                  *)

\* What removing an element makes of a list.
LEMMA Removed ==
  ASSUME NEW S, NEW s \in Seq(S), NEW i \in DOMAIN s
  PROVE  /\ RemoveAt(s, i) \in Seq(S) /\ DOMAIN RemoveAt(s, i) = 1 .. Len(s) - 1
         /\ DOMAIN s = 1 .. Len(s) /\ Len(s) \in Nat
         /\ \A j \in DOMAIN RemoveAt(s, i) :
              RemoveAt(s, i)[j] = IF j < i THEN s[j] ELSE s[j + 1]
<1>1. Len(s) \in Nat /\ DOMAIN s = 1 .. Len(s)
  BY LenProperties
<1> DEFINE a == SubSeq(s, 1, i - 1)
           b == SubSeq(s, i + 1, Len(s))
<1>2. /\ a \in Seq(S) /\ Len(a) = i - 1
      /\ \A j \in 1 .. i - 1 : a[j] = s[j]
  BY <1>1, SubSeqProperties
<1>3. /\ b \in Seq(S) /\ Len(b) = Len(s) - i
      /\ \A j \in 1 .. Len(s) - i : b[j] = s[i + j]
  BY <1>1, SubSeqProperties
<1> HIDE DEF a, b
<1>4. a \o b \in Seq(S) /\ Len(a \o b) = (i - 1) + (Len(s) - i)
  BY <1>2, <1>3, ConcatProperties
<1>5. Len(a \o b) = Len(s) - 1 /\ i \in 1 .. Len(s)
  BY <1>1, <1>4
<1>7. \A j \in 1 .. Len(s) - 1 : (a \o b)[j] = IF j < i THEN s[j] ELSE s[j + 1]
  <2>1. \A j \in 1 .. (i - 1) + (Len(s) - i) :
          (a \o b)[j] = IF j <= i - 1 THEN a[j] ELSE b[j - (i - 1)]
    BY <1>2, <1>3, ConcatProperties, SMTT(30)
  <2>2. TAKE j \in 1 .. Len(s) - 1
  <2>3. (a \o b)[j] = IF j <= i - 1 THEN a[j] ELSE b[j - (i - 1)]
    <3>1. (i - 1) + (Len(s) - i) = Len(s) - 1
      BY <1>1, <1>5
    <3> QED
      BY <2>1, <3>1
  <2>4. CASE j < i
    BY <1>1, <1>2, <1>5, <2>3, <2>4
  <2>5. CASE j >= i
    <3>1. (a \o b)[j] = b[j - (i - 1)] /\ j - (i - 1) \in 1 .. Len(s) - i
      BY <1>1, <1>5, <2>3, <2>5
    <3>2. b[j - (i - 1)] = s[i + (j - (i - 1))] /\ i + (j - (i - 1)) = j + 1
      BY <1>1, <1>3, <1>5, <3>1
    <3> QED
      BY <1>1, <1>5, <2>5, <3>1, <3>2
  <2> QED
    BY <1>1, <1>5, <2>4, <2>5
<1>6. RemoveAt(s, i) = a \o b
  BY DEF RemoveAt, a, b
<1> QED
  BY <1>1, <1>4, <1>5, <1>7, <1>6, LenProperties

\* Removing the last element undoes Append; the element that is removed does not matter.
LEMMA RemovedSame ==
  ASSUME NEW S, NEW s \in Seq(S), NEW e \in S
  PROVE  /\ RemoveAt(Append(s, e), Len(s) + 1) = s
         /\ \A i \in DOMAIN s : RemoveAt([s EXCEPT ![i] = e], i) = RemoveAt(s, i)
<1>1. Len(s) \in Nat /\ DOMAIN s = 1 .. Len(s)
  BY LenProperties
<1>2. RemoveAt(Append(s, e), Len(s) + 1) = s
  <2>1. /\ Append(s, e) \in Seq(S) /\ Len(Append(s, e)) = Len(s) + 1
        /\ \A j \in 1 .. Len(s) : Append(s, e)[j] = s[j]
    BY AppendProperties
  <2>2. Len(s) + 1 \in DOMAIN Append(s, e)
    BY <1>1, <2>1, LenProperties
  <2> DEFINE t == RemoveAt(Append(s, e), Len(s) + 1)
  <2>3. /\ t \in Seq(S) /\ DOMAIN t = 1 .. Len(s)
        /\ \A j \in 1 .. Len(s) : t[j] = s[j]
    <3>1. DOMAIN t = 1 .. (Len(s) + 1) - 1 /\ t \in Seq(S)
          /\ \A j \in DOMAIN t : t[j] = IF j < Len(s) + 1 THEN Append(s, e)[j] ELSE Append(s, e)[j + 1]
      BY <2>1, <2>2, Removed
    <3>2. DOMAIN t = 1 .. Len(s)
      BY <1>1, <3>1
    <3> QED
      BY <1>1, <2>1, <3>1, <3>2
  <2> HIDE DEF t
  <2>4. Len(t) = Len(s)
    BY <1>1, <2>3, LenProperties
  <2>5. t = s
    BY <2>3, <2>4, SeqEqual
  <2> QED
    BY <2>5 DEF t
<1>3. ASSUME NEW i \in DOMAIN s PROVE RemoveAt([s EXCEPT ![i] = e], i) = RemoveAt(s, i)
  <2> DEFINE u == [s EXCEPT ![i] = e]
             t == RemoveAt(u, i)
             r == RemoveAt(s, i)
  <2>1. /\ u \in Seq(S) /\ Len(u) = Len(s) /\ i \in DOMAIN u
        /\ \A j \in 1 .. Len(s) : j # i => u[j] = s[j]
    BY <1>1, <1>3, ExceptSeq, LenProperties
  <2> HIDE DEF u
  <2>2. /\ t \in Seq(S) /\ DOMAIN t = 1 .. Len(s) - 1
        /\ \A j \in 1 .. Len(s) - 1 : t[j] = IF j < i THEN u[j] ELSE u[j + 1]
    BY <2>1, Removed
  <2>3. /\ r \in Seq(S) /\ DOMAIN r = 1 .. Len(s) - 1
        /\ \A j \in 1 .. Len(s) - 1 : r[j] = IF j < i THEN s[j] ELSE s[j + 1]
    BY <1>3, Removed
  <2> HIDE DEF t, r
  <2>4. Len(t) = Len(r)
    BY <2>2, <2>3, LenProperties
  <2>5. \A j \in 1 .. Len(s) - 1 : t[j] = r[j]
    BY <1>1, <2>1, <2>2, <2>3, SMTT(30)
  <2>6. t = r
    BY <2>2, <2>3, <2>4, <2>5, SeqEqual, LenProperties
  <2> QED
    BY <2>6 DEF t, r, u
<1> QED
  BY <1>2, <1>3

\* Retained keeps each of its places once.
LEMMA RetainedFacts ==
  ASSUME NEW S, NEW s \in Seq(S), NEW keep \in SUBSET DOMAIN s, NEW r \in Retained(s, keep)
  PROVE  /\ r \in Seq(S)
         /\ \E at \in [DOMAIN r -> keep] :
              /\ \A j \in DOMAIN r : r[j] = s[at[j]]
              /\ \A j, k \in DOMAIN r : at[j] = at[k] => j = k
         /\ \A i \in keep : \E j \in DOMAIN r : r[j] = s[i]
<1>1. Len(s) \in Nat /\ DOMAIN s = 1 .. Len(s) /\ s \in [1 .. Len(s) -> S]
  BY LenProperties
<1> DEFINE n == Cardinality(keep)
<1>2. IsFiniteSet(keep) /\ n \in Nat
  <2>1. IsFiniteSet(1 .. Len(s)) /\ keep \subseteq 1 .. Len(s)
    BY <1>1, FS_Interval
  <2> QED
    BY <2>1, FS_Subset, FS_CardinalityType
<1>3. PICK at \in [1 .. n -> keep] :
        /\ \A i, j \in DOMAIN at : i < j => at[i] < at[j]
        /\ r = [i \in 1 .. n |-> s[at[i]]]
  BY DEF Retained
<1> HIDE DEF n
<1>4. DOMAIN r = 1 .. n /\ DOMAIN at = 1 .. n
  BY <1>3
<1>5. \A j, k \in 1 .. n : at[j] = at[k] => j = k
  <2>1. SUFFICES ASSUME NEW j \in 1 .. n, NEW k \in 1 .. n, at[j] = at[k], j # k PROVE FALSE
    OBVIOUS
  <2>2. j < k \/ k < j
    BY <1>2, <2>1
  <2>3. at[j] \in Nat /\ at[k] \in Nat
    BY <1>1
  <2>4. ~(at[j] < at[k]) /\ ~(at[k] < at[j])
    BY <2>1, <2>3
  <2> QED
    BY <1>3, <1>4, <2>2, <2>4
<1>6. r \in Seq(S)
  <2>1. r \in [1 .. n -> S]
    BY <1>1, <1>3
  <2> QED
    BY <1>2, <2>1, SeqDef
<1>7. \A i \in keep : \E j \in 1 .. n : at[j] = i
  <2>1. IsFiniteSet(1 .. n) /\ Cardinality(1 .. n) = n
    BY <1>2, FS_Interval
  <2>2. at \in Injection(1 .. n, keep)
    BY <1>5 DEF Injection, IsInjective
  <2>3. at \in Surjection(1 .. n, keep)
    BY <1>2, <2>1, <2>2, FS_Injection DEF n
  <2> QED
    BY <2>3 DEF Surjection
<1> QED
  BY <1>3, <1>4, <1>5, <1>6, <1>7, ZenonT(40)

-----------------------------------------------------------------------------
(* One call on a gateway.                                                  *)

\* A gateway that is kept has something left to write, inside its file.
Shaped(g) ==
    /\ ~g.done /\ g.start < Size[g.id]
    /\ ~g.header => g.end = 0 \/ g.start < g.end
    /\ g.header => g.start < g.end /\ g.end <= Size[g.id]

\* What a call makes of a gateway: it writes what fits into the socket, announces
\* a length once, and is done when it has written that.
Served(g, a) ==
    /\ a \in Gateways /\ a.conn = g.conn /\ a.id = g.id
    /\ a.start - g.start \in 0 .. room[g.conn]
    /\ g.header => a.header /\ a.end = g.end
    /\ ~a.done => Shaped(a)
    /\ a.done /\ g.conn \notin hungUp => a.header /\ a.start = a.end

\* Sizes are positive.
LEMMA SizeFacts ==
  ASSUME NEW c \in Contents
  PROVE  Size[c] \in Nat \ {0} /\ RangeMax \in Nat \ {0} /\ BlockSize \in Nat \ {0}
BY GatewayAssumption

\* A gateway that is not called stays as it is.
LEMMA NotCalled ==
  ASSUME NEW g \in Gateways, Shaped(g), room \in [Conns -> 0 .. Room]
  PROVE  Served(g, g)
<1>1. g.start \in Nat /\ room[g.conn] \in Nat
  BY GatewayAssumption DEF Gateways
<1>2. g.start - g.start \in 0 .. room[g.conn]
  BY <1>1
<1> QED
  BY <1>2 DEF Served, Shaped

\* An open range ends with the file; a header is not changed.
LEMMA EndSet ==
  ASSUME NEW g \in Gateways, Shaped(g)
  PROVE  /\ WithEnd(g) \in Gateways /\ WithEnd(g).conn = g.conn /\ WithEnd(g).id = g.id
         /\ WithEnd(g).start = g.start /\ WithEnd(g).header = g.header
         /\ WithEnd(g).done = g.done
         /\ g.start < WithEnd(g).end /\ WithEnd(g).end <= Size[g.id]
         /\ g.header => WithEnd(g).end = g.end
<1>1. g.id \in Contents /\ g.start \in Nat /\ g.end \in Nat
  BY DEF Gateways
<1>2. Size[g.id] \in Nat
  BY <1>1, SizeFacts
<1> DEFINE end == IF g.end = 0 \/ Size[g.id] < g.end THEN Size[g.id] ELSE g.end
<1>3. end \in Nat /\ g.start < end /\ end <= Size[g.id] /\ (g.header => end = g.end)
  BY <1>1, <1>2 DEF Shaped
<1>4. WithEnd(g) = [g EXCEPT !.end = end]
  BY DEF WithEnd
<1> HIDE DEF end
<1> QED
  BY <1>3, <1>4 DEF Gateways

\* One write of serve_mmap.
LEMMA MmapServed ==
  ASSUME NEW g \in Gateways, ~g.done, room \in [Conns -> 0 .. Room],
         NEW avail \in Nat, g.start < avail, avail <= g.end, g.end <= Size[g.id]
  PROVE  Served(g, ServeMmap(g, avail))
<1> DEFINE cut == g.ranged /\ ~g.header /\ g.end - g.start > RangeMax
           end == IF cut THEN g.start + RangeMax ELSE g.end
           upto == IF cut THEN Lower(avail, end) ELSE avail
           to == g.start + Lower(upto - g.start, room[g.conn])
           a == ServeMmap(g, avail)
<1>1. /\ g.start \in Nat /\ g.end \in Nat /\ g.id \in Contents /\ g.conn \in Conns
      /\ RangeMax \in Nat \ {0} /\ Size[g.id] \in Nat /\ room[g.conn] \in Nat
  BY SizeFacts, GatewayAssumption DEF Gateways
<1>2. /\ end \in Nat /\ g.start < end /\ end <= Size[g.id] /\ (g.header => end = g.end)
      /\ upto \in Nat /\ g.start < upto /\ upto <= end
  BY <1>1 DEF Lower
<1>3. to \in Nat /\ to - g.start \in 0 .. room[g.conn] /\ g.start <= to /\ to <= upto
  <2> HIDE DEF upto, end
  <2> QED
    BY <1>1, <1>2 DEF Lower
<1>4. CASE g.conn \in hungUp
  <2>1. a = [g EXCEPT !.header = TRUE, !.end = end, !.done = TRUE, !.waiting = FALSE]
    BY <1>4 DEF ServeMmap
  <2>2. g.start - g.start \in 0 .. room[g.conn]
    BY <1>1
  <2> HIDE DEF end
  <2>3. a \in Gateways /\ a.conn = g.conn /\ a.id = g.id /\ a.start = g.start /\ a.header
        /\ a.end = end /\ a.done
    BY <1>2, <2>1 DEF Gateways
  <2> HIDE DEF a
  <2>4. Served(g, a)
    BY <1>2, <1>4, <2>2, <2>3 DEF Served
  <2> QED
    BY <2>4 DEF a
<1>5. CASE g.conn \notin hungUp
  <2>1. a = [g EXCEPT !.header = TRUE, !.end = end, !.start = to,
                      !.done = to = end, !.waiting = to # upto]
    BY <1>5 DEF ServeMmap
  <2> HIDE DEF end, to, upto
  <2>2. a \in Gateways /\ a.conn = g.conn /\ a.id = g.id /\ a.start = to /\ a.header
        /\ a.end = end /\ (a.done <=> to = end)
    BY <1>2, <1>3, <2>1 DEF Gateways
  <2>3. to # end => to < end
    BY <1>2, <1>3
  <2>4. to # end => to < Size[g.id]
    BY <1>1, <1>2, <1>3, <2>3
  <2> HIDE DEF a
  <2>5. ~a.done => Shaped(a)
    BY <1>2, <2>2, <2>3, <2>4 DEF Shaped
  <2>6. Served(g, a)
    BY <1>2, <1>3, <2>2, <2>5 DEF Served
  <2> QED
    BY <2>6 DEF a
<1> QED
  BY <1>4, <1>5

\* The end of a range that is open does not matter to what a call makes of it.
LEMMA ServedFromEnd ==
  ASSUME NEW g \in Gateways, Shaped(g), NEW a, Served(WithEnd(g), a)
  PROVE  Served(g, a)
BY EndSet DEF Served

\* A set of naturals has its least element as Setmin.
LEMMA SetminFacts ==
  ASSUME NEW S \in SUBSET Nat, S # {}
  PROVE  Setmin(S) \in S /\ \A y \in S : Setmin(S) <= y
<1>1. PICK x \in S : \A y \in S : ~ (<<y, x>> \in OpToRel(<, Nat))
  BY WFMin, NatLessThanWellFounded, Zenon
<1>2. \A y \in S : ~ (y < x)
  BY <1>1 DEF OpToRel
<1>3. \E least \in S : \A y \in S : least <= y
  BY <1>2
<1> QED
  BY <1>3 DEF Setmin

\* Both ways to serve a gateway.
LEMMA CallServed ==
  ASSUME NEW g \in Gateways, Shaped(g), room \in [Conns -> 0 .. Room], NEW bits
  PROVE  Served(g, FromDisk(g)) /\ Served(g, FromInbound(g, bits))
<1> DEFINE e == WithEnd(g)
           avail == AvailableEnd(e, bits)
<1>1. /\ e \in Gateways /\ e.id = g.id /\ e.start = g.start /\ e.header = g.header
      /\ e.conn = g.conn /\ ~e.done
      /\ e.start < e.end /\ e.end <= Size[e.id] /\ e.end \in Nat /\ e.start \in Nat
      /\ e.id \in Contents
  <2>1. e \in Gateways
    BY EndSet
  <2> QED
    BY <2>1, EndSet DEF Gateways, Shaped
<1>2. Served(g, FromDisk(g))
  BY <1>1, MmapServed, ServedFromEnd DEF FromDisk
<1>3. avail \in Nat /\ avail <= e.end
  <2> DEFINE missing == {b \in Blocks(e.id) \ bits :
                           b >= e.start \div BlockSize /\ b * BlockSize < e.end}
  <2>1. BlockSize \in Nat \ {0} /\ Size[e.id] \in Nat \ {0}
    BY <1>1, SizeFacts
  <2>2. missing \in SUBSET Nat
    BY <2>1 DEF Blocks
  <2>3. CASE missing = {}
    BY <1>1, <2>3 DEF AvailableEnd
  <2>4. CASE missing # {}
    <3>1. Setmin(missing) \in missing
      BY <2>2, <2>4, SetminFacts
    <3>2. avail = Setmin(missing) * BlockSize
      BY <2>4 DEF AvailableEnd
    <3>3. Setmin(missing) \in Nat /\ Setmin(missing) * BlockSize < e.end
      BY <2>2, <3>1
    <3> HIDE DEF missing, avail, e
    <3> QED
      BY <1>1, <2>1, <3>2, <3>3
  <2> QED
    BY <2>3, <2>4
<1> HIDE DEF avail
<1>4. Served(g, FromInbound(g, bits))
  <2>1. CASE bits = {}
    <3> DEFINE a == [g EXCEPT !.waiting = FALSE]
    <3>1. a \in Gateways /\ a.conn = g.conn /\ a.id = g.id /\ a.start = g.start
          /\ a.header = g.header /\ a.end = g.end /\ a.done = g.done
      BY DEF Gateways
    <3>2. FromInbound(g, bits) = a
      BY <2>1 DEF FromInbound
    <3>3. Served(g, g)
      BY NotCalled
    <3> HIDE DEF a
    <3> QED
      BY <3>1, <3>2, <3>3 DEF Served, Shaped
  <2>2. CASE bits # {} /\ avail <= g.start
    <3> DEFINE a == [e EXCEPT !.waiting = FALSE]
    <3>1. a \in Gateways /\ a.conn = e.conn /\ a.id = e.id /\ a.start = e.start
          /\ a.header = e.header /\ a.end = e.end /\ a.done = e.done
      BY <1>1 DEF Gateways
    <3>2. FromInbound(g, bits) = a
      BY <2>2 DEF FromInbound, Shaped, avail
    <3>3. Shaped(e)
      <4>1. Size[e.id] \in Nat
        BY <1>1, SizeFacts
      <4> HIDE DEF e
      <4> QED
        BY <1>1, <4>1 DEF Shaped
    <3>4. Served(e, e)
      BY <1>1, <3>3, NotCalled
    <3> HIDE DEF a
    <3>5. Served(e, a)
      <4> HIDE DEF e
      <4> QED
        BY <3>1, <3>3, <3>4 DEF Served, Shaped
    <3> QED
      BY <3>2, <3>5, ServedFromEnd
  <2>3. CASE bits # {} /\ ~(avail <= g.start)
    <3>1. FromInbound(g, bits) = ServeMmap(e, avail)
      BY <2>3 DEF FromInbound, Shaped, avail
    <3>2. e.start < avail
      BY <1>1, <1>3, <2>3
    <3>3. Served(e, ServeMmap(e, avail))
      BY <1>1, <1>3, <3>2, MmapServed
    <3> QED
      BY <3>1, <3>3, ServedFromEnd
  <2> QED
    BY <2>1, <2>2, <2>3
<1> QED
  BY <1>2, <1>4

-----------------------------------------------------------------------------
(* The invariant.                                                          *)

\* A connection is in one place of one of the three lists.
Placed(waiting, idle, gs) ==
    /\ \A i, j \in DOMAIN waiting : waiting[i] = waiting[j] => i = j
    /\ \A i, j \in DOMAIN idle : idle[i] = idle[j] => i = j
    /\ \A i, j \in DOMAIN gs : gs[i].conn = gs[j].conn => i = j
    /\ \A i \in DOMAIN waiting, j \in DOMAIN idle : waiting[i] # idle[j]
    /\ \A i \in DOMAIN waiting, j \in DOMAIN gs : waiting[i] # gs[j].conn
    /\ \A i \in DOMAIN idle, j \in DOMAIN gs : idle[i] # gs[j].conn

\* What has been announced and not been written is what the gateway has left.
Owed(g) == g.header => left[g.conn] = g.end - g.start

\* Nothing is owed to a connection of a list, unless its browser is gone.
Paid(list) == \A i \in DOMAIN list : list[i] \in hungUp \/ left[list[i]] = 0

\* The sockets and the lists idle of clients and gs of gateways fit together.
Ready(idle, gs) ==
    /\ gs \in Seq(Gateways) /\ idle \in Seq(Conns)
    /\ room \in [Conns -> 0 .. Room] /\ left \in [Conns -> Int]
    /\ Placed(backlog, idle, gs)
    /\ \A i \in DOMAIN gs : Shaped(gs[i]) /\ Owed(gs[i])
    /\ Paid(backlog) /\ Paid(idle)

Inv ==
    /\ TypeOK /\ bitmap \in [Contents -> SUBSET Int]
    /\ Ready(clients, gateways)

\* What the calls did to the socket of each gateway, and of no other.
LEMMA WrittenFacts ==
  ASSUME NEW gs \in Seq(Gateways), NEW after \in Seq(Gateways), DOMAIN after = DOMAIN gs,
         \A i, j \in DOMAIN gs : gs[i].conn = gs[j].conn => i = j,
         \A i \in DOMAIN gs : Served(gs[i], after[i]),
         room \in [Conns -> 0 .. Room], left \in [Conns -> Int], Written(gs, after)
  PROVE  /\ room' \in [Conns -> 0 .. Room] /\ left' \in [Conns -> Int]
         /\ \A i \in DOMAIN gs :
              left'[gs[i].conn] = IF ~gs[i].header /\ after[i].header
                                  THEN after[i].end - after[i].start
                                  ELSE left[gs[i].conn] - (after[i].start - gs[i].start)
         /\ \A c \in Conns : (\A i \in DOMAIN gs : gs[i].conn # c) => left'[c] = left[c]
<1> DEFINE at(c) == CHOOSE i \in DOMAIN gs : gs[i].conn = c
           there == {gs[i].conn : i \in DOMAIN gs}
           n(c) == after[at(c)].start - gs[at(c)].start
           owed(c) == IF ~gs[at(c)].header /\ after[at(c)].header
                      THEN after[at(c)].end - after[at(c)].start ELSE left[c] - n(c)
<1>1. /\ room' = [c \in Conns |-> IF c \in there THEN room[c] - n(c) ELSE room[c]]
      /\ left' = [c \in Conns |-> IF c \notin there THEN left[c] ELSE owed(c)]
  BY DEF Written
<1>2. \A i \in DOMAIN gs : gs[i] \in Gateways /\ after[i] \in Gateways
  BY LenProperties, ElementOfSeq
<1>3. ASSUME NEW i \in DOMAIN gs
      PROVE  /\ at(gs[i].conn) = i /\ gs[i].conn \in there /\ gs[i].conn \in Conns
             /\ after[i].start \in Nat /\ gs[i].start \in Nat /\ after[i].end \in Nat
             /\ n(gs[i].conn) \in 0 .. room[gs[i].conn]
  <2>1. at(gs[i].conn) = i
    BY <1>3
  <2>2. gs[i] \in Gateways /\ after[i] \in Gateways
    BY <1>2
  <2>3. after[i].start - gs[i].start \in 0 .. room[gs[i].conn]
    BY DEF Served
  <2> HIDE DEF at
  <2> QED
    BY <2>1, <2>2, <2>3 DEF Gateways
<1>4. ASSUME NEW c \in there
      PROVE  c \in Conns /\ room[c] - n(c) \in 0 .. Room /\ owed(c) \in Int
  <2>1. PICK i \in DOMAIN gs : gs[i].conn = c
    OBVIOUS
  <2>2. at(c) = i /\ c \in Conns /\ after[i].start \in Nat /\ gs[i].start \in Nat
        /\ after[i].end \in Nat /\ n(c) \in 0 .. room[c]
    BY <1>3, <2>1
  <2>3. room[c] \in 0 .. Room /\ left[c] \in Int /\ Room \in Nat
    BY <2>2, GatewayAssumption
  <2>4. room[c] - n(c) \in 0 .. Room
    <3> HIDE DEF n
    <3> QED
      BY <2>2, <2>3
  <2>5. owed(c) \in Int
    <3>1. n(c) \in Int
      BY <2>2, <2>3
    <3> HIDE DEF n, at
    <3> QED
      BY <2>2, <2>3, <3>1
  <2> QED
    BY <2>2, <2>4, <2>5
<1>5. room' \in [Conns -> 0 .. Room] /\ left' \in [Conns -> Int]
  <2> HIDE DEF n, owed, there
  <2> QED
    BY <1>1, <1>4
<1>6. ASSUME NEW i \in DOMAIN gs
      PROVE  left'[gs[i].conn] = IF ~gs[i].header /\ after[i].header
                                 THEN after[i].end - after[i].start
                                 ELSE left[gs[i].conn] - (after[i].start - gs[i].start)
  <2>1. left'[gs[i].conn] = owed(gs[i].conn)
    <3> HIDE DEF owed
    <3> QED
      BY <1>1, <1>3
  <2>2. at(gs[i].conn) = i
    BY <1>3
  <2> HIDE DEF at
  <2> QED
    BY <2>1, <2>2
<1>7. ASSUME NEW c \in Conns, \A i \in DOMAIN gs : gs[i].conn # c PROVE left'[c] = left[c]
  <2>1. c \notin there
    BY <1>7
  <2> HIDE DEF there, owed
  <2> QED
    BY <1>1, <2>1
<1> QED
  BY <1>5, <1>6, <1>7

\* A gateway that was called and is kept is owed what it has left; one that is done
\* has paid, unless its browser is gone.
LEMMA ServedOwed ==
  ASSUME NEW g \in Gateways, NEW a, Shaped(g), Owed(g), Served(g, a),
         left'[g.conn] = IF ~g.header /\ a.header THEN a.end - a.start
                         ELSE left[g.conn] - (a.start - g.start)
  PROVE  /\ a.header => left'[g.conn] = a.end - a.start
         /\ a.done /\ g.conn \notin hungUp => left'[g.conn] = 0
<1>1. /\ g.start \in Nat /\ g.end \in Nat /\ a.start \in Nat /\ a.end \in Nat
      /\ a.conn = g.conn /\ g.header \in BOOLEAN /\ a.header \in BOOLEAN
  BY DEF Served, Gateways
<1>2. CASE g.header
  <2>1. left'[g.conn] = (g.end - g.start) - (a.start - g.start) /\ a.end = g.end /\ a.header
    BY <1>2 DEF Owed, Served
  <2>2. left'[g.conn] = a.end - a.start
    BY <1>1, <2>1
  <2> QED
    BY <1>1, <2>2 DEF Owed, Served
<1>3. CASE ~g.header
  <2>1. a.header => left'[g.conn] = a.end - a.start
    BY <1>3
  <2> QED
    BY <1>1, <2>1 DEF Owed, Served
<1> QED
  BY <1>2, <1>3

\* The elements that are left when one is removed, by their places.
LEMMA RemovedPlaces ==
  ASSUME NEW S, NEW s \in Seq(S), NEW i \in DOMAIN s
  PROVE  \E at \in [DOMAIN RemoveAt(s, i) -> DOMAIN s \ {i}] :
           /\ \A j \in DOMAIN RemoveAt(s, i) : RemoveAt(s, i)[j] = s[at[j]]
           /\ \A j, k \in DOMAIN RemoveAt(s, i) : at[j] = at[k] => j = k
           /\ \A k \in DOMAIN s \ {i} : \E j \in DOMAIN RemoveAt(s, i) : at[j] = k
<1> DEFINE r == RemoveAt(s, i)
           at == [j \in DOMAIN r |-> IF j < i THEN j ELSE j + 1]
<1>1. /\ DOMAIN r = 1 .. Len(s) - 1 /\ DOMAIN s = 1 .. Len(s) /\ Len(s) \in Nat
      /\ \A j \in DOMAIN r : r[j] = IF j < i THEN s[j] ELSE s[j + 1]
  BY Removed
<1> HIDE DEF r
<1>2. i \in 1 .. Len(s)
  BY <1>1
<1>3. at \in [DOMAIN r -> DOMAIN s \ {i}]
  BY <1>1, <1>2
<1>4. \A j \in DOMAIN r : r[j] = s[at[j]]
  BY <1>1
<1>5. \A j, k \in DOMAIN r : at[j] = at[k] => j = k
  BY <1>1, <1>2
<1>6. ASSUME NEW k \in DOMAIN s \ {i} PROVE \E j \in DOMAIN r : at[j] = k
  <2>1. CASE k < i
    <3>1. k \in DOMAIN r /\ at[k] = k
      BY <1>1, <1>2, <2>1
    <3> QED
      BY <3>1
  <2>2. CASE k > i
    <3>1. k - 1 \in DOMAIN r /\ at[k - 1] = k
      BY <1>1, <1>2, <2>2
    <3> QED
      BY <3>1
  <2> QED
    BY <1>1, <1>2, <2>1, <2>2
<1> HIDE DEF at
<1> QED
  BY <1>3, <1>4, <1>5, <1>6 DEF r

\* Adding an element that is not there, removing one, and taking the first keep a
\* list of connections without repetitions.
LEMMA AppendedPlaces ==
  ASSUME NEW S, NEW s \in Seq(S), NEW e \in S
  PROVE  /\ Append(s, e) \in Seq(S)
         /\ \A j \in DOMAIN Append(s, e) : \/ j \in DOMAIN s /\ Append(s, e)[j] = s[j]
                                           \/ j = Len(s) + 1 /\ Append(s, e)[j] = e
         /\ \A j \in DOMAIN s : j \in DOMAIN Append(s, e) /\ Append(s, e)[j] = s[j]
         /\ Len(s) + 1 \in DOMAIN Append(s, e) /\ Append(s, e)[Len(s) + 1] = e
         /\ Len(s) + 1 \notin DOMAIN s
<1>1. /\ Append(s, e) \in Seq(S) /\ Len(Append(s, e)) = Len(s) + 1
      /\ \A i \in 1 .. Len(s) : Append(s, e)[i] = s[i]
      /\ Append(s, e)[Len(s) + 1] = e
  BY AppendProperties
<1>2. DOMAIN s = 1 .. Len(s) /\ Len(s) \in Nat /\ DOMAIN Append(s, e) = 1 .. Len(s) + 1
  BY <1>1, LenProperties
<1> DEFINE t == Append(s, e)
<1> HIDE DEF t
<1>3. \A i \in 1 .. Len(s) + 1 : i \in 1 .. Len(s) \/ i = Len(s) + 1
  BY <1>2
<1>4. /\ Len(s) + 1 \in 1 .. Len(s) + 1 /\ Len(s) + 1 \notin 1 .. Len(s)
      /\ \A i \in 1 .. Len(s) : i \in 1 .. Len(s) + 1
  BY <1>2
<1>5. /\ t \in Seq(S) /\ t[Len(s) + 1] = e /\ DOMAIN t = 1 .. Len(s) + 1
      /\ \A i \in 1 .. Len(s) : t[i] = s[i]
  BY <1>1, <1>2 DEF t
<1>6. \A j \in DOMAIN t : (j \in DOMAIN s /\ t[j] = s[j]) \/ (j = Len(s) + 1 /\ t[j] = e)
  <2> SUFFICES ASSUME NEW j \in DOMAIN t
               PROVE  (j \in DOMAIN s /\ t[j] = s[j]) \/ (j = Len(s) + 1 /\ t[j] = e)
    OBVIOUS
  <2>1. CASE j \in 1 .. Len(s)
    <3>1. t[j] = s[j]
      BY <1>5, <2>1
    <3>2. j \in DOMAIN s
      BY <1>2, <2>1
    <3> QED
      BY <3>1, <3>2
  <2>2. CASE j = Len(s) + 1
    BY <1>5, <2>2
  <2> QED
    BY <1>3, <1>5, <2>1, <2>2
<1>7. \A j \in DOMAIN s : j \in DOMAIN t /\ t[j] = s[j]
  BY <1>2, <1>4, <1>5
<1>8. Len(s) + 1 \in DOMAIN t /\ Len(s) + 1 \notin DOMAIN s
  BY <1>2, <1>4, <1>5
<1> QED
  BY <1>5, <1>6, <1>7, <1>8 DEF t

\* A call on some of the gateways gs leaves them as after.
Called(gs, after) ==
    /\ after \in Seq(Gateways) /\ DOMAIN after = DOMAIN gs
    /\ \A i \in DOMAIN gs : Served(gs[i], after[i])
    /\ Written(gs, after) /\ UNCHANGED <<hungUp, backlog>>

\* One of them at most is done, leaves the list, and its socket is a client again.
Kept(idle, gs, after) ==
    /\ \A i \in DOMAIN gs : ~after[i].done
    /\ gateways' = after /\ clients' = idle

Left(idle, gs, after, d) ==
    /\ d \in DOMAIN gs /\ after[d].done /\ \A i \in DOMAIN gs \ {d} : ~after[i].done
    /\ gateways' = RemoveAt(after, d) /\ clients' = Append(idle, gs[d].conn)

\* Whoever leaves the gateways gs has been paid, or hung up.
LeavesPaid(gs) ==
    \A k \in DOMAIN gs : \/ \E j \in DOMAIN gateways' : gateways'[j].conn = gs[k].conn
                         \/ gs[k].conn \in hungUp \/ left'[gs[k].conn] = 0

\* Ready in the next state, from its parts.
LEMMA NextReady ==
  ASSUME NEW cl \in Seq(Conns), NEW gs \in Seq(Gateways), clients' = cl, gateways' = gs,
         NEW hung, hungUp' = hung, Placed(backlog', cl, gs),
         room' \in [Conns -> 0 .. Room], left' \in [Conns -> Int],
         \A i \in DOMAIN gs :
           Shaped(gs[i]) /\ (gs[i].header => left'[gs[i].conn] = gs[i].end - gs[i].start),
         \A i \in DOMAIN backlog' : backlog'[i] \in hung \/ left'[backlog'[i]] = 0,
         \A i \in DOMAIN cl : cl[i] \in hung \/ left'[cl[i]] = 0
  PROVE  Ready(clients, gateways)'
<1>1. Placed(backlog, clients, gateways)'
  BY DEF Placed
<1>2. \A i \in DOMAIN gateways' : Shaped(gateways[i])' /\ Owed(gateways[i])'
  BY DEF Shaped, Owed
<1>3. Paid(backlog)' /\ Paid(clients)'
  BY DEF Paid
<1> QED
  BY <1>1, <1>2, <1>3 DEF Ready

\* The gateways of a list after a call.
LEMMA CalledFacts ==
  ASSUME NEW idle, NEW gs, NEW after, Ready(idle, gs), Called(gs, after)
  PROVE  /\ room' \in [Conns -> 0 .. Room] /\ left' \in [Conns -> Int]
         /\ \A i \in DOMAIN gs :
              /\ gs[i].conn \in Conns
              /\ after[i].conn = gs[i].conn /\ after[i].id = gs[i].id
              /\ ~after[i].done => Shaped(after[i])
              /\ after[i].header => left'[gs[i].conn] = after[i].end - after[i].start
              /\ after[i].done /\ gs[i].conn \notin hungUp => left'[gs[i].conn] = 0
         /\ \A c \in Conns : (\A i \in DOMAIN gs : gs[i].conn # c) => left'[c] = left[c]
<1>0. /\ gs \in Seq(Gateways) /\ after \in Seq(Gateways) /\ DOMAIN after = DOMAIN gs
      /\ \A i \in DOMAIN gs : Served(gs[i], after[i]) /\ Shaped(gs[i]) /\ Owed(gs[i])
      /\ room \in [Conns -> 0 .. Room] /\ left \in [Conns -> Int] /\ Written(gs, after)
  BY DEF Ready, Called
<1>1. \A i, j \in DOMAIN gs : gs[i].conn = gs[j].conn => i = j
  BY DEF Ready, Placed
<1>2. /\ room' \in [Conns -> 0 .. Room] /\ left' \in [Conns -> Int]
      /\ \A i \in DOMAIN gs :
           left'[gs[i].conn] = IF ~gs[i].header /\ after[i].header
                               THEN after[i].end - after[i].start
                               ELSE left[gs[i].conn] - (after[i].start - gs[i].start)
      /\ \A c \in Conns : (\A i \in DOMAIN gs : gs[i].conn # c) => left'[c] = left[c]
  BY <1>0, <1>1, WrittenFacts
<1>3. \A i \in DOMAIN gs : gs[i] \in Gateways
  BY <1>0, LenProperties, ElementOfSeq
<1>4. ASSUME NEW i \in DOMAIN gs
      PROVE  /\ gs[i].conn \in Conns
             /\ after[i].conn = gs[i].conn /\ after[i].id = gs[i].id
             /\ ~after[i].done => Shaped(after[i])
  BY <1>0, <1>3 DEF Served, Gateways
<1>5. ASSUME NEW i \in DOMAIN gs
      PROVE  /\ after[i].header => left'[gs[i].conn] = after[i].end - after[i].start
             /\ after[i].done /\ gs[i].conn \notin hungUp => left'[gs[i].conn] = 0
  BY <1>0, <1>2, <1>3, ServedOwed
<1> QED
  BY <1>2, <1>4, <1>5

\* A call changes nothing for the connections that are not on a gateway.
LEMMA StillPaid ==
  ASSUME NEW idle, NEW gs, NEW after, Ready(idle, gs), Called(gs, after), backlog \in Seq(Conns)
  PROVE  /\ \A i \in DOMAIN backlog : backlog[i] \in hungUp \/ left'[backlog[i]] = 0
         /\ \A i \in DOMAIN idle : idle[i] \in hungUp \/ left'[idle[i]] = 0
<1>1. \A c \in Conns : (\A i \in DOMAIN gs : gs[i].conn # c) => left'[c] = left[c]
  BY CalledFacts
<1>2. idle \in Seq(Conns) /\ Placed(backlog, idle, gs) /\ Paid(backlog) /\ Paid(idle)
  BY DEF Ready
<1>3. /\ \A i \in DOMAIN backlog : backlog[i] \in Conns
      /\ \A i \in DOMAIN idle : idle[i] \in Conns
  BY <1>2, LenProperties, ElementOfSeq
<1>4. \A i \in DOMAIN backlog : left'[backlog[i]] = left[backlog[i]]
  BY <1>1, <1>2, <1>3 DEF Placed
<1>5. \A i \in DOMAIN idle : left'[idle[i]] = left[idle[i]]
  BY <1>1, <1>2, <1>3 DEF Placed
<1> QED
  BY <1>2, <1>4, <1>5 DEF Paid

\* When none is done all of them stay.
LEMMA NoneLeft ==
  ASSUME NEW idle, NEW gs, NEW after, Ready(idle, gs), Called(gs, after), Kept(idle, gs, after),
         backlog \in Seq(Conns)
  PROVE  /\ Ready(clients, gateways)'
         /\ LeavesPaid(gs)
<1>1. /\ gateways' = after /\ clients' = idle /\ hungUp' = hungUp /\ backlog' = backlog
      /\ DOMAIN after = DOMAIN gs /\ after \in Seq(Gateways) /\ idle \in Seq(Conns)
      /\ \A i \in DOMAIN gs : ~after[i].done
  BY DEF Kept, Called, Ready
<1>2. /\ room' \in [Conns -> 0 .. Room] /\ left' \in [Conns -> Int]
      /\ \A i \in DOMAIN gs :
           /\ gs[i].conn \in Conns
           /\ after[i].conn = gs[i].conn /\ after[i].id = gs[i].id
           /\ ~after[i].done => Shaped(after[i])
           /\ after[i].header => left'[gs[i].conn] = after[i].end - after[i].start
           /\ after[i].done /\ gs[i].conn \notin hungUp => left'[gs[i].conn] = 0
      /\ \A c \in Conns : (\A i \in DOMAIN gs : gs[i].conn # c) => left'[c] = left[c]
  BY CalledFacts
<1>3. Placed(backlog, idle, after)
  <2>1. Placed(backlog, idle, gs)
    BY DEF Ready
  <2>2. DOMAIN after = DOMAIN gs /\ \A i \in DOMAIN gs : after[i].conn = gs[i].conn
    BY <1>1, <1>2
  <2> QED
    BY <2>1, <2>2 DEF Placed
<1>4. /\ \A i \in DOMAIN backlog : backlog[i] \in hungUp \/ left'[backlog[i]] = 0
      /\ \A i \in DOMAIN idle : idle[i] \in hungUp \/ left'[idle[i]] = 0
  BY StillPaid
<1>5. \A i \in DOMAIN after :
        Shaped(after[i]) /\ (after[i].header => left'[after[i].conn] = after[i].end - after[i].start)
  <2>1. \A i \in DOMAIN gs :
          /\ after[i].conn = gs[i].conn /\ Shaped(after[i])
          /\ after[i].header => left'[gs[i].conn] = after[i].end - after[i].start
    BY <1>1, <1>2
  <2> QED
    BY <1>1, <2>1
<1>6. Ready(clients, gateways)'
  BY <1>1, <1>2, <1>3, <1>4, <1>5, NextReady
<1>7. LeavesPaid(gs)
  BY <1>1, <1>2 DEF LeavesPaid
<1> QED
  BY <1>6, <1>7

\* When one is done its socket is a client again.
LEMMA OneLeft ==
  ASSUME NEW idle, NEW gs, NEW after, NEW d, Ready(idle, gs), Called(gs, after),
         Left(idle, gs, after, d), backlog \in Seq(Conns)
  PROVE  /\ Ready(clients, gateways)'
         /\ LeavesPaid(gs)
<1> DEFINE r == RemoveAt(after, d)
           cl == Append(idle, gs[d].conn)
<1>1. /\ gateways' = r /\ clients' = cl /\ hungUp' = hungUp /\ backlog' = backlog
      /\ DOMAIN after = DOMAIN gs /\ after \in Seq(Gateways) /\ idle \in Seq(Conns)
      /\ d \in DOMAIN gs /\ after[d].done /\ \A i \in DOMAIN gs \ {d} : ~after[i].done
  BY DEF Left, Called, Ready
<1>2. /\ room' \in [Conns -> 0 .. Room] /\ left' \in [Conns -> Int]
      /\ \A i \in DOMAIN gs :
           /\ gs[i].conn \in Conns
           /\ after[i].conn = gs[i].conn /\ after[i].id = gs[i].id
           /\ ~after[i].done => Shaped(after[i])
           /\ after[i].header => left'[gs[i].conn] = after[i].end - after[i].start
           /\ after[i].done /\ gs[i].conn \notin hungUp => left'[gs[i].conn] = 0
      /\ \A c \in Conns : (\A i \in DOMAIN gs : gs[i].conn # c) => left'[c] = left[c]
  BY CalledFacts
<1>3. r \in Seq(Gateways)
  <2>1. d \in DOMAIN after /\ after \in Seq(Gateways)
    BY <1>1
  <2> QED
    BY <2>1, Removed
<1>31. \E at \in [DOMAIN r -> DOMAIN after \ {d}] :
           /\ \A j \in DOMAIN r : r[j] = after[at[j]]
           /\ \A j, k \in DOMAIN r : at[j] = at[k] => j = k
           /\ \A k \in DOMAIN after \ {d} : \E j \in DOMAIN r : at[j] = k
  <2>1. d \in DOMAIN after /\ after \in Seq(Gateways)
    BY <1>1
  <2> QED
    BY <2>1, RemovedPlaces
<1>4. /\ cl \in Seq(Conns)
      /\ \A j \in DOMAIN cl : \/ j \in DOMAIN idle /\ cl[j] = idle[j]
                              \/ j = Len(idle) + 1 /\ cl[j] = gs[d].conn
  BY <1>1, <1>2, AppendedPlaces
<1> HIDE DEF r, cl
<1>5. PICK at : /\ \A j \in DOMAIN r : at[j] \in DOMAIN gs \ {d} /\ r[j] = after[at[j]]
                /\ \A j, k \in DOMAIN r : at[j] = at[k] => j = k
                /\ \A k \in DOMAIN gs \ {d} : \E j \in DOMAIN r : at[j] = k
  <2>1. DOMAIN after = DOMAIN gs
    BY <1>1
  <2> QED
    BY <1>31, <2>1
<1>6. \A j \in DOMAIN r :
        /\ at[j] \in DOMAIN gs \ {d}
        /\ r[j].conn = gs[at[j]].conn /\ r[j].id = gs[at[j]].id
        /\ Shaped(r[j]) /\ (r[j].header => left'[r[j].conn] = r[j].end - r[j].start)
  <2> SUFFICES ASSUME NEW j \in DOMAIN r
               PROVE  /\ at[j] \in DOMAIN gs \ {d}
                      /\ r[j].conn = gs[at[j]].conn /\ r[j].id = gs[at[j]].id
                      /\ Shaped(r[j])
                      /\ r[j].header => left'[r[j].conn] = r[j].end - r[j].start
    OBVIOUS
  <2>1. at[j] \in DOMAIN gs \ {d} /\ r[j] = after[at[j]]
    BY <1>5
  <2> QED
    BY <1>1, <1>2, <2>1
<1>7. Placed(backlog, cl, r)
  <2>1. Placed(backlog, idle, gs)
    BY DEF Ready
  <2>2. d \in DOMAIN gs
    BY <1>1
  <2>3. \A j \in DOMAIN r : at[j] \in DOMAIN gs \ {d} /\ r[j].conn = gs[at[j]].conn
    BY <1>6
  <2>4. \A j, k \in DOMAIN r : at[j] = at[k] => j = k
    BY <1>5
  <2>5. \A j \in DOMAIN cl : \/ j \in DOMAIN idle /\ cl[j] = idle[j]
                             \/ j = Len(idle) + 1 /\ cl[j] = gs[d].conn
    BY <1>4
  <2>6. \A i, j \in DOMAIN cl : cl[i] = cl[j] => i = j
    BY <2>1, <2>2, <2>5 DEF Placed
  <2>7. \A i, j \in DOMAIN r : r[i].conn = r[j].conn => i = j
    BY <2>1, <2>3, <2>4 DEF Placed
  <2>8. \A i \in DOMAIN backlog, j \in DOMAIN cl : backlog[i] # cl[j]
    BY <2>1, <2>2, <2>5 DEF Placed
  <2>9. \A i \in DOMAIN backlog, j \in DOMAIN r : backlog[i] # r[j].conn
    BY <2>1, <2>3 DEF Placed
  <2>10. \A i \in DOMAIN cl, j \in DOMAIN r : cl[i] # r[j].conn
    BY <2>1, <2>2, <2>3, <2>5 DEF Placed
  <2> QED
    BY <2>1, <2>6, <2>7, <2>8, <2>9, <2>10 DEF Placed
<1>8. /\ \A j \in DOMAIN backlog : backlog[j] \in hungUp \/ left'[backlog[j]] = 0
      /\ \A j \in DOMAIN cl : cl[j] \in hungUp \/ left'[cl[j]] = 0
  <2>1. /\ \A j \in DOMAIN backlog : backlog[j] \in hungUp \/ left'[backlog[j]] = 0
        /\ \A j \in DOMAIN idle : idle[j] \in hungUp \/ left'[idle[j]] = 0
    BY StillPaid
  <2>2. gs[d].conn \in hungUp \/ left'[gs[d].conn] = 0
    BY <1>1, <1>2
  <2> QED
    BY <1>4, <2>1, <2>2
<1>9. Ready(clients, gateways)'
  <2>1. \A i \in DOMAIN r :
          Shaped(r[i]) /\ (r[i].header => left'[r[i].conn] = r[i].end - r[i].start)
    BY <1>6
  <2> QED
    BY <1>1, <1>2, <1>3, <1>4, <1>7, <1>8, <2>1, NextReady
<1>10. LeavesPaid(gs)
  <2> SUFFICES ASSUME NEW k \in DOMAIN gs
               PROVE  \/ \E j \in DOMAIN r : r[j].conn = gs[k].conn
                      \/ gs[k].conn \in hungUp \/ left'[gs[k].conn] = 0
    BY <1>1 DEF LeavesPaid
  <2>1. CASE k = d
    BY <1>1, <1>2, <2>1
  <2>2. CASE k # d
    <3>1. PICK j \in DOMAIN r : at[j] = k
      BY <1>5, <2>2
    <3>2. r[j].conn = gs[k].conn
      BY <1>6, <3>1
    <3> QED
      BY <3>2
  <2> QED
    BY <2>1, <2>2
<1> QED
  BY <1>9, <1>10

-----------------------------------------------------------------------------
(* The steps.                                                              *)

\* A call on the gateway at i, which gets its content from the disk or a download.
LEMMA HttpServed ==
  ASSUME NEW idle, NEW gs, NEW i \in DOMAIN gs, Ready(idle, gs), ~Refused(gs[i]),
         bitmap \in [Contents -> SUBSET Int], backlog \in Seq(Conns),
         ServeHttpContent(gs, i, idle), UNCHANGED <<backlog, hungUp, public>>
  PROVE  /\ Ready(clients, gateways)' /\ bitmap' \in [Contents -> SUBSET Int]
         /\ \A c \in Contents : bitmap'[c] \in {bitmap[c], {}}
         /\ LeavesPaid(gs)
<1> DEFINE g == gs[i]
           disk == g.id \in public
           bits == IF bitmap[g.id] = Absent THEN {} ELSE bitmap[g.id]
           a == IF disk THEN FromDisk(g) ELSE FromInbound(g, bits)
           after == [gs EXCEPT ![i] = a]
<1>1. /\ gateways' = IF a.done THEN RemoveAt(gs, i) ELSE after
      /\ clients' = IF a.done THEN Append(idle, g.conn) ELSE idle
      /\ Written(gs, after)
      /\ bitmap' = IF disk THEN bitmap ELSE [bitmap EXCEPT ![g.id] = bits]
  BY DEF ServeHttpContent, Refused
<1>2. /\ gs \in Seq(Gateways) /\ room \in [Conns -> 0 .. Room]
      /\ \A j \in DOMAIN gs : Shaped(gs[j])
  BY DEF Ready
<1>3. \A j \in DOMAIN gs : gs[j] \in Gateways
  BY <1>2, LenProperties, ElementOfSeq
<1>4. g.id \in Contents /\ g \in Gateways
  BY <1>3 DEF Gateways
<1>5. Served(g, a)
  BY <1>2, <1>4, CallServed
<1> HIDE DEF a
<1>6. a \in Gateways
  BY <1>5 DEF Served
<1>7. after \in Seq(Gateways) /\ DOMAIN after = DOMAIN gs
  <2>1. i \in 1 .. Len(gs) /\ DOMAIN gs = 1 .. Len(gs)
    BY <1>2, LenProperties
  <2> QED
    BY <1>2, <1>6, <2>1, ExceptSeq
<1>8. after[i] = a /\ \A j \in DOMAIN gs \ {i} : after[j] = gs[j]
  OBVIOUS
<1>9. Called(gs, after)
  <2>1. \A j \in DOMAIN gs \ {i} : Served(gs[j], gs[j])
    BY <1>2, <1>3, NotCalled
  <2> HIDE DEF after
  <2>2. \A j \in DOMAIN gs : Served(gs[j], after[j])
    BY <1>5, <1>8, <2>1
  <2>3. Written(gs, after)
    BY <1>1
  <2> QED
    BY <1>7, <2>2, <2>3 DEF Called
<1>10. Ready(clients, gateways)' /\ LeavesPaid(gs)
  <2>1. \A j \in DOMAIN gs \ {i} : ~gs[j].done
    BY <1>2 DEF Shaped
  <2>2. CASE a.done
    <3>1. RemoveAt(after, i) = RemoveAt(gs, i)
      BY <1>2, <1>6, RemovedSame
    <3> HIDE DEF after
    <3>2. Left(idle, gs, after, i)
      BY <1>1, <1>8, <2>1, <2>2, <3>1 DEF Left
    <3> QED
      BY <1>9, <3>2, OneLeft
  <2>3. CASE ~a.done
    <3> HIDE DEF after
    <3>1. Kept(idle, gs, after)
      BY <1>1, <1>8, <2>1, <2>3 DEF Kept
    <3> QED
      BY <1>9, <3>1, NoneLeft
  <2> QED
    BY <2>2, <2>3
<1>11. /\ bitmap' \in [Contents -> SUBSET Int]
       /\ \A c \in Contents : bitmap'[c] \in {bitmap[c], {}}
  BY <1>1, <1>4
<1> QED
  BY <1>10, <1>11

\* What the invariant says of the other variables.
Rest ==
    /\ request \in [Conns -> Get \cup {NoRequest, Page}] /\ hungUp \subseteq Conns
    /\ budget \in 0 .. MaxRequests /\ public \subseteq Contents
    /\ backlog \in Seq(Conns) /\ bitmap \in [Contents -> SUBSET Int]
    /\ \A c \in Contents : bitmap[c] = Absent \/ bitmap[c] \subseteq Blocks(c)
    /\ failures \in [Contents -> 0 .. MaxFailures]

\* The invariant is the two.
LEMMA InvParts == Inv <=> Ready(clients, gateways) /\ Rest
BY DEF Inv, Ready, Rest, TypeOK

\* Rest after a step that keeps the contents.
LEMMA NextRest ==
  ASSUME Rest, request' \in [Conns -> Get \cup {NoRequest, Page}], hungUp' \subseteq Conns,
         budget' \in 0 .. MaxRequests, backlog' \in Seq(Conns), public' = public,
         failures' = failures, bitmap' \in [Contents -> SUBSET Int],
         \A c \in Contents : bitmap'[c] \in {bitmap[c], {}}
  PROVE  Rest'
<1>1. \A c \in Contents : bitmap'[c] = Absent \/ bitmap'[c] \subseteq Blocks(c)
  BY DEF Rest
<1> QED
  BY <1>1 DEF Rest

\* A list of gateways that all leave paid, or all stay, keeps the promise of
\* ConnectionsKept.
LEMMA PaidIsWhole ==
  ASSUME NEW gs, LeavesPaid(gs),
         \A i \in DOMAIN gateways : i \in DOMAIN gs /\ gs[i] = gateways[i]
  PROVE  WholeOrRefused
<1> SUFFICES ASSUME NEW c \in OnGateway \ (OnGateway' \cup hungUp) PROVE left'[c] = 0
  BY DEF WholeOrRefused
<1>1. PICK i \in DOMAIN gateways : gateways[i].conn = c
  BY DEF OnGateway
<1>2. i \in DOMAIN gs /\ gs[i].conn = c
  BY <1>1
<1>3. \A j \in DOMAIN gateways' : gateways'[j].conn # c
  BY DEF OnGateway
<1> QED
  BY <1>2, <1>3 DEF LeavesPaid

LEMMA SameIsWhole == ASSUME gateways' = gateways PROVE WholeOrRefused
BY DEF WholeOrRefused, OnGateway

\* A gateway that is refused leaves the list; nothing else changes.
LEMMA RefusedLeaves ==
  ASSUME Ready(clients, gateways), NEW i \in DOMAIN gateways, Refused(gateways[i]),
         gateways' = RemoveAt(gateways, i), bitmap \in [Contents -> SUBSET Int],
         UNCHANGED <<clients, backlog, hungUp, room, left, bitmap>>
  PROVE  /\ Ready(clients, gateways)' /\ bitmap' \in [Contents -> SUBSET Int]
         /\ \A c \in Contents : bitmap'[c] \in {bitmap[c], {}}
         /\ WholeOrRefused
<1> DEFINE r == RemoveAt(gateways, i)
<1>1. gateways \in Seq(Gateways) /\ clients \in Seq(Conns) /\ Placed(backlog, clients, gateways)
      /\ Paid(backlog) /\ Paid(clients)
  BY DEF Ready
<1>2. r \in Seq(Gateways)
  BY <1>1, Removed
<1>3. PICK at \in [DOMAIN r -> DOMAIN gateways \ {i}] :
        /\ \A j \in DOMAIN r : r[j] = gateways[at[j]]
        /\ \A j, k \in DOMAIN r : at[j] = at[k] => j = k
        /\ \A k \in DOMAIN gateways \ {i} : \E j \in DOMAIN r : at[j] = k
  BY <1>1, RemovedPlaces
<1> HIDE DEF r
<1>4. Placed(backlog, clients, r)
  <2>1. \A j \in DOMAIN r : at[j] \in DOMAIN gateways
    BY <1>3
  <2>2. \A j, k \in DOMAIN r : r[j].conn = r[k].conn => j = k
    BY <1>1, <1>3, <2>1 DEF Placed
  <2>3. \A j \in DOMAIN backlog, k \in DOMAIN r : backlog[j] # r[k].conn
    BY <1>1, <1>3, <2>1 DEF Placed
  <2>4. \A j \in DOMAIN clients, k \in DOMAIN r : clients[j] # r[k].conn
    BY <1>1, <1>3, <2>1 DEF Placed
  <2> QED
    BY <1>1, <2>2, <2>3, <2>4 DEF Placed
<1>5. \A j \in DOMAIN r :
        Shaped(r[j]) /\ (r[j].header => left'[r[j].conn] = r[j].end - r[j].start)
  <2> SUFFICES ASSUME NEW j \in DOMAIN r
               PROVE  Shaped(r[j]) /\ (r[j].header => left'[r[j].conn] = r[j].end - r[j].start)
    OBVIOUS
  <2>1. r[j] = gateways[at[j]] /\ at[j] \in DOMAIN gateways
    BY <1>3
  <2>2. Shaped(gateways[at[j]]) /\ Owed(gateways[at[j]])
    BY <2>1 DEF Ready
  <2> QED
    BY <2>1, <2>2 DEF Owed
<1>6. Ready(clients, gateways)'
  <2>1. /\ \A j \in DOMAIN backlog' : backlog'[j] \in hungUp \/ left'[backlog'[j]] = 0
        /\ \A j \in DOMAIN clients : clients[j] \in hungUp \/ left'[clients[j]] = 0
    BY <1>1 DEF Paid
  <2>2. room' \in [Conns -> 0 .. Room] /\ left' \in [Conns -> Int]
    BY DEF Ready
  <2>3. gateways' = r /\ clients' = clients /\ hungUp' = hungUp /\ Placed(backlog', clients, r)
    BY <1>4 DEF r
  <2> QED
    BY <1>1, <1>2, <1>5, <2>1, <2>2, <2>3, NextReady
<1>7. WholeOrRefused
  <2> SUFFICES ASSUME NEW c \in OnGateway \ (OnGateway' \cup hungUp) PROVE RefusedNow(c)
    BY DEF WholeOrRefused
  <2>1. PICK k \in DOMAIN gateways : gateways[k].conn = c
    BY DEF OnGateway
  <2>2. \A j \in DOMAIN r : r[j].conn # c
    BY DEF OnGateway, r
  <2>3. k = i
    BY <1>3, <2>1, <2>2
  <2> QED
    BY <2>1, <2>3 DEF RefusedNow
<1> QED
  BY <1>6, <1>7

\* A gateway that is called writes, or is refused and leaves the list.
LEMMA ServeGatewayStep == Inv /\ ServeGateway => Inv' /\ WholeOrRefused
<1> SUFFICES ASSUME Inv, ServeGateway PROVE Inv' /\ WholeOrRefused
  OBVIOUS
<1>1. Ready(clients, gateways) /\ Rest
  BY InvParts
<1>2. WritableGateways \in SUBSET Nat /\ WritableGateways # {}
      /\ WritableGateways \subseteq DOMAIN gateways
  <2>1. DOMAIN gateways = 1 .. Len(gateways) /\ Len(gateways) \in Nat
    BY <1>1, LenProperties DEF Ready
  <2> QED
    BY <2>1 DEF ServeGateway, WritableGateways
<1> DEFINE i == Setmin(WritableGateways)
<1>3. i \in DOMAIN gateways
  BY <1>2, SetminFacts
<1>4. ServeHttpContent(gateways, i, clients)
      /\ UNCHANGED <<backlog, request, hungUp, budget, public, failures>>
  BY DEF ServeGateway
<1> HIDE DEF i
<1>5. bitmap \in [Contents -> SUBSET Int] /\ backlog \in Seq(Conns)
  BY <1>1 DEF Rest
<1>6. /\ Ready(clients, gateways)' /\ bitmap' \in [Contents -> SUBSET Int]
      /\ \A c \in Contents : bitmap'[c] \in {bitmap[c], {}}
      /\ WholeOrRefused
  <2>1. CASE Refused(gateways[i])
    <3>1. /\ gateways' = RemoveAt(gateways, i) /\ clients' = clients
          /\ UNCHANGED <<room, left, bitmap>>
      BY <1>4, <2>1 DEF ServeHttpContent
    <3> QED
      BY <1>1, <1>3, <1>4, <1>5, <2>1, <3>1, RefusedLeaves
  <2>2. CASE ~Refused(gateways[i])
    <3>1. UNCHANGED <<backlog, hungUp, public>>
      BY <1>4
    <3>2. /\ Ready(clients, gateways)' /\ bitmap' \in [Contents -> SUBSET Int]
          /\ \A c \in Contents : bitmap'[c] \in {bitmap[c], {}}
          /\ LeavesPaid(gateways)
      BY <1>1, <1>3, <1>4, <1>5, <2>2, <3>1, HttpServed
    <3> QED
      BY <3>2, PaidIsWhole
  <2> QED
    BY <2>1, <2>2
<1>7. Rest'
  <2>1. /\ request' = request /\ hungUp' = hungUp /\ budget' = budget
        /\ backlog' = backlog /\ public' = public /\ failures' = failures
    BY <1>4
  <2>2. /\ request' \in [Conns -> Get \cup {NoRequest, Page}] /\ hungUp' \subseteq Conns
        /\ budget' \in 0 .. MaxRequests /\ backlog' \in Seq(Conns)
    BY <1>1, <2>1 DEF Rest
  <2> QED
    BY <1>1, <1>6, <2>1, <2>2, NextRest
<1> QED
  BY <1>6, <1>7 DEF Inv, Ready, Rest, TypeOK

\* A list of connections and gateways of which some are gone.
LEMMA ReadySub ==
  ASSUME NEW idle, NEW gs, Ready(idle, gs), NEW idle2 \in Seq(Conns),
         NEW at, \A j \in DOMAIN idle2 : at[j] \in DOMAIN idle /\ idle2[j] = idle[at[j]],
         \A j, k \in DOMAIN idle2 : at[j] = at[k] => j = k
  PROVE  Ready(idle2, gs)
<1>1. Placed(backlog, idle, gs)
  BY DEF Ready
<1>2. \A i, j \in DOMAIN idle2 : idle2[i] = idle2[j] => i = j
  BY <1>1 DEF Placed
<1>3. \A i \in DOMAIN backlog, j \in DOMAIN idle2 : backlog[i] # idle2[j]
  BY <1>1 DEF Placed
<1>4. \A i \in DOMAIN idle2, j \in DOMAIN gs : idle2[i] # gs[j].conn
  BY <1>1 DEF Placed
<1>5. Placed(backlog, idle2, gs)
  BY <1>1, <1>2, <1>3, <1>4 DEF Placed
<1>6. Paid(idle2)
  BY DEF Ready, Paid
<1> QED
  BY <1>5, <1>6 DEF Ready

\* A new gateway for a socket that is in none of the lists.
LEMMA ReadyAppend ==
  ASSUME NEW idle, NEW gs, Ready(idle, gs), NEW g \in Gateways, Shaped(g), ~g.header,
         \A j \in DOMAIN backlog : backlog[j] # g.conn,
         \A j \in DOMAIN idle : idle[j] # g.conn,
         \A j \in DOMAIN gs : gs[j].conn # g.conn
  PROVE  Ready(idle, Append(gs, g))
<1> DEFINE t == Append(gs, g)
           n == Len(gs) + 1
<1>0. gs \in Seq(Gateways)
  BY DEF Ready
<1>1. /\ t \in Seq(Gateways)
      /\ \A j \in DOMAIN t : \/ j \in DOMAIN gs /\ t[j] = gs[j]
                             \/ j = n /\ t[j] = g
      /\ \A j \in DOMAIN gs : j \in DOMAIN t /\ t[j] = gs[j]
  BY <1>0, AppendedPlaces
<1> HIDE DEF t, n
<1>2. Placed(backlog, idle, gs)
  BY DEF Ready
<1>3. \A i, j \in DOMAIN t : t[i].conn = t[j].conn => i = j
  BY <1>1, <1>2 DEF Placed
<1>4. \A i \in DOMAIN backlog, j \in DOMAIN t : backlog[i] # t[j].conn
  BY <1>1, <1>2 DEF Placed
<1>5. \A i \in DOMAIN idle, j \in DOMAIN t : idle[i] # t[j].conn
  BY <1>1, <1>2 DEF Placed
<1>6. Placed(backlog, idle, t)
  BY <1>2, <1>3, <1>4, <1>5 DEF Placed
<1>7. \A j \in DOMAIN t : Shaped(t[j]) /\ Owed(t[j])
  <2>1. Owed(g)
    BY DEF Owed
  <2>2. \A j \in DOMAIN gs : Shaped(gs[j]) /\ Owed(gs[j])
    BY DEF Ready
  <2> QED
    BY <1>1, <2>1, <2>2
<1>9. Ready(idle, t)
  BY <1>1, <1>6, <1>7 DEF Ready
<1> QED
  BY <1>9 DEF t

\* The socket that is read leaves http_clients; it becomes a gateway, or is dropped
\* with nothing owed.
LEMMA HandleWebRequestStep == Inv /\ HandleWebRequest => Inv' /\ WholeOrRefused
<1> SUFFICES ASSUME Inv, HandleWebRequest PROVE Inv' /\ WholeOrRefused
  OBVIOUS
<1>1. Ready(clients, gateways) /\ Rest
  BY InvParts
<1>2. clients \in Seq(Conns) /\ DOMAIN clients = 1 .. Len(clients) /\ Len(clients) \in Nat
  BY <1>1, LenProperties DEF Ready
<1>3. ReadableClients \in SUBSET Nat /\ ReadableClients # {}
      /\ ReadableClients \subseteq DOMAIN clients
  BY <1>2 DEF HandleWebRequest, ReadableClients
<1> DEFINE k == Setmin(ReadableClients)
           c == clients[k]
           r == request[c]
           rest == RemoveAt(clients, k)
           g == [conn |-> c, id |-> r.id, start |-> r.start, end |-> r.end,
                 ranged |-> r.ranged, waiting |-> FALSE, done |-> FALSE, header |-> FALSE]
<1>4. k \in DOMAIN clients
  BY <1>3, SetminFacts
<1>5. /\ request' = [request EXCEPT ![c] = NoRequest]
      /\ IF r \in {NoRequest, Page}
         THEN clients' = rest /\ UNCHANGED <<gateways, room, left, bitmap>>
         ELSE ServeHttpContent(Append(gateways, g), Len(gateways) + 1, rest)
      /\ UNCHANGED <<backlog, hungUp, budget, public, failures>>
  BY DEF HandleWebRequest
<1> HIDE DEF k
<1>6. c \in Conns
  BY <1>2, <1>4, ElementOfSeq
<1>7. /\ rest \in Seq(Conns)
      /\ \E at \in [DOMAIN rest -> DOMAIN clients \ {k}] :
           /\ \A j \in DOMAIN rest : rest[j] = clients[at[j]]
           /\ \A j, m \in DOMAIN rest : at[j] = at[m] => j = m
  <2>1. rest \in Seq(Conns)
    BY <1>2, <1>4, Removed
  <2>2. \E at \in [DOMAIN rest -> DOMAIN clients \ {k}] :
           /\ \A j \in DOMAIN rest : rest[j] = clients[at[j]]
           /\ \A j, m \in DOMAIN rest : at[j] = at[m] => j = m
           /\ \A m \in DOMAIN clients \ {k} : \E j \in DOMAIN rest : at[j] = m
    <3>1. clients \in Seq(Conns)
      BY <1>2
    <3> QED
      BY <1>4, <3>1, RemovedPlaces
  <2> HIDE DEF rest
  <2> QED
    BY <2>1, <2>2
<1>8. PICK at : /\ \A j \in DOMAIN rest : at[j] \in DOMAIN clients \ {k} /\ rest[j] = clients[at[j]]
                /\ \A j, m \in DOMAIN rest : at[j] = at[m] => j = m
  <2> HIDE DEF rest
  <2> QED
    BY <1>7
<1> HIDE DEF rest
<1>9. Ready(rest, gateways)
  <2>1. \A j \in DOMAIN rest : at[j] \in DOMAIN clients /\ rest[j] = clients[at[j]]
    BY <1>8
  <2> QED
    BY <1>1, <1>7, <1>8, <2>1, ReadySub
<1>10. Placed(backlog, clients, gateways)
  BY <1>1 DEF Ready
<1>11. /\ \A j \in DOMAIN backlog : backlog[j] # c
       /\ \A j \in DOMAIN gateways : gateways[j].conn # c
       /\ \A j \in DOMAIN rest : rest[j] # c
  BY <1>4, <1>8, <1>10 DEF Placed
<1>12. request' \in [Conns -> Get \cup {NoRequest, Page}]
  <2>1. request \in [Conns -> Get \cup {NoRequest, Page}]
    BY <1>1 DEF Rest
  <2> HIDE DEF c
  <2> QED
    BY <1>5, <1>6, <2>1
<1>13. /\ hungUp' \subseteq Conns /\ budget' \in 0 .. MaxRequests /\ backlog' \in Seq(Conns)
       /\ public' = public /\ hungUp' = hungUp /\ backlog' = backlog
       /\ bitmap \in [Contents -> SUBSET Int] /\ failures' = failures /\ backlog \in Seq(Conns)
  BY <1>1, <1>5 DEF Rest
<1>14. ASSUME clients' = rest, UNCHANGED <<gateways, room, left, bitmap>>
       PROVE  Inv' /\ WholeOrRefused
  <2>1. Ready(clients, gateways)'
    <3>1. Ready(rest, gateways)
      BY <1>9
    <3> QED
      BY <1>13, <1>14, <3>1 DEF Ready, Placed, Shaped, Owed, Paid
  <2>2. Rest'
    <3>1. bitmap' = bitmap
      BY <1>14
    <3> QED
      BY <1>1, <1>12, <1>13, <3>1, NextRest
  <2>3. WholeOrRefused
    BY <1>14, SameIsWhole
  <2> QED
    BY <2>1, <2>2, <2>3 DEF Inv, Ready, Rest, TypeOK
<1>15. CASE r \in {NoRequest, Page}
  BY <1>5, <1>14, <1>15
<1>16. CASE r \notin {NoRequest, Page}
  <2>1. r \in Get
    <3>1. request \in [Conns -> Get \cup {NoRequest, Page}]
      BY <1>1 DEF Rest
    <3> QED
      BY <1>6, <1>16, <3>1
  <2>2. PICK x \in Contents, y \in Ranges :
          r = [id |-> x, start |-> y.start, end |-> y.end, ranged |-> y.ranged]
    BY <2>1 DEF Get
  <2>3. y.start \in Nat /\ y.end \in Nat /\ y.ranged \in BOOLEAN /\ y.start < Size[x]
        /\ (y.end = 0 \/ y.start < y.end)
    BY GatewayAssumption
  <2>4. /\ g.conn = c /\ g.id = x /\ g.start = y.start /\ g.end = y.end /\ ~g.header /\ ~g.done
        /\ g \in Gateways
    <3>1. r.id = x /\ r.start = y.start /\ r.end = y.end /\ r.ranged = y.ranged
      BY <2>2
    <3> HIDE DEF r, c
    <3> QED
      BY <1>6, <2>3, <3>1 DEF Gateways
  <2> HIDE DEF g
  <2>5. Shaped(g)
    BY <2>3, <2>4 DEF Shaped
  <2> DEFINE gs == Append(gateways, g)
             n == Len(gateways) + 1
  <2>6. ServeHttpContent(gs, n, rest)
    BY <1>5, <1>16
  <2>7. Ready(rest, gs)
    BY <1>9, <1>11, <2>4, <2>5, ReadyAppend
  <2>8. gateways \in Seq(Gateways)
    BY <1>1 DEF Ready
  <2>9. /\ n \in DOMAIN gs /\ gs[n] = g
        /\ \A j \in DOMAIN gs \ {n} : j \in DOMAIN gateways /\ gs[j] = gateways[j]
    BY <2>4, <2>8, AppendedPlaces
  <2>12. \A j \in DOMAIN gateways : j \in DOMAIN gs /\ gs[j] = gateways[j]
    BY <2>4, <2>8, AppendedPlaces
  <2>10. CASE Refused(g)
    <3>1. gateways' = RemoveAt(gs, n) /\ clients' = rest /\ UNCHANGED <<room, left, bitmap>>
      <4> HIDE DEF gs, n
      <4> QED
        BY <2>6, <2>9, <2>10 DEF ServeHttpContent
    <3>2. RemoveAt(gs, n) = gateways
      BY <2>4, <2>8, RemovedSame
    <3>3. gateways' = gateways
      BY <3>1, <3>2
    <3> QED
      BY <1>14, <3>1, <3>3
  <2>11. CASE ~Refused(g)
    <3> HIDE DEF gs, n
    <3>1. UNCHANGED <<backlog, hungUp, public>>
      BY <1>5
    <3>2. /\ Ready(clients, gateways)' /\ bitmap' \in [Contents -> SUBSET Int]
          /\ \A d \in Contents : bitmap'[d] \in {bitmap[d], {}}
          /\ LeavesPaid(gs)
      BY <1>13, <2>6, <2>7, <2>9, <2>11, <3>1, HttpServed
    <3>3. Rest'
      BY <1>1, <1>12, <1>13, <3>2, NextRest
    <3>4. WholeOrRefused
      BY <2>12, <3>2, PaidIsWhole
    <3> QED
      BY <3>2, <3>3, <3>4 DEF Inv, Ready, Rest, TypeOK
  <2> QED
    BY <2>10, <2>11
<1> QED
  BY <1>15, <1>16

\* The first of the backlog becomes the last client.
LEMMA AcceptStep == Inv /\ Accept => Inv' /\ WholeOrRefused
<1> SUFFICES ASSUME Inv, Accept PROVE Inv' /\ WholeOrRefused
  OBVIOUS
<1>1. Ready(clients, gateways) /\ Rest
  BY InvParts
<1>2. /\ clients' = Append(clients, Head(backlog)) /\ backlog' = Tail(backlog) /\ backlog # <<>>
      /\ UNCHANGED <<gateways, request, hungUp, room, left, budget, public, bitmap, failures>>
  BY DEF Accept, sockets, downloads
<1>3. backlog \in Seq(Conns) /\ clients \in Seq(Conns) /\ gateways \in Seq(Gateways)
  BY <1>1 DEF Ready, Rest
<1> DEFINE e == Head(backlog)
           bl == Tail(backlog)
           cl == Append(clients, e)
<1>4. /\ e \in Conns /\ bl \in Seq(Conns) /\ Len(bl) = Len(backlog) - 1
      /\ \A j \in 1 .. Len(bl) : bl[j] = backlog[j + 1]
      /\ DOMAIN bl = 1 .. Len(bl) /\ Len(bl) \in Nat
      /\ DOMAIN backlog = 1 .. Len(backlog) /\ Len(backlog) \in Nat
  BY <1>2, <1>3, HeadTailProperties, LenProperties
<1>5. e = backlog[1] /\ 1 \in DOMAIN backlog
  <2>1. Len(backlog) # 0
    BY <1>2, <1>3, EmptySeq
  <2> QED
    BY <1>3, <1>4, <2>1
<1>6. /\ cl \in Seq(Conns)
      /\ \A j \in DOMAIN cl : \/ j \in DOMAIN clients /\ cl[j] = clients[j]
                              \/ j = Len(clients) + 1 /\ cl[j] = e
  BY <1>3, <1>4, AppendedPlaces
<1>7. \A j \in DOMAIN bl : j + 1 \in DOMAIN backlog /\ j + 1 # 1 /\ bl[j] = backlog[j + 1]
  BY <1>4
<1>71. \A j, k \in DOMAIN bl : j + 1 = k + 1 => j = k
  BY <1>4
<1> HIDE DEF e, bl, cl
<1>8. Placed(backlog, clients, gateways)
  BY <1>1 DEF Ready
<1>9. Placed(bl, cl, gateways)
  <2>1. \A i, j \in DOMAIN bl : bl[i] = bl[j] => i = j
    BY <1>7, <1>71, <1>8 DEF Placed
  <2>2. \A i, j \in DOMAIN cl : cl[i] = cl[j] => i = j
    BY <1>5, <1>6, <1>8 DEF Placed
  <2>3. \A i \in DOMAIN bl, j \in DOMAIN cl : bl[i] # cl[j]
    <3> SUFFICES ASSUME NEW i \in DOMAIN bl, NEW j \in DOMAIN cl PROVE bl[i] # cl[j]
      OBVIOUS
    <3>1. i + 1 \in DOMAIN backlog /\ i + 1 # 1 /\ bl[i] = backlog[i + 1]
      BY <1>7
    <3>2. bl[i] # e
      BY <1>5, <1>8, <3>1 DEF Placed
    <3>3. ASSUME NEW m \in DOMAIN clients PROVE bl[i] # clients[m]
      BY <1>8, <3>1 DEF Placed
    <3> QED
      BY <1>6, <3>2, <3>3
  <2>4. \A i \in DOMAIN bl, j \in DOMAIN gateways : bl[i] # gateways[j].conn
    BY <1>7, <1>8 DEF Placed
  <2>5. \A i \in DOMAIN cl, j \in DOMAIN gateways : cl[i] # gateways[j].conn
    BY <1>5, <1>6, <1>8 DEF Placed
  <2> QED
    BY <1>8, <2>1, <2>2, <2>3, <2>4, <2>5 DEF Placed
<1>10. clients' = cl /\ backlog' = bl /\ gateways' = gateways /\ hungUp' = hungUp
       /\ room' = room /\ left' = left
  BY <1>2 DEF cl, bl, e
<1>11. Ready(clients, gateways)'
  <2>1. room \in [Conns -> 0 .. Room] /\ left \in [Conns -> Int]
    BY <1>1 DEF Ready
  <2>2. \A i \in DOMAIN gateways :
          /\ Shaped(gateways[i])
          /\ gateways[i].header => left[gateways[i].conn] = gateways[i].end - gateways[i].start
    BY <1>1 DEF Ready, Owed
  <2>3. Paid(backlog) /\ Paid(clients)
    BY <1>1 DEF Ready
  <2>4. \A i \in DOMAIN bl : bl[i] \in hungUp \/ left[bl[i]] = 0
    BY <1>7, <2>3 DEF Paid
  <2>5. \A i \in DOMAIN cl : cl[i] \in hungUp \/ left[cl[i]] = 0
    BY <1>5, <1>6, <2>3 DEF Paid
  <2> QED
    BY <1>3, <1>6, <1>9, <1>10, <2>1, <2>2, <2>4, <2>5, NextReady
<1>12. Rest'
  <2>1. request' = request /\ hungUp' = hungUp /\ budget' = budget /\ public' = public
        /\ bitmap' = bitmap /\ failures' = failures /\ backlog' \in Seq(Conns)
    BY <1>2, <1>4, <1>10
  <2> QED
    BY <1>1, <2>1 DEF Rest
<1>13. WholeOrRefused
  BY <1>10, SameIsWhole
<1> QED
  BY <1>11, <1>12, <1>13 DEF Inv, Ready, Rest, TypeOK

\* A block serves the gateways on its content up to the first that is done.
LEMMA HandleNetworkStep ==
  ASSUME NEW c \in Contents, NEW b \in Blocks(c), Inv, HandleNetwork(c, b)
  PROVE  Inv' /\ WholeOrRefused
<1>1. Ready(clients, gateways) /\ Rest
  BY InvParts
<1>2. gateways \in Seq(Gateways) /\ DOMAIN gateways = 1 .. Len(gateways) /\ Len(gateways) \in Nat
      /\ room \in [Conns -> 0 .. Room] /\ bitmap \in [Contents -> SUBSET Int]
  BY <1>1, LenProperties DEF Ready, Rest
<1>3. \A i \in DOMAIN gateways : Shaped(gateways[i]) /\ gateways[i] \in Gateways
  BY <1>1, <1>2, ElementOfSeq DEF Ready
<1> DEFINE bits == bitmap[c] \cup {b}
           served == [i \in DOMAIN gateways |->
                        IF gateways[i].id = c THEN FromInbound(gateways[i], bits)
                        ELSE gateways[i]]
           dones == {i \in DOMAIN gateways : gateways[i].id = c /\ served[i].done}
           last == Setmin(dones)
           after == [i \in DOMAIN gateways |->
                       IF dones = {} \/ i <= last THEN served[i] ELSE gateways[i]]
<1>4. /\ bitmap[c] # Absent /\ bitmap' = [bitmap EXCEPT ![c] = bits]
      /\ Written(gateways, after)
      /\ IF dones = {} THEN gateways' = after /\ UNCHANGED clients
         ELSE /\ gateways' = RemoveAt(after, last)
              /\ clients' = Append(clients, gateways[last].conn)
      /\ UNCHANGED <<backlog, request, hungUp, budget, public, failures>>
  BY DEF HandleNetwork
<1>5. ASSUME NEW i \in DOMAIN gateways
      PROVE  /\ Served(gateways[i], served[i])
             /\ gateways[i].id = c \/ served[i] = gateways[i]
  <2>1. Served(gateways[i], gateways[i]) /\ Served(gateways[i], FromInbound(gateways[i], bits))
    BY <1>2, <1>3, NotCalled, CallServed
  <2> HIDE DEF bits
  <2> QED
    BY <2>1
<1>6. \A i \in DOMAIN gateways : i \in dones <=> served[i].done
  <2> HIDE DEF served
  <2> QED
    BY <1>3, <1>5 DEF Shaped
<1>7. dones # {} => /\ last \in dones /\ \A i \in dones : last <= i
                    /\ last \in DOMAIN gateways /\ last \in Nat
  <2>1. dones \in SUBSET Nat /\ dones \subseteq DOMAIN gateways
    BY <1>2
  <2> HIDE DEF dones
  <2> QED
    BY <2>1, SetminFacts
<1>8. \A i \in DOMAIN gateways : after[i] = served[i] \/ after[i] = gateways[i]
  <2> HIDE DEF served, dones, last
  <2> QED
    OBVIOUS
<1>9. \A i \in DOMAIN gateways : Served(gateways[i], after[i])
  <2>1. \A i \in DOMAIN gateways : Served(gateways[i], gateways[i])
    BY <1>2, <1>3, NotCalled
  <2> HIDE DEF after, served
  <2> QED
    BY <1>5, <1>8, <2>1
<1>10. after \in Seq(Gateways) /\ DOMAIN after = DOMAIN gateways
  <2>1. \A i \in DOMAIN gateways : after[i] \in Gateways
    <3> HIDE DEF after
    <3> QED
      BY <1>9 DEF Served
  <2>2. DOMAIN after = 1 .. Len(gateways)
    BY <1>2
  <2>3. after \in [1 .. Len(gateways) -> Gateways]
    <3>1. \A i \in 1 .. Len(gateways) : after[i] \in Gateways
      BY <1>2, <2>1
    <3>2. after = [i \in 1 .. Len(gateways) |-> after[i]]
      <4> HIDE DEF served, dones, last
      <4> QED
        BY <1>2
    <3> HIDE DEF after
    <3> QED
      BY <3>1, <3>2
  <2> HIDE DEF after
  <2> QED
    BY <1>2, <2>2, <2>3, SeqDef
<1>11. Called(gateways, after)
  <2> HIDE DEF after
  <2> QED
    BY <1>4, <1>9, <1>10 DEF Called
<1>0. backlog \in Seq(Conns)
  BY <1>1 DEF Rest
<1>12. Ready(clients, gateways)' /\ LeavesPaid(gateways)
  <2>1. CASE dones = {}
    <3>1. \A i \in DOMAIN gateways : after[i] = served[i] /\ ~served[i].done
      <4>1. \A i \in DOMAIN gateways : after[i] = served[i]
        <5> HIDE DEF served, dones
        <5> QED
          BY <2>1
      <4> HIDE DEF served, dones, after
      <4> QED
        BY <1>6, <2>1, <4>1
    <3> HIDE DEF served, dones, after
    <3>2. Kept(clients, gateways, after)
      BY <1>4, <2>1, <3>1 DEF Kept
    <3> QED
      BY <1>0, <1>1, <1>11, <3>2, NoneLeft
  <2>2. CASE dones # {}
    <3>1. after[last] = served[last]
      <4>1. last <= last /\ last \in DOMAIN gateways
        BY <1>7, <2>2
      <4> HIDE DEF served, dones, last
      <4> QED
        BY <4>1
    <3>2. \A i \in DOMAIN gateways : IF i <= last THEN after[i] = served[i] ELSE after[i] = gateways[i]
      <4> HIDE DEF served, dones, last
      <4> QED
        BY <2>2
    <3> HIDE DEF served, dones, after, last
    <3>3. ASSUME NEW i \in DOMAIN gateways \ {last} PROVE ~after[i].done
      <4>1. CASE i <= last
        <5>1. i \notin dones
          BY <1>2, <1>7, <2>2, <4>1
        <5> QED
          BY <1>6, <3>2, <4>1, <5>1
      <4>2. CASE ~(i <= last)
        BY <1>3, <3>2, <4>2 DEF Shaped
      <4> QED
        BY <4>1, <4>2
    <3>4. Left(clients, gateways, after, last)
      BY <1>4, <1>6, <1>7, <2>2, <3>1, <3>3 DEF Left
    <3> QED
      BY <1>0, <1>1, <1>11, <3>4, OneLeft
  <2> QED
    BY <2>1, <2>2
<1>13. /\ bitmap' \in [Contents -> SUBSET Int]
       /\ \A x \in Contents : bitmap'[x] = IF x = c THEN bits ELSE bitmap[x]
       /\ bits # Absent /\ bits \subseteq Blocks(c) /\ bits \subseteq Int
  <2>1. b \in Nat
    BY SizeFacts DEF Blocks
  <2>2. bitmap[c] \subseteq Blocks(c)
    BY <1>1, <1>4 DEF Rest
  <2>3. bits # Absent /\ bits \subseteq Blocks(c) /\ bits \subseteq Int
    <3>1. b \in bits /\ b \notin Absent
      BY <2>1 DEF Absent
    <3>2. bits \subseteq Blocks(c)
      BY <2>2
    <3>3. bits \subseteq Int
      BY <1>2, <2>1
    <3> QED
      BY <3>1, <3>2, <3>3
  <2> HIDE DEF bits
  <2> QED
    BY <1>2, <1>4, <2>3
<1>14. Rest'
  <2> HIDE DEF bits
  <2>1. \A x \in Contents : bitmap'[x] = Absent \/ bitmap'[x] \subseteq Blocks(x)
    BY <1>1, <1>13 DEF Rest
  <2>2. /\ request' = request /\ hungUp' = hungUp /\ budget' = budget
        /\ backlog' = backlog /\ public' = public /\ failures' = failures
    BY <1>4
  <2> QED
    BY <1>1, <1>13, <2>1, <2>2 DEF Rest
<1>15. WholeOrRefused
  BY <1>12, PaidIsWhole
<1> QED
  BY <1>12, <1>14, <1>15 DEF Inv, Ready, Rest, TypeOK

\* What maintenance() drops is owed nothing: it is a gateway of a browser that is gone.
LEMMA MaintainStep == Inv /\ Maintain => Inv' /\ WholeOrRefused
<1> SUFFICES ASSUME Inv, Maintain PROVE Inv' /\ WholeOrRefused
  OBVIOUS
<1>1. Ready(clients, gateways) /\ Rest
  BY InvParts
<1> DEFINE keep == {i \in DOMAIN gateways : ~gateways[i].done /\ gateways[i].conn \notin hungUp}
           r == gateways'
<1>2. r \in Retained(gateways, keep)
      /\ UNCHANGED <<backlog, clients, request, hungUp, room, left, budget>>
  BY DEF Maintain, sockets
<1>3. PICK moved \in SUBSET Contents, again \in SUBSET Contents, dropped \in SUBSET Contents :
        Finished(moved, again, dropped)
  BY DEF Maintain
<1>4. gateways \in Seq(Gateways) /\ clients \in Seq(Conns)
  BY <1>1 DEF Ready
<1>5. /\ r \in Seq(Gateways)
      /\ \E at \in [DOMAIN r -> keep] :
           /\ \A j \in DOMAIN r : r[j] = gateways[at[j]]
           /\ \A j, k \in DOMAIN r : at[j] = at[k] => j = k
      /\ \A i \in keep : \E j \in DOMAIN r : r[j] = gateways[i]
  <2>1. keep \in SUBSET DOMAIN gateways
    OBVIOUS
  <2>2. r \in Retained(gateways, keep)
    BY <1>2
  <2>3. gateways \in Seq(Gateways)
    BY <1>4
  <2> HIDE DEF keep, r
  <2> QED
    BY <2>1, <2>2, <2>3, RetainedFacts, SMTT(30)
<1> HIDE DEF r
<1>6. PICK at : /\ \A j \in DOMAIN r : at[j] \in DOMAIN gateways /\ r[j] = gateways[at[j]]
                /\ \A j, k \in DOMAIN r : at[j] = at[k] => j = k
  <2>1. \A i \in keep : i \in DOMAIN gateways
    OBVIOUS
  <2> HIDE DEF keep
  <2> QED
    BY <1>5, <2>1
<1>7. Placed(backlog, clients, r)
  <2>1. Placed(backlog, clients, gateways)
    BY <1>1 DEF Ready
  <2>2. \A i, j \in DOMAIN r : r[i].conn = r[j].conn => i = j
    BY <1>6, <2>1 DEF Placed
  <2>3. \A i \in DOMAIN backlog, j \in DOMAIN r : backlog[i] # r[j].conn
    BY <1>6, <2>1 DEF Placed
  <2>4. \A i \in DOMAIN clients, j \in DOMAIN r : clients[i] # r[j].conn
    BY <1>6, <2>1 DEF Placed
  <2> QED
    BY <2>1, <2>2, <2>3, <2>4 DEF Placed
<1>8. \A j \in DOMAIN r :
        Shaped(r[j]) /\ (r[j].header => left[r[j].conn] = r[j].end - r[j].start)
  <2> SUFFICES ASSUME NEW j \in DOMAIN r
               PROVE  Shaped(r[j]) /\ (r[j].header => left[r[j].conn] = r[j].end - r[j].start)
    OBVIOUS
  <2>1. r[j] = gateways[at[j]] /\ at[j] \in DOMAIN gateways
    BY <1>6
  <2>2. Shaped(gateways[at[j]]) /\ Owed(gateways[at[j]])
    BY <1>1, <2>1 DEF Ready
  <2> QED
    BY <2>1, <2>2 DEF Owed
<1>9. WholeOrRefused
  <2> SUFFICES ASSUME NEW c \in OnGateway \ (OnGateway' \cup hungUp) PROVE FALSE
    BY DEF WholeOrRefused
  <2>1. PICK i \in DOMAIN gateways : gateways[i].conn = c
    BY DEF OnGateway
  <2>2. i \in keep
    BY <1>1, <2>1 DEF Ready, Shaped
  <2> HIDE DEF keep
  <2>3. PICK j \in DOMAIN r : r[j] = gateways[i]
    BY <1>5, <2>2
  <2> QED
    BY <2>1, <2>3 DEF OnGateway, r
<1>10. Ready(clients, gateways)'
  <2>1. gateways' = r /\ clients' = clients /\ hungUp' = hungUp /\ backlog' = backlog
        /\ room' = room /\ left' = left
    BY <1>2 DEF r
  <2>2. room \in [Conns -> 0 .. Room] /\ left \in [Conns -> Int]
    BY <1>1 DEF Ready
  <2>3. /\ \A i \in DOMAIN backlog : backlog[i] \in hungUp \/ left[backlog[i]] = 0
        /\ \A i \in DOMAIN clients : clients[i] \in hungUp \/ left[clients[i]] = 0
    BY <1>1 DEF Ready, Paid
  <2> QED
    BY <1>4, <1>5, <1>7, <1>8, <2>1, <2>2, <2>3, NextReady
<1>11. /\ bitmap' \in [Contents -> SUBSET Int]
       /\ \A c \in Contents : bitmap'[c] = Absent \/ bitmap'[c] \subseteq Blocks(c)
       /\ failures' \in [Contents -> 0 .. MaxFailures] /\ public' \subseteq Contents
  <2>1. Absent \subseteq Int
    BY DEF Absent
  <2>2. /\ public' = public \cup moved
        /\ bitmap' = [c \in Contents |-> IF c \in moved \cup dropped THEN Absent
                                         ELSE IF c \in again THEN {} ELSE bitmap[c]]
        /\ failures' = [c \in Contents |-> IF c \in moved \cup dropped THEN 0
                                           ELSE IF c \in again THEN failures[c] + 1
                                           ELSE failures[c]]
        /\ \A c \in again : failures[c] < MaxFailures
    BY <1>3 DEF Finished
  <2>3. /\ bitmap \in [Contents -> SUBSET Int] /\ public \subseteq Contents
        /\ \A c \in Contents : bitmap[c] = Absent \/ bitmap[c] \subseteq Blocks(c)
        /\ failures \in [Contents -> 0 .. MaxFailures]
    BY <1>1 DEF Rest
  <2>4. bitmap' \in [Contents -> SUBSET Int]
    BY <2>1, <2>2, <2>3
  <2>5. \A c \in Contents : bitmap'[c] = Absent \/ bitmap'[c] \subseteq Blocks(c)
    BY <2>2, <2>3
  <2>6. failures' \in [Contents -> 0 .. MaxFailures]
    <3>1. \A c \in again : failures[c] + 1 \in 0 .. MaxFailures
      BY <2>2, <2>3 DEF MaxFailures
    <3>2. 0 \in 0 .. MaxFailures
      BY DEF MaxFailures
    <3> QED
      BY <2>2, <2>3, <3>1, <3>2
  <2> QED
    BY <2>2, <2>3, <2>4, <2>5, <2>6
<1>12. Rest'
  <2>1. request' = request /\ hungUp' = hungUp /\ budget' = budget /\ backlog' = backlog
    BY <1>2
  <2> QED
    BY <1>1, <1>11, <2>1 DEF Rest
<1> QED
  BY <1>9, <1>10, <1>12 DEF Inv, Ready, Rest, TypeOK

\* A browser that connects is in no list, and its socket is a new one.
LEMMA ConnectStep == ASSUME NEW c \in Conns, Inv, Connect(c) PROVE Inv' /\ WholeOrRefused
<1>1. Ready(clients, gateways) /\ Rest
  BY InvParts
<1>2. /\ c \notin Known /\ backlog' = Append(backlog, c)
      /\ hungUp' = hungUp \ {c} /\ request' = [request EXCEPT ![c] = NoRequest]
      /\ room' = [room EXCEPT ![c] = Room] /\ left' = [left EXCEPT ![c] = 0]
      /\ UNCHANGED <<clients, gateways, budget, public, bitmap, failures>>
  BY DEF Connect, downloads
<1>3. /\ \A j \in DOMAIN backlog : backlog[j] # c
      /\ \A j \in DOMAIN clients : clients[j] # c
      /\ \A j \in DOMAIN gateways : gateways[j].conn # c
  BY <1>2 DEF Known, OnGateway, ToSet
<1>4. backlog \in Seq(Conns) /\ clients \in Seq(Conns) /\ gateways \in Seq(Gateways)
  BY <1>1 DEF Ready, Rest
<1> DEFINE bl == Append(backlog, c)
<1>5. /\ bl \in Seq(Conns)
      /\ \A j \in DOMAIN bl : \/ j \in DOMAIN backlog /\ bl[j] = backlog[j]
                              \/ j = Len(backlog) + 1 /\ bl[j] = c
  BY <1>4, AppendedPlaces
<1> HIDE DEF bl
<1>6. Placed(bl, clients, gateways)
  <2>1. Placed(backlog, clients, gateways)
    BY <1>1 DEF Ready
  <2>2. \A i, j \in DOMAIN bl : bl[i] = bl[j] => i = j
    BY <1>3, <1>5, <2>1 DEF Placed
  <2>3. \A i \in DOMAIN bl, j \in DOMAIN clients : bl[i] # clients[j]
    BY <1>3, <1>5, <2>1 DEF Placed
  <2>4. \A i \in DOMAIN bl, j \in DOMAIN gateways : bl[i] # gateways[j].conn
    BY <1>3, <1>5, <2>1 DEF Placed
  <2> QED
    BY <2>1, <2>2, <2>3, <2>4 DEF Placed
<1>7. /\ room' \in [Conns -> 0 .. Room] /\ left' \in [Conns -> Int]
      /\ left'[c] = 0 /\ \A x \in Conns \ {c} : left'[x] = left[x]
  <2>1. room \in [Conns -> 0 .. Room] /\ left \in [Conns -> Int]
    BY <1>1 DEF Ready
  <2>2. Room \in 0 .. Room
    BY GatewayAssumption
  <2> QED
    BY <1>2, <2>1, <2>2
<1>8. \A j \in DOMAIN gateways :
        /\ Shaped(gateways[j])
        /\ gateways[j].header => left'[gateways[j].conn] = gateways[j].end - gateways[j].start
  <2> SUFFICES ASSUME NEW j \in DOMAIN gateways
               PROVE  /\ Shaped(gateways[j])
                      /\ gateways[j].header =>
                           left'[gateways[j].conn] = gateways[j].end - gateways[j].start
    OBVIOUS
  <2>1. gateways[j] \in Gateways
    BY <1>4, LenProperties, ElementOfSeq
  <2>2. gateways[j].conn \in Conns \ {c}
    BY <1>3, <2>1 DEF Gateways
  <2>3. Shaped(gateways[j]) /\ Owed(gateways[j])
    BY <1>1 DEF Ready
  <2> QED
    BY <1>7, <2>2, <2>3 DEF Owed
<1>9. /\ \A j \in DOMAIN bl : bl[j] \in hungUp \ {c} \/ left'[bl[j]] = 0
      /\ \A j \in DOMAIN clients : clients[j] \in hungUp \ {c} \/ left'[clients[j]] = 0
  <2>1. Paid(backlog) /\ Paid(clients)
    BY <1>1 DEF Ready
  <2>2. /\ \A j \in DOMAIN backlog : backlog[j] \in Conns \ {c}
        /\ \A j \in DOMAIN clients : clients[j] \in Conns \ {c}
    BY <1>3, <1>4, LenProperties, ElementOfSeq
  <2>3. \A j \in DOMAIN backlog : backlog[j] \in hungUp \ {c} \/ left'[backlog[j]] = 0
    BY <1>7, <2>1, <2>2 DEF Paid
  <2>4. \A j \in DOMAIN clients : clients[j] \in hungUp \ {c} \/ left'[clients[j]] = 0
    BY <1>7, <2>1, <2>2 DEF Paid
  <2> QED
    BY <1>5, <1>7, <2>3, <2>4
<1>10. Ready(clients, gateways)'
  <2>1. clients' = clients /\ gateways' = gateways /\ backlog' = bl /\ hungUp' = hungUp \ {c}
    BY <1>2 DEF bl
  <2> QED
    BY <1>4, <1>6, <1>7, <1>8, <1>9, <2>1, NextReady, ZenonT(40)
<1>11. Rest'
  <2>1. request' \in [Conns -> Get \cup {NoRequest, Page}]
    BY <1>1, <1>2 DEF Rest
  <2>2. hungUp' \subseteq Conns /\ backlog' \in Seq(Conns)
    BY <1>1, <1>2, <1>5 DEF Rest, bl
  <2>3. failures' = failures /\ budget' = budget /\ public' = public /\ bitmap' = bitmap
    BY <1>2
  <2> QED
    BY <1>1, <2>1, <2>2, <2>3 DEF Rest
<1>12. WholeOrRefused
  BY <1>2, SameIsWhole
<1> QED
  BY <1>10, <1>11, <1>12 DEF Inv, Ready, Rest, TypeOK

\* What a browser does with its own socket touches no list.
LEMMA SameLists ==
  ASSUME Inv, UNCHANGED <<backlog, clients, gateways, left, public, bitmap, failures>>,
         hungUp' \subseteq Conns, hungUp \subseteq hungUp', room' \in [Conns -> 0 .. Room],
         request' \in [Conns -> Get \cup {NoRequest, Page}], budget' \in 0 .. MaxRequests
  PROVE  Inv' /\ WholeOrRefused
<1>1. Ready(clients, gateways) /\ Rest
  BY InvParts
<1>2. Ready(clients, gateways)'
  <2>1. Paid(backlog)' /\ Paid(clients)'
    <3>1. Paid(backlog) /\ Paid(clients)
      BY <1>1 DEF Ready
    <3> QED
      BY <3>1 DEF Paid
  <2> QED
    BY <1>1, <2>1 DEF Ready, Placed, Shaped, Owed
<1>3. Rest'
  BY <1>1 DEF Rest
<1>4. WholeOrRefused
  BY SameIsWhole
<1> QED
  BY <1>2, <1>3, <1>4 DEF Inv, Ready, Rest, TypeOK

\* A browser asks, reads, or hangs up.
LEMMA BrowserStep ==
  ASSUME NEW c \in Conns, Inv,
         (\E r \in Get \cup {Page} : Ask(c, r)) \/ BrowserReads(c) \/ HangUp(c)
  PROVE  Inv' /\ WholeOrRefused
<1>1. /\ request \in [Conns -> Get \cup {NoRequest, Page}] /\ budget \in 0 .. MaxRequests
      /\ hungUp \subseteq Conns /\ room \in [Conns -> 0 .. Room]
  BY DEF Inv, TypeOK
<1>2. ASSUME NEW r \in Get \cup {Page}, Ask(c, r) PROVE Inv' /\ WholeOrRefused
  <2>1. /\ request' = [request EXCEPT ![c] = r] /\ budget > 0 /\ budget' = budget - 1
        /\ UNCHANGED <<backlog, clients, gateways, hungUp, room, left, public, bitmap, failures>>
    BY <1>2 DEF Ask, downloads
  <2>2. budget' \in 0 .. MaxRequests
    BY <1>1, <2>1, GatewayAssumption
  <2>3. request' \in [Conns -> Get \cup {NoRequest, Page}]
    BY <1>1, <2>1
  <2> QED
    BY <1>1, <2>1, <2>2, <2>3, SameLists
<1>3. CASE BrowserReads(c)
  <2>1. /\ room' = [room EXCEPT ![c] = Room]
        /\ UNCHANGED <<backlog, clients, gateways, request, hungUp, left, budget, public, bitmap, failures>>
    BY <1>3 DEF BrowserReads, downloads
  <2>2. Room \in 0 .. Room
    BY GatewayAssumption
  <2>3. room' \in [Conns -> 0 .. Room]
    BY <1>1, <2>1, <2>2
  <2> QED
    BY <1>1, <2>1, <2>3, SameLists
<1>4. CASE HangUp(c)
  <2>1. /\ hungUp' = hungUp \cup {c}
        /\ UNCHANGED <<backlog, clients, gateways, request, room, left, budget, public, bitmap, failures>>
    BY <1>4 DEF HangUp, downloads
  <2> QED
    BY <1>1, <2>1, SameLists
<1> QED
  BY <1>2, <1>3, <1>4

\* The invariant holds at first: all lists are empty.
LEMMA InitInv == Init => Inv
<1> SUFFICES ASSUME Init PROVE Inv
  OBVIOUS
<1>1. /\ backlog = <<>> /\ clients = <<>> /\ gateways = <<>>
      /\ request = [c \in Conns |-> NoRequest] /\ hungUp = {}
      /\ room = [c \in Conns |-> Room] /\ left = [c \in Conns |-> 0]
      /\ budget = MaxRequests /\ public \in SUBSET Contents
      /\ bitmap = [c \in Contents |-> Absent] /\ failures = [c \in Contents |-> 0]
  BY DEF Init
<1>2. MaxRequests \in 0 .. MaxRequests /\ Room \in 0 .. Room /\ Absent \subseteq Int
      /\ 0 \in 0 .. MaxFailures
  BY GatewayAssumption DEF Absent, MaxFailures
<1>3. /\ backlog \in Seq(Conns) /\ clients \in Seq(Conns) /\ gateways \in Seq(Gateways)
      /\ DOMAIN backlog = {} /\ DOMAIN clients = {} /\ DOMAIN gateways = {}
  BY <1>1, EmptySeq, LenProperties
<1>4. room \in [Conns -> 0 .. Room] /\ left \in [Conns -> Int]
      /\ request \in [Conns -> Get \cup {NoRequest, Page}]
  BY <1>1, <1>2
<1>5. Paid(backlog) /\ Paid(clients)
  BY <1>3 DEF Paid
<1>6. Ready(clients, gateways)
  BY <1>3, <1>4, <1>5 DEF Ready, Placed
<1>7. Rest
  BY <1>1, <1>2, <1>3, <1>4 DEF Rest
<1> QED
  BY <1>6, <1>7, InvParts

\* Every step keeps it.
LEMMA NextInv == Inv /\ [Next]_vars => Inv' /\ WholeOrRefused
<1> SUFFICES ASSUME Inv, [Next]_vars PROVE Inv' /\ WholeOrRefused
  OBVIOUS
<1>1. CASE LocalTurn
  BY <1>1, ServeGatewayStep, AcceptStep, HandleWebRequestStep DEF LocalTurn
<1>2. ASSUME NEW c \in Contents, NetworkTurn(c) PROVE Inv' /\ WholeOrRefused
  BY <1>2, HandleNetworkStep DEF NetworkTurn
<1>3. CASE Maintain
  BY <1>3, MaintainStep
<1>4. ASSUME NEW c \in Conns, Connect(c) PROVE Inv' /\ WholeOrRefused
  BY <1>4, ConnectStep
<1>5. ASSUME NEW c \in Conns,
             (\E r \in Get \cup {Page} : Ask(c, r)) \/ BrowserReads(c) \/ HangUp(c)
      PROVE  Inv' /\ WholeOrRefused
  BY <1>5, BrowserStep
<1>6. CASE UNCHANGED vars
  <2>1. /\ UNCHANGED <<backlog, clients, gateways, left, public, bitmap, failures>>
        /\ hungUp' = hungUp /\ room' = room /\ request' = request /\ budget' = budget
    BY <1>6 DEF vars
  <2>2. /\ hungUp \subseteq Conns /\ room \in [Conns -> 0 .. Room]
        /\ request \in [Conns -> Get \cup {NoRequest, Page}] /\ budget \in 0 .. MaxRequests
    BY DEF Inv, TypeOK
  <2> QED
    BY <2>1, <2>2, SameLists
<1> QED
  BY <1>1, <1>2, <1>3, <1>4, <1>5, <1>6 DEF Next

\* The inductive invariant holds throughout.
LEMMA Invariant == Spec => []Inv
BY InitInv, NextInv, PTL DEF Spec

-----------------------------------------------------------------------------
(* The properties.                                                         *)

\* The lists of connections and gateways, the sockets and the bitmaps have their types
\* (http_clients, content_gateways, inbound_states).
THEOREM TypeCorrect == Spec => []TypeOK
<1>1. Inv => TypeOK
  BY DEF Inv
<1> QED
  BY <1>1, Invariant, PTL

\* Every browser gets exactly the bytes its header announced (serve_mmap, line 4636),
\* for every mixture of disk, download and partial writes.
THEOREM AnnouncedIsSentCorrect == Spec => []AnnouncedIsSent
<1>1. Inv => AnnouncedIsSent
  <2> SUFFICES ASSUME Inv PROVE AnnouncedIsSent
    OBVIOUS
  <2>1. Ready(clients, gateways)
    BY InvParts
  <2>2. gateways \in Seq(Gateways) /\ clients \in Seq(Conns)
    BY <2>1 DEF Ready
  <2>3. ASSUME NEW i \in DOMAIN gateways, gateways[i].header
        PROVE  left[gateways[i].conn] = gateways[i].end - gateways[i].start
               /\ left[gateways[i].conn] > 0
    <3>1. gateways[i] \in Gateways
      BY <2>2, LenProperties, ElementOfSeq
    <3>2. Shaped(gateways[i]) /\ Owed(gateways[i])
      BY <2>1 DEF Ready
    <3>3. left[gateways[i].conn] = gateways[i].end - gateways[i].start
          /\ gateways[i].start < gateways[i].end
      BY <2>3, <3>2 DEF Shaped, Owed
    <3>4. gateways[i].start \in Nat /\ gateways[i].end \in Nat
      BY <3>1 DEF Gateways
    <3> QED
      BY <3>3, <3>4
  <2>4. ASSUME NEW c \in ToSet(clients) \ hungUp PROVE left[c] = 0
    <3>1. PICK k \in DOMAIN clients : clients[k] = c
      BY DEF ToSet
    <3> QED
      BY <2>1, <2>4, <3>1 DEF Ready, Paid
  <2> QED
    BY <2>3, <2>4 DEF AnnouncedIsSent
<1> QED
  BY <1>1, Invariant, PTL

\* A connection is never on two gateways or on a gateway and in http_clients, and no
\* gateway that is done stays; one that leaves the gateways has its whole answer, has hung
\* up, or is refused by serve_http_content after its download was given up (838-849).
THEOREM ConnectionsKeptCorrect == Spec => ConnectionsKept
<1>1. Inv => OnePlace
  <2> SUFFICES ASSUME Inv PROVE OnePlace
    OBVIOUS
  <2>1. Ready(clients, gateways)
    BY InvParts
  <2>2. Placed(backlog, clients, gateways)
    BY <2>1 DEF Ready
  <2>3. OnGateway \cap ToSet(clients) = {}
    BY <2>2 DEF Placed, OnGateway, ToSet
  <2>4. \A i \in DOMAIN gateways : ~gateways[i].done
    BY <2>1 DEF Ready, Shaped
  <2> QED
    BY <2>2, <2>3, <2>4 DEF OnePlace, Placed
<1>2. Inv /\ [Next]_vars => [WholeOrRefused]_vars
  BY NextInv
<1> QED
  BY <1>1, <1>2, InitInv, NextInv, PTL DEF Spec, ConnectionsKept

==============================================================================

---------------------------- MODULE LatestProofs ----------------------------
(***************************************************************************)
(* Proofs about Latest, for every set of nodes, any number of versions and *)
(* seconds and any choice of faults.  The argument: a message that the     *)
(* owner signed carries a second between the one in which its version was  *)
(* written and the one of the version before (Signed), so that of two      *)
(* messages the one with the higher sequence number never names an older   *)
(* version (SignedOrder), whatever order they arrive in.                   *)
(***************************************************************************)
EXTENDS Latest, TLAPS

-----------------------------------------------------------------------------
(* The inductive invariant.                                                 *)

\* Versions are written in the order of the clock.
FileOrdered ==
  /\ \A v \in 1 .. origin : mtime[v] \in 1 .. clock
  /\ \A v, w \in 1 .. origin : v <= w => mtime[v] <= mtime[w]

\* What the owner may have signed: its second is not after the one in which its
\* version was written, nor before that of the version before.
Signed(l) ==
  /\ l \in Latests
  /\ l.sha <= origin
  /\ l.seq <= mtime[l.sha]
  /\ l.sha > 1 => mtime[l.sha - 1] <= l.seq

CacheSigned == \A n \in Nodes : cache[n] \in {NoFile, Torn} \/ Signed(cache[n])

SentSigned == \A n \in Nodes : \A l \in sent[n] : Signed(l)

\* The message cached when a browser asked, if there was one, was signed, and what
\* the browser is going to be served is not older.
GatewaySigned(g) ==
  g.floor # 0 =>
    /\ Signed([seq |-> g.highest_version, sha |-> g.floor])
    /\ g.id = 0 \/ g.id >= g.floor

GatewaysSigned == \A n \in Nodes : GatewaySigned(gateway[n])

IndInv == TypeOK /\ FileOrdered /\ CacheSigned /\ SentSigned /\ GatewaysSigned

-----------------------------------------------------------------------------
(* Signed messages.                                                         *)

\* Of two signed messages the one with the higher sequence number names no older
\* version.
LEMMA SignedOrder ==
  ASSUME TypeOK, FileOrdered, NEW a, NEW b, Signed(a), Signed(b), a.seq < b.seq
  PROVE  a.sha <= b.sha
<1>1. a.sha \in 1 .. origin /\ b.sha \in 1 .. origin /\ a.seq \in Int /\ b.seq \in Int
  BY BoundsAssumption DEF Signed, Latests, Versions, TypeOK
<1>2. SUFFICES ASSUME a.sha > b.sha PROVE FALSE
  BY <1>1 DEF TypeOK
<1>3. a.sha - 1 \in 1 .. origin /\ b.sha <= a.sha - 1
  BY <1>1, <1>2 DEF TypeOK
<1>4. mtime[b.sha] <= mtime[a.sha - 1]
  BY <1>1, <1>3 DEF FileOrdered
<1>5. mtime[a.sha - 1] <= a.seq /\ b.seq <= mtime[b.sha]
  BY <1>1, <1>2 DEF Signed, TypeOK
<1>6. mtime[a.sha - 1] \in Int /\ mtime[b.sha] \in Int
  BY <1>1, <1>3 DEF FileOrdered, TypeOK
<1> QED BY <1>1, <1>4, <1>5, <1>6

\* Saving a version, or letting time pass, keeps the order of the file's versions
\* and what was signed.
FileStep == UNCHANGED file \/ Tick \/ (Save /\ UNCHANGED clock)

FileTypeOK ==
  /\ clock \in 1 .. MaxTime
  /\ origin \in 0 .. MaxVersion
  /\ mtime \in [Versions -> 0 .. MaxTime]

\* The file of the owner keeps its order, and what was signed stays well signed.
LEMMA FileKept ==
  ASSUME TypeOK, FileOrdered, FileStep
  PROVE  FileTypeOK' /\ FileOrdered' /\ \A l : Signed(l) => Signed(l)'
<1>1. CASE UNCHANGED file
  BY <1>1 DEF file, FileTypeOK, TypeOK, FileOrdered, Signed
<1>2. CASE Tick
  <2>1. FileTypeOK' BY <1>2, BoundsAssumption DEF Tick, FileTypeOK, TypeOK
  <2>2. FileOrdered' BY <1>2, BoundsAssumption DEF Tick, TypeOK, FileOrdered, Versions
  <2>3. \A l : Signed(l) => Signed(l)' BY <1>2 DEF Tick, Signed
  <2> QED BY <2>1, <2>2, <2>3
<1>3. CASE Save /\ UNCHANGED clock
  <2>1. origin' = origin + 1 /\ origin + 1 \in Versions /\ origin \in Nat /\ clock \in 1 .. MaxTime
    BY <1>3, BoundsAssumption DEF Save, TypeOK, Versions
  <2>2. FileTypeOK' BY <1>3, <2>1, BoundsAssumption DEF Save, FileTypeOK, TypeOK, Versions
  <2>3. /\ mtime'[origin + 1] = clock
        /\ \A v \in 1 .. origin : mtime'[v] = mtime[v]
    BY <1>3, <2>1, BoundsAssumption DEF Save, TypeOK, Versions
  <2>4. FileOrdered'
    <3>1. ASSUME NEW v \in 1 .. origin' PROVE mtime'[v] \in 1 .. clock'
      BY <1>3, <2>1, <2>3 DEF FileOrdered
    <3>2. ASSUME NEW v \in 1 .. origin', NEW w \in 1 .. origin', v <= w
          PROVE  mtime'[v] <= mtime'[w]
      <4>1. CASE w = origin + 1 BY <1>3, <2>1, <2>3, <3>1, <4>1
      <4>2. CASE w # origin + 1 BY <2>1, <2>3, <3>2, <4>2 DEF FileOrdered
      <4> QED BY <4>1, <4>2
    <3> QED BY <3>1, <3>2 DEF FileOrdered
  <2>5. ASSUME NEW l, Signed(l) PROVE Signed(l)'
    <3>1. l.sha \in 1 .. origin /\ l.seq \in Int
      BY <2>1, <2>5, BoundsAssumption DEF Signed, Latests, Versions
    <3>2. mtime'[l.sha] = mtime[l.sha] /\ (l.sha > 1 => mtime'[l.sha - 1] = mtime[l.sha - 1])
      BY <2>1, <2>3, <3>1
    <3> QED BY <2>1, <2>5, <3>1, <3>2 DEF Signed
  <2> QED BY <2>2, <2>4, <2>5
<1> QED BY <1>1, <1>2, <1>3 DEF FileStep

-----------------------------------------------------------------------------
(* Parts of a step.                                                         *)

\* What a step leaves alone stays well signed.
LEMMA PartsKept ==
  ASSUME IndInv, \A l : Signed(l) => Signed(l)'
  PROVE  /\ cache' = cache => CacheSigned'
         /\ sent' = sent => SentSigned'
         /\ \A g : GatewaySigned(g) => GatewaySigned(g)'
         /\ gateway' = gateway => GatewaysSigned'
<1>1. cache' = cache => CacheSigned'
  BY DEF IndInv, CacheSigned, NoFile, Torn
<1>2. sent' = sent => SentSigned'
  BY DEF IndInv, SentSigned
<1>3. \A g : GatewaySigned(g) => GatewaySigned(g)'
  BY DEF GatewaySigned
<1>4. gateway' = gateway => GatewaysSigned'
  BY <1>3 DEF IndInv, GatewaysSigned
<1> QED BY <1>1, <1>2, <1>3, <1>4

\* A message that the owner caches is signed, also if the file is saved meanwhile.
LEMMA PublishSigned ==
  ASSUME IndInv, NEW n, Outdated(n), NEW v, NEW l, l = [seq |-> mtime[origin], sha |-> v],
         \/ UNCHANGED file /\ v = origin
         \/ Save /\ UNCHANGED clock /\ v \in {origin, origin + 1}
  PROVE  Signed(l)' /\ v \in Versions
<1>1. origin \in Versions /\ origin \in 1 .. origin /\ clock \in 1 .. MaxTime
  BY BoundsAssumption DEF Outdated, IndInv, TypeOK, Versions
<1>2. mtime[origin] \in 1 .. clock /\ (origin > 1 => mtime[origin - 1] <= mtime[origin])
  <2>1. mtime[origin] \in 1 .. clock BY <1>1 DEF IndInv, FileOrdered
  <2>2. origin > 1 => origin - 1 \in 1 .. origin /\ origin - 1 <= origin BY <1>1
  <2> QED BY <1>1, <2>1, <2>2 DEF IndInv, FileOrdered
<1>3. CASE UNCHANGED file /\ v = origin
  <2>1. mtime[origin] \in 1 .. MaxTime BY <1>1, <1>2, BoundsAssumption
  <2> QED BY <1>1, <1>2, <1>3, <2>1 DEF file, Signed, Latests
<1>4. CASE Save /\ UNCHANGED clock /\ v \in {origin, origin + 1}
  <2>1. origin' = origin + 1 /\ origin + 1 \in Versions
    BY <1>1, <1>4, BoundsAssumption DEF Save, Versions
  <2>2. mtime'[origin + 1] = clock /\ \A w \in 1 .. origin : mtime'[w] = mtime[w]
    BY <1>1, <1>4, <2>1, BoundsAssumption DEF Save, IndInv, TypeOK, Versions
  <2>3. mtime[origin] \in 1 .. MaxTime /\ v \in Versions
    BY <1>1, <1>2, <1>4, <2>1, BoundsAssumption
  <2>4. l \in Latests /\ l.seq = mtime[origin] /\ l.sha = v
    BY <2>3, <1>1, <1>2, BoundsAssumption DEF Latests
  <2>5. CASE v = origin
    BY <1>1, <1>2, <2>1, <2>2, <2>3, <2>4, <2>5 DEF Signed, Latests
  <2>6. CASE v = origin + 1
    BY <1>1, <1>2, <1>4, <2>1, <2>2, <2>3, <2>4, <2>6 DEF Signed, Latests
  <2> QED BY <1>4, <2>3, <2>5, <2>6
<1> QED BY <1>3, <1>4

\* What GetLatest::receive does to the owner's file and cached message before it
\* answers.
LEMMA RefreshKept ==
  ASSUME IndInv, NEW n \in Nodes, Refresh(n), UNCHANGED clock
  PROVE  /\ FileStep
         /\ cache' \in [Nodes -> Latests \cup {NoFile, Torn}]
         /\ public' \in [Nodes -> SUBSET Versions]
         /\ CacheSigned'
<1>1. ASSUME UNCHANGED <<origin, mtime, cache>>, public' \in [Nodes -> SUBSET Versions]
      PROVE  /\ FileStep
             /\ cache' \in [Nodes -> Latests \cup {NoFile, Torn}]
             /\ public' \in [Nodes -> SUBSET Versions]
             /\ CacheSigned'
  <2>1. FileStep BY <1>1 DEF FileStep, file
  <2>2. \A l : Signed(l) => Signed(l)' BY <2>1, FileKept DEF IndInv
  <2>3. CacheSigned' BY <1>1, <2>2, PartsKept
  <2> QED BY <1>1, <2>1, <2>3 DEF IndInv, TypeOK
<1>2. ASSUME NEW v, Outdated(n), Publish(n, mtime[origin], v),
             \/ UNCHANGED file /\ v = origin
             \/ Save /\ UNCHANGED clock /\ v \in {origin, origin + 1}
      PROVE  /\ FileStep
             /\ cache' \in [Nodes -> Latests \cup {NoFile, Torn}]
             /\ public' \in [Nodes -> SUBSET Versions]
             /\ CacheSigned'
  <2>1. FileStep BY <1>2 DEF FileStep
  <2>2. \A l : Signed(l) => Signed(l)' BY <2>1, FileKept DEF IndInv
  <2>3. PICK new : new = [seq |-> mtime[origin], sha |-> v] OBVIOUS
  <2>4. Signed(new)' /\ v \in Versions /\ new \in Latests
    <3>1. Signed(new)' /\ v \in Versions BY <1>2, <2>3, PublishSigned
    <3> QED BY <3>1 DEF Signed, Latests
  <2>5. cache' = [cache EXCEPT ![n] = new] /\ public' = [public EXCEPT ![n] = @ \cup {v}]
    BY <1>2, <2>3 DEF Publish
  <2>6. cache' \in [Nodes -> Latests \cup {NoFile, Torn}] /\ public' \in [Nodes -> SUBSET Versions]
    BY <2>4, <2>5 DEF IndInv, TypeOK
  <2>7. ASSUME NEW m \in Nodes PROVE (cache[m] \in {NoFile, Torn} \/ Signed(cache[m]))'
    <3>1. CASE m = n
      <4>1. cache'[m] = new BY <2>5, <3>1 DEF IndInv, TypeOK
      <4> QED BY <2>4, <4>1 DEF Signed
    <3>2. CASE m # n
      <4>1. cache'[m] = cache[m] BY <2>5, <3>2 DEF IndInv, TypeOK
      <4>2. cache[m] \in {NoFile, Torn} \/ Signed(cache[m])
        BY DEF IndInv, CacheSigned
      <4>3. Signed(cache[m]) => (\E l : l = cache[m] /\ Signed(l)')
        BY <2>2
      <4> QED BY <4>1, <4>2, <4>3 DEF Signed, NoFile, Torn
    <3> QED BY <3>1, <3>2
  <2> QED BY <2>1, <2>6, <2>7 DEF CacheSigned
<1>3. CASE UNCHANGED <<origin, mtime, cache, public>>
  BY <1>1, <1>3 DEF IndInv, TypeOK
<1>4. CASE Outdated(n) /\ PublishFails(n)
  <2>1. origin \in Versions
    BY <1>4, BoundsAssumption DEF Outdated, IndInv, TypeOK, FileTypeOK, Versions
  <2>2. public' \in [Nodes -> SUBSET Versions]
    BY <1>4, <2>1 DEF PublishFails, IndInv, TypeOK
  <2> QED BY <1>1, <1>4, <2>2 DEF PublishFails
<1> QED BY <1>2, <1>3, <1>4 DEF Refresh, file

\* A step that replaces one gateway by one whose message was signed.
LEMMA GatewayReplaced ==
  ASSUME IndInv, \A l : Signed(l) => Signed(l)', NEW n \in Nodes,
         NEW g \in Gateways, GatewaySigned(g), gateway' = [gateway EXCEPT ![n] = g]
  PROVE  gateway' \in [Nodes -> Gateways] /\ GatewaysSigned'
<1>1. gateway' \in [Nodes -> Gateways] BY DEF IndInv, TypeOK
<1>2. ASSUME NEW m \in Nodes PROVE GatewaySigned(gateway[m])'
  <2>1. PICK h : h = gateway'[m] /\ GatewaySigned(h)
    BY DEF IndInv, TypeOK, GatewaysSigned
  <2>2. GatewaySigned(h)' BY <2>1 DEF GatewaySigned
  <2> QED BY <2>1, <2>2 DEF GatewaySigned
<1> QED BY <1>1, <1>2 DEF GatewaysSigned

\* No browser waits for nothing that was signed.
LEMMA NoGatewaySigned == NoGateway \in Gateways /\ GatewaySigned(NoGateway)
BY BoundsAssumption DEF NoGateway, Gateways, GatewaySigned

\* The parts of IndInv, put together.
LEMMA Parts ==
  ASSUME FileTypeOK', FileOrdered', CacheSigned', SentSigned', GatewaysSigned',
         cache' \in [Nodes -> Latests \cup {NoFile, Torn}],
         public' \in [Nodes -> SUBSET Versions],
         inbound' \in [Nodes -> SUBSET Versions],
         gateway' \in [Nodes -> Gateways],
         asked' \subseteq Nodes \X Nodes,
         sent' \in [Nodes -> SUBSET Latests]
  PROVE  IndInv'
BY DEF IndInv, TypeOK, FileTypeOK

-----------------------------------------------------------------------------
(* One lemma per action.                                                    *)

\* Tick, Edit and LoseGetLatest: the clock, the file and what is asked.
LEMMA FileActions ==
  ASSUME IndInv, Tick \/ Edit \/ LoseGetLatest
  PROVE  IndInv'
<1>1. FileStep BY DEF FileStep, Edit, LoseGetLatest, file
<1>2. FileTypeOK' /\ FileOrdered' /\ \A l : Signed(l) => Signed(l)'
  BY <1>1, FileKept DEF IndInv
<1>3. UNCHANGED <<cache, public, inbound, gateway, sent>> /\ asked' \subseteq asked
  BY DEF Tick, Edit, LoseGetLatest
<1>4. CacheSigned' /\ SentSigned' /\ GatewaysSigned' BY <1>2, <1>3, PartsKept
<1> QED BY <1>2, <1>3, <1>4, Parts DEF IndInv, TypeOK

\* A request for the latest version keeps the invariant.
LEMMA ReceiveGetLatestKeeps ==
  ASSUME IndInv, NEW n \in Nodes, NEW m \in Nodes, ReceiveGetLatest(n, m)
  PROVE  IndInv'
<1>1. /\ FileStep
      /\ cache' \in [Nodes -> Latests \cup {NoFile, Torn}]
      /\ public' \in [Nodes -> SUBSET Versions]
      /\ CacheSigned'
  BY RefreshKept DEF ReceiveGetLatest
<1>2. FileTypeOK' /\ FileOrdered' /\ \A l : Signed(l) => Signed(l)'
  BY <1>1, FileKept DEF IndInv
<1>3. UNCHANGED <<inbound, gateway>> /\ asked' \subseteq asked
  BY DEF ReceiveGetLatest
<1>4. GatewaysSigned' BY <1>2, <1>3, PartsKept
<1>5. sent' \in [Nodes -> SUBSET Latests] /\ SentSigned'
  <2>1. CASE sent' = sent BY <1>2, <2>1, PartsKept DEF IndInv, TypeOK
  <2>2. CASE Readable(cache'[n]) /\ sent' = [sent EXCEPT ![m] = @ \cup {cache'[n]}]
    <3>1. cache'[n] \in {NoFile, Torn} \/ Signed(cache[n])'
      BY <1>1 DEF CacheSigned, NoFile, Torn
    <3>2. Signed(cache[n])' /\ cache'[n] \in Latests
      BY <2>2, <3>1 DEF Readable, NoFile, Torn, Signed, Latests, Versions
    <3>3. sent' \in [Nodes -> SUBSET Latests] BY <2>2, <3>2 DEF IndInv, TypeOK
    <3>4. ASSUME NEW k \in Nodes, NEW l \in sent'[k] PROVE Signed(l)'
      <4>1. CASE l \in sent[k] BY <1>2, <4>1 DEF IndInv, SentSigned
      <4>2. CASE l = cache'[n] BY <3>2, <4>2 DEF Signed
      <4> QED BY <2>2, <3>4, <4>1, <4>2 DEF IndInv, TypeOK
    <3> QED BY <3>3, <3>4 DEF SentSigned
  <2> QED BY <2>1, <2>2 DEF ReceiveGetLatest
<1> QED BY <1>1, <1>2, <1>3, <1>4, <1>5, Parts DEF IndInv, TypeOK

\* Latest::receive gives a browser nothing older than what was cached when it asked:
\* the message has a higher number than the one that was cached.
LEMMA RedirectedSigned ==
  ASSUME IndInv, NEW g \in Gateways, GatewaySigned(g), NEW l, Signed(l)
  PROVE  Redirected(g, l) \in Gateways /\ GatewaySigned(Redirected(g, l))
<1>1. l.sha \in Versions /\ l.seq \in 1 .. MaxTime BY DEF Signed, Latests
<1>2. Redirected(g, l) \in Gateways BY <1>1 DEF Redirected, Gateways
<1>3. CASE g.floor # 0 /\ g.highest_version < l.seq
  <2>1. PICK f : f = [seq |-> g.highest_version, sha |-> g.floor] OBVIOUS
  <2>2. Signed(f) /\ f.seq < l.seq /\ f.sha = g.floor
    BY <1>3, <2>1 DEF GatewaySigned
  <2>3. g.floor <= l.sha BY <2>2, SignedOrder DEF IndInv
  <2>4. /\ Redirected(g, l).floor = g.floor
        /\ Redirected(g, l).highest_version = g.highest_version
        /\ Redirected(g, l).id \in {g.id, l.sha}
    BY DEF Redirected, Gateways
  <2> QED BY <1>1, <1>2, <1>3, <2>3, <2>4, BoundsAssumption
          DEF GatewaySigned, Versions, Gateways
<1>4. CASE ~(g.floor # 0 /\ g.highest_version < l.seq)
  BY <1>2, <1>4 DEF GatewaySigned, Redirected, Gateways
<1> QED BY <1>3, <1>4

\* A Latest message keeps the invariant, however old.
LEMMA ReceiveLatestKeeps ==
  ASSUME IndInv, NEW n \in Nodes, NEW l \in Latests, ReceiveLatest(n, l)
  PROVE  IndInv'
<1>1. FileStep BY DEF FileStep, ReceiveLatest
<1>2. FileTypeOK' /\ FileOrdered' /\ \A k : Signed(k) => Signed(k)'
  BY <1>1, FileKept DEF IndInv
<1>3. Signed(l) BY DEF IndInv, SentSigned, ReceiveLatest
<1>4. cache' \in [Nodes -> Latests \cup {NoFile, Torn}] /\ CacheSigned'
  <2>1. cache' \in [Nodes -> Latests \cup {NoFile, Torn}]
    BY DEF ReceiveLatest, IndInv, TypeOK
  <2>2. ASSUME NEW m \in Nodes PROVE (cache[m] \in {NoFile, Torn} \/ Signed(cache[m]))'
    <3>1. PICK c : c = cache'[m] OBVIOUS
    <3>2. c \in {NoFile, Torn} \/ Signed(c)
      BY <1>3, <3>1 DEF ReceiveLatest, IndInv, TypeOK, CacheSigned
    <3>3. c \in {NoFile, Torn} \/ Signed(c)' BY <1>2, <3>2
    <3> QED BY <3>1, <3>3 DEF Signed, NoFile, Torn
  <2> QED BY <2>1, <2>2 DEF CacheSigned
<1>5. gateway' \in [Nodes -> Gateways] /\ GatewaysSigned'
  <2>1. gateway[n] \in Gateways /\ GatewaySigned(gateway[n])
    BY DEF IndInv, TypeOK, GatewaysSigned
  <2>2. PICK g : g = Redirected(gateway[n], l) OBVIOUS
  <2>3. g \in Gateways /\ GatewaySigned(g) BY <1>3, <2>1, <2>2, RedirectedSigned
  <2>4. gateway' = [gateway EXCEPT ![n] = g] BY <2>2 DEF ReceiveLatest
  <2> QED BY <1>2, <2>3, <2>4, GatewayReplaced
<1>6. inbound' \in [Nodes -> SUBSET Versions]
  BY DEF ReceiveLatest, IndInv, TypeOK, Latests
<1>7. UNCHANGED <<public, asked, sent>> BY DEF ReceiveLatest
<1>8. SentSigned' BY <1>2, <1>7, PartsKept
<1> QED BY <1>2, <1>4, <1>5, <1>6, <1>7, <1>8, Parts DEF IndInv, TypeOK

\* A browser that asks waits for the cached message, if there is one.
LEMMA OpenedAt ==
  ASSUME NEW c \in Latests \cup {NoFile, Torn}
  PROVE  /\ Opened(c) \in Gateways
         /\ Opened(c).floor # 0 =>
              /\ Readable(c)
              /\ c = [seq |-> Opened(c).highest_version, sha |-> Opened(c).floor]
              /\ Opened(c).id = Opened(c).floor
<1>1. CASE Readable(c)
  <2>1. c \in Latests BY <1>1 DEF Readable, NoFile, Torn
  <2>2. c.sha \in Versions /\ c.seq \in 1 .. MaxTime /\ c = [seq |-> c.seq, sha |-> c.sha]
    BY <2>1 DEF Latests
  <2> QED BY <1>1, <2>2, BoundsAssumption DEF Opened, Gateways
<1>2. CASE ~Readable(c)
  BY <1>2, BoundsAssumption DEF Opened, Gateways
<1> QED BY <1>1, <1>2

\* A browser that asks keeps the invariant.
LEMMA BrowseKeeps ==
  ASSUME IndInv, NEW n \in Nodes, NEW peers \in SUBSET (Nodes \ {n}), Browse(n, peers)
  PROVE  IndInv'
<1>1. /\ FileStep
      /\ cache' \in [Nodes -> Latests \cup {NoFile, Torn}]
      /\ public' \in [Nodes -> SUBSET Versions]
      /\ CacheSigned'
  BY RefreshKept DEF Browse
<1>2. FileTypeOK' /\ FileOrdered' /\ \A l : Signed(l) => Signed(l)'
  BY <1>1, FileKept DEF IndInv
<1>3. UNCHANGED <<inbound, sent>> /\ asked' \subseteq Nodes \X Nodes
  BY DEF Browse, IndInv, TypeOK
<1>4. SentSigned' BY <1>2, <1>3, PartsKept
<1>5. CASE gateway' = [gateway EXCEPT ![n] = Opened(cache'[n])]
  <2>1. PICK c, g : c = cache'[n] /\ g = Opened(c) OBVIOUS
  <2>2. c \in Latests \cup {NoFile, Torn} BY <1>1, <2>1
  <2>3. Readable(c) => Signed(c)'
    <3>1. (cache[n] \in {NoFile, Torn} \/ Signed(cache[n]))' BY <1>1 DEF CacheSigned
    <3>2. c \in {NoFile, Torn} \/ Signed(c)' BY <2>1, <3>1 DEF Signed, NoFile, Torn
    <3> QED BY <3>2 DEF Readable, NoFile, Torn
  <2>4. g \in Gateways /\ GatewaySigned(g)'
    <3>1. g \in Gateways BY <2>1, <2>2, OpenedAt
    <3>2. g.floor # 0 => Readable(c) /\ c = [seq |-> g.highest_version, sha |-> g.floor]
                         /\ g.id = g.floor
      BY <2>1, <2>2, OpenedAt
    <3>3. g.id = g.floor => g.id = 0 \/ g.id >= g.floor
      BY <3>1, BoundsAssumption DEF Gateways, Versions
    <3> QED BY <2>3, <3>1, <3>2, <3>3 DEF GatewaySigned
  <2>5. gateway' = [gateway EXCEPT ![n] = g] BY <1>5, <2>1
  <2>6. ASSUME NEW m \in Nodes PROVE GatewaySigned(gateway[m])'
    <3>1. PICK h : h = gateway'[m] OBVIOUS
    <3>2. GatewaySigned(h)'
      BY <1>2, <2>4, <2>5, <3>1 DEF IndInv, TypeOK, GatewaysSigned, GatewaySigned
    <3> QED BY <3>1, <3>2 DEF GatewaySigned
  <2>7. gateway' \in [Nodes -> Gateways] /\ GatewaysSigned'
    BY <2>4, <2>5, <2>6 DEF GatewaysSigned, IndInv, TypeOK
  <2> QED BY <1>1, <1>2, <1>3, <1>4, <2>7, Parts DEF IndInv, TypeOK
<1>6. CASE UNCHANGED gateway
  <2>1. ASSUME NEW m \in Nodes PROVE GatewaySigned(gateway[m])'
    <3>1. PICK h : h = gateway[m] /\ h = gateway'[m] BY <1>6
    <3>2. GatewaySigned(h)'
      BY <1>2, <3>1 DEF IndInv, GatewaysSigned, GatewaySigned
    <3> QED BY <3>1, <3>2 DEF GatewaySigned
  <2>2. gateway' \in [Nodes -> Gateways] /\ GatewaysSigned'
    BY <1>6, <2>1 DEF GatewaysSigned, IndInv, TypeOK
  <2> QED BY <1>1, <1>2, <1>3, <1>4, <2>2, Parts DEF IndInv, TypeOK
<1> QED BY <1>5, <1>6 DEF Browse

\* The actions that touch browsers and downloads only.
LEMMA GatewayActions ==
  ASSUME IndInv, NEW n \in Nodes,
         \/ \E peers \in SUBSET (Nodes \ {n}) : unstall_getlatests(n, peers)
         \/ GraceEnds(n) \/ Serve(n) \/ HangUp(n) \/ Crash(n)
         \/ \E v \in Versions : Downloaded(n, v)
  PROVE  IndInv'
<1>1. UNCHANGED <<file, cache, sent>> /\ FileStep
  BY DEF FileStep, unstall_getlatests, GraceEnds, Serve, HangUp, Crash, Downloaded
<1>2. FileTypeOK' /\ FileOrdered' /\ \A l : Signed(l) => Signed(l)'
  BY <1>1, FileKept DEF IndInv
<1>3. CacheSigned' /\ SentSigned' BY <1>1, <1>2, PartsKept
<1>4. gateway[n] \in Gateways /\ GatewaySigned(gateway[n])
  BY DEF IndInv, TypeOK, GatewaysSigned
<1>5. \/ gateway' = gateway
      \/ \E g \in Gateways : GatewaySigned(g) /\ gateway' = [gateway EXCEPT ![n] = g]
  <2>1. ASSUME NEW b \in BOOLEAN
        PROVE  /\ [gateway[n] EXCEPT !.grace = b] \in Gateways
               /\ GatewaySigned([gateway[n] EXCEPT !.grace = b])
               /\ [gateway[n] EXCEPT !.pending = b] \in Gateways
               /\ GatewaySigned([gateway[n] EXCEPT !.pending = b])
    BY <1>4 DEF Gateways, GatewaySigned
  <2>2. CASE GraceEnds(n)
    <3>1. gateway' = [gateway EXCEPT ![n] = [gateway[n] EXCEPT !.grace = FALSE]]
      BY <2>2 DEF GraceEnds
    <3> QED BY <2>1, <3>1
  <2>3. CASE Serve(n)
    <3>1. \/ gateway' = [gateway EXCEPT ![n] = NoGateway]
          \/ gateway' = [gateway EXCEPT ![n] = [gateway[n] EXCEPT !.pending = FALSE]]
      BY <2>3 DEF Serve
    <3> QED BY <2>1, <3>1, NoGatewaySigned
  <2>4. CASE HangUp(n) \/ Crash(n) \/ \E v \in Versions : Downloaded(n, v)
    BY <2>4, NoGatewaySigned DEF HangUp, Crash, Restarted, Downloaded
  <2>5. CASE \E peers \in SUBSET (Nodes \ {n}) : unstall_getlatests(n, peers)
    BY <2>5 DEF unstall_getlatests
  <2> QED BY <2>2, <2>3, <2>4, <2>5
<1>6. gateway' \in [Nodes -> Gateways] /\ GatewaysSigned'
  BY <1>2, <1>5, GatewayReplaced, PartsKept DEF IndInv, TypeOK
<1>7. /\ public' \in [Nodes -> SUBSET Versions]
      /\ inbound' \in [Nodes -> SUBSET Versions]
      /\ asked' \subseteq Nodes \X Nodes
  <2>1. CASE \E peers \in SUBSET (Nodes \ {n}) : unstall_getlatests(n, peers)
    BY <2>1 DEF unstall_getlatests, IndInv, TypeOK
  <2>2. CASE GraceEnds(n) \/ HangUp(n) \/ Crash(n)
    BY <2>2 DEF GraceEnds, HangUp, Crash, Restarted, IndInv, TypeOK
  <2>3. CASE Serve(n)
    <3>1. gateway[n].id \in Versions BY <1>4, <2>3 DEF Serve, Gateways
    <3> QED BY <2>3, <3>1 DEF Serve, IndInv, TypeOK
  <2>4. CASE \E v \in Versions : Downloaded(n, v)
    BY <2>4 DEF Downloaded, IndInv, TypeOK
  <2> QED BY <2>1, <2>2, <2>3, <2>4
<1> QED BY <1>1, <1>2, <1>3, <1>6, <1>7, Parts DEF IndInv, TypeOK

\* A crash in the write of the cache keeps the invariant.
LEMMA TearCacheKeeps ==
  ASSUME IndInv, NEW n \in Nodes, TearCache(n)
  PROVE  IndInv'
<1>1. UNCHANGED <<file, asked, sent>> /\ FileStep BY DEF FileStep, TearCache
<1>2. FileTypeOK' /\ FileOrdered' /\ \A l : Signed(l) => Signed(l)'
  BY <1>1, FileKept DEF IndInv
<1>3. SentSigned' BY <1>1, <1>2, PartsKept
<1>4. gateway' \in [Nodes -> Gateways] /\ GatewaysSigned'
  BY <1>2, NoGatewaySigned, GatewayReplaced DEF TearCache, Restarted
<1>5. cache' \in [Nodes -> Latests \cup {NoFile, Torn}] /\ CacheSigned'
  <2>1. cache' = [cache EXCEPT ![n] = Torn] BY DEF TearCache
  <2>2. cache' \in [Nodes -> Latests \cup {NoFile, Torn}] BY <2>1 DEF IndInv, TypeOK
  <2>3. ASSUME NEW m \in Nodes PROVE (cache[m] \in {NoFile, Torn} \/ Signed(cache[m]))'
    <3>1. PICK c : c = cache'[m] /\ (c \in {NoFile, Torn} \/ Signed(c))
      BY <2>1 DEF IndInv, TypeOK, CacheSigned
    <3>2. c \in {NoFile, Torn} \/ Signed(c)' BY <1>2, <3>1
    <3> QED BY <3>1, <3>2 DEF Signed, NoFile, Torn
  <2> QED BY <2>2, <2>3 DEF CacheSigned
<1>6. public' \in [Nodes -> SUBSET Versions] /\ inbound' \in [Nodes -> SUBSET Versions]
  <2>1. Outdated(n) => origin \in Versions
    BY BoundsAssumption DEF Outdated, IndInv, TypeOK, Versions
  <2> QED BY <2>1 DEF TearCache, Restarted, IndInv, TypeOK
<1> QED BY <1>1, <1>2, <1>3, <1>4, <1>5, <1>6, Parts DEF IndInv, TypeOK

-----------------------------------------------------------------------------
(* The theorems.                                                            *)

\* The invariant holds at first.
LEMMA IndInvInit == Init => IndInv
<1> SUFFICES ASSUME Init PROVE IndInv
  OBVIOUS
<1>1. TypeOK
  BY NoGatewaySigned, BoundsAssumption DEF Init, TypeOK
<1>2. FileOrdered BY DEF Init, FileOrdered
<1>3. CacheSigned /\ SentSigned BY DEF Init, CacheSigned, SentSigned
<1>4. GatewaysSigned BY NoGatewaySigned DEF Init, GatewaysSigned
<1> QED BY <1>1, <1>2, <1>3, <1>4 DEF IndInv

\* The invariant is inductive.
LEMMA IndInvStep == IndInv /\ [Next]_vars => IndInv'
<1> SUFFICES ASSUME IndInv, [Next]_vars PROVE IndInv'
  OBVIOUS
<1>1. CASE Tick \/ Edit \/ LoseGetLatest BY <1>1, FileActions
<1>2. CASE \E n, m \in Nodes : ReceiveGetLatest(n, m) BY <1>2, ReceiveGetLatestKeeps
<1>3. CASE \E n \in Nodes, l \in Latests : ReceiveLatest(n, l)
  BY <1>3, ReceiveLatestKeeps
<1>4. CASE \E n \in Nodes : \E peers \in SUBSET (Nodes \ {n}) :
             Browse(n, peers) \/ unstall_getlatests(n, peers)
  BY <1>4, BrowseKeeps, GatewayActions
<1>5. CASE \E n \in Nodes : GraceEnds(n) \/ Serve(n) \/ HangUp(n) \/ Crash(n) \/ TearCache(n)
  BY <1>5, GatewayActions, TearCacheKeeps
<1>6. CASE \E n \in Nodes, v \in Versions : Downloaded(n, v)
  BY <1>6, GatewayActions
<1>7. CASE UNCHANGED vars
  <2>1. FileStep BY <1>7 DEF vars, file, FileStep
  <2>2. FileTypeOK' /\ FileOrdered' /\ \A l : Signed(l) => Signed(l)'
    BY <2>1, FileKept DEF IndInv
  <2>3. UNCHANGED <<cache, public, inbound, gateway, asked, sent>> BY <1>7 DEF vars
  <2>4. CacheSigned' /\ SentSigned' /\ GatewaysSigned' BY <2>2, <2>3, PartsKept
  <2> QED BY <2>2, <2>3, <2>4, Parts DEF IndInv, TypeOK
<1> QED BY <1>1, <1>2, <1>3, <1>4, <1>5, <1>6, <1>7 DEF Next

\* The invariant holds throughout.
LEMMA Inductive == Spec => []IndInv
BY IndInvInit, IndInvStep, PTL DEF Spec

\* The variables of Latest keep their types, for any nodes and bounds.
THEOREM TypeCorrect == Spec => []TypeOK
<1>1. IndInv => TypeOK BY DEF IndInv
<1> QED BY <1>1, Inductive, PTL

\* However late messages arrive, and in which order, no browser that waits is sent
\* to a version older than the one its node had cached when it asked.
THEOREM NotBeforeCachedCorrect == Spec => []NotBeforeCached
<1>1. IndInv => NotBeforeCached
  <2> SUFFICES ASSUME IndInv, NEW n \in Nodes
               PROVE  gateway[n].id = 0 \/ gateway[n].id >= gateway[n].floor
    BY DEF NotBeforeCached
  <2>1. GatewaySigned(gateway[n]) /\ gateway[n].id \in {0} \cup Versions
    BY DEF IndInv, TypeOK, GatewaysSigned, Gateways
  <2> QED BY <2>1, BoundsAssumption DEF GatewaySigned, Versions
<1> QED BY <1>1, Inductive, PTL

\* When the owner's cached message no longer looks outdated, no version saved since
\* has been missed, also not one saved while the file was copied.
THEOREM NoEditMissedCorrect == Spec => []NoEditMissed
<1>1. IndInv => NoEditMissed
  <2> SUFFICES ASSUME IndInv, Readable(cache[Owner]), origin # 0, ~Outdated(Owner)
               PROVE  mtime[cache[Owner].sha] >= mtime[origin]
    BY DEF NoEditMissed
  <2>1. Signed(cache[Owner])
    BY NodesAssumption DEF IndInv, CacheSigned, Readable, NoFile, Torn
  <2>2. cache[Owner].seq >= mtime[origin]
    <3>1. ~(cache[Owner].seq < mtime[origin]) BY DEF Outdated
    <3>2. origin \in Versions BY BoundsAssumption DEF IndInv, TypeOK, Versions
    <3>3. cache[Owner].seq \in Int /\ mtime[origin] \in Int
      BY <2>1, <3>2 DEF Signed, Latests, IndInv, TypeOK
    <3> QED BY <3>1, <3>3
  <2>3. cache[Owner].seq <= mtime[cache[Owner].sha] BY <2>1 DEF Signed
  <2>4. /\ cache[Owner].seq \in Int /\ mtime[cache[Owner].sha] \in Int
        /\ mtime[origin] \in Int
    BY <2>1, BoundsAssumption DEF Signed, Latests, IndInv, TypeOK, Versions
  <2> QED BY <2>2, <2>3, <2>4
<1> QED BY <1>1, Inductive, PTL
=============================================================================

---------------------------- MODULE PeersProofs ----------------------------
(***************************************************************************)
(* Proofs about Peers, for any nodes, addresses, messages under way and    *)
(* faults.  Tables are filled from datagrams, and datagrams from tables,   *)
(* so what is true of the tables has to be said of every message under way *)
(* and of both ends of the turn that is being handled, too.  It stays true *)
(* because addresses a node has had (`been') are never taken back.         *)
(***************************************************************************)
EXTENDS Peers, SequenceTheorems, TLAPS

-----------------------------------------------------------------------------
(* The inductive invariant.                                                 *)

\* What a table with its keys may say, the one in memory or the one in the file.
TableFits(n, pm, bp) ==
  /\ \A k \in Node : bp[k] # None => pm[bp[k]] # None /\ bp[k] \in been[k]
  /\ \A a \in Addr : pm[a] # None =>
       /\ pm[a].key # None => a \in been[pm[a].key]
       /\ pm[a].cookie # None => a \in been[pm[a].cookie[1]] /\ pm[a].cookie[2] \in been[n]

NodeFits(n) ==
  /\ at[n] \in been[n]
  /\ TableFits(n, peer_map[n], by_pub[n])
  /\ TableFits(n, saved[n].peer_map, saved[n].by_pub)

\* What a message from address f to address t may say.
Fits(m, f, t) ==
  /\ m.type = "PleaseAlwaysReturn" => f \in been[m.cookie[1]] /\ m.cookie[2] = t
  /\ m.type = "MyPublicKey" => f \in been[m.key]
  /\ m.type = "Forwarded" => m.src \in been[m.key]
  /\ m.type = "Encrypted" => f \in been[m.by]

Fitting(f, t) == {m \in Messages : Fits(m, f, t)}

NetFits == \A d \in net : d.msgs \in Seq(Fitting(d.from, d.to))

TurnFits ==
  turn # None => /\ turn.rest \in Seq(Fitting(turn.src, at[turn.node]))
                 /\ turn.out \in Seq(Fitting(at[turn.node], turn.src))

IInv ==
  TypeOK /\ SignedIsVerified /\ NetFits /\ TurnFits /\ \A n \in Node : NodeFits(n)
-----------------------------------------------------------------------------
(* Messages.                                                                *)

\* A message of each kind has the fields of its kind.
LEMMA MessageTypes ==
  ASSUME NEW m \in Messages
  PROVE  /\ m.type = "PleaseAlwaysReturn" => m.cookie \in Cookie
         /\ m.type = "Peers" => m.peers \subseteq Addr
         /\ m.type = "MyPublicKey" => m.key \in Node
         /\ m.type = "Signed" => m.returned \in Cookie \cup {None}
         /\ m.type = "WhereAreThey" => m.key \in Node
         /\ m.type = "Forwarded" => m.src \in Addr /\ m.key \in Node
         /\ m.type = "Encrypted" => m.by \in Node
BY DEF Messages

\* A cookie names who made it and the address it is for.
LEMMA CookieType ==
  ASSUME NEW n \in Node, NEW a \in Addr
  PROVE  HashIp(n, a) \in Cookie /\ HashIp(n, a)[1] = n /\ HashIp(n, a)[2] = a
BY DEF HashIp, Cookie

\* What is returned to an address is a cookie or nothing.
LEMMA AlwaysReturnedType ==
  ASSUME TypeOK, NEW n \in Node, NEW a \in Addr
  PROVE  AlwaysReturned(n, a) \in Cookie \cup {None}
<1>1. peer_map[n][a] \in PeerInfo \cup {None} /\ last_cookie[n] \in Cookie \cup {None}
  BY DEF TypeOK, Table
<1> QED
  BY <1>1 DEF AlwaysReturned, PeerInfo

\* What a node says of itself fits wherever it is sent.
LEMMA OwnMessages ==
  ASSUME TypeOK, NEW n \in Node, at[n] \in been[n], NEW a \in Addr
  PROVE  /\ PleaseAlwaysReturn(n, a) \in Fitting(at[n], a)
         /\ Signed(n, a) \in Fitting(at[n], a)
         /\ MyPublicKey(n) \in Fitting(at[n], a)
         /\ PleaseSendPeers \in Fitting(at[n], a)
<1>1. PleaseAlwaysReturn(n, a) \in Fitting(at[n], a)
  BY CookieType DEF PleaseAlwaysReturn, Fitting, Fits, Messages
<1>2. Signed(n, a) \in Fitting(at[n], a)
  BY AlwaysReturnedType DEF Signed, Fitting, Fits, Messages
<1>3. MyPublicKey(n) \in Fitting(at[n], a)
  BY DEF MyPublicKey, Fitting, Fits, Messages
<1>4. PleaseSendPeers \in Fitting(at[n], a)
  BY DEF PleaseSendPeers, Fitting, Fits, Messages
<1> QED
  BY <1>1, <1>2, <1>3, <1>4

\* One message is a sequence.
LEMMA OneMessage ==
  ASSUME NEW S, NEW m \in S
  PROVE  <<m>> \in Seq(S)
OBVIOUS

\* What a node sends unasked names only itself and where it is.
LEMMA OwnGreeting ==
  ASSUME TypeOK, NEW n \in Node, at[n] \in been[n], NEW a \in Addr
  PROVE  Greeting(n, a) \in Seq(Fitting(at[n], a)) /\ Probe(n, a) \in Seq(Fitting(at[n], a))
<1>1. Greeting(n, a) \in Seq(Fitting(at[n], a))
  BY OwnMessages DEF Greeting
<1>2. Probe(n, a) \in Seq(Fitting(at[n], a))
  BY <1>1, OwnMessages, OneMessage, AppendProperties DEF Probe
<1> QED
  BY <1>1, <1>2

\* A sequence of fitting messages is one of messages.
LEMMA FittingType ==
  ASSUME NEW f, NEW t, NEW s \in Seq(Fitting(f, t))
  PROVE  s \in Seq(Messages)
BY SeqMonotonic DEF Fitting

\* A datagram of fitting messages is one.
LEMMA DatagramFits ==
  ASSUME TypeOK, NEW n \in Node, NEW a \in Addr, NEW s \in Seq(Fitting(at[n], a))
  PROVE  /\ DatagramTo(n, a, s) \in Datagram
         /\ DatagramTo(n, a, s).from = at[n] /\ DatagramTo(n, a, s).to = a
         /\ DatagramTo(n, a, s).msgs = s
<1>1. s \in Seq(Messages) /\ at[n] \in Addr
  BY FittingType DEF TypeOK
<1> QED
  BY <1>1, AlwaysReturnedType DEF DatagramTo, Datagram

-----------------------------------------------------------------------------
(* Tables.                                                                  *)

\* A new peer has neither key nor cookie.
LEMMA NewPeerType == NewPeer \in PeerInfo /\ NewPeer # None /\ NewPeer.key = None
                     /\ NewPeer.cookie = None
<1>1. NewPeer \in PeerInfo
  BY DEF NewPeer, PeerInfo
<1> QED
  BY <1>1, PeersAssumption DEF NewPeer, PeerInfo, Cookie

\* An entry for an address leaves all others as they are.
LEMMA WithPeerFits ==
  ASSUME NEW pm \in Table, NEW a \in Addr
  PROVE  /\ WithPeer(pm, a) \in Table /\ WithPeer(pm, a)[a] \in PeerInfo
         /\ \A b \in Addr : pm[b] # None => WithPeer(pm, a)[b] = pm[b]
         /\ \A b \in Addr : WithPeer(pm, a)[b] # None =>
              WithPeer(pm, a)[b] = pm[b] \/ WithPeer(pm, a)[b] = NewPeer
BY NewPeerType DEF WithPeer, Table

\* A new entry keeps a table right.
LEMMA AddPeerFits ==
  ASSUME NEW n \in Node, NEW pm \in Table, NEW bp \in ByPub, NEW a \in Addr, TableFits(n, pm, bp)
  PROVE  TableFits(n, WithPeer(pm, a), bp)
BY WithPeerFits, NewPeerType, SMTT(30) DEF TableFits, ByPub

\* A key bound where its holder has been keeps a table right.
LEMMA BoundFits ==
  ASSUME NEW n \in Node, NEW pm \in Table, NEW bp \in ByPub, NEW a \in Addr, NEW k \in Node,
         TableFits(n, pm, bp), a \in been[k]
  PROVE  /\ [WithPeer(pm, a) EXCEPT ![a].key = k] \in Table
         /\ TableFits(n, [WithPeer(pm, a) EXCEPT ![a].key = k], [bp EXCEPT ![k] = a])
<1> DEFINE q == WithPeer(pm, a)
           e == [q[a] EXCEPT !.key = k]
           r == [q EXCEPT ![a] = e]
<1>1. q \in Table /\ q[a] \in PeerInfo /\ TableFits(n, q, bp)
  BY WithPeerFits, AddPeerFits
<1>2. e \in PeerInfo /\ e.key = k /\ e.cookie = q[a].cookie
  BY <1>1 DEF PeerInfo
<1>3. e # None
  BY <1>2, PeersAssumption DEF PeerInfo, Cookie
<1>4. q[a] # None
  BY <1>1, PeersAssumption DEF PeerInfo, Cookie
<1>5. r \in Table /\ r[a] = e /\ \A b \in Addr \ {a} : r[b] = q[b]
  BY <1>1, <1>2 DEF Table
<1>6. TableFits(n, r, [bp EXCEPT ![k] = a])
  <2> HIDE DEF q, e, r
  <2>1. ASSUME NEW j \in Node, [bp EXCEPT ![k] = a][j] # None
        PROVE  /\ r[[bp EXCEPT ![k] = a][j]] # None /\ [bp EXCEPT ![k] = a][j] \in been[j]
    <3>1. CASE j = k
      BY <3>1, <1>3, <1>5 DEF ByPub
    <3>2. CASE j # k
      <4>1. [bp EXCEPT ![k] = a][j] = bp[j] /\ bp[j] \in Addr
        BY <2>1, <3>2 DEF ByPub
      <4> QED
        BY <4>1, <2>1, <1>1, <1>3, <1>5 DEF TableFits
    <3> QED
      BY <3>1, <3>2
  <2>2. ASSUME NEW b \in Addr, r[b] # None
        PROVE  /\ r[b].key # None => b \in been[r[b].key]
               /\ r[b].cookie # None => b \in been[r[b].cookie[1]] /\ r[b].cookie[2] \in been[n]
    BY <2>2, <1>1, <1>2, <1>4, <1>5 DEF TableFits
  <2> QED
    BY <2>1, <2>2 DEF TableFits
<1>7. [WithPeer(pm, a) EXCEPT ![a].key = k] = r
  OBVIOUS
<1> QED
  BY <1>5, <1>6, <1>7

\* A cookie of the one who has had the address keeps a table right.
LEMMA KeptFits ==
  ASSUME NEW n \in Node, NEW pm \in Table, NEW bp \in ByPub, NEW a \in Addr, NEW c \in Cookie,
         TableFits(n, pm, bp), a \in been[c[1]], c[2] \in been[n]
  PROVE  /\ [WithPeer(pm, a) EXCEPT ![a].cookie = c] \in Table
         /\ TableFits(n, [WithPeer(pm, a) EXCEPT ![a].cookie = c], bp)
<1> DEFINE q == WithPeer(pm, a)
           e == [q[a] EXCEPT !.cookie = c]
           r == [q EXCEPT ![a] = e]
<1>1. q \in Table /\ q[a] \in PeerInfo /\ TableFits(n, q, bp)
  BY WithPeerFits, AddPeerFits
<1>2. e \in PeerInfo /\ e.cookie = c /\ e.key = q[a].key
  BY <1>1 DEF PeerInfo
<1>3. e # None /\ q[a] # None
  BY <1>1, <1>2, PeersAssumption DEF PeerInfo, Cookie
<1>5. r \in Table /\ r[a] = e /\ \A b \in Addr \ {a} : r[b] = q[b]
  BY <1>1, <1>2 DEF Table
<1>6. TableFits(n, r, bp)
  <2> HIDE DEF q, e, r
  <2>1. \A b \in Addr : q[b] # None => r[b] # None
    BY <1>3, <1>5
  <2>2. ASSUME NEW b \in Addr, r[b] # None
        PROVE  /\ r[b].key # None => b \in been[r[b].key]
               /\ r[b].cookie # None => b \in been[r[b].cookie[1]] /\ r[b].cookie[2] \in been[n]
    BY <2>2, <1>1, <1>2, <1>3, <1>5 DEF TableFits
  <2> QED
    BY <2>1, <2>2, <1>1 DEF TableFits, ByPub
<1>7. [WithPeer(pm, a) EXCEPT ![a].cookie = c] = r
  OBVIOUS
<1> QED
  BY <1>5, <1>6, <1>7
-----------------------------------------------------------------------------
(* Steps, by what they change.                                              *)

\* While nobody moves the same messages fit.
LEMMA SameFitting ==
  ASSUME UNCHANGED been, NEW f, NEW t
  PROVE  Fitting(f, t)' = Fitting(f, t)
BY DEF Fitting, Fits

\* Tables that nobody touches stay right.
LEMMA NodesStay ==
  ASSUME IInv, UNCHANGED <<at, been, peer_map, by_pub, saved>>
  PROVE  \A n \in Node : NodeFits(n)'
BY DEF IInv, NodeFits, TableFits

\* A node that gets a right table leaves all of them right.
LEMMA NodeChanges ==
  ASSUME IInv, NEW n \in Node, NEW pm \in Table, NEW bp \in ByPub, TableFits(n, pm, bp),
         peer_map' = [peer_map EXCEPT ![n] = pm], by_pub' = [by_pub EXCEPT ![n] = bp],
         UNCHANGED <<at, been, saved>>
  PROVE  /\ peer_map' \in [Node -> Table] /\ by_pub' \in [Node -> ByPub]
         /\ \A q \in Node : NodeFits(q)'
<1>1. peer_map' \in [Node -> Table] /\ by_pub' \in [Node -> ByPub]
  BY DEF IInv, TypeOK
<1>2. peer_map'[n] = pm /\ by_pub'[n] = bp
      /\ \A q \in Node \ {n} : peer_map'[q] = peer_map[q] /\ by_pub'[q] = by_pub[q]
  BY DEF IInv, TypeOK
<1>3. NodeFits(n)'
  BY <1>2 DEF IInv, NodeFits, TableFits
<1>4. ASSUME NEW q \in Node \ {n} PROVE NodeFits(q)'
  BY <1>2 DEF IInv, NodeFits, TableFits
<1> QED
  BY <1>1, <1>3, <1>4

\* The same for a change of the entries alone.
LEMMA PeersChange ==
  ASSUME IInv, NEW n \in Node, NEW pm \in Table, TableFits(n, pm, by_pub[n]),
         peer_map' = [peer_map EXCEPT ![n] = pm], UNCHANGED <<at, been, by_pub, saved>>
  PROVE  /\ peer_map' \in [Node -> Table] /\ by_pub' \in [Node -> ByPub]
         /\ \A q \in Node : NodeFits(q)'
<1>1. by_pub[n] \in ByPub /\ by_pub' = [by_pub EXCEPT ![n] = by_pub[n]]
  BY DEF IInv, TypeOK
<1> QED
  BY <1>1, NodeChanges

\* Binding a key where its holder has been keeps all tables right.
LEMMA BindFits ==
  ASSUME IInv, NEW n \in Node, NEW k \in Node, NEW a \in Addr, a \in been[k], Bind(n, k, a),
         UNCHANGED <<at, been, saved>>
  PROVE  /\ peer_map' \in [Node -> Table] /\ by_pub' \in [Node -> ByPub]
         /\ \A q \in Node : NodeFits(q)'
<1> DEFINE pm == [WithPeer(peer_map[n], a) EXCEPT ![a].key = k]
           bp == [by_pub[n] EXCEPT ![k] = a]
<1>1. peer_map[n] \in Table /\ by_pub[n] \in ByPub /\ TableFits(n, peer_map[n], by_pub[n])
  BY DEF IInv, TypeOK, NodeFits
<1>2. pm \in Table /\ TableFits(n, pm, bp)
  BY <1>1, BoundFits
<1>3. bp \in ByPub
  BY <1>1 DEF ByPub
<1>4. peer_map' = [peer_map EXCEPT ![n] = pm] /\ by_pub' = [by_pub EXCEPT ![n] = bp]
  BY DEF Bind
<1> HIDE DEF pm, bp
<1> QED
  BY <1>2, <1>3, <1>4, NodeChanges

\* Fitting datagrams that are added keep the network right.
LEMMA NetChanges ==
  ASSUME IInv, UNCHANGED been, NEW D, net' \subseteq net \cup D,
         \A d \in D : d \in Datagram /\ d.msgs \in Seq(Fitting(d.from, d.to))
  PROVE  net' \subseteq Datagram /\ NetFits'
<1>1. \A d \in net' : d \in Datagram /\ d.msgs \in Seq(Fitting(d.from, d.to))
  BY DEF IInv, TypeOK, NetFits
<1>2. \A d \in net' : d.msgs \in Seq(Fitting(d.from, d.to)')
  BY <1>1, SameFitting
<1> QED
  BY <1>1, <1>2 DEF NetFits

\* Datagrams that are lost keep the network right.
LEMMA NetShrinks ==
  ASSUME IInv, UNCHANGED been, net' \subseteq net
  PROVE  net' \subseteq Datagram /\ NetFits'
<1>1. \A d \in net' : d \in Datagram /\ d.msgs \in Seq(Fitting(d.from, d.to))
  BY DEF IInv, TypeOK, NetFits
<1>2. \A d \in net' : d.msgs \in Seq(Fitting(d.from, d.to)')
  BY <1>1, SameFitting
<1> QED
  BY <1>1, <1>2 DEF NetFits

\* The parts of a turn are of their types.
LEMMA TurnParts ==
  ASSUME IInv, turn # None
  PROVE  /\ turn \in Turn /\ turn.node \in Node /\ turn.src \in Addr
         /\ turn.spoof \in BOOLEAN /\ turn.signed \in BOOLEAN
         /\ turn.returned \in Cookie \cup {None}
         /\ turn.rest \in Seq(Fitting(turn.src, at[turn.node]))
         /\ turn.out \in Seq(Fitting(at[turn.node], turn.src))
         /\ turn.rest # << >> =>
              /\ Head(turn.rest) \in Fitting(turn.src, at[turn.node])
              /\ Head(turn.rest) \in Messages
              /\ Tail(turn.rest) \in Seq(Fitting(turn.src, at[turn.node]))
              /\ Tail(turn.rest) \in Seq(Messages)
<1>1. turn \in Turn /\ turn.rest \in Seq(Fitting(turn.src, at[turn.node]))
      /\ turn.out \in Seq(Fitting(at[turn.node], turn.src))
  BY DEF IInv, TypeOK, TurnFits
<1>2. /\ turn.node \in Node /\ turn.src \in Addr
      /\ turn.spoof \in BOOLEAN /\ turn.signed \in BOOLEAN /\ turn.returned \in Cookie \cup {None}
  BY <1>1 DEF Turn
<1>3. ASSUME turn.rest # << >>
      PROVE  /\ Head(turn.rest) \in Fitting(turn.src, at[turn.node])
             /\ Tail(turn.rest) \in Seq(Fitting(turn.src, at[turn.node]))
  BY <1>1, <1>3, HeadTailProperties
<1>4. ASSUME turn.rest # << >>
      PROVE  Head(turn.rest) \in Messages /\ Tail(turn.rest) \in Seq(Messages)
  BY <1>3, <1>4, FittingType DEF Fitting
<1> QED
  BY <1>1, <1>2, <1>3, <1>4

\* A turn with fitting messages is right.
LEMMA TurnChanges ==
  ASSUME IInv, UNCHANGED <<at, been>>, NEW t \in Turn, turn' = t,
         t.rest \in Seq(Fitting(t.src, at[t.node])), t.out \in Seq(Fitting(at[t.node], t.src)),
         t.signed => ~t.spoof
  PROVE  turn' \in Turn /\ TurnFits' /\ SignedIsVerified'
<1>1. t.rest \in Seq(Fitting(t.src, at[t.node])') /\ t.out \in Seq(Fitting(at[t.node], t.src)')
  BY SameFitting
<1>2. TurnFits'
  BY <1>1 DEF TurnFits
<1>3. SignedIsVerified'
  BY DEF SignedIsVerified
<1> QED
  BY <1>2, <1>3

\* A message that is done leaves a right turn.
LEMMA DoneFits ==
  ASSUME IInv, UNCHANGED <<at, been>>, turn # None, turn.rest # << >>,
         NEW reply \in Seq(Fitting(at[turn.node], turn.src)), Done(reply)
  PROVE  turn' \in Turn /\ TurnFits' /\ SignedIsVerified'
<1> DEFINE t == [turn EXCEPT !.rest = Tail(turn.rest), !.out = turn.out \o reply]
<1>1. turn.out \o reply \in Seq(Fitting(at[turn.node], turn.src))
  BY TurnParts, ConcatProperties
<1>2. turn.out \o reply \in Seq(Messages)
  BY <1>1, FittingType
<1>3. /\ t \in Turn /\ t.rest = Tail(turn.rest) /\ t.out = turn.out \o reply
      /\ t.src = turn.src /\ t.node = turn.node /\ t.signed = turn.signed /\ t.spoof = turn.spoof
  BY <1>2, TurnParts DEF Turn
<1>4. turn' = t
  BY DEF Done
<1>5. t.signed => ~t.spoof
  BY <1>3 DEF IInv, SignedIsVerified
<1> HIDE DEF t
<1> QED
  BY <1>1, <1>3, <1>4, <1>5, TurnParts, TurnChanges
-----------------------------------------------------------------------------
(* The step.                                                                *)

\* The invariant holds at first.
LEMMA InitInv == Init => IInv
<1> SUFFICES ASSUME Init PROVE IInv
  OBVIOUS
<1>1. \A n \in Node : Configured(n) \in Table
  BY NewPeerType DEF Configured, Table
<1>2. NoPeers \in Table /\ [k \in Node |-> None] \in ByPub
  BY DEF NoPeers, Table, ByPub
<1>3. at \in [Node -> Addr] /\ been \in [Node -> SUBSET Addr]
  BY PeersAssumption DEF Init
<1>4. peer_map \in [Node -> Table] /\ by_pub \in [Node -> ByPub]
  BY <1>1, <1>2 DEF Init
<1>5. saved \in [Node -> [peer_map : Table, by_pub : ByPub]]
  BY <1>2 DEF Init
<1>6. faults \in 0 .. MaxFaults
  <2>1. MaxFaults \in Nat /\ faults = 0
    BY PeersAssumption DEF Init
  <2> QED
    BY <2>1
<1>7. TypeOK
  BY <1>3, <1>4, <1>5, <1>6 DEF Init, TypeOK
<1>8. ASSUME NEW n \in Node PROVE NodeFits(n)
  BY <1>3, NewPeerType DEF Init, NodeFits, TableFits, Configured, NoPeers
<1> QED
  BY <1>7, <1>8 DEF Init, IInv, SignedIsVerified, NetFits, TurnFits

\* A datagram that arrives keeps the invariant.
LEMMA ArriveInv ==
  ASSUME IInv, NEW n \in Node, NEW d \in net, HandleNetwork(n, d)
  PROVE  IInv'
<1> DEFINE ok == d.returned = HashIp(n, d.from)
           t == [node |-> n, src |-> d.from, spoof |-> ~ok,
                 fresh |-> ok /\ peer_map[n][d.from] = None,
                 signed |-> FALSE, returned |-> d.returned, rest |-> d.msgs, out |-> <<>>]
<1>1. /\ d.from \in Addr /\ d.returned \in Cookie \cup {None} /\ d.msgs \in Seq(Messages)
      /\ d.msgs \in Seq(Fitting(d.from, at[n])) /\ << >> \in Seq(Fitting(at[n], d.from))
  BY EmptySeq DEF HandleNetwork, IInv, TypeOK, NetFits, Datagram
<1>2. t \in Turn /\ t.node = n /\ t.src = d.from /\ t.signed = FALSE /\ t.rest = d.msgs
      /\ t.out = << >>
  BY <1>1, EmptySeq DEF Turn
<1>3. UNCHANGED <<at, been, by_pub, saved, suggested>>
  BY DEF HandleNetwork
<1>4. turn' \in Turn /\ TurnFits' /\ SignedIsVerified'
  <2>1. turn' = t
    BY DEF HandleNetwork
  <2> HIDE DEF t
  <2> QED
    BY <1>1, <1>2, <1>3, <2>1, TurnChanges
<1>5. peer_map' \in [Node -> Table] /\ by_pub' \in [Node -> ByPub] /\ \A q \in Node : NodeFits(q)'
  <2>1. CASE ok
    <3>1. peer_map[n] \in Table /\ by_pub[n] \in ByPub /\ TableFits(n, peer_map[n], by_pub[n])
      BY DEF IInv, TypeOK, NodeFits
    <3>2. WithPeer(peer_map[n], d.from) \in Table
          /\ TableFits(n, WithPeer(peer_map[n], d.from), by_pub[n])
      BY <1>1, <3>1, WithPeerFits, AddPeerFits
    <3>3. peer_map' = [peer_map EXCEPT ![n] = WithPeer(peer_map[n], d.from)]
      BY <2>1 DEF HandleNetwork
    <3> QED
      BY <1>3, <3>2, <3>3, PeersChange
  <2>2. CASE ~ok
    <3>1. peer_map' = peer_map
      BY <2>2 DEF HandleNetwork
    <3> QED
      BY <1>3, <3>1, NodesStay DEF IInv, TypeOK
  <2> QED
    BY <2>1, <2>2
<1>6. net' \subseteq Datagram /\ NetFits'
  <2>1. net' \subseteq net
    BY DEF HandleNetwork, Arrive, ArriveTwice
  <2> QED
    BY <1>3, <2>1, NetShrinks
<1>7. last_cookie' \in [Node -> Cookie \cup {None}] /\ faults' \in 0 .. MaxFaults
  BY PeersAssumption DEF HandleNetwork, Arrive, ArriveTwice, IInv, TypeOK
<1> QED
  BY <1>3, <1>4, <1>5, <1>6, <1>7 DEF IInv, TypeOK

\* A message is handled: what is left are the tables and the turn.
LEMMA MessageInv ==
  ASSUME IInv, UNCHANGED <<net, world>>,
         turn' \in Turn, TurnFits', SignedIsVerified',
         peer_map' \in [Node -> Table], by_pub' \in [Node -> ByPub], \A q \in Node : NodeFits(q)',
         suggested' \in [Node -> SUBSET Addr], last_cookie' \in [Node -> Cookie \cup {None}]
  PROVE  IInv'
<1>1. UNCHANGED <<at, been, saved, faults, net>>
  BY DEF world
<1>2. NetFits'
  BY <1>1, NetShrinks
<1> QED
  BY <1>1, <1>2 DEF IInv, TypeOK

\* What the messages find of the turn.
LEMMA TurnTables ==
  ASSUME IInv, turn # None
  PROVE  /\ peer_map[turn.node] \in Table /\ by_pub[turn.node] \in ByPub
         /\ TableFits(turn.node, peer_map[turn.node], by_pub[turn.node])
         /\ at[turn.node] \in been[turn.node]
         /\ peer_map \in [Node -> Table] /\ by_pub \in [Node -> ByPub]
         /\ suggested \in [Node -> SUBSET Addr] /\ last_cookie \in [Node -> Cookie \cup {None}]
BY TurnParts DEF IInv, TypeOK, NodeFits

\* PleaseAlwaysReturnThisMessage keeps the invariant.
LEMMA CookieInv ==
  ASSUME IInv, ReceivePleaseAlwaysReturn
  PROVE  IInv'
<1> DEFINE n == turn.node
           a == turn.src
           c == Head(turn.rest).cookie
<1>1. turn # None /\ turn.rest # << >> /\ Head(turn.rest).type = "PleaseAlwaysReturn"
      /\ Done(<<>>) /\ UNCHANGED <<at, been, by_pub, saved, suggested>> /\ UNCHANGED <<net, world>>
  BY DEF ReceivePleaseAlwaysReturn, Next1, world
<1>2. n \in Node /\ a \in Addr /\ c \in Cookie /\ a \in been[c[1]] /\ c[2] = at[n]
  BY <1>1, TurnParts, MessageTypes DEF Fitting, Fits
<1>3. turn' \in Turn /\ TurnFits' /\ SignedIsVerified'
  BY <1>1, EmptySeq, DoneFits
<1>4. /\ peer_map' \in [Node -> Table] /\ by_pub' \in [Node -> ByPub] /\ \A q \in Node : NodeFits(q)'
      /\ last_cookie' \in [Node -> Cookie \cup {None}]
  <2>1. CASE turn.spoof
    <3>1. UNCHANGED peer_map /\ last_cookie' \in [Node -> Cookie \cup {None}]
      BY <1>1, <1>2, <2>1, TurnTables DEF ReceivePleaseAlwaysReturn
    <3> QED
      BY <1>1, <3>1, NodesStay, TurnTables
  <2>2. CASE ~turn.spoof
    <3> DEFINE pm == [WithPeer(peer_map[n], a) EXCEPT ![a].cookie = c]
    <3>1. peer_map' = [peer_map EXCEPT ![n] = pm] /\ UNCHANGED last_cookie
      BY <2>2 DEF ReceivePleaseAlwaysReturn
    <3>2. pm \in Table /\ TableFits(n, pm, by_pub[n])
      BY <1>1, <1>2, TurnTables, KeptFits
    <3> HIDE DEF pm
    <3> QED
      BY <1>1, <1>2, <3>1, <3>2, PeersChange, TurnTables
  <2> QED
    BY <2>1, <2>2
<1>5. suggested' \in [Node -> SUBSET Addr]
  BY <1>1, TurnTables
<1> QED
  BY <1>1, <1>3, <1>4, <1>5, MessageInv

\* A message that is only answered.
LEMMA AnswerInv ==
  ASSUME IInv, turn # None, turn.rest # << >>, UNCHANGED <<tables, net, world>>,
         NEW reply \in Seq(Fitting(at[turn.node], turn.src)), Done(reply)
  PROVE  IInv'
<1>1. UNCHANGED <<at, been, peer_map, by_pub, saved, suggested, last_cookie>>
  BY DEF tables, world
<1>2. turn' \in Turn /\ TurnFits' /\ SignedIsVerified'
  BY <1>1, DoneFits
<1>3. \A q \in Node : NodeFits(q)'
  BY <1>1, NodesStay
<1> QED
  BY <1>1, <1>2, <1>3, MessageInv, TurnTables

\* PleaseSendPeers keeps the invariant.
LEMMA SendPeersInv ==
  ASSUME IInv, ReceivePleaseSendPeers
  PROVE  IInv'
<1> DEFINE n == turn.node
           who == IF turn.spoof THEN <<>> ELSE <<Signed(n, turn.src), MyPublicKey(n)>>
<1>1. turn # None /\ turn.rest # << >> /\ UNCHANGED <<tables, net, world>>
  BY DEF ReceivePleaseSendPeers, Next1
<1>2. PICK S \in SUBSET Known(n) : Done(<<[type |-> "Peers", peers |-> S]>> \o who)
  BY DEF ReceivePleaseSendPeers, BestPeers
<1>3. [type |-> "Peers", peers |-> S] \in Fitting(at[n], turn.src)
  BY DEF Fitting, Fits, Messages, Known
<1>4. who \in Seq(Fitting(at[n], turn.src))
  <2>1. Signed(n, turn.src) \in Fitting(at[n], turn.src) /\ MyPublicKey(n) \in Fitting(at[n], turn.src)
    BY <1>1, TurnParts, TurnTables, OwnMessages DEF IInv
  <2>2. <<Signed(n, turn.src), MyPublicKey(n)>> \in Seq(Fitting(at[n], turn.src))
    BY <2>1
  <2> QED
    BY <2>2, EmptySeq
<1>5. <<[type |-> "Peers", peers |-> S]>> \o who \in Seq(Fitting(at[n], turn.src))
  BY <1>3, <1>4, OneMessage, ConcatProperties
<1> QED
  BY <1>1, <1>2, <1>5, AnswerInv

\* Peers keeps the invariant.
LEMMA PeersInv ==
  ASSUME IInv, ReceivePeers
  PROVE  IInv'
<1> DEFINE n == turn.node
<1>1. turn # None /\ turn.rest # << >> /\ Head(turn.rest).type = "Peers" /\ Done(<<>>)
      /\ UNCHANGED <<peer_map, by_pub, last_cookie>> /\ UNCHANGED <<net, world>>
      /\ UNCHANGED <<at, been, saved>>
  BY DEF ReceivePeers, Next1, world
<1>2. PICK S \in SUBSET (Head(turn.rest).peers \ Known(n)) :
        suggested' = [suggested EXCEPT ![n] = suggested[n] \cup S]
  BY DEF ReceivePeers
<1>3. n \in Node /\ S \subseteq Addr
  BY <1>1, TurnParts, MessageTypes
<1>4. suggested' \in [Node -> SUBSET Addr]
  BY <1>1, <1>2, <1>3, TurnTables
<1>5. turn' \in Turn /\ TurnFits' /\ SignedIsVerified'
  BY <1>1, EmptySeq, DoneFits
<1>6. \A q \in Node : NodeFits(q)'
  BY <1>1, NodesStay
<1> QED
  BY <1>1, <1>4, <1>5, <1>6, MessageInv, TurnTables

\* MyPublicKey keeps the invariant.
LEMMA KeyInv ==
  ASSUME IInv, ReceiveMyPublicKey
  PROVE  IInv'
<1> DEFINE k == Head(turn.rest).key
<1>1. turn # None /\ turn.rest # << >> /\ Head(turn.rest).type = "MyPublicKey" /\ Done(<<>>)
      /\ UNCHANGED <<suggested, last_cookie>> /\ UNCHANGED <<net, world>>
      /\ UNCHANGED <<at, been, saved>>
  BY DEF ReceiveMyPublicKey, Next1, world
<1>2. turn.node \in Node /\ turn.src \in Addr /\ k \in Node /\ turn.src \in been[k]
  BY <1>1, TurnParts, MessageTypes DEF Fitting, Fits
<1>3. turn' \in Turn /\ TurnFits' /\ SignedIsVerified'
  BY <1>1, EmptySeq, DoneFits
<1>4. peer_map' \in [Node -> Table] /\ by_pub' \in [Node -> ByPub] /\ \A q \in Node : NodeFits(q)'
  <2>1. CASE Bind(turn.node, k, turn.src)
    BY <1>1, <1>2, <2>1, BindFits
  <2>2. CASE UNCHANGED <<peer_map, by_pub>>
    BY <1>1, <2>2, NodesStay, TurnTables
  <2> QED
    BY <2>1, <2>2 DEF ReceiveMyPublicKey
<1> QED
  BY <1>1, <1>3, <1>4, MessageInv, TurnTables

\* SignedMessage keeps the invariant.
LEMMA SignedInv ==
  ASSUME IInv, ReceiveSigned
  PROVE  IInv'
<1> DEFINE n == turn.node
           c == Head(turn.rest).returned
           ok == c = HashIp(n, turn.src)
           spoof == turn.spoof /\ ~ok
           back == IF c = None THEN turn.returned ELSE c
           t == [turn EXCEPT !.rest = Tail(turn.rest), !.spoof = spoof, !.signed = ~spoof,
                             !.returned = back]
<1>1. turn # None /\ turn.rest # << >> /\ Head(turn.rest).type = "Signed" /\ turn' = t
      /\ UNCHANGED <<by_pub, suggested, last_cookie>> /\ UNCHANGED <<net, world>>
      /\ UNCHANGED <<at, been, saved>>
  BY DEF ReceiveSigned, Next1, world
<1>2. back \in Cookie \cup {None}
  BY <1>1, TurnParts, MessageTypes
<1>3. /\ t \in Turn /\ t.rest = Tail(turn.rest) /\ t.out = turn.out /\ t.src = turn.src
      /\ t.node = turn.node /\ t.signed = ~spoof /\ t.spoof = spoof
  <2>1. spoof \in BOOLEAN
    OBVIOUS
  <2> HIDE DEF spoof, back
  <2> QED
    BY <1>1, <1>2, <2>1, TurnParts DEF Turn
<1>4. turn' \in Turn /\ TurnFits' /\ SignedIsVerified'
  <2> HIDE DEF t, spoof
  <2> QED
    BY <1>1, <1>3, TurnParts, TurnChanges
<1>5. peer_map' \in [Node -> Table] /\ by_pub' \in [Node -> ByPub] /\ \A q \in Node : NodeFits(q)'
  <2>1. CASE ok
    <3> DEFINE pm == WithPeer(peer_map[n], turn.src)
    <3>1. peer_map' = [peer_map EXCEPT ![n] = pm]
      BY <2>1 DEF ReceiveSigned
    <3>2. pm \in Table /\ TableFits(n, pm, by_pub[n])
      BY <1>1, TurnParts, TurnTables, WithPeerFits, AddPeerFits
    <3> HIDE DEF pm
    <3> QED
      BY <1>1, <3>1, <3>2, TurnParts, PeersChange
  <2>2. CASE ~ok
    <3>1. UNCHANGED peer_map
      BY <2>2 DEF ReceiveSigned
    <3> QED
      BY <1>1, <3>1, NodesStay, TurnTables
  <2> QED
    BY <2>1, <2>2
<1> HIDE DEF t
<1> QED
  BY <1>1, <1>4, <1>5, MessageInv, TurnTables

\* WhereAreThey keeps the invariant.
LEMMA WhereInv ==
  ASSUME IInv, ReceiveWhereAreThey
  PROVE  IInv'
<1> DEFINE k == Head(turn.rest).key
           sa == by_pub[turn.node][k]
           m == [type |-> "Forwarded", src |-> sa, key |-> k]
<1>1. turn # None /\ turn.rest # << >> /\ Head(turn.rest).type = "WhereAreThey"
      /\ UNCHANGED <<tables, net, world>>
      /\ Done(IF sa = None \/ sa \notin Known(turn.node) THEN <<>> ELSE <<m>>)
  BY DEF ReceiveWhereAreThey, Next1
<1>2. k \in Node /\ turn.node \in Node
  BY <1>1, TurnParts, MessageTypes
<1>3. CASE sa = None \/ sa \notin Known(turn.node)
  BY <1>1, <1>3, EmptySeq, AnswerInv
<1>4. CASE ~(sa = None \/ sa \notin Known(turn.node))
  <2>1. sa \in Addr /\ sa \in been[k]
    BY <1>1, <1>2, <1>4, TurnTables DEF TableFits, ByPub
  <2>2. m \in Fitting(at[turn.node], turn.src)
    BY <1>2, <2>1 DEF Fitting, Fits, Messages
  <2>3. <<m>> \in Seq(Fitting(at[turn.node], turn.src)) /\ Done(<<m>>)
    BY <1>1, <1>4, <2>2, OneMessage
  <2> HIDE DEF m
  <2> QED
    BY <1>1, <2>3, AnswerInv
<1> QED
  BY <1>3, <1>4

\* Forwarded and Encrypted drop or set `signed' beside what Done does.
LEMMA SignedTurn ==
  ASSUME IInv, UNCHANGED <<at, been>>, turn # None, turn.rest # << >>, NEW s \in BOOLEAN,
         s => ~turn.spoof, turn' = [turn EXCEPT !.rest = Tail(@), !.signed = s]
  PROVE  turn' \in Turn /\ TurnFits' /\ SignedIsVerified'
<1> DEFINE t == [turn EXCEPT !.rest = Tail(turn.rest), !.signed = s]
<1>1. /\ t \in Turn /\ t.rest = Tail(turn.rest) /\ t.out = turn.out /\ t.src = turn.src
      /\ t.node = turn.node /\ t.signed = s /\ t.spoof = turn.spoof
  BY TurnParts DEF Turn
<1>2. turn' = t
  OBVIOUS
<1> HIDE DEF t
<1> QED
  BY <1>1, <1>2, TurnParts, TurnChanges

\* A forwarded message keeps the invariant.
LEMMA ForwardedInv ==
  ASSUME IInv, ReceiveForwarded
  PROVE  IInv'
<1> DEFINE m == Head(turn.rest)
<1>1. turn # None /\ turn.rest # << >> /\ m.type = "Forwarded"
      /\ turn' = [turn EXCEPT !.rest = Tail(@), !.signed = FALSE]
      /\ UNCHANGED <<suggested, last_cookie>> /\ UNCHANGED <<net, world>>
      /\ UNCHANGED <<at, been, saved>>
  BY DEF ReceiveForwarded, Next1, world
<1>2. turn.node \in Node /\ m.src \in Addr /\ m.key \in Node /\ m.src \in been[m.key]
  BY <1>1, TurnParts, MessageTypes DEF Fitting, Fits
<1>3. turn' \in Turn /\ TurnFits' /\ SignedIsVerified'
  BY <1>1, SignedTurn
<1>4. peer_map' \in [Node -> Table] /\ by_pub' \in [Node -> ByPub] /\ \A q \in Node : NodeFits(q)'
  <2>1. CASE Bind(turn.node, m.key, m.src)
    BY <1>1, <1>2, <2>1, BindFits
  <2>2. CASE UNCHANGED <<peer_map, by_pub>>
    BY <1>1, <2>2, NodesStay, TurnTables
  <2> QED
    BY <2>1, <2>2 DEF ReceiveForwarded
<1> QED
  BY <1>1, <1>3, <1>4, MessageInv, TurnTables

\* An encrypted message keeps the invariant.
LEMMA EncryptedInv ==
  ASSUME IInv, ReceiveEncrypted
  PROVE  IInv'
<1> DEFINE m == Head(turn.rest)
           opens == m.to = turn.node /\ by_pub[turn.node][m.by] # None
           s == IF opens THEN ~turn.spoof ELSE turn.signed
<1>1. turn # None /\ turn.rest # << >> /\ m.type = "Encrypted"
      /\ turn' = [turn EXCEPT !.rest = Tail(@), !.signed = s]
      /\ UNCHANGED <<suggested, last_cookie>> /\ UNCHANGED <<net, world>>
      /\ UNCHANGED <<at, been, saved>>
  BY DEF ReceiveEncrypted, Next1, world
<1>2. turn.node \in Node /\ turn.src \in Addr /\ m.by \in Node /\ turn.src \in been[m.by]
  BY <1>1, TurnParts, MessageTypes DEF Fitting, Fits
<1>3. s \in BOOLEAN /\ (s => ~turn.spoof)
  BY <1>1, TurnParts DEF IInv, SignedIsVerified
<1>4. turn' \in Turn /\ TurnFits' /\ SignedIsVerified'
  <2> HIDE DEF s
  <2> QED
    BY <1>1, <1>3, SignedTurn
<1>5. peer_map' \in [Node -> Table] /\ by_pub' \in [Node -> ByPub] /\ \A q \in Node : NodeFits(q)'
  <2>1. CASE Bind(turn.node, m.by, turn.src)
    BY <1>1, <1>2, <2>1, BindFits
  <2>2. CASE UNCHANGED <<peer_map, by_pub>>
    BY <1>1, <2>2, NodesStay, TurnTables
  <2> QED
    BY <2>1, <2>2 DEF ReceiveEncrypted
<1> HIDE DEF s
<1> QED
  BY <1>1, <1>4, <1>5, MessageInv, TurnTables

\* Whatever an answer loses at its end, the rest fits.
LEMMA ReplyInv ==
  ASSUME IInv, Reply
  PROVE  IInv'
<1> DEFINE n == turn.node
           a == turn.src
           F == Fitting(at[n], a)
           all == turn.out \o (IF turn.fresh THEN Greeting(n, a) ELSE <<>>)
<1>1. turn # None /\ turn' = None /\ UNCHANGED <<tables, world>>
      /\ UNCHANGED <<at, been, saved, faults, peer_map, by_pub, suggested, last_cookie>>
  BY DEF Reply, world, tables
<1>2. n \in Node /\ a \in Addr /\ at[n] \in been[n]
  BY <1>1, TurnParts, TurnTables
<1>3. all \in Seq(F)
  <2>1. turn.out \in Seq(F) /\ Greeting(n, a) \in Seq(F) /\ << >> \in Seq(F)
    BY <1>1, <1>2, TurnParts, OwnGreeting, EmptySeq DEF IInv
  <2>2. (IF turn.fresh THEN Greeting(n, a) ELSE <<>>) \in Seq(F)
    BY <2>1
  <2> HIDE DEF F
  <2> QED
    BY <2>1, <2>2, ConcatProperties
<1>4. \A t \in Trimmed(all) : t \in Seq(F)
  <2> HIDE DEF all, F
  <2> SUFFICES ASSUME NEW i \in 0 .. Len(all) PROVE SubSeq(all, 1, i) \in Seq(F)
    BY DEF Trimmed
  <2>1. \A j \in 1 .. i : all[j] \in F
    BY <1>3, LenProperties, ElementOfSeq
  <2> QED
    BY <1>3, <2>1, LenProperties, SubSeqProperties
<1>5. \A t \in Trimmed(all) : Append(t, PleaseAlwaysReturn(n, a)) \in Seq(F)
  <2>1. PleaseAlwaysReturn(n, a) \in F
    BY <1>2, OwnMessages DEF IInv
  <2> HIDE DEF all, F
  <2> QED
    BY <1>4, <2>1, AppendProperties
<1>6. PICK out \in Seq(F) : net' = IF out = <<>> THEN net ELSE net \cup {DatagramTo(n, a, out)}
  <2> HIDE DEF F
  <2> QED
    BY <1>3, <1>5 DEF Reply
<1>7. net' \subseteq Datagram /\ NetFits'
  <2> DEFINE d == DatagramTo(n, a, out)
  <2>1. d \in Datagram /\ d.msgs \in Seq(Fitting(d.from, d.to))
    BY <1>2, <1>6, DatagramFits DEF IInv
  <2>2. net' \subseteq net \cup {d}
    BY <1>6
  <2> HIDE DEF d
  <2> QED
    BY <1>1, <2>1, <2>2, NetChanges, ZenonT(40)
<1>8. TurnFits' /\ SignedIsVerified'
  BY <1>1 DEF TurnFits, SignedIsVerified
<1>9. \A q \in Node : NodeFits(q)'
  BY <1>1, NodesStay
<1> QED
  BY <1>1, <1>7, <1>8, <1>9 DEF IInv, TypeOK
\* Datagrams go out, no message is being handled.
LEMMA SendInv ==
  ASSUME IInv, turn = None, UNCHANGED <<at, been, peer_map, by_pub, last_cookie, turn, faults>>,
         suggested' \in [Node -> SUBSET Addr], NEW D, net' = net \cup D,
         \A d \in D : d \in Datagram /\ d.msgs \in Seq(Fitting(d.from, d.to)),
         saved' \in [Node -> [peer_map : Table, by_pub : ByPub]],
         \A n \in Node : TableFits(n, saved'[n].peer_map, saved'[n].by_pub)
  PROVE  IInv'
<1>1. net' \subseteq Datagram /\ NetFits'
  BY NetChanges
<1>2. TurnFits' /\ SignedIsVerified'
  BY DEF TurnFits, SignedIsVerified
<1>3. \A n \in Node : NodeFits(n)'
  BY DEF IInv, NodeFits, TableFits
<1> QED
  BY <1>1, <1>2, <1>3 DEF IInv, TypeOK

\* What is saved of a right table is right.
LEMMA SavedFits ==
  ASSUME IInv, NEW n \in Node
  PROVE  /\ Saved(n) \in [peer_map : Table, by_pub : ByPub]
         /\ TableFits(n, Saved(n).peer_map, Saved(n).by_pub)
<1> DEFINE pm == [a \in Addr |-> IF a \in Bound(n) THEN peer_map[n][a] ELSE None]
           bp == [k \in Node |-> IF by_pub[n][k] \in Known(n) THEN by_pub[n][k] ELSE None]
<1>1. peer_map[n] \in Table /\ by_pub[n] \in ByPub /\ TableFits(n, peer_map[n], by_pub[n])
  BY DEF IInv, TypeOK, NodeFits
<1>2. pm \in Table /\ bp \in ByPub
  BY <1>1 DEF Table, ByPub
<1>3. ASSUME NEW k \in Node, bp[k] # None
      PROVE  pm[bp[k]] # None /\ bp[k] \in been[k]
  <2>1. bp[k] = by_pub[n][k] /\ by_pub[n][k] \in Known(n)
    BY <1>3
  <2>2. by_pub[n][k] \in Bound(n) /\ by_pub[n][k] \in Addr /\ peer_map[n][by_pub[n][k]] # None
    BY <2>1, PeersAssumption DEF Bound, Known
  <2>3. pm[bp[k]] = peer_map[n][by_pub[n][k]]
    BY <2>1, <2>2
  <2>4. by_pub[n][k] # None => by_pub[n][k] \in been[k]
    BY <1>1 DEF TableFits
  <2> HIDE DEF pm, bp
  <2> QED
    BY <1>3, <2>1, <2>2, <2>3, <2>4
<1>4. TableFits(n, pm, bp)
  <2>1. \A a \in Addr : pm[a] # None => pm[a] = peer_map[n][a] /\ peer_map[n][a] # None
    OBVIOUS
  <2> HIDE DEF pm, bp
  <2>2. ASSUME NEW a \in Addr, pm[a] # None
        PROVE  /\ pm[a].key # None => a \in been[pm[a].key]
               /\ pm[a].cookie # None => a \in been[pm[a].cookie[1]] /\ pm[a].cookie[2] \in been[n]
    BY <1>1, <2>1, <2>2 DEF TableFits
  <2> QED
    BY <1>3, <2>2 DEF TableFits
<1> QED
  BY <1>2, <1>4 DEF Saved

\* A datagram without its cookie is one.
LEMMA WithoutCookie ==
  ASSUME NEW d \in Datagram, NEW unknown \in BOOLEAN
  PROVE  LET e == [d EXCEPT !.returned = IF unknown THEN None ELSE d.returned]
         IN  e \in Datagram /\ e.from = d.from /\ e.to = d.to /\ e.msgs = d.msgs
BY DEF Datagram

\* maintenance() keeps the invariant.
LEMMA MaintenanceInv ==
  ASSUME IInv, NEW n \in Node, NEW sent \in SUBSET Addr, Maintenance(n, sent)
  PROVE  IInv'
<1> DEFINE D == {ProbeTo(n, a) : a \in sent}
<1>1. turn = None /\ UNCHANGED <<at, been, peer_map, by_pub, last_cookie, turn, faults>>
      /\ net' = net \cup D
  BY DEF Maintenance
<1>2. suggested' \in [Node -> SUBSET Addr]
  BY DEF Maintenance, IInv, TypeOK
<1>3. ASSUME NEW a \in sent
      PROVE  ProbeTo(n, a) \in Datagram
             /\ ProbeTo(n, a).msgs \in Seq(Fitting(ProbeTo(n, a).from, ProbeTo(n, a).to))
  <2>1. at[n] \in been[n] /\ a \in Addr
    BY DEF IInv, NodeFits
  <2>2. Probe(n, a) \in Seq(Fitting(at[n], a))
    BY <2>1, OwnGreeting DEF IInv
  <2> DEFINE d == DatagramTo(n, a, Probe(n, a))
  <2>3. d \in Datagram /\ d.from = at[n] /\ d.to = a /\ d.msgs = Probe(n, a)
    BY <2>1, <2>2, DatagramFits DEF IInv
  <2>4. ProbeTo(n, a) = [d EXCEPT !.returned = IF peer_map[n][a] = None THEN None ELSE d.returned]
    BY DEF ProbeTo
  <2> HIDE DEF d
  <2>5. /\ ProbeTo(n, a) \in Datagram
        /\ ProbeTo(n, a).from = d.from /\ ProbeTo(n, a).to = d.to /\ ProbeTo(n, a).msgs = d.msgs
    BY <2>3, <2>4, WithoutCookie
  <2> QED
    BY <2>2, <2>3, <2>5
<1>4. \A d \in D : d \in Datagram /\ d.msgs \in Seq(Fitting(d.from, d.to))
  BY <1>3
<1>5. /\ saved' \in [Node -> [peer_map : Table, by_pub : ByPub]]
      /\ \A q \in Node : TableFits(q, saved'[q].peer_map, saved'[q].by_pub)
  <2>1. /\ saved \in [Node -> [peer_map : Table, by_pub : ByPub]]
        /\ \A q \in Node : TableFits(q, saved[q].peer_map, saved[q].by_pub)
    BY DEF IInv, TypeOK, NodeFits
  <2>2. CASE saved' = [saved EXCEPT ![n] = Saved(n)]
    <3>1. saved'[n] = Saved(n) /\ \A q \in Node \ {n} : saved'[q] = saved[q]
      BY <2>1, <2>2
    <3> QED
      BY <2>1, <2>2, <3>1, SavedFits
  <2>3. CASE UNCHANGED saved
    BY <2>1, <2>3
  <2> QED
    BY <2>2, <2>3 DEF Maintenance, SavePeers
<1> HIDE DEF D
<1> QED
  BY <1>1, <1>2, <1>4, <1>5, SendInv

\* Sending to a key keeps the invariant.
LEMMA AskInv ==
  ASSUME IInv, NEW n \in Node, NEW k \in Node, MsgsToPub(n, k)
  PROVE  IInv'
<1>1. turn = None /\ UNCHANGED <<at, been, peer_map, by_pub, last_cookie, turn, faults>>
      /\ UNCHANGED <<saved, suggested>>
  BY DEF MsgsToPub, tables, world
<1>2. PICK m \in {[type |-> "Encrypted", by |-> n, to |-> k], [type |-> "WhereAreThey", key |-> k]},
           S \in SUBSET Addr : net' = net \cup {DatagramTo(n, a, <<m>>) : a \in S}
  <2>1. CASE by_pub[n][k] # None
    <3>1. by_pub[n][k] \in Addr
      BY <2>1 DEF IInv, TypeOK, ByPub
    <3>2. PICK S \in Sendable({by_pub[n][k]}) :
            net' = net \cup {DatagramTo(n, a, <<[type |-> "Encrypted", by |-> n, to |-> k]>>) : a \in S}
      BY <2>1 DEF MsgsToPub
    <3>3. S \in SUBSET Addr
      BY <3>1, <3>2 DEF Sendable
    <3> QED
      BY <3>2, <3>3
  <2>2. CASE by_pub[n][k] = None
    <3>1. PICK B \in BestPeers(n, Cardinality(Addr)) : \E S \in Sendable(B) :
            net' = net \cup {DatagramTo(n, a, <<[type |-> "WhereAreThey", key |-> k]>>) : a \in S}
      BY <2>2 DEF MsgsToPub
    <3>2. PICK S \in Sendable(B) :
            net' = net \cup {DatagramTo(n, a, <<[type |-> "WhereAreThey", key |-> k]>>) : a \in S}
      BY <3>1
    <3>3. S \in SUBSET Addr
      BY <3>1, <3>2 DEF Sendable, BestPeers, Known
    <3> QED
      BY <3>2, <3>3
  <2> QED
    BY <2>1, <2>2
<1> DEFINE D == {DatagramTo(n, a, <<m>>) : a \in S}
<1>3. at[n] \in been[n]
  BY DEF IInv, NodeFits
<1>4. ASSUME NEW a \in S
      PROVE  /\ DatagramTo(n, a, <<m>>) \in Datagram
             /\ DatagramTo(n, a, <<m>>).msgs
                  \in Seq(Fitting(DatagramTo(n, a, <<m>>).from, DatagramTo(n, a, <<m>>).to))
  <2>1. m \in Fitting(at[n], a)
    BY <1>2, <1>3 DEF Fitting, Fits, Messages
  <2>2. <<m>> \in Seq(Fitting(at[n], a))
    BY <2>1, OneMessage
  <2>3. a \in Addr /\ TypeOK
    BY <1>2 DEF IInv
  <2>4. \A s \in Seq(Fitting(at[n], a)) :
          /\ DatagramTo(n, a, s) \in Datagram
          /\ DatagramTo(n, a, s).msgs
               \in Seq(Fitting(DatagramTo(n, a, s).from, DatagramTo(n, a, s).to))
    BY <2>3, DatagramFits
  <2> QED
    BY <2>2, <2>4
<1>5. \A d \in D : d \in Datagram /\ d.msgs \in Seq(Fitting(d.from, d.to))
  BY <1>4
<1>6. net' = net \cup D
  BY <1>2
<1>7. /\ suggested' \in [Node -> SUBSET Addr] /\ saved' \in [Node -> [peer_map : Table, by_pub : ByPub]]
      /\ \A q \in Node : TableFits(q, saved'[q].peer_map, saved'[q].by_pub)
  BY <1>1 DEF IInv, TypeOK, NodeFits
<1> HIDE DEF D
<1> QED
  BY <1>1, <1>5, <1>6, <1>7, SendInv

\* A turn without a datagram keeps the invariant.
LEMMA SelectInv ==
  ASSUME IInv, NEW n \in Node, Select(n)
  PROVE  IInv'
<1>1. UNCHANGED <<at, been, peer_map, by_pub, saved, suggested, net, turn, faults>>
      /\ last_cookie' \in [Node -> Cookie \cup {None}]
  BY DEF Select, world, IInv, TypeOK
<1>2. net' \subseteq Datagram /\ NetFits'
  BY <1>1, NetShrinks
<1>3. \A q \in Node : NodeFits(q)'
  BY <1>1, NodesStay
<1>4. TurnFits' /\ SignedIsVerified'
  <2>1. CASE turn = None
    BY <1>1, <2>1 DEF TurnFits, SignedIsVerified
  <2>2. CASE turn # None
    BY <1>1, <2>2, TurnParts, TurnChanges DEF IInv, SignedIsVerified
  <2> QED
    BY <2>1, <2>2
<1> QED
  BY <1>1, <1>2, <1>3, <1>4 DEF IInv, TypeOK

\* A datagram goes to nobody, or is lost.
LEMMA DropInv ==
  ASSUME IInv, NEW d, turn = None, net' = net \ {d}, faults' \in 0 .. MaxFaults,
         UNCHANGED <<at, been, saved, tables, turn>>
  PROVE  IInv'
<1>1. UNCHANGED <<at, been, peer_map, by_pub, saved, suggested, last_cookie>>
  BY DEF tables
<1>2. net' \subseteq Datagram /\ NetFits'
  BY <1>1, NetShrinks
<1>3. \A q \in Node : NodeFits(q)'
  BY <1>1, NodesStay
<1>4. TurnFits' /\ SignedIsVerified'
  BY DEF TurnFits, SignedIsVerified
<1> QED
  BY <1>1, <1>2, <1>3, <1>4 DEF IInv, TypeOK

\* No fault is counted beyond the bound.
LEMMA FaultType == Fault /\ IInv => faults' \in 0 .. MaxFaults
<1>1. MaxFaults \in Nat
  BY PeersAssumption
<1> QED
  BY <1>1 DEF Fault, IInv, TypeOK

\* A node that moves keeps the invariant.
LEMMA MoveInv ==
  ASSUME IInv, NEW n \in Node, NEW a \in Addr, Move(n, a)
  PROVE  IInv'
<1>1. /\ UNCHANGED <<peer_map, by_pub, saved, suggested, last_cookie, net, turn>>
      /\ at' \in [Node -> Addr] /\ been' \in [Node -> SUBSET Addr]
      /\ turn = None /\ faults' \in 0 .. MaxFaults
  BY FaultType DEF Move, Fault, tables, IInv, TypeOK
<1>2. \A q \in Node : been[q] \subseteq been'[q]
  BY DEF Move, IInv, TypeOK
<1>3. ASSUME NEW f, NEW t PROVE Fitting(f, t) \subseteq Fitting(f, t)'
  <2> SUFFICES ASSUME NEW m \in Messages, Fits(m, f, t) PROVE Fits(m, f, t)'
    BY DEF Fitting
  <2>1. m.type = "PleaseAlwaysReturn" => m.cookie[1] \in Node
    BY MessageTypes DEF Cookie
  <2> QED
    BY <1>2, <2>1, MessageTypes DEF Fits
<1>4. NetFits'
  <2>1. \A d \in net : d.msgs \in Seq(Fitting(d.from, d.to)')
    BY <1>3, SeqMonotonic DEF IInv, NetFits
  <2> QED
    BY <1>1, <2>1 DEF NetFits
<1>5. ASSUME NEW q \in Node PROVE NodeFits(q)'
  <2>1. at'[q] \in been'[q]
    BY DEF Move, IInv, TypeOK, NodeFits
  <2>2. ASSUME NEW pm \in Table, NEW bp \in ByPub, TableFits(q, pm, bp)
        PROVE  TableFits(q, pm, bp)'
    <3>1. \A b \in Addr : pm[b] # None => /\ pm[b].key \in Node \cup {None}
                                          /\ pm[b].cookie # None => pm[b].cookie[1] \in Node
      BY DEF Table, PeerInfo, Cookie
    <3> QED
      BY <1>2, <2>2, <3>1 DEF TableFits
  <2>3. TableFits(q, peer_map[q], by_pub[q]) /\ peer_map[q] \in Table /\ by_pub[q] \in ByPub
    BY DEF IInv, TypeOK, NodeFits
  <2>4. /\ TableFits(q, saved[q].peer_map, saved[q].by_pub)
        /\ saved[q].peer_map \in Table /\ saved[q].by_pub \in ByPub
    BY DEF IInv, TypeOK, NodeFits
  <2> QED
    BY <1>1, <2>1, <2>2, <2>3, <2>4 DEF NodeFits, TableFits
<1>6. TurnFits' /\ SignedIsVerified'
  BY <1>1 DEF TurnFits, SignedIsVerified
<1> QED
  BY <1>1, <1>4, <1>5, <1>6 DEF IInv, TypeOK

\* The keys of the loaded entries were bound to where they are bound again.
LEMMA RestartInv ==
  ASSUME IInv, NEW n \in Node, Restart(n)
  PROVE  IInv'
<1> DEFINE s == saved[n]
           pm == [a \in Addr |-> IF s.peer_map[a] = None /\ a \in Start[n]
                                 THEN NewPeer ELSE s.peer_map[a]]
<1>1. /\ UNCHANGED <<at, been, saved, net, turn>> /\ turn = None /\ faults' \in 0 .. MaxFaults
      /\ suggested' \in [Node -> SUBSET Addr] /\ last_cookie' \in [Node -> Cookie \cup {None}]
  BY FaultType DEF Restart, Fault, IInv, TypeOK
<1>2. s.peer_map \in Table /\ s.by_pub \in ByPub /\ TableFits(n, s.peer_map, s.by_pub)
  BY DEF IInv, TypeOK, NodeFits
<1>3. PICK f \in Loaded(s.peer_map, s.by_pub) :
        peer_map' = [peer_map EXCEPT ![n] = pm] /\ by_pub' = [by_pub EXCEPT ![n] = f]
  BY DEF Restart
<1>4. pm \in Table
  BY <1>2, NewPeerType DEF Table
<1>5. f \in ByPub /\ \A k \in Node : f[k] = s.by_pub[k] \/ (f[k] \in Addr /\ s.peer_map[f[k]] # None
                                                            /\ s.peer_map[f[k]].key = k)
  BY DEF Loaded
<1>6. TableFits(n, pm, f)
  <2>1. \A a \in Addr : s.peer_map[a] # None => pm[a] = s.peer_map[a]
    OBVIOUS
  <2>2. \A a \in Addr : pm[a] # None => pm[a] = s.peer_map[a] \/ pm[a] = NewPeer
    OBVIOUS
  <2> HIDE DEF pm
  <2>3. ASSUME NEW k \in Node, f[k] # None PROVE pm[f[k]] # None /\ f[k] \in been[k]
    <3>1. f[k] \in Addr /\ s.peer_map[f[k]] # None /\ f[k] \in been[k]
      BY <1>2, <1>5, <2>3, PeersAssumption DEF TableFits, ByPub
    <3> QED
      BY <2>1, <3>1
  <2>4. ASSUME NEW a \in Addr, pm[a] # None
        PROVE  /\ pm[a].key # None => a \in been[pm[a].key]
               /\ pm[a].cookie # None => a \in been[pm[a].cookie[1]] /\ pm[a].cookie[2] \in been[n]
    BY <1>2, <2>2, <2>4, NewPeerType DEF TableFits
  <2> QED
    BY <2>3, <2>4 DEF TableFits
<1>7. peer_map' \in [Node -> Table] /\ by_pub' \in [Node -> ByPub] /\ \A q \in Node : NodeFits(q)'
  <2> HIDE DEF pm, s
  <2> QED
    BY <1>1, <1>3, <1>4, <1>5, <1>6, NodeChanges
<1>8. net' \subseteq Datagram /\ NetFits'
  BY <1>1, NetShrinks
<1>9. TurnFits' /\ SignedIsVerified'
  BY <1>1 DEF TurnFits, SignedIsVerified
<1> QED
  BY <1>1, <1>7, <1>8, <1>9 DEF IInv, TypeOK

\* The invariant is inductive.
LEMMA StepInv == IInv /\ [Next]_vars => IInv'
<1> SUFFICES ASSUME IInv, [Next]_vars PROVE IInv'
  OBVIOUS
<1>0. CASE UNCHANGED vars
  <2>1. UNCHANGED <<at, been, peer_map, by_pub, saved, suggested, last_cookie, net, turn, faults>>
    BY <1>0 DEF vars
  <2>2. net' \subseteq Datagram /\ NetFits'
    BY <2>1, NetShrinks
  <2>3. \A q \in Node : NodeFits(q)'
    BY <2>1, NodesStay
  <2>4. TurnFits' /\ SignedIsVerified'
    <3>1. CASE turn = None
      BY <2>1, <3>1 DEF TurnFits, SignedIsVerified
    <3>2. CASE turn # None
      BY <2>1, <3>2, TurnParts, TurnChanges DEF IInv, SignedIsVerified
    <3> QED
      BY <3>1, <3>2
  <2> QED
    BY <2>1, <2>2, <2>3, <2>4 DEF IInv, TypeOK
<1>1. CASE Handle
  BY <1>1, CookieInv, SendPeersInv, PeersInv, KeyInv, SignedInv, WhereInv, ForwardedInv,
     EncryptedInv, ReplyInv DEF Handle
<1>2. ASSUME NEW w \in Wants, MsgsToPub(w[1], w[2]) PROVE IInv'
  <2>1. w[1] \in Node /\ w[2] \in Node
    BY PeersAssumption
  <2> QED
    BY <1>2, <2>1, AskInv
<1>3. ASSUME NEW d \in net, Vanish(d) \/ Lose(d) PROVE IInv'
  <2>1. CASE Vanish(d)
    <3>1. turn = None /\ net' = net \ {d} /\ faults' = faults /\ UNCHANGED <<at, been, saved, tables, turn>>
      BY <2>1 DEF Vanish, world
    <3>2. faults' \in 0 .. MaxFaults
      BY <3>1 DEF IInv, TypeOK
    <3> QED
      BY <3>1, <3>2, DropInv
  <2>2. CASE Lose(d)
    <3>1. turn = None /\ net' = net \ {d} /\ UNCHANGED <<at, been, saved, tables, turn>>
          /\ faults' \in 0 .. MaxFaults
      BY <2>2, FaultType DEF Lose, Fault
    <3> QED
      BY <3>1, DropInv
  <2> QED
    BY <1>3, <2>1, <2>2
<1> QED
  BY <1>0, <1>1, <1>2, <1>3, ArriveInv, SelectInv, RestartInv, MaintenanceInv, MoveInv DEF Next

\* The inductive invariant holds of every datagram, move, restart and loss
\* (the receive loop of run_engine, maintenance and save_peers).
THEOREM Invariant == Spec => []IInv
BY InitInv, StepInv, PTL DEF Spec

-----------------------------------------------------------------------------
(* What follows from it.                                                    *)

\* Tables, cookies, datagrams and turns are of their type, whatever moves or fails.
THEOREM TypeCorrect == Spec => []TypeOK
<1>1. IInv => TypeOK
  BY DEF IInv
<1> QED
  BY <1>1, Invariant, PTL

\* A key is never bound to an address without an entry, in memory or in the file.
THEOREM PubsHaveEntryCorrect == Spec => []PubsHaveEntry
<1>1. IInv => PubsHaveEntry
  BY PeersAssumption DEF IInv, TypeOK, ByPub, NodeFits, TableFits, PubsHaveEntry, Known
<1> QED
  BY <1>1, Invariant, PTL

\* However datagrams are delayed and reordered, and through whomever a key was
\* heard of: it is bound only to addresses that its holder has had.
THEOREM BoundWhereItWasCorrect == Spec => []BoundWhereItWas
<1>1. IInv => BoundWhereItWas
  BY PeersAssumption DEF IInv, NodeFits, TableFits, BoundWhereItWas, Known
<1> QED
  BY <1>1, Invariant, PTL

\* The cookie that is returned to an address was made by who is or was there.
THEOREM CookiesFitCorrect == Spec => []CookiesFit
<1>1. IInv => CookiesFit
  BY DEF IInv, NodeFits, TableFits, CookiesFit, Known
<1> QED
  BY <1>1, Invariant, PTL

\* A turn that may rebind a known key has its address verified.
THEOREM SignedIsVerifiedCorrect == Spec => []SignedIsVerified
<1>1. IInv => SignedIsVerified
  BY DEF IInv
<1> QED
  BY <1>1, Invariant, PTL
=============================================================================

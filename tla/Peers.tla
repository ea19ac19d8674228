------------------------------- MODULE Peers -------------------------------
(***************************************************************************)
(* The peer table of a node (src/main.rs): which addresses it knows        *)
(* (peer_map), which public key it last saw at which address               *)
(* (peer_map_by_pub), and the cookies by which two nodes show each other   *)
(* that they receive what is sent to their address.  Datagrams may be      *)
(* lost, delayed, reordered and doubled; a node may move to another        *)
(* address, and may restart with the table it saved.                       *)
(*                                                                         *)
(* A process handles one datagram at a time: `turn` is the one that is     *)
(* being handled, message by message.  Nodes share nothing but datagrams,  *)
(* so that turns of two nodes need not be interleaved.  Only the messages  *)
(* that touch the table are here; delays only order best_peers' random     *)
(* choice, so the choice is free.  An address stands for its IP.           *)
(***************************************************************************)
EXTENDS Naturals, Sequences, FiniteSets

CONSTANTS Node,         \* a node stands for its key pair, too
          Addr,
          None,
          Home,         \* the address a node starts at
          Start,        \* addresses it is configured with
          Wants,        \* pairs: the first one sends messages to the second
          Unstable,     \* nodes that may move or restart
          SuggestMax, Take, Keep,   \* 500, 10 and 5 suggested peers
          Ask, AskSpoof,            \* 46 and 1 peers in an answer
          MaxNet,       \* bound: datagrams under way
          MaxFaults     \* bound: moves, restarts, losses and duplicates

ASSUME PeersAssumption ==
    /\ None \notin Node /\ None \notin Addr
    /\ Home \in [Node -> Addr] /\ \A m, n \in Node : m # n => Home[m] # Home[n]
    /\ Start \in [Node -> SUBSET Addr]
    /\ Wants \subseteq Node \X Node /\ Unstable \subseteq Node
    /\ {SuggestMax, Take, Keep, Ask, AskSpoof, MaxNet, MaxFaults} \subseteq Nat
    /\ None \notin Node \X Addr
    /\ None \notin [cookie : (Node \X Addr) \cup {None}, key : Node \cup {None}]

VARIABLES at,           \* address of each node
          been,         \* history: addresses each node has had
          peer_map, by_pub,   \* None: no entry
          suggested,    \* suggested_peers
          last_cookie,
          saved,        \* state/peers.v10.json
          net, turn,
          faults        \* faults so far (bound)

vars == <<at, been, peer_map, by_pub, suggested, last_cookie, saved, net, turn, faults>>
tables == <<peer_map, by_pub, suggested, last_cookie>>
world == <<at, been, saved, faults>>

Cookie == Node \X Addr
PeerInfo == [cookie : Cookie \cup {None}, key : Node \cup {None}]
Table == [Addr -> PeerInfo \cup {None}]
ByPub == [Node -> Addr \cup {None}]
Messages ==
    [type : {"PleaseAlwaysReturn"}, cookie : Cookie]
        \cup [type : {"PleaseSendPeers"}]
        \cup [type : {"Peers"}, peers : SUBSET Addr]
        \cup [type : {"MyPublicKey"}, key : Node]
        \cup [type : {"Signed"}, by : Node, returned : Cookie \cup {None}]
        \cup [type : {"WhereAreThey"}, key : Node]
        \cup [type : {"Forwarded"}, src : Addr, key : Node]
        \cup [type : {"Encrypted"}, by : Node, to : Node]
\* `returned`: the AlwaysReturned message of the datagram, which is read first
Datagram == [from : Addr, to : Addr, returned : Cookie \cup {None}, msgs : Seq(Messages)]
Turn == [node : Node, src : Addr, spoof : BOOLEAN, fresh : BOOLEAN,
         signed : BOOLEAN,      \* last_always_returned_signed
         returned : Cookie \cup {None},     \* last_always_returned
         rest : Seq(Messages), out : Seq(Messages)]

NewPeer == [cookie |-> None, key |-> None]
NoPeers == [a \in Addr |-> None]
Configured(n) == [a \in Addr |-> IF a \in Start[n] THEN NewPeer ELSE None]
Init == /\ at = Home /\ been = [n \in Node |-> {Home[n]}]
        /\ peer_map = [n \in Node |-> Configured(n)]
        /\ by_pub = [n \in Node |-> [k \in Node |-> None]]
        /\ suggested = [n \in Node |-> {}]
        /\ last_cookie = [n \in Node |-> None]
        /\ saved = [n \in Node |-> [peer_map |-> NoPeers, by_pub |-> [k \in Node |-> None]]]
        /\ net = {} /\ turn = None /\ faults = 0

----------------------------------------------------------------------------
Known(n) == {a \in Addr : peer_map[n][a] # None}
Bound(n) == {by_pub[n][k] : k \in Node} \ {None}
HashIp(n, a) == <<n, a>>
WithPeer(pm, a) == IF pm[a] = None THEN [pm EXCEPT ![a] = NewPeer] ELSE pm
\* the first `max` of the bound addresses, then others at random
BestPeers(n, max) ==
    {S \in SUBSET Known(n) :
        /\ Cardinality(S) <= max
        /\ IF Cardinality({k \in Node : by_pub[n][k] # None}) >= max
           THEN S \subseteq Bound(n) ELSE Bound(n) \subseteq S}

AlwaysReturned(n, a) ==
    IF last_cookie[n] # None THEN last_cookie[n]
    ELSE IF peer_map[n][a] # None THEN peer_map[n][a].cookie ELSE None
PleaseAlwaysReturn(n, a) == [type |-> "PleaseAlwaysReturn", cookie |-> HashIp(n, a)]
Signed(n, a) == [type |-> "Signed", by |-> n, returned |-> AlwaysReturned(n, a)]
MyPublicKey(n) == [type |-> "MyPublicKey", key |-> n]
PleaseSendPeers == [type |-> "PleaseSendPeers"]
DatagramTo(n, a, msgs) ==
    [from |-> at[n], to |-> a, returned |-> AlwaysReturned(n, a), msgs |-> msgs]

\* Mutant of Bind: an address without an entry gets none.
BindEntry(n, k, a) ==
    /\ by_pub' = [by_pub EXCEPT ![n][k] = a]
    /\ peer_map' = IF peer_map[n][a] = None THEN peer_map
                   ELSE [peer_map EXCEPT ![n][a].key = k]
\* key k was seen at address a
Bind(n, k, a) ==
    /\ by_pub' = [by_pub EXCEPT ![n][k] = a]
    /\ peer_map' = [peer_map EXCEPT ![n] = [WithPeer(@, a) EXCEPT ![a].key = k]]

----------------------------------------------------------------------------
(* A datagram arrives: recv_from, check_key, and then its messages.         *)
Arrive(d) == net' = net \ {d} /\ UNCHANGED faults
ArriveTwice == faults < MaxFaults /\ faults' = faults + 1 /\ UNCHANGED net
HandleNetwork(n, d) ==
    LET ok == d.returned = HashIp(n, d.from)
    IN  /\ turn = None /\ d.to = at[n]
        /\ Arrive(d) \/ ArriveTwice
        /\ last_cookie' = [last_cookie EXCEPT ![n] = None]
        /\ peer_map' = IF ok THEN [peer_map EXCEPT ![n] = WithPeer(@, d.from)] ELSE peer_map
        /\ turn' = [node |-> n, src |-> d.from, spoof |-> ~ok,
                    fresh |-> ok /\ peer_map[n][d.from] = None,
                    signed |-> FALSE, returned |-> d.returned,
                    rest |-> d.msgs, out |-> <<>>]
        /\ UNCHANGED <<at, been, by_pub, suggested, saved>>

\* the next message of the turn is of type t
Next1(t) == turn # None /\ turn.rest # <<>> /\ Head(turn.rest).type = t
Done(reply) == turn' = [turn EXCEPT !.rest = Tail(@), !.out = @ \o reply]

\* Mutant of ReceivePleaseAlwaysReturn: a cookie it has is not replaced.
ReceivePleaseAlwaysReturnOnce ==
    LET n == turn.node
        a == turn.src
        c == Head(turn.rest).cookie
    IN  /\ Next1("PleaseAlwaysReturn")
        /\ IF turn.spoof
           THEN last_cookie' = [last_cookie EXCEPT ![n] = c] /\ UNCHANGED peer_map
           ELSE /\ peer_map' = [peer_map EXCEPT ![n] =
                                  [WithPeer(@, a) EXCEPT ![a].cookie = IF @ = None THEN c ELSE @]]
                /\ UNCHANGED last_cookie
        /\ Done(<<>>)
        /\ UNCHANGED <<by_pub, suggested, net, world>>
ReceivePleaseAlwaysReturn ==
    LET n == turn.node
        a == turn.src
        c == Head(turn.rest).cookie
    IN  /\ Next1("PleaseAlwaysReturn")
        /\ IF turn.spoof
           THEN last_cookie' = [last_cookie EXCEPT ![n] = c] /\ UNCHANGED peer_map
           ELSE /\ peer_map' = [peer_map EXCEPT ![n] = [WithPeer(@, a) EXCEPT ![a].cookie = c]]
                /\ UNCHANGED last_cookie
        /\ Done(<<>>)
        /\ UNCHANGED <<by_pub, suggested, net, world>>

ReceivePleaseSendPeers ==
    LET n == turn.node
        who == IF turn.spoof THEN <<>> ELSE <<Signed(n, turn.src), MyPublicKey(n)>>
    IN  /\ Next1("PleaseSendPeers")
        /\ \E S \in BestPeers(n, IF turn.spoof THEN AskSpoof ELSE Ask) :
              Done(<<[type |-> "Peers", peers |-> S]>> \o who)
        /\ UNCHANGED <<tables, net, world>>

ReceivePeers ==
    LET n == turn.node
    IN  /\ Next1("Peers")
        /\ \E S \in SUBSET (Head(turn.rest).peers \ Known(n)) :
              LET sum == suggested[n] \cup S
              IN  /\ sum = suggested[n] \/ Cardinality(sum) <= SuggestMax
                  /\ \/ S = Head(turn.rest).peers \ Known(n)
                     \/ Cardinality(sum) >= SuggestMax
                  /\ suggested' = [suggested EXCEPT ![n] = sum]
        /\ Done(<<>>)
        /\ UNCHANGED <<peer_map, by_pub, last_cookie, net, world>>

\* An unknown key is bound at once.  A known one only if the messages before
\* it were signed and returned the cookie of this address.  The last disjunct
\* is in the code, though never reached with signed /\ spoof.
MayBind(k) ==
    LET old == by_pub[turn.node][k]
    IN  \/ old = None
        \/ turn.signed /\ (~turn.spoof \/ turn.returned = HashIp(turn.node, old))
ReceiveMyPublicKey ==
    LET k == Head(turn.rest).key
    IN  /\ Next1("MyPublicKey")
        /\ IF MayBind(k) THEN Bind(turn.node, k, turn.src) ELSE UNCHANGED <<peer_map, by_pub>>
        /\ Done(<<>>)
        /\ UNCHANGED <<suggested, last_cookie, net, world>>

\* Mutant of ReceiveSigned: a signature counts as a proof of the address.
ReceiveSignedTrusts ==
    LET n == turn.node
        c == Head(turn.rest).returned
        ok == c = HashIp(n, turn.src)
    IN  /\ Next1("Signed")
        /\ peer_map' = IF ok THEN [peer_map EXCEPT ![n] = WithPeer(@, turn.src)] ELSE peer_map
        /\ turn' = [turn EXCEPT !.rest = Tail(@), !.spoof = turn.spoof /\ ~ok, !.signed = TRUE,
                                !.returned = IF c = None THEN @ ELSE c]
        /\ UNCHANGED <<by_pub, suggested, last_cookie, net, world>>
\* The payload is what always_returned gave, a cookie or nothing.
ReceiveSigned ==
    LET n == turn.node
        c == Head(turn.rest).returned
        ok == c = HashIp(n, turn.src)
        spoof == turn.spoof /\ ~ok
    IN  /\ Next1("Signed")
        /\ peer_map' = IF ok THEN [peer_map EXCEPT ![n] = WithPeer(@, turn.src)] ELSE peer_map
        /\ turn' = [turn EXCEPT !.rest = Tail(@), !.spoof = spoof, !.signed = ~spoof,
                                !.returned = IF c = None THEN @ ELSE c]
        /\ UNCHANGED <<by_pub, suggested, last_cookie, net, world>>

ReceiveWhereAreThey ==
    LET k == Head(turn.rest).key
        sa == by_pub[turn.node][k]
    IN  /\ Next1("WhereAreThey")
        /\ Done(IF sa = None \/ sa \notin Known(turn.node) THEN <<>>
                ELSE <<[type |-> "Forwarded", src |-> sa, key |-> k]>>)
        /\ UNCHANGED <<tables, net, world>>

\* the MyPublicKey inside is handled as one that came from m.src, unverified
ReceiveForwarded ==
    LET m == Head(turn.rest)
        n == turn.node
    IN  /\ Next1("Forwarded")
        /\ IF by_pub[n][m.key] = None THEN Bind(n, m.key, m.src)
           ELSE UNCHANGED <<peer_map, by_pub>>
        /\ turn' = [turn EXCEPT !.rest = Tail(@), !.signed = FALSE]
        /\ UNCHANGED <<suggested, last_cookie, net, world>>

\* Mutant of ReceiveEncrypted: the key that is bound is the reader's own.
ReceiveEncryptedOwn ==
    LET m == Head(turn.rest)
        n == turn.node
        opens == m.to = n /\ by_pub[n][m.by] # None
    IN  /\ Next1("Encrypted")
        /\ IF opens THEN Bind(n, m.to, turn.src) ELSE UNCHANGED <<peer_map, by_pub>>
        /\ turn' = [turn EXCEPT !.rest = Tail(@), !.signed = IF opens THEN ~turn.spoof ELSE @]
        /\ UNCHANGED <<suggested, last_cookie, net, world>>
\* Only the addressee can decrypt it, and only the key of one it knows is
\* found again.  What is inside is a chat, with no cookie.
ReceiveEncrypted ==
    LET m == Head(turn.rest)
        n == turn.node
        opens == m.to = n /\ by_pub[n][m.by] # None
    IN  /\ Next1("Encrypted")
        /\ IF opens THEN Bind(n, m.by, turn.src) ELSE UNCHANGED <<peer_map, by_pub>>
        /\ turn' = [turn EXCEPT !.rest = Tail(@), !.signed = IF opens THEN ~turn.spoof ELSE @]
        /\ UNCHANGED <<suggested, last_cookie, net, world>>

Greeting(n, a) == <<Signed(n, a), MyPublicKey(n), PleaseSendPeers>>
\* trim_reply drops messages from the end of an answer that might go to an
\* address its sender does not have
Trimmed(msgs) == {SubSeq(msgs, 1, i) : i \in 0..Len(msgs)}
Reply ==
    LET n == turn.node
        a == turn.src
        all == turn.out \o (IF turn.fresh THEN Greeting(n, a) ELSE <<>>)
        answers == IF turn.spoof
                   THEN {Append(t, PleaseAlwaysReturn(n, a)) : t \in Trimmed(all)} ELSE {all}
    IN  /\ turn # None /\ turn.rest = <<>>
        /\ \E out \in answers :
              net' = IF out = <<>> THEN net ELSE net \cup {DatagramTo(n, a, out)}
        /\ turn' = None
        /\ UNCHANGED <<tables, world>>

----------------------------------------------------------------------------
(* Between datagrams: maintenance, the user, and the next select.           *)
\* what goes out of datagrams to these addresses: all, or what has room (bound)
Sendable(to) ==
    {S \in SUBSET to : S = to \/ Cardinality(S) = MaxNet - Cardinality(net)}
        \cap {S \in SUBSET to : Cardinality(S) <= MaxNet - Cardinality(net)}
\* Mutant of Probe: the cookie is made of its own address, not the peer's.
ProbeOwn(n, a) ==
    IF peer_map[n][a] = None THEN <<PleaseAlwaysReturn(n, at[n])>>
    ELSE Append(Greeting(n, a), PleaseAlwaysReturn(n, at[n]))
Probe(n, a) ==
    IF peer_map[n][a] = None THEN <<PleaseAlwaysReturn(n, a)>>
    ELSE Append(Greeting(n, a), PleaseAlwaysReturn(n, a))
\* an address without an entry is sent no cookie, not even the last one
ProbeTo(n, a) == [DatagramTo(n, a, Probe(n, a)) EXCEPT
                     !.returned = IF peer_map[n][a] = None THEN None ELSE @]
Saved(n) ==
    [peer_map |-> [a \in Addr |-> IF a \in Bound(n) THEN peer_map[n][a] ELSE None],
     by_pub |-> [k \in Node |-> IF by_pub[n][k] \in Known(n) THEN by_pub[n][k] ELSE None]]
SavePeers(n) == \* a save that no restart can read again is left out (bound)
    \/ (n \in Unstable /\ faults < MaxFaults /\ saved' = [saved EXCEPT ![n] = Saved(n)])
    \/ UNCHANGED saved
Least(i, j) == IF i < j THEN i ELSE j
Chosen(n, taken, kept) ==
    /\ Cardinality(taken) = Least(Take, Cardinality(suggested[n]))
    /\ Cardinality(kept) = Least(Keep, Cardinality(taken))
Maintenance(n, sent) ==
    /\ turn = None
    /\ \E taken \in SUBSET suggested[n], best \in SUBSET Known(n) :
          \E kept \in SUBSET taken :
             /\ Chosen(n, taken, kept)
             /\ Cardinality(kept) + Cardinality(best) <= Take
             /\ sent \in Sendable(kept \cup best)
             /\ suggested' = [suggested EXCEPT ![n] = @ \ taken]
    /\ SavePeers(n)
    /\ net' = net \cup {ProbeTo(n, a) : a \in sent}
    /\ UNCHANGED <<at, been, peer_map, by_pub, last_cookie, turn, faults>>

\* the next turn of the main loop forgets the cookie of the last datagram
Select(n) ==
    /\ turn # None => turn.node # n
    /\ last_cookie[n] # None
    /\ last_cookie' = [last_cookie EXCEPT ![n] = None]
    /\ UNCHANGED <<peer_map, by_pub, suggested, net, turn, world>>

MsgsToPub(n, k) ==
    /\ turn = None /\ last_cookie[n] = None
    /\ IF by_pub[n][k] # None
       THEN \E S \in Sendable({by_pub[n][k]}) :
               net' = net \cup {DatagramTo(n, a, <<[type |-> "Encrypted", by |-> n, to |-> k]>>) :
                                   a \in S}
       ELSE \E B \in BestPeers(n, Cardinality(Addr)) : \E S \in Sendable(B) :
               net' = net \cup {DatagramTo(n, a, <<[type |-> "WhereAreThey", key |-> k]>>) :
                                   a \in S}
    /\ UNCHANGED <<tables, turn, world>>

----------------------------------------------------------------------------
(* The world: datagrams to nobody, losses, moves and restarts.              *)
Fault == turn = None /\ faults < MaxFaults /\ faults' = faults + 1
Vanish(d) == /\ turn = None /\ \A n \in Node : at[n] # d.to
             /\ net' = net \ {d} /\ UNCHANGED <<tables, turn, world>>
Lose(d) == /\ Fault /\ net' = net \ {d}
           /\ UNCHANGED <<at, been, tables, saved, turn>>
Move(n, a) == /\ Fault /\ n \in Unstable /\ \A m \in Node : at[m] # a
              /\ at' = [at EXCEPT ![n] = a]
              /\ been' = [been EXCEPT ![n] = @ \cup {a}]
              /\ UNCHANGED <<tables, saved, net, turn>>
\* The keys that the loaded entries name are bound again, in the order of a
\* hash map: of two entries with one key, either may win.
Loaded(pm, bp) ==
    LET With(k) == {a \in Addr : pm[a] # None /\ pm[a].key = k}
    IN  {f \in ByPub : \A k \in Node :
            IF With(k) = {} THEN f[k] = bp[k] ELSE f[k] \in With(k)}
Restart(n) ==
    LET s == saved[n]
    IN  /\ Fault /\ n \in Unstable
        /\ peer_map' = [peer_map EXCEPT ![n] =
                          [a \in Addr |-> IF s.peer_map[a] = None /\ a \in Start[n]
                                          THEN NewPeer ELSE s.peer_map[a]]]
        /\ \E f \in Loaded(s.peer_map, s.by_pub) : by_pub' = [by_pub EXCEPT ![n] = f]
        /\ suggested' = [suggested EXCEPT ![n] = {}]
        /\ last_cookie' = [last_cookie EXCEPT ![n] = None]
        /\ UNCHANGED <<at, been, saved, net, turn>>

----------------------------------------------------------------------------
Handle ==
    \/ ReceivePleaseAlwaysReturn \/ ReceivePleaseSendPeers \/ ReceivePeers
    \/ ReceiveMyPublicKey \/ ReceiveSigned \/ ReceiveWhereAreThey
    \/ ReceiveForwarded \/ ReceiveEncrypted \/ Reply
Next ==
    \/ \E n \in Node, d \in net : HandleNetwork(n, d)
    \/ Handle
    \/ \E n \in Node : \/ Select(n) \/ Restart(n)
                      \/ \E sent \in SUBSET Addr : Maintenance(n, sent)
                      \/ \E a \in Addr : Move(n, a)
    \/ \E w \in Wants : MsgsToPub(w[1], w[2])
    \/ \E d \in net : Vanish(d) \/ Lose(d)

Spec == Init /\ [][Next]_vars

\* A datagram that is not lost arrives or finds nobody; a process finishes
\* its turn and comes back to select; the addresses it is configured with are
\* drawn by best_peers again and again, also when no cookie is left over from
\* the last datagram.
Deliver == \E d \in net : \/ Vanish(d)
                         \/ \E n \in Node : HandleNetwork(n, d)
ProbeAgain(n, a) == last_cookie[n] = None /\ \E sent \in SUBSET Addr : a \in sent /\ Maintenance(n, sent)
Fairness ==
    /\ WF_vars(Handle) /\ WF_vars(Deliver)
    /\ \A n \in Node : WF_vars(Select(n))
    /\ \A n \in Node : \A a \in Start[n] : SF_vars(ProbeAgain(n, a))
FairSpec == Spec /\ Fairness

----------------------------------------------------------------------------
TypeOK ==
    /\ at \in [Node -> Addr] /\ been \in [Node -> SUBSET Addr]
    /\ peer_map \in [Node -> Table] /\ by_pub \in [Node -> ByPub]
    /\ suggested \in [Node -> SUBSET Addr]
    /\ last_cookie \in [Node -> Cookie \cup {None}]
    /\ saved \in [Node -> [peer_map : Table, by_pub : ByPub]]
    /\ net \subseteq Datagram /\ turn \in Turn \cup {None} /\ faults \in 0..MaxFaults

\* A key is bound only to an address the node has an entry for, also in the
\* file (save_peers, WhereAreThey and active_peers_from_pub_map skip others).
PubsHaveEntry ==
    \A n \in Node, k \in Node :
        /\ by_pub[n][k] # None => by_pub[n][k] \in Known(n)
        /\ saved[n].by_pub[k] # None => saved[n].peer_map[saved[n].by_pub[k]] # None

\* Whatever the order of datagrams, moves and restarts, whoever told it: a
\* key is bound only to addresses its holder has had, and an entry names
\* only a key whose holder has had that address.
BoundWhereItWas ==
    \A n \in Node, k \in Node :
        /\ by_pub[n][k] # None => by_pub[n][k] \in been[k]
        /\ \A a \in Known(n) : peer_map[n][a].key = k => a \in been[k]

\* The cookie kept for an address was made by a node that has been there,
\* for an address this node has had: what was answered to one peer is never
\* kept for another.
CookiesFit ==
    \A n \in Node : \A a \in Known(n) :
        LET c == peer_map[n][a].cookie
        IN  c # None => a \in been[c[1]] /\ c[2] \in been[n]

\* A key that is known moves to another address in a turn only when that
\* address is verified, or the holder's message was decrypted: whatever came
\* before in the datagram, signed or forwarded by others, `signed` never
\* outlives the proof.  So the second half of MayBind's last disjunct, which
\* was to follow a moved peer sooner, is never what decides.
SignedIsVerified == turn # None /\ turn.signed => ~turn.spoof

\* Once moves and losses end, peers that hear of each other find each other
\* where they are now: the node that moved goes on probing, and its peer
\* binds it again when the new cookie comes back signed.
Rebound == \A m, n \in Node : m # n => <>[](by_pub[m][n] = at[n])
=============================================================================

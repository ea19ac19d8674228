------------------------------ MODULE Gateway ------------------------------
(***************************************************************************)
(* Browsers at a node's web server (src/main.rs): http_clients,            *)
(* content_gateways, and the main loop that serves one ready source a      *)
(* turn, in a fixed order.  A browser asks for a range of a content that   *)
(* is in public/ or still being downloaded; its gateway writes what is     *)
(* there, as much as the socket takes, and is woken by the socket or by    *)
(* the next block.                                                         *)
(*                                                                         *)
(* The download itself is that of Inbound; here a missing block arrives    *)
(* when the loop gets to the network, and maintenance() publishes what is  *)
(* complete, begins it again or gives it up.  /latest/ is the subject of   *)
(* Latest, streams of Stream.                                              *)
(***************************************************************************)
EXTENDS Integers, Sequences, SequencesExt

CONSTANTS Conns,        \* connections of browsers
          Remote,       \* those that do not come from this machine
          Contents, Size,
          BlockSize,
          Ranges,       \* ranges asked for: [start, end, ranged], end 0: open
          RangeMax,     \* longest answer to a range
          Room,         \* what a socket takes before its browser reads
          MaxRequests   \* bound: requests of all browsers

ASSUME GatewayAssumption ==
    /\ Remote \subseteq Conns
    /\ Size \in [Contents -> Nat \ {0}]
    /\ BlockSize \in Nat \ {0} /\ RangeMax \in Nat \ {0} /\ Room \in Nat \ {0}
    /\ MaxRequests \in Nat
    \* a range begins inside the file: for one that begins after its end the
    \* slice in serve_mmap is out of bounds and the process ends
    /\ \A r \in Ranges : /\ r.start \in Nat /\ r.end \in Nat /\ r.ranged \in BOOLEAN
                         /\ \A c \in Contents : r.start < Size[c]
                         /\ r.end = 0 \/ r.start < r.end
                         /\ ~r.ranged => r.start = 0 /\ r.end = 0

VARIABLES backlog,    \* connections not yet accepted, in order
          clients,    \* http_clients, in order
          gateways,   \* content_gateways, in order
          request,    \* what the browser wrote and the node has not read
          hungUp,     \* connections closed by the browser
          room,       \* room in the socket's send buffer
          left,       \* announced and not yet written bytes of the answer
          budget,     \* requests the browser may still make (bound)
          public,     \* contents in public/
          bitmap,     \* blocks of contents being downloaded; Absent: no state
          failures    \* hash_failures of the download

vars == <<backlog, clients, gateways, request, hungUp, room, left, budget, public, bitmap,
          failures>>
downloads == <<public, bitmap, failures>>
sockets == <<request, hungUp, room, left, budget>>

NoRequest == [id |-> "none"]
Page == [id |-> "page"]             \* any request answered and dropped at once
Absent == {-1}
MaxFailures == 2                    \* with the third the download is given up
Blocks(c) == 0..((Size[c] - 1) \div BlockSize)

Get == {[id |-> c, start |-> r.start, end |-> r.end, ranged |-> r.ranged] :
           c \in Contents, r \in Ranges}
Gateways == [conn : Conns, id : Contents, start : Nat, end : Nat, ranged : BOOLEAN,
             waiting : BOOLEAN, done : BOOLEAN, header : BOOLEAN]

TypeOK ==
    /\ backlog \in Seq(Conns) /\ clients \in Seq(Conns)
    /\ gateways \in Seq(Gateways)
    /\ request \in [Conns -> Get \cup {NoRequest, Page}]
    /\ hungUp \subseteq Conns
    /\ room \in [Conns -> 0..Room]
    /\ left \in [Conns -> Int]
    /\ budget \in 0..MaxRequests
    /\ public \subseteq Contents
    /\ \A c \in Contents : bitmap[c] = Absent \/ bitmap[c] \subseteq Blocks(c)
    /\ failures \in [Contents -> 0..MaxFailures]

Init ==
    /\ backlog = <<>> /\ clients = <<>> /\ gateways = <<>>
    /\ request = [c \in Conns |-> NoRequest]
    /\ hungUp = {}
    /\ room = [c \in Conns |-> Room]
    /\ left = [c \in Conns |-> 0]
    /\ budget = MaxRequests
    /\ public \in SUBSET Contents
    /\ bitmap = [c \in Contents |-> Absent]
    /\ failures = [c \in Contents |-> 0]

OnGateway == {gateways[i].conn : i \in DOMAIN gateways}
Known == ToSet(backlog) \cup ToSet(clients) \cup OnGateway

Lower(a, b) == IF a < b THEN a ELSE b
Setmin(S) == CHOOSE x \in S : \A y \in S : x <= y

-----------------------------------------------------------------------------
(* One call on a gateway, as the gateway it leaves.  Calls on different    *)
(* gateways touch different sockets.                                       *)

\* Mutant of ServeMmap: the end of the range is not lowered with the answer.
ServeMmapUnclamped(g, avail) ==
    LET to == g.start + Lower(avail - g.start, room[g.conn])
        over == g.ranged /\ ~g.header /\ g.end - g.start > RangeMax
        end == IF over THEN g.start + RangeMax ELSE g.end
    IN  IF g.conn \in hungUp
        THEN [g EXCEPT !.header = TRUE, !.done = TRUE, !.waiting = FALSE]
        ELSE [g EXCEPT !.header = TRUE, !.end = end, !.start = to,
                       !.done = to = end, !.waiting = to # avail]

\* Mutant of ServeMmap: as if one write took everything.
ServeMmapWhole(g, avail) ==
    [g EXCEPT !.header = TRUE, !.start = avail, !.done = avail = g.end, !.waiting = FALSE]

(* serve_mmap: the header at first, with which a long range is cut; then   *)
(* one write.  A socket closed at the other end fails the write.           *)
ServeMmap(g, avail) ==
    LET cut == g.ranged /\ ~g.header /\ g.end - g.start > RangeMax
        end == IF cut THEN g.start + RangeMax ELSE g.end
        upto == IF cut THEN Lower(avail, end) ELSE avail
        to == g.start + Lower(upto - g.start, room[g.conn])
    IN  IF g.conn \in hungUp
        THEN [g EXCEPT !.header = TRUE, !.end = end, !.done = TRUE, !.waiting = FALSE]
        ELSE [g EXCEPT !.header = TRUE, !.end = end, !.start = to,
                       !.done = to = end, !.waiting = to # upto]

WithEnd(g) == [g EXCEPT !.end = IF @ = 0 \/ Size[g.id] < @ THEN Size[g.id] ELSE @]

FromDisk(g) == ServeMmap(WithEnd(g), WithEnd(g).end)

(* Up to the first block of the range that is missing.                     *)
AvailableEnd(g, bits) ==
    LET missing == {b \in Blocks(g.id) \ bits :
                      b >= g.start \div BlockSize /\ b * BlockSize < g.end}
    IN  IF missing = {} THEN g.end ELSE Setmin(missing) * BlockSize

\* Mutant of FromInbound: it is left to the next block to go on.
FromInboundForgets(g, bits) ==
    LET e == WithEnd(g)
        avail == AvailableEnd(e, bits)
    IN  IF g.done \/ bits = {} \/ avail <= g.start THEN [g EXCEPT !.waiting = FALSE]
        ELSE [ServeMmap(e, avail) EXCEPT !.waiting = FALSE]

FromInbound(g, bits) ==
    LET e == WithEnd(g)
        avail == AvailableEnd(e, bits)
    IN  IF g.done \/ bits = {} THEN [g EXCEPT !.waiting = FALSE]
        ELSE IF avail <= g.start THEN [e EXCEPT !.waiting = FALSE]
        ELSE ServeMmap(e, avail)

(* What the calls did to the sockets: `before' and `after' are the         *)
(* gateways, at the same places.                                           *)
Written(before, after) ==
    LET at(c) == CHOOSE i \in DOMAIN before : before[i].conn = c
        there == {before[i].conn : i \in DOMAIN before}
        n(c) == after[at(c)].start - before[at(c)].start
    IN  /\ room' = [c \in Conns |-> IF c \in there THEN room[c] - n(c) ELSE room[c]]
        /\ left' = [c \in Conns |->
              IF c \notin there THEN left[c]
              ELSE IF ~before[at(c)].header /\ after[at(c)].header
              THEN after[at(c)].end - after[at(c)].start
              ELSE left[c] - n(c)]

(* A remote browser does not start a download.                             *)
Refused(g) == g.id \notin public /\ bitmap[g.id] = Absent /\ g.conn \in Remote

(* serve_http_content(i) on the list gs: a done gateway leaves it and its  *)
(* socket is a client again.  One that is refused gets a 403, whatever it  *)
(* was sent before, and its socket is dropped with it.                     *)
ServeHttpContent(gs, i, clientsNow) ==
    LET g == gs[i]
        disk == g.id \in public
        bits == IF bitmap[g.id] = Absent THEN {} ELSE bitmap[g.id]
    IN  IF Refused(g)
        THEN /\ gateways' = RemoveAt(gs, i)
             /\ clients' = clientsNow
             /\ UNCHANGED <<room, left, bitmap>>
        ELSE \E after \in {IF disk THEN FromDisk(g) ELSE FromInbound(g, bits)} :
             /\ gateways' = IF after.done THEN RemoveAt(gs, i) ELSE [gs EXCEPT ![i] = after]
             /\ clients' = IF after.done THEN Append(clientsNow, g.conn) ELSE clientsNow
             /\ Written(gs, [gs EXCEPT ![i] = after])
             /\ bitmap' = IF disk THEN bitmap ELSE [bitmap EXCEPT ![g.id] = bits]

-----------------------------------------------------------------------------
(* The sources of the main loop, in its order.                             *)

Writable(i) == gateways[i].waiting /\ (room[gateways[i].conn] > 0 \/ gateways[i].conn \in hungUp)
Readable(k) == request[clients[k]] # NoRequest \/ clients[k] \in hungUp

WritableGateways == {i \in DOMAIN gateways : Writable(i)}
ReadableClients == {k \in DOMAIN clients : Readable(k)}

ServeGateway ==
    /\ WritableGateways # {}
    /\ LET i == Setmin(WritableGateways)
       IN  ~gateways[i].done /\ ServeHttpContent(gateways, i, clients)
    /\ UNCHANGED <<backlog, request, hungUp, budget, public, failures>>

Accept ==
    /\ WritableGateways = {} /\ backlog # <<>>
    /\ clients' = Append(clients, Head(backlog))
    /\ backlog' = Tail(backlog)
    /\ UNCHANGED <<gateways, sockets, downloads>>

(* handle_web_request: the socket leaves http_clients.  It is dropped if   *)
(* nothing can be read from it or the answer is a page.                    *)
HandleWebRequest ==
    /\ WritableGateways = {} /\ backlog = <<>> /\ ReadableClients # {}
    /\ LET k == Setmin(ReadableClients)
           c == clients[k]
           r == request[c]
           rest == RemoveAt(clients, k)
           g == [conn |-> c, id |-> r.id, start |-> r.start, end |-> r.end,
                 ranged |-> r.ranged, waiting |-> FALSE, done |-> FALSE, header |-> FALSE]
       IN  /\ request' = [request EXCEPT ![c] = NoRequest]
           /\ IF r \in {NoRequest, Page}
              THEN clients' = rest /\ UNCHANGED <<gateways, room, left, bitmap>>
              ELSE ServeHttpContent(Append(gateways, g), Len(gateways) + 1, rest)
    /\ UNCHANGED <<backlog, hungUp, budget, public, failures>>

(* A block arrives: the gateways on its content are served in order, up to *)
(* the first that is done; that one leaves and the loop ends with it.      *)
HandleNetwork(c, b) ==
    /\ WritableGateways = {} /\ backlog = <<>> /\ ReadableClients = {}
    /\ bitmap[c] # Absent /\ b \in Blocks(c) \ bitmap[c]
    /\ bitmap' = [bitmap EXCEPT ![c] = @ \cup {b}]
    /\ \E served \in {[i \in DOMAIN gateways |->
                        IF gateways[i].id = c THEN FromInbound(gateways[i], bitmap[c] \cup {b})
                        ELSE gateways[i]]} :
       LET dones == {i \in DOMAIN gateways : gateways[i].id = c /\ served[i].done}
           last == Setmin(dones)
           after == [i \in DOMAIN gateways |->
                       IF dones = {} \/ i <= last THEN served[i] ELSE gateways[i]]
       IN  /\ Written(gateways, after)
           /\ IF dones = {} THEN gateways' = after /\ UNCHANGED clients
              ELSE /\ gateways' = RemoveAt(after, last)
                   /\ clients' = Append(clients, gateways[last].conn)
    /\ UNCHANGED <<backlog, request, hungUp, budget, public, failures>>

\* The elements of s at the places in keep, in their order (one sequence).
Retained(s, keep) ==
    {[i \in 1..Cardinality(keep) |-> s[at[i]]] :
        at \in {f \in [1..Cardinality(keep) -> keep] :
                  \A i, j \in DOMAIN f : i < j => f[i] < f[j]}}

\* Mutant of Maintain: a gateway that waits for a block is garbage, too.
MaintainIdle ==
    /\ gateways' \in Retained(gateways, {i \in DOMAIN gateways :
                         gateways[i].waiting /\ gateways[i].conn \notin hungUp})
    /\ UNCHANGED <<backlog, clients, sockets, downloads>>

(* finished() and the retain after it: of the complete downloads those in  *)
(* moved are in public/ now, those in again failed their hash and begin    *)
(* with no block, those in dropped failed it for the last time or could    *)
(* not be renamed; the others are still being hashed.                      *)
Finished(moved, again, dropped) ==
    /\ \A c \in again : failures[c] < MaxFailures
    /\ public' = public \cup moved
    /\ bitmap' = [c \in Contents |-> IF c \in moved \cup dropped THEN Absent
                                     ELSE IF c \in again THEN {} ELSE bitmap[c]]
    /\ failures' = [c \in Contents |-> IF c \in moved \cup dropped THEN 0
                                       ELSE IF c \in again THEN failures[c] + 1 ELSE failures[c]]

(* maintenance(): gateways that are done or whose browser is gone are      *)
(* dropped; the complete downloads are finished.                           *)
Maintain ==
    /\ gateways' \in Retained(gateways, {i \in DOMAIN gateways :
                         ~gateways[i].done /\ gateways[i].conn \notin hungUp})
    /\ LET complete == {c \in Contents : bitmap[c] = Blocks(c)} IN
       \E moved \in SUBSET complete :
       \E again \in SUBSET (complete \ moved) :
       \E dropped \in SUBSET (complete \ (moved \cup again)) :
          Finished(moved, again, dropped)
    /\ UNCHANGED <<backlog, clients, sockets>>

-----------------------------------------------------------------------------
(* The browsers.                                                           *)

Connect(c) ==
    /\ c \notin Known /\ budget > 0
    /\ backlog' = Append(backlog, c)
    /\ hungUp' = hungUp \ {c}
    /\ request' = [request EXCEPT ![c] = NoRequest]
    /\ room' = [room EXCEPT ![c] = Room]
    /\ left' = [left EXCEPT ![c] = 0]
    /\ UNCHANGED <<clients, gateways, budget, downloads>>

(* A browser asks when it has its last answer.                             *)
Ask(c, r) ==
    /\ c \in ToSet(clients) /\ c \notin hungUp /\ request[c] = NoRequest
    /\ budget > 0
    /\ request' = [request EXCEPT ![c] = r]
    /\ budget' = budget - 1
    /\ UNCHANGED <<backlog, clients, gateways, hungUp, room, left, downloads>>

BrowserReads(c) ==
    /\ room[c] < Room
    /\ room' = [room EXCEPT ![c] = Room]
    /\ UNCHANGED <<backlog, clients, gateways, request, hungUp, left, budget, downloads>>

HangUp(c) ==
    /\ c \in Known \ hungUp
    /\ hungUp' = hungUp \cup {c}
    /\ UNCHANGED <<backlog, clients, gateways, request, room, left, budget, downloads>>

LocalTurn == ServeGateway \/ Accept \/ HandleWebRequest
NetworkTurn(c) == \E b \in Blocks(c) : HandleNetwork(c, b)

Next ==
    \/ LocalTurn
    \/ \E c \in Contents : NetworkTurn(c)
    \/ Maintain
    \/ \E c \in Conns :
          \/ Connect(c)
          \/ \E r \in Get \cup {Page} : Ask(c, r)
          \/ BrowserReads(c)
          \/ HangUp(c)

(* The loop turns for ever, browsers read their sockets, and peers keep    *)
(* sending what is missing.                                                *)
Fairness ==
    /\ WF_vars(LocalTurn)
    /\ \A c \in Contents : SF_vars(NetworkTurn(c))
    /\ \A c \in Conns : WF_vars(BrowserReads(c))

Spec == Init /\ [][Next]_vars /\ Fairness

-----------------------------------------------------------------------------
(* A browser gets exactly the bytes its header announced: what is left of  *)
(* them is what the gateway still has to write, and when the connection    *)
(* goes back to http_clients nothing is left, whatever mixture of disk,    *)
(* download and partial writes they came from.                             *)
AnnouncedIsSent ==
    /\ \A i \in DOMAIN gateways :
          LET g == gateways[i] IN
          g.header /\ ~g.done => left[g.conn] = g.end - g.start /\ left[g.conn] > 0
    /\ \A c \in ToSet(clients) \ hungUp : left[c] = 0

(* A connection is in one place, and no gateway that is done stays in      *)
(* content_gateways ("is this code ever called? why?", line 805).  A       *)
(* connection that leaves the gateways has its whole answer, unless its    *)
(* browser hung up, or is a remote one and the download it reads from was  *)
(* given up and not begun again: the code breaks that answer off with a    *)
(* 403 (841-845).                                                          *)
OnePlace ==
    /\ \A i, j \in DOMAIN gateways : gateways[i].conn = gateways[j].conn => i = j
    /\ OnGateway \cap ToSet(clients) = {}
    /\ \A i \in DOMAIN gateways : ~gateways[i].done

RefusedNow(c) == \E i \in DOMAIN gateways : gateways[i].conn = c /\ Refused(gateways[i])

WholeOrRefused ==
    \A c \in OnGateway \ (OnGateway' \cup hungUp) : left'[c] = 0 \/ RefusedNow(c)

ConnectionsKept == []OnePlace /\ [][WholeOrRefused]_vars

(* Of the browsers on a content that is being downloaded the one that      *)
(* asked first is served to its end (or hangs up), over any number of      *)
(* blocks, other browsers, requests and failed hashes, unless the download *)
(* is given up under it; so is every browser that waits for its own socket *)
(* when all blocks are there, unless a failed hash puts it behind another. *)
(* A browser behind another has no such promise: the loop of HandleNetwork *)
(* may end before it with the last block.  Nor has one whose download was  *)
(* given up: if it does not wait for its socket, its gateway is not called *)
(* again.                                                                  *)
Loading(c) == c \notin public /\ bitmap[c] # Blocks(c)

Behind(c) ==
    \E i \in DOMAIN gateways : \E j \in 1..(i - 1) :
        /\ gateways[i].conn = c /\ Loading(gateways[i].id)
        /\ gateways[j].id = gateways[i].id

Promised(c) ==
    \E i \in DOMAIN gateways :
        /\ gateways[i].conn = c /\ ~Behind(c)
        /\ Loading(gateways[i].id) \/ gateways[i].waiting

GivenUp(c) ==
    \E i \in DOMAIN gateways :
        /\ gateways[i].conn = c
        /\ gateways[i].id \notin public /\ bitmap[gateways[i].id] = Absent

FirstBrowserServed ==
    \A c \in Conns : Promised(c) ~> (c \notin OnGateway \/ GivenUp(c) \/ Behind(c))

=============================================================================

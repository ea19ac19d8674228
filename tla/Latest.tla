------------------------------- MODULE Latest -------------------------------
(***************************************************************************)
(* Updatable content: a file cjp2p/origin/<name> of one node, its owner,   *)
(* which other nodes find as /latest/<owner's key>/<name>.  The owner      *)
(* signs a Latest message that names the SHA-256 of the file and, as its   *)
(* sequence number, the second in which the file was last written; every   *)
(* node keeps the highest one it has seen in cjp2p/metadata/latest, hands  *)
(* it to whoever sends GetLatest, and has browsers wait 300 ms for a newer *)
(* one before it serves the content.  (GetLatest::receive,                 *)
(* SignedMessage::receive, Latest::receive, create_and_cache_latest, the   *)
(* /latest/ part of handle_web_request, unstall_getlatests.)               *)
(*                                                                         *)
(* The versions of the file are numbered in the order in which they are    *)
(* written; a number stands for the content and its SHA-256.  Signatures   *)
(* hold, so every Latest message is one that the owner signed.  Downloads  *)
(* by SHA-256 are those of module Inbound, here one step.                  *)
(***************************************************************************)
EXTENDS Integers

CONSTANTS
  Nodes,
  Owner,       \* the node that has the file and the key
  MaxVersion,  \* bound: the versions written
  MaxTime,     \* bound: the seconds that pass
  Faults       \* what goes wrong in this instance

AllFaults ==
  { "saveRace",    \* the file is saved while create_and_cache_latest copies it
    "publishFails",\* the copy, its rename or the write of the message fails
    "crash",       \* a node dies and is started again
    "tornWrite" }  \* it dies while it writes the cached message

ASSUME NodesAssumption == Owner \in Nodes
ASSUME BoundsAssumption == MaxVersion \in Nat /\ MaxTime \in Nat \ {0}
ASSUME FaultsAssumption == Faults \subseteq AllFaults

VARIABLES
  clock,    \* the second it is
  origin,   \* the version in the owner's cjp2p/origin/<name>; 0: no such file
  mtime,    \* mtime[v]: the second in which version v was written
  cache,    \* cache[n]: the message in cjp2p/metadata/latest/<owner>/<name>.json
  public,   \* public[n]: the versions in cjp2p/public/
  inbound,  \* inbound[n]: the versions being downloaded
  gateway,  \* gateway[n]: the browser waiting for the name
  asked,    \* GetLatest datagrams on their way: <<from, to>>
  sent      \* sent[n]: Latest datagrams that may arrive at n, in any order, repeatedly

vars == <<clock, origin, mtime, cache, public, inbound, gateway, asked, sent>>

file == <<clock, origin, mtime>>

Versions == 1 .. MaxVersion

\* The body of a Latest message.
Latests == [seq : 1 .. MaxTime, sha : Versions]

\* load_seq_from_latest_cache reads 0 from a missing and from an unreadable file.
NoFile == [seq |-> 0, sha |-> 0]

Torn == [seq |-> 0, sha |-> -1]

Readable(l) == l.sha > 0

\* A ContentGateway with pending_latest; floor is the version that was cached when
\* the browser asked, kept for the properties only.
Gateways ==
  [ id : {0} \cup Versions,           \* the SHA-256 to serve; 0: the empty string
    highest_version : -1 .. MaxTime,
    pending : BOOLEAN,                \* pending_latest is Some
    grace : BOOLEAN,                  \* delay_for_newest_until has not passed
    floor : {0} \cup Versions ]

NoGateway ==
  [id |-> 0, highest_version |-> -1, pending |-> FALSE, grace |-> FALSE, floor |-> 0]

Waiting(n) == gateway[n] # NoGateway

Init ==
  /\ clock = 1
  /\ origin = 0
  /\ mtime = [v \in Versions |-> 0]
  /\ cache = [n \in Nodes |-> NoFile]
  /\ public = [n \in Nodes |-> {}]
  /\ inbound = [n \in Nodes |-> {}]
  /\ gateway = [n \in Nodes |-> NoGateway]
  /\ asked = {}
  /\ sent = [n \in Nodes |-> {}]

-----------------------------------------------------------------------------
(* The owner's file.                                                        *)

Tick ==
  /\ clock < MaxTime
  /\ clock' = clock + 1
  /\ UNCHANGED <<origin, mtime, cache, public, inbound, gateway, asked, sent>>

\* The user writes a new version.
Save ==
  /\ origin < MaxVersion
  /\ origin' = origin + 1
  /\ mtime' = [mtime EXCEPT ![origin + 1] = clock]

Edit == Save /\ UNCHANGED <<clock, cache, public, inbound, gateway, asked, sent>>

\* GetLatest::receive looks at the file and finds the cached message outdated.
Outdated(n) ==
  /\ n = Owner
  /\ origin # 0
  /\ cache[n].seq < mtime[origin] \/ cache[n] = NoFile

\* Mutant of Publish: the time is read from the file that was copied.
PublishTimed(n, seq, v) ==
  /\ cache' = [cache EXCEPT ![n] = [seq |-> mtime'[origin'], sha |-> v]]
  /\ public' = [public EXCEPT ![n] = @ \cup {v}]

\* create_and_cache_latest: the copy is published under its hash, the message cached.
Publish(n, seq, v) ==
  /\ cache' = [cache EXCEPT ![n] = [seq |-> seq, sha |-> v]]
  /\ public' = [public EXCEPT ![n] = @ \cup {v}]

\* It gives up and leaves the cached message as it was.
PublishFails(n) ==
  /\ "publishFails" \in Faults
  /\ UNCHANGED <<origin, mtime, cache>>
  /\ public' \in {public, [public EXCEPT ![n] = @ \cup {origin}]}

\* The time is read before the copy: a version saved in between goes out with the
\* time of the one before it, or the copy is of the one before it.
Refresh(n) ==
  IF ~Outdated(n) THEN UNCHANGED <<origin, mtime, cache, public>>
  ELSE \/ UNCHANGED <<origin, mtime>> /\ Publish(n, mtime[origin], origin)
       \/ "saveRace" \in Faults /\ Save /\ Publish(n, mtime[origin], origin + 1)
       \/ "saveRace" \in Faults /\ Save /\ Publish(n, mtime[origin], origin)
       \/ PublishFails(n)

-----------------------------------------------------------------------------
(* Messages.                                                                *)

\* GetLatest::receive: m's request arrives at n, once or not for the last time, and
\* the answer is lost or will arrive.
ReceiveGetLatest(n, m) ==
  /\ <<m, n>> \in asked
  /\ Refresh(n)
  /\ asked' \in {asked, asked \ {<<m, n>>}}
  /\ sent' \in {sent} \cup
               (IF Readable(cache'[n])
                THEN {[sent EXCEPT ![m] = @ \cup {cache'[n]}]} ELSE {})
  /\ UNCHANGED <<clock, inbound, gateway>>

LoseGetLatest ==
  /\ \E r \in asked : asked' = asked \ {r}
  /\ UNCHANGED <<clock, origin, mtime, cache, public, inbound, gateway, sent>>

Newer(n, l) == l.seq > cache[n].seq

\* A browser in its 300 ms is going to be given l by Latest::receive.
PickedUp(n) == gateway[n].pending /\ gateway[n].grace

\* SignedMessage::receive fetches the update of a name that it knew before.
Fetches(n, l) ==
  /\ Newer(n, l)
  /\ cache[n].seq > 0
  /\ l.sha \notin public[n]
  /\ ~PickedUp(n)

\* Mutant of Redirected: the version the browser would get anyway is not looked at.
RedirectedAlways(g, l) == IF g.pending THEN [g EXCEPT !.id = l.sha] ELSE g

\* Latest::receive: what becomes of a gateway when l arrives.
Redirected(g, l) ==
  IF g.pending /\ g.highest_version < l.seq THEN [g EXCEPT !.id = l.sha] ELSE g

\* SignedMessage::receive and Latest::receive.
ReceiveLatest(n, l) ==
  /\ l \in sent[n]
  /\ cache' = [cache EXCEPT ![n] = IF Newer(n, l) THEN l ELSE @]
  /\ inbound' = [inbound EXCEPT ![n] = IF Fetches(n, l) THEN @ \cup {l.sha} ELSE @]
  /\ gateway' = [gateway EXCEPT ![n] = Redirected(@, l)]
  /\ UNCHANGED <<file, public, asked, sent>>

-----------------------------------------------------------------------------
(* Browsers.  Bound: one at a time waits at a node for the name.            *)

\* The gateway of a browser that asks when l is cached.
Opened(l) ==
  [ id |-> IF Readable(l) THEN l.sha ELSE 0,
    highest_version |-> IF Readable(l) THEN l.seq ELSE -1,
    pending |-> TRUE,
    grace |-> TRUE,
    floor |-> IF Readable(l) THEN l.sha ELSE 0 ]

\* handle_web_request: /latest/<key>/<name>.  The peers that are asked too are some
\* of those known; the owner does not ask.  A remote browser gets "403 Forbidden"
\* where nothing readable is cached.
Browse(n, peers) ==
  /\ ~Waiting(n)
  /\ peers # {} => n # Owner
  /\ Refresh(n)
  /\ \/ /\ gateway' = [gateway EXCEPT ![n] = Opened(cache'[n])]
        /\ asked' = asked \cup ({n} \X peers)
     \/ ~Readable(cache'[n]) /\ UNCHANGED <<gateway, asked>>
  /\ UNCHANGED <<clock, inbound, sent>>

\* The 300 ms are over.
GraceEnds(n) ==
  /\ gateway[n].grace
  /\ gateway' = [gateway EXCEPT ![n].grace = FALSE]
  /\ UNCHANGED <<file, cache, public, inbound, asked, sent>>

\* Mutant of unstall_getlatests: only browsers whose window is open are asked for.
unstall_in_grace(n, peers) ==
  /\ gateway[n].pending /\ gateway[n].id = 0 /\ gateway[n].grace
  /\ asked' = asked \cup ({n} \X peers)
  /\ UNCHANGED <<file, cache, public, inbound, gateway, sent>>

\* maintenance() asks again for a browser that has nothing to wait for yet.
unstall_getlatests(n, peers) ==
  /\ gateway[n].pending /\ gateway[n].id = 0
  /\ asked' = asked \cup ({n} \X peers)
  /\ UNCHANGED <<file, cache, public, inbound, gateway, sent>>

\* The main loop serves a browser whose 300 ms are over: from disk, or it starts
\* the download and the browser waits for that.
Serve(n) ==
  /\ gateway[n].pending /\ gateway[n].id # 0 /\ ~gateway[n].grace
  /\ IF gateway[n].id \in public[n]
     THEN /\ gateway' = [gateway EXCEPT ![n] = NoGateway]
          /\ UNCHANGED inbound
     ELSE /\ gateway' = [gateway EXCEPT ![n].pending = FALSE]
          /\ inbound' = [inbound EXCEPT ![n] = @ \cup {gateway[n].id}]
  /\ UNCHANGED <<file, cache, public, asked, sent>>

\* A download ends, possible while another node has the content; a browser that
\* waits for it is served.
Downloaded(n, v) ==
  /\ v \in inbound[n]
  /\ \E m \in Nodes \ {n} : v \in public[m]
  /\ public' = [public EXCEPT ![n] = @ \cup {v}]
  /\ inbound' = [inbound EXCEPT ![n] = @ \ {v}]
  /\ gateway' = IF ~gateway[n].pending /\ gateway[n].id = v
                THEN [gateway EXCEPT ![n] = NoGateway] ELSE gateway
  /\ UNCHANGED <<file, cache, asked, sent>>

\* The browser hangs up; maintenance() removes its gateway.
HangUp(n) ==
  /\ Waiting(n)
  /\ gateway' = [gateway EXCEPT ![n] = NoGateway]
  /\ UNCHANGED <<file, cache, public, inbound, asked, sent>>

-----------------------------------------------------------------------------
(* Faults.                                                                  *)

\* The process is started again: what is on disk is left.
Restarted(n) ==
  /\ inbound' = [inbound EXCEPT ![n] = {}]
  /\ gateway' = [gateway EXCEPT ![n] = NoGateway]

Crash(n) ==
  /\ "crash" \in Faults
  /\ inbound[n] # {} \/ Waiting(n)
  /\ Restarted(n)
  /\ UNCHANGED <<file, cache, public, asked, sent>>

\* It dies in the fs::write of the cached message, of its own or of another's.
TearCache(n) ==
  /\ "tornWrite" \in Faults
  /\ \/ \E l \in sent[n] : Newer(n, l) /\ UNCHANGED public
     \/ Outdated(n) /\ public' = [public EXCEPT ![n] = @ \cup {origin}]
  /\ cache' = [cache EXCEPT ![n] = Torn]
  /\ Restarted(n)
  /\ UNCHANGED <<file, asked, sent>>

-----------------------------------------------------------------------------
Next ==
  \/ Tick
  \/ Edit
  \/ LoseGetLatest
  \/ \E n, m \in Nodes : ReceiveGetLatest(n, m)
  \/ \E n \in Nodes, l \in Latests : ReceiveLatest(n, l)
  \/ \E n \in Nodes : \E peers \in SUBSET (Nodes \ {n}) :
       Browse(n, peers) \/ unstall_getlatests(n, peers)
  \/ \E n \in Nodes : GraceEnds(n) \/ Serve(n) \/ HangUp(n) \/ Crash(n) \/ TearCache(n)
  \/ \E n \in Nodes, v \in Versions : Downloaded(n, v)

Spec == Init /\ [][Next]_vars

\* The owner answers n and the answer is not lost.
Answered(n) == ReceiveGetLatest(Owner, n) /\ sent'[n] # sent[n]

\* The main loop and its maintenance() keep running; the random choice of peers and
\* the network let a question through to the owner and its answer back, sometimes.
Fairness ==
  /\ \A n \in Nodes :
       /\ WF_vars(GraceEnds(n))
       /\ WF_vars(Serve(n))
       /\ SF_vars(unstall_getlatests(n, {Owner}))
       /\ SF_vars(Answered(n))
       /\ \A l \in Latests : WF_vars(ReceiveLatest(n, l))
       /\ \A v \in Versions : WF_vars(Downloaded(n, v))

FairSpec == Spec /\ Fairness

-----------------------------------------------------------------------------
(* Properties.                                                              *)

\* The type invariant of the module's variables.
TypeOK ==
  /\ clock \in 1 .. MaxTime
  /\ origin \in 0 .. MaxVersion
  /\ mtime \in [Versions -> 0 .. MaxTime]
  /\ cache \in [Nodes -> Latests \cup {NoFile, Torn}]
  /\ public \in [Nodes -> SUBSET Versions]
  /\ inbound \in [Nodes -> SUBSET Versions]
  /\ gateway \in [Nodes -> Gateways]
  /\ asked \subseteq Nodes \X Nodes
  /\ sent \in [Nodes -> SUBSET Latests]

\* When the owner's cached message no longer looks outdated, it names the version
\* that is in the file, or one written in the same second: a version that is saved
\* while the file is copied is not lost.
NoEditMissed ==
  Readable(cache[Owner]) /\ origin # 0 /\ ~Outdated(Owner) =>
    mtime[cache[Owner].sha] >= mtime[origin]

\* No message that arrives, however late, sends a browser to a version older than
\* the one its node had when it asked.
NotBeforeCached ==
  \A n \in Nodes : gateway[n].id = 0 \/ gateway[n].id >= gateway[n].floor

\* A browser that asks for a file that exists is answered in the end, though
\* questions and answers are lost and its node may know nothing yet.
BrowsersServed ==
  \A n \in Nodes \ {Owner} : Waiting(n) /\ origin # 0 ~> ~Waiting(n)
=============================================================================

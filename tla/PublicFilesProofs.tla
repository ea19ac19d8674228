------------------------- MODULE PublicFilesProofs -------------------------
(***************************************************************************)
(* Theorems about PublicFiles, for any number of threads, blocks and       *)
(* crashes: the names of an upload that was answered are not lost to the   *)
(* threads that remove and link names of the same content.                 *)
(***************************************************************************)
EXTENDS PublicFiles, TLAPS

-----------------------------------------------------------------------------
(* The hypothesis.                                                         *)

\* /share beside a SHA-256 download meets no blake3 download of the same content and no
\* second /share of it: of two threads that check the same name before either removes
\* it, one would remove what the other went by.
Apart ==
    \A team \in Teams, t, u, v \in Thread :
        team[t] = "sha256" /\ team[u] = "share" /\ team[v] \in {"share", "blake3"} => u = v

-----------------------------------------------------------------------------
(* The invariant.                                                          *)

Whole == {"file", "user"}           \* what a name must lead to
Replacing == {"remove", "hard", "sym"}
Working == {"tree", "exists"} \cup Replacing

Blake3Name(k) == public["blake3"][k]
Sha256Name(k) == public["sha256"][k]
OneWhole(k) == Blake3Name(k) \in Whole \/ Sha256Name(k) \in Whole
\* Thread t is at one of pcs, about the name of content k in directory d.
At(t, k, d, pcs) == thread[t].size = k /\ thread[t].dest = d /\ thread[t].pc \in pcs
HasSha256 == \E t \in Thread : job[t] = "sha256"

\* Threads that link the blake3 name, or remove it if it leads nowhere ...
ShaWorking(t, k) == job[t] = "sha256" /\ At(t, k, "blake3", Working)
ShaReplacing(t, k) == job[t] = "sha256" /\ At(t, k, "blake3", Replacing)
ShareReplacing(t, k) == job[t] = "share" /\ At(t, k, "blake3", Replacing)
\* ... and the SHA-256 name.
FollowChecking(t, k) == job[t] \in {"blake3", "share"} /\ At(t, k, "sha256", {"exists"})
FollowReplacing(t, k) == job[t] \in {"blake3", "share"} /\ At(t, k, "sha256", Replacing)

\* What a thread is at tells its job, and which name it is about.
Jobbed(t) ==
    LET pc == thread[t].pc
        about(d) == thread[t].dest = d
    IN  \/ pc = "gone"
        \/ pc = "start" /\ about("blake3")
        \/ /\ job[t] = "upload"
           /\ \/ pc = "rename" /\ about("blake3")
              \/ pc \in {"hard", "sym", "tree", "answer", "done"} /\ about("sha256")
        \/ /\ job[t] = "share"
           /\ \/ pc = "tree" /\ about("blake3")
              \/ pc = "exists" \/ pc \in Replacing
              \/ pc = "done" /\ about("sha256")
        \/ job[t] = "blake3" /\ (pc \in Replacing \/ pc \in {"exists", "done"}) /\ about("sha256")
        \/ job[t] = "sha256" /\ (pc \in Working \/ pc = "done") /\ about("blake3")
        \/ job[t] = "small" /\ pc = "done"

\* The names never go round in a circle or lead outside.
NamesOf(k) ==
    /\ Blake3Name(k) \in {None, "sha256"} \cup Whole
    /\ Sha256Name(k) \in {None, "blake3"} \cup Whole
    /\ Blake3Name(k) = "sha256" => Sha256Name(k) \in Whole /\ HasSha256

\* A thread that may remove one of the names has the other to link it to.
SourceStays(k) ==
    \A t \in Thread :
       /\ ShaWorking(t, k) => OneWhole(k)
       /\ ShaReplacing(t, k) => /\ Sha256Name(k) \in Whole
                                /\ \A u \in Thread : ~FollowReplacing(u, k)
       /\ HasSha256 /\ FollowChecking(t, k) => OneWhole(k)
       /\ HasSha256 /\ FollowReplacing(t, k) => Blake3Name(k) \in Whole
       /\ ShareReplacing(t, k) =>
             \A u \in Thread : ShaWorking(u, k) => Sha256Name(k) \in Whole

\* Thread t has made, or found, the name of its content in directory d.
Reached(t, d) ==
    LET pc == thread[t].pc IN
    \/ pc = "done" /\ (job[t] # "small" \/ d = "sha256")
    \/ /\ job[t] = "upload"
       /\ pc \in {"tree", "answer"} \/ (pc \in {"hard", "sym"} /\ d = "blake3")
    \/ job[t] = "share" /\ d = "blake3" /\ thread[t].dest = "sha256" /\ pc # "gone"
    \/ job[t] = "blake3" /\ d = "blake3" /\ pc \notin {"start", "gone"}
    \/ job[t] = "sha256" /\ d = "sha256" /\ pc \notin {"start", "gone"}

\* A name that was made, or that the other is a link to, is there, or is being replaced, or was at a crash.
Named(k) ==
    \A d \in Dirs :
        (\/ k \in answered \/ \E t \in Thread : thread[t].size = k /\ Reached(t, d)
         \/ d = "blake3" /\ Sha256Name(k) = "blake3")
            => \/ public[d][k] # None
               \/ k \in torn
               \/ \E t \in Thread : At(t, k, d, {"hard", "sym"})

TreeFirst(t) == job[t] = "upload" /\ thread[t].pc = "answer" => thread[t].size \in trees

Inv ==
    /\ TypeOK
    /\ \A t \in Thread : Jobbed(t) /\ TreeFirst(t)
    /\ answered \subseteq trees
    /\ crashes = 0 => torn = {}
    /\ \A k \in Sizes : NamesOf(k) /\ SourceStays(k) /\ Named(k)

-----------------------------------------------------------------------------
(* Steps of one thread.                                                    *)

\* A step of t: what it makes of the thread, and that it is a step of no other.
Moved(t, x) ==
    /\ t \in Thread /\ x \in State /\ job' = job
    /\ thread' \in [Thread -> State] /\ thread'[t] = x
    /\ \A u \in Thread \ {t} : thread'[u] = thread[u]

\* The name of content k in directory d becomes e.
Put(d, k, e) ==
    /\ public' \in [Dirs -> [Sizes -> Entry]]
    /\ \A d2 \in Dirs, k2 \in Sizes :
          public'[d2][k2] = IF d2 = d /\ k2 = k THEN e ELSE public[d2][k2]

\* A changed thread is one step of that thread.
LEMMA MovedFacts ==
  ASSUME thread \in [Thread -> State], NEW t \in Thread, NEW x \in State, job' = job,
         thread' = [thread EXCEPT ![t] = x]
  PROVE  Moved(t, x)
BY DEF Moved

\* A changed name is one name.
LEMMA PutFacts ==
  ASSUME public \in [Dirs -> [Sizes -> Entry]], NEW d \in Dirs, NEW k \in Sizes, NEW e \in Entry,
         public' = [public EXCEPT ![d][k] = e]
  PROVE  Put(d, k, e)
<1>1. public' \in [Dirs -> [Sizes -> Entry]]
  OBVIOUS
<1>2. ASSUME NEW d2 \in Dirs, NEW k2 \in Sizes
      PROVE  public'[d2][k2] = IF d2 = d /\ k2 = k THEN e ELSE public[d2][k2]
  OBVIOUS
<1> QED
  BY <1>1, <1>2 DEF Put

\* A step after which t may remove nothing it might not before, and both names lead
\* somewhere if they did, keeps the sources.
LEMMA StaysMore ==
  ASSUME NEW k, SourceStays(k), NEW t \in Thread, NEW x, Moved(t, x),
         ShaWorking(t, k)' => ShaWorking(t, k) \/ Sha256Name(k)' \in Whole,
         ShaReplacing(t, k)' => ShaReplacing(t, k),
         ShareReplacing(t, k)' => ShareReplacing(t, k),
         FollowChecking(t, k)' => FollowChecking(t, k) \/ OneWhole(k)',
         FollowReplacing(t, k)' => FollowReplacing(t, k),
         Blake3Name(k) \in Whole => Blake3Name(k)' \in Whole,
         Sha256Name(k) \in Whole => Sha256Name(k)' \in Whole
  PROVE  SourceStays(k)'
<1>1. ASSUME NEW u \in Thread \ {t}
      PROVE  /\ ShaWorking(u, k)' = ShaWorking(u, k)
             /\ ShaReplacing(u, k)' = ShaReplacing(u, k)
             /\ ShareReplacing(u, k)' = ShareReplacing(u, k)
             /\ FollowChecking(u, k)' = FollowChecking(u, k)
             /\ FollowReplacing(u, k)' = FollowReplacing(u, k)
  BY DEF Moved, ShaWorking, ShaReplacing, ShareReplacing, FollowChecking, FollowReplacing, At
<1>2. HasSha256' = HasSha256
  BY DEF Moved, HasSha256
<1>3. OneWhole(k) => OneWhole(k)'
  BY DEF OneWhole
<1>4. Sha256Name(k)' \in Whole => OneWhole(k)'
  BY DEF OneWhole
<1>5. \A u \in Thread :
        /\ ShaWorking(u, k)' => ShaWorking(u, k) \/ Sha256Name(k)' \in Whole
        /\ ShaReplacing(u, k)' => ShaReplacing(u, k)
        /\ ShareReplacing(u, k)' => ShareReplacing(u, k)
        /\ FollowChecking(u, k)' => FollowChecking(u, k) \/ OneWhole(k)'
        /\ FollowReplacing(u, k)' => FollowReplacing(u, k)
  BY <1>1
<1> QED
  BY <1>2, <1>3, <1>4, <1>5 DEF SourceStays

\* A step that makes a name before it claims it, and removes none, keeps what was named.
LEMMA NamedMore ==
  ASSUME NEW k, Named(k), NEW t \in Thread, NEW x, Moved(t, x), torn' = torn,
         \A d \in Dirs : thread'[t].size = k /\ Reached(t, d)' =>
           (thread[t].size = k /\ Reached(t, d)) \/ public'[d][k] # None,
         k \in answered' => k \in answered \/ \A d \in Dirs : thread[t].size = k /\ Reached(t, d),
         Sha256Name(k)' = "blake3" =>
           Sha256Name(k) = "blake3" \/ (thread[t].size = k /\ Reached(t, "blake3")),
         \A d \in Dirs : public[d][k] # None => public'[d][k] # None \/ At(t, k, d, {"hard", "sym"})',
         \A d \in Dirs : At(t, k, d, {"hard", "sym"}) =>
           At(t, k, d, {"hard", "sym"})' \/ public'[d][k] # None
  PROVE  Named(k)'
<1> SUFFICES ASSUME NEW d \in Dirs,
                    \/ k \in answered' \/ \E u \in Thread : thread'[u].size = k /\ Reached(u, d)'
                    \/ d = "blake3" /\ Sha256Name(k)' = "blake3",
                    public'[d][k] = None
             PROVE  k \in torn \/ \E u \in Thread : At(u, k, d, {"hard", "sym"})'
  BY DEF Named
<1>1. \A u \in Thread \ {t} : /\ thread'[u] = thread[u] /\ Reached(u, d)' = Reached(u, d)
                              /\ At(u, k, d, {"hard", "sym"})' = At(u, k, d, {"hard", "sym"})
  BY DEF Moved, Reached, At
<1>2. \/ k \in answered \/ \E u \in Thread : thread[u].size = k /\ Reached(u, d)
      \/ d = "blake3" /\ Sha256Name(k) = "blake3"
  BY <1>1
<1>3. public[d][k] # None \/ k \in torn \/ \E u \in Thread : At(u, k, d, {"hard", "sym"})
  BY <1>2 DEF Named
<1> QED
  BY <1>1, <1>3

\* The invariant after a step of t, from its parts.
LEMMA StepInv ==
  ASSUME Inv, NEW t, NEW x, Moved(t, x), Jobbed(t)', TreeFirst(t)',
         public' \in [Dirs -> [Sizes -> Entry]], trees' \subseteq Sizes, trees \subseteq trees',
         answered' \subseteq trees', UNCHANGED <<hard_links, torn, crashes>>,
         \A k \in Sizes : NamesOf(k)' /\ SourceStays(k)' /\ Named(k)'
  PROVE  Inv'
<1>1. \A u \in Thread : Jobbed(u)' /\ TreeFirst(u)'
  <2> SUFFICES ASSUME NEW u \in Thread \ {t} PROVE Jobbed(u)' /\ TreeFirst(u)'
    OBVIOUS
  <2>1. thread'[u] = thread[u] /\ job' = job
    BY DEF Moved
  <2>2. Jobbed(u) /\ TreeFirst(u)
    BY DEF Inv
  <2>3. Jobbed(u)'
    BY <2>1, <2>2 DEF Jobbed
  <2>4. TreeFirst(u)'
    BY <2>1, <2>2 DEF TreeFirst
  <2> QED
    BY <2>3, <2>4
<1>2. TypeOK'
  BY DEF Inv, TypeOK, Moved
<1>3. (crashes = 0 => torn = {})' /\ (answered \subseteq trees)'
  BY DEF Inv
<1> QED
  BY <1>1, <1>2, <1>3 DEF Inv

\* The parts of the invariant and the state a step starts from.
LEMMA Before ==
  ASSUME Inv, NEW t \in Thread
  PROVE  /\ job[t] \in Jobs /\ thread \in [Thread -> State] /\ thread[t] \in State
         /\ thread[t].size \in Sizes /\ thread[t].dest \in Dirs /\ thread[t].pc \in Pcs
         /\ public \in [Dirs -> [Sizes -> Entry]] /\ trees \subseteq Sizes /\ answered \subseteq trees
         /\ Jobbed(t) /\ TreeFirst(t)
         /\ \A k \in Sizes : NamesOf(k) /\ SourceStays(k) /\ Named(k)
<1>1. job \in [Thread -> Jobs]
  BY PublicFilesAssumption DEF Inv, TypeOK
<1> QED
  BY <1>1 DEF Inv, TypeOK, State

\* A step to another pc that changes no name.
LEMMA GotoFacts ==
  ASSUME thread \in [Thread -> State], NEW t \in Thread, NEW pc \in Pcs, Goto(t, pc), job' = job
  PROVE  /\ Moved(t, [thread[t] EXCEPT !.pc = pc])
         /\ thread'[t].pc = pc /\ thread'[t].size = thread[t].size
         /\ thread'[t].dest = thread[t].dest
<1> DEFINE x == [thread[t] EXCEPT !.pc = pc]
<1>1. x \in State /\ x.pc = pc /\ x.size = thread[t].size /\ x.dest = thread[t].dest
  BY DEF State
<1>2. thread' = [thread EXCEPT ![t] = x]
  BY DEF Goto
<1> HIDE DEF x
<1>3. Moved(t, x)
  BY <1>1, <1>2, MovedFacts
<1> QED
  BY <1>1, <1>3 DEF Moved, x

\* The body of an upload arrives: a thread that was about nothing begins.
LEMMA ReceiveStep == ASSUME NEW t \in Thread, Inv, Receive(t) PROVE Inv'
<1>1. /\ thread[t].pc = "start" /\ job[t] = "upload"
      /\ UNCHANGED <<job, public, trees, hard_links, answered, torn, crashes>>
  BY DEF Receive
<1>2. \E x \in State : /\ thread' = [thread EXCEPT ![t] = x]
                       /\ x.pc \in {"rename", "gone"} /\ x.dest = thread[t].dest
  <2>1. ASSUME NEW k \in Sizes,
               thread' = [thread EXCEPT ![t].size = k,
                            ![t].pc = IF k = 1 /\ Leaves > 1 THEN "gone" ELSE "rename"]
        PROVE  \E x \in State : /\ thread' = [thread EXCEPT ![t] = x]
                                /\ x.pc \in {"rename", "gone"} /\ x.dest = thread[t].dest
    <3> DEFINE x == [thread[t] EXCEPT !.size = k,
                       !.pc = IF k = 1 /\ Leaves > 1 THEN "gone" ELSE "rename"]
    <3>1. x \in State /\ x.pc \in {"rename", "gone"} /\ x.dest = thread[t].dest
      BY Before DEF State, Pcs
    <3>2. thread' = [thread EXCEPT ![t] = x]
      BY <2>1, Before
    <3> QED
      BY <3>1, <3>2
  <2>2. ASSUME Goto(t, "gone")
        PROVE  \E x \in State : /\ thread' = [thread EXCEPT ![t] = x]
                                /\ x.pc \in {"rename", "gone"} /\ x.dest = thread[t].dest
    <3> DEFINE x == [thread[t] EXCEPT !.pc = "gone"]
    <3>1. x \in State /\ x.pc = "gone" /\ x.dest = thread[t].dest
      BY Before DEF State, Pcs
    <3>2. thread' = [thread EXCEPT ![t] = x]
      BY <2>2 DEF Goto
    <3> QED
      BY <3>1, <3>2
  <2> QED
    BY <2>1, <2>2 DEF Receive
<1>3. PICK x \in State : /\ thread' = [thread EXCEPT ![t] = x]
                         /\ x.pc \in {"rename", "gone"} /\ x.dest = thread[t].dest
  BY <1>2
<1>4. Moved(t, x)
  BY <1>1, <1>3, Before, MovedFacts
<1>5. /\ thread'[t].pc \in {"rename", "gone"} /\ thread'[t].dest = "blake3"
      /\ job' = job /\ public' = public
  <2>1. thread[t].dest = "blake3"
    BY <1>1, Before DEF Jobbed, Replacing, Working
  <2> QED
    BY <1>1, <1>3, <1>4, <2>1 DEF Moved
<1>6. Jobbed(t)' /\ TreeFirst(t)'
  BY <1>1, <1>5 DEF Jobbed, TreeFirst
<1>7. ASSUME NEW k \in Sizes PROVE NamesOf(k)' /\ SourceStays(k)' /\ Named(k)'
  <2>1. NamesOf(k) /\ SourceStays(k) /\ Named(k)
    BY Before
  <2>2. NamesOf(k)'
    BY <1>5, <2>1 DEF NamesOf, Blake3Name, Sha256Name, HasSha256
  <2>3. SourceStays(k)'
    <3>1. /\ ~ShaWorking(t, k)' /\ ~ShaReplacing(t, k)' /\ ~ShareReplacing(t, k)'
          /\ ~FollowChecking(t, k)' /\ ~FollowReplacing(t, k)'
      BY <1>1, <1>5 DEF ShaWorking, ShaReplacing, ShareReplacing, FollowChecking, FollowReplacing
    <3>2. Blake3Name(k)' = Blake3Name(k) /\ Sha256Name(k)' = Sha256Name(k)
      BY <1>5 DEF Blake3Name, Sha256Name
    <3> QED
      BY <1>4, <2>1, <3>1, <3>2, StaysMore
  <2>4. Named(k)'
    <3>1. \A d \in Dirs : ~Reached(t, d)' /\ ~At(t, k, d, {"hard", "sym"})
      BY <1>1, <1>5 DEF Reached, At
    <3>2. torn' = torn /\ answered' = answered
      BY <1>1
    <3>3. Sha256Name(k)' = Sha256Name(k)
      BY <1>5 DEF Sha256Name
    <3> QED
      BY <1>4, <1>5, <2>1, <3>1, <3>2, <3>3, NamedMore
  <2> QED
    BY <2>2, <2>3, <2>4
<1> QED
  <2>1. /\ public' \in [Dirs -> [Sizes -> Entry]] /\ trees' \subseteq Sizes /\ trees \subseteq trees'
        /\ answered' \subseteq trees' /\ UNCHANGED <<hard_links, torn, crashes>>
    BY <1>1, Before
  <2> QED
    BY <1>4, <1>6, <1>7, <2>1, StepInv

\* A step that changes no name: it removes nothing it might not remove before, and
\* claims only what is there.
LEMMA QuietStep ==
  ASSUME Inv, NEW t \in Thread, NEW x, Moved(t, x), Jobbed(t)', TreeFirst(t)',
         UNCHANGED <<public, hard_links, torn, crashes>>,
         trees' \subseteq Sizes, trees \subseteq trees', answered' \subseteq trees',
         \A k \in Sizes :
           /\ ShaWorking(t, k)' => ShaWorking(t, k)
           /\ ShaReplacing(t, k)' => ShaReplacing(t, k)
           /\ ShareReplacing(t, k)' => ShareReplacing(t, k)
           /\ FollowChecking(t, k)' => FollowChecking(t, k) \/ OneWhole(k)
           /\ FollowReplacing(t, k)' => FollowReplacing(t, k)
           /\ k \in answered' => k \in answered \/ \A d \in Dirs : thread[t].size = k /\ Reached(t, d),
         \A k \in Sizes, d \in Dirs :
           /\ thread'[t].size = k /\ Reached(t, d)' =>
                (thread[t].size = k /\ Reached(t, d)) \/ public[d][k] # None
           /\ At(t, k, d, {"hard", "sym"}) =>
                At(t, k, d, {"hard", "sym"})' \/ public[d][k] # None
  PROVE  Inv'
<1>1. ASSUME NEW k \in Sizes PROVE NamesOf(k)' /\ SourceStays(k)' /\ Named(k)'
  <2>1. NamesOf(k) /\ SourceStays(k) /\ Named(k)
    BY Before
  <2>2. NamesOf(k)'
    BY <2>1 DEF NamesOf, Blake3Name, Sha256Name, HasSha256, Moved
  <2>3. SourceStays(k)'
    <3>1. /\ Blake3Name(k)' = Blake3Name(k) /\ Sha256Name(k)' = Sha256Name(k)
          /\ OneWhole(k)' = OneWhole(k)
      BY DEF Blake3Name, Sha256Name, OneWhole
    <3>2. /\ ShaWorking(t, k)' => ShaWorking(t, k)
          /\ ShaReplacing(t, k)' => ShaReplacing(t, k)
          /\ ShareReplacing(t, k)' => ShareReplacing(t, k)
          /\ FollowChecking(t, k)' => FollowChecking(t, k) \/ OneWhole(k)
          /\ FollowReplacing(t, k)' => FollowReplacing(t, k)
      OBVIOUS
    <3> QED
      BY <2>1, <3>1, <3>2, StaysMore
  <2>4. Named(k)'
    <3>1. torn' = torn /\ public' = public
      OBVIOUS
    <3>2. k \in answered' => k \in answered \/ \A d \in Dirs : thread[t].size = k /\ Reached(t, d)
      OBVIOUS
    <3>3. \A d \in Dirs : /\ thread'[t].size = k /\ Reached(t, d)' =>
                               (thread[t].size = k /\ Reached(t, d)) \/ public'[d][k] # None
                          /\ At(t, k, d, {"hard", "sym"}) =>
                               At(t, k, d, {"hard", "sym"})' \/ public'[d][k] # None
      BY <3>1
    <3>4. Sha256Name(k)' = Sha256Name(k)
      BY <3>1 DEF Sha256Name
    <3> QED
      BY <2>1, <3>1, <3>2, <3>3, <3>4, NamedMore
  <2> QED
    BY <2>2, <2>3, <2>4
<1>2. public' \in [Dirs -> [Sizes -> Entry]]
  BY DEF Inv, TypeOK
<1> QED
  BY <1>1, <1>2, StepInv

\* /share begins with the tree.
LEMMA ShareStep == ASSUME NEW t \in Thread, Inv, Share(t) PROVE Inv'
<1>1. /\ thread[t].pc = "start" /\ job[t] = "share" /\ Goto(t, "tree")
      /\ UNCHANGED <<job, public, trees, hard_links, answered, torn, crashes>>
  BY DEF Share
<1>2. /\ Moved(t, [thread[t] EXCEPT !.pc = "tree"])
      /\ thread'[t].pc = "tree" /\ thread'[t].size = thread[t].size
      /\ thread'[t].dest = thread[t].dest
  BY <1>1, Before, GotoFacts DEF Pcs
<1>3. thread[t].dest = "blake3" /\ job' = job
  BY <1>1, Before DEF Jobbed, Replacing, Working
<1>4. Jobbed(t)' /\ TreeFirst(t)'
  BY <1>1, <1>2, <1>3 DEF Jobbed, TreeFirst
<1>5. \A k \in Sizes :
           /\ ~ShaWorking(t, k)' /\ ~ShaReplacing(t, k)' /\ ~ShareReplacing(t, k)'
           /\ ~FollowChecking(t, k)' /\ ~FollowReplacing(t, k)'
  BY <1>1, <1>2, <1>3
     DEF ShaWorking, ShaReplacing, ShareReplacing, FollowChecking, FollowReplacing, At, Replacing
<1>6. \A k \in Sizes, d \in Dirs : ~Reached(t, d)' /\ ~At(t, k, d, {"hard", "sym"})
  BY <1>1, <1>2, <1>3 DEF Reached, At
<1>7. /\ trees' \subseteq Sizes /\ trees \subseteq trees' /\ answered' \subseteq trees'
      /\ answered' = answered
  BY <1>1, Before
<1> QED
  BY <1>1, <1>2, <1>4, <1>5, <1>6, <1>7, QuietStep

\* A download whose file was removed by a thread that has the other name to link it to.
LEMMA NoTree ==
  ASSUME NEW t \in Thread, Inv, thread[t].pc = "tree", Goto(t, "done"),
         job[t] = "sha256", ~Exists("sha256", thread[t].size),
         UNCHANGED <<job, public, trees, hard_links, answered, torn, crashes>>
  PROVE  Inv'
<1>1. /\ Moved(t, [thread[t] EXCEPT !.pc = "done"])
      /\ thread'[t].pc = "done" /\ thread'[t].size = thread[t].size
      /\ thread'[t].dest = thread[t].dest
  BY Before, GotoFacts DEF Pcs
<1>2. job' = job /\ trees \subseteq Sizes /\ answered \subseteq trees /\ thread[t].size \in Sizes
      /\ thread[t].dest = "blake3"
  BY Before DEF Jobbed, Replacing, Working
<1>3. Jobbed(t)' /\ TreeFirst(t)'
  BY <1>1, <1>2 DEF Jobbed, TreeFirst
<1>4. \A k \in Sizes :
           /\ ~ShaWorking(t, k)' /\ ~ShaReplacing(t, k)' /\ ~ShareReplacing(t, k)'
           /\ ~FollowChecking(t, k)' /\ ~FollowReplacing(t, k)'
  BY <1>1, <1>2
     DEF ShaWorking, ShaReplacing, ShareReplacing, FollowChecking, FollowReplacing, At, Replacing,
         Working
<1>5. public["blake3"][thread[t].size] # None
  <2>1. OneWhole(thread[t].size)
    BY <1>2, Before DEF SourceStays, ShaWorking, At, Working
  <2> QED
    BY <2>1, PublicFilesAssumption DEF OneWhole, Exists, Blake3Name, Sha256Name, Whole
<1>6. ASSUME NEW k \in Sizes, NEW d \in Dirs
      PROVE  /\ thread'[t].size = k /\ Reached(t, d)' =>
                   (thread[t].size = k /\ Reached(t, d)) \/ public[d][k] # None
             /\ ~At(t, k, d, {"hard", "sym"})
  <2>0. thread[t].pc = "tree" /\ job[t] = "sha256"
    OBVIOUS
  <2>1. d = "blake3" \/ (d = "sha256" /\ Reached(t, d))
    BY <2>0 DEF Dirs, Reached
  <2> QED
    BY <1>1, <1>5, <2>1 DEF At
<1> QED
  BY <1>1, <1>2, <1>3, <1>4, <1>6, QuietStep

\* The tree of an upload, of a download or of what is shared.
LEMMA TreeStep == ASSUME NEW t \in Thread, Inv, Tree(t) PROVE Inv'
<1> DEFINE pc == IF job[t] = "upload" THEN "answer" ELSE "exists"
<1>0. SUFFICES ASSUME trees' = trees \cup {thread[t].size}, Goto(t, pc) PROVE Inv'
  BY NoTree DEF Tree
<1>1. /\ thread[t].pc = "tree" /\ trees' = trees \cup {thread[t].size} /\ Goto(t, pc)
      /\ UNCHANGED <<job, public, hard_links, answered, torn, crashes>>
  BY <1>0 DEF Tree
<1>2. /\ Moved(t, [thread[t] EXCEPT !.pc = pc])
      /\ thread'[t].pc = pc /\ thread'[t].size = thread[t].size
      /\ thread'[t].dest = thread[t].dest
  <2>1. pc \in Pcs
    BY DEF Pcs
  <2> HIDE DEF pc
  <2> QED
    BY <1>1, <2>1, Before, GotoFacts
<1>3. /\ job' = job
      /\ \/ job[t] = "upload" /\ thread[t].dest = "sha256"
         \/ job[t] \in {"share", "sha256"} /\ thread[t].dest = "blake3"
  BY <1>1, Before DEF Jobbed, Replacing, Working
<1>4. Jobbed(t)' /\ TreeFirst(t)'
  BY <1>1, <1>2, <1>3 DEF Jobbed, TreeFirst, Working, Replacing
<1>5. ASSUME NEW k \in Sizes
      PROVE  /\ ShaWorking(t, k)' => ShaWorking(t, k)
             /\ ~ShaReplacing(t, k)' /\ ~ShareReplacing(t, k)'
             /\ ~FollowChecking(t, k)' /\ ~FollowReplacing(t, k)'
  BY <1>1, <1>2, <1>3
     DEF ShaWorking, ShaReplacing, ShareReplacing, FollowChecking, FollowReplacing, At, Replacing,
         Working
<1>6. ASSUME NEW k \in Sizes, NEW d \in Dirs
      PROVE  (Reached(t, d)' => Reached(t, d)) /\ ~At(t, k, d, {"hard", "sym"})
  BY <1>1, <1>2, <1>3 DEF Reached, At
<1>7. /\ trees' \subseteq Sizes /\ trees \subseteq trees' /\ answered' \subseteq trees'
      /\ answered' = answered
  BY <1>1, Before
<1> HIDE DEF pc
<1> QED
  BY <1>1, <1>2, <1>4, <1>5, <1>6, <1>7, QuietStep

\* The answer to an upload that has its names and its tree.
LEMMA AnswerStep == ASSUME NEW t \in Thread, Inv, Answer(t) PROVE Inv'
<1>1. /\ thread[t].pc = "answer" /\ answered' = answered \cup {thread[t].size} /\ Goto(t, "done")
      /\ UNCHANGED <<job, public, trees, hard_links, torn, crashes>>
  BY DEF Answer
<1>2. /\ Moved(t, [thread[t] EXCEPT !.pc = "done"])
      /\ thread'[t].pc = "done" /\ thread'[t].size = thread[t].size
      /\ thread'[t].dest = thread[t].dest
  BY <1>1, Before, GotoFacts DEF Pcs
<1>3. job' = job /\ job[t] = "upload" /\ thread[t].dest = "sha256"
  BY <1>1, Before DEF Jobbed, Replacing, Working
<1>4. Jobbed(t)' /\ TreeFirst(t)'
  BY <1>1, <1>2, <1>3 DEF Jobbed, TreeFirst
<1>5. ASSUME NEW k \in Sizes
      PROVE  /\ ~ShaWorking(t, k)' /\ ~ShaReplacing(t, k)' /\ ~ShareReplacing(t, k)'
             /\ ~FollowChecking(t, k)' /\ ~FollowReplacing(t, k)'
  BY <1>2, <1>3 DEF ShaWorking, ShaReplacing, ShareReplacing, FollowChecking, FollowReplacing
<1>6. ASSUME NEW k \in Sizes, NEW d \in Dirs
      PROVE  Reached(t, d) /\ ~At(t, k, d, {"hard", "sym"})
  BY <1>1, <1>3 DEF Reached, At
<1>7. thread[t].size \in trees
  BY <1>1, <1>3, Before DEF TreeFirst
<1>8. trees' \subseteq Sizes /\ trees \subseteq trees' /\ answered' \subseteq trees'
  BY <1>1, <1>7, Before
<1> QED
  BY <1>1, <1>2, <1>4, <1>5, <1>6, <1>8, QuietStep

\* Where a thread goes on after a link.
LEMMA NextLinkFacts ==
  ASSUME Inv, NEW t \in Thread, NextLink(t), job' = job
  PROVE  /\ \E x : Moved(t, x)
         /\ thread'[t].size = thread[t].size
         /\ job[t] = "upload" => thread'[t].pc = "tree" /\ thread'[t].dest = thread[t].dest
         /\ job[t] = "share" /\ thread[t].dest = "blake3" =>
               thread'[t].pc = "exists" /\ thread'[t].dest = "sha256"
         /\ job[t] # "upload" /\ ~(job[t] = "share" /\ thread[t].dest = "blake3") =>
               thread'[t].pc = "done" /\ thread'[t].dest = thread[t].dest
<1>1. thread \in [Thread -> State] /\ thread[t] \in State
  BY Before
<1>2. CASE job[t] = "upload"
  <2>1. Goto(t, "tree")
    BY <1>2 DEF NextLink
  <2>2. "tree" \in Pcs
    BY DEF Pcs
  <2> QED
    BY <1>1, <1>2, <2>1, <2>2, GotoFacts
<1>3. CASE job[t] = "share" /\ thread[t].dest = "blake3"
  <2> DEFINE x == [thread[t] EXCEPT !.pc = "exists", !.dest = "sha256"]
  <2>1. thread' = [thread EXCEPT ![t] = x]
    BY <1>1, <1>3 DEF NextLink
  <2>2. x \in State /\ x.pc = "exists" /\ x.dest = "sha256" /\ x.size = thread[t].size
    BY <1>1 DEF State, Pcs, Dirs
  <2> HIDE DEF x
  <2>3. Moved(t, x)
    BY <1>1, <2>1, <2>2, MovedFacts
  <2> QED
    BY <1>3, <2>2, <2>3 DEF Moved
<1>4. CASE job[t] # "upload" /\ ~(job[t] = "share" /\ thread[t].dest = "blake3")
  <2>1. Goto(t, "done")
    BY <1>4 DEF NextLink
  <2>2. "done" \in Pcs
    BY DEF Pcs
  <2> QED
    BY <1>1, <1>4, <2>1, <2>2, GotoFacts
<1> QED
  BY <1>2, <1>3, <1>4

\* A thread has found the name it is about, or makes it where there is none, and goes on.
LEMMA LinkStep ==
  ASSUME Inv, NEW t \in Thread, thread[t].pc \in {"exists", "hard", "sym"}, NextLink(t),
         UNCHANGED <<job, trees, hard_links, answered, torn, crashes>>,
         NEW e \in Entry \ {None}, NEW k0, k0 = thread[t].size, Put(thread[t].dest, k0, e),
         public[thread[t].dest][k0] \in {None, e}, NamesOf(k0)'
  PROVE  Inv'
<1> DEFINE d0 == thread[t].dest
           pc == thread[t].pc
<1>1. /\ d0 \in Dirs /\ k0 \in Sizes /\ job[t] \in Jobs /\ Jobbed(t) /\ job' = job
      /\ trees \subseteq Sizes /\ answered \subseteq trees
  BY Before
<1>2. PICK x : Moved(t, x)
  BY <1>1, NextLinkFacts
<1>3. /\ thread'[t].size = k0
      /\ job[t] = "upload" => thread'[t].pc = "tree" /\ thread'[t].dest = d0
      /\ job[t] = "share" /\ d0 = "blake3" =>
            thread'[t].pc = "exists" /\ thread'[t].dest = "sha256"
      /\ job[t] # "upload" /\ ~(job[t] = "share" /\ d0 = "blake3") =>
            thread'[t].pc = "done" /\ thread'[t].dest = d0
  BY <1>1, NextLinkFacts
<1>4. /\ pc \in {"exists", "hard", "sym"} /\ job[t] # "small" /\ d0 \in {"blake3", "sha256"}
      /\ job[t] = "upload" => d0 = "sha256" /\ pc # "exists"
      /\ job[t] = "blake3" => d0 = "sha256"
      /\ job[t] = "sha256" => d0 = "blake3"
  BY <1>1 DEF Jobbed, Replacing, Working, Dirs
<1>5. job[t] \in {"upload", "share", "blake3", "sha256"}
  BY <1>1, <1>4 DEF Jobs
<1>6. /\ public' \in [Dirs -> [Sizes -> Entry]] /\ public'[d0][k0] # None
      /\ \A d \in Dirs, k \in Sizes : public'[d][k] = public[d][k] \/ (d = d0 /\ k = k0)
      /\ \A d \in Dirs, k \in Sizes : public'[d][k] = public[d][k] \/ public[d][k] = None
  BY <1>1 DEF Put
<1> HIDE DEF d0, pc
<1>7. Jobbed(t)' /\ TreeFirst(t)'
  BY <1>1, <1>3, <1>4, <1>5 DEF Jobbed, TreeFirst, Replacing, Working
<1>8. ASSUME NEW k \in Sizes PROVE NamesOf(k)' /\ SourceStays(k)' /\ Named(k)'
  <2>1. NamesOf(k) /\ SourceStays(k) /\ Named(k)
    BY Before
  <2>2. NamesOf(k)'
    <3>1. CASE k = k0
      BY <3>1
    <3>2. CASE k # k0
      <4>1. Blake3Name(k)' = Blake3Name(k) /\ Sha256Name(k)' = Sha256Name(k)
        BY <1>6, <3>2 DEF Blake3Name, Sha256Name, Dirs
      <4> QED
        BY <1>1, <2>1, <4>1 DEF NamesOf, HasSha256
    <3> QED
      BY <3>1, <3>2
  <2>3. SourceStays(k)'
    <3>1. /\ Blake3Name(k) \in Whole => Blake3Name(k)' \in Whole
          /\ Sha256Name(k) \in Whole => Sha256Name(k)' \in Whole
      BY <1>6, PublicFilesAssumption DEF Blake3Name, Sha256Name, Whole, Dirs
    <3>2. /\ ~ShaWorking(t, k)' /\ ~ShaReplacing(t, k)' /\ ~ShareReplacing(t, k)'
          /\ ~FollowReplacing(t, k)'
      BY <1>1, <1>3, <1>4, <1>5
         DEF ShaWorking, ShaReplacing, ShareReplacing, FollowReplacing, At, Replacing, Working
    <3>3. FollowChecking(t, k)' => OneWhole(k)'
      <4>1. FollowChecking(t, k)' => k = k0 /\ d0 = "blake3"
        BY <1>1, <1>3, <1>4, <1>5 DEF FollowChecking, At
      <4>2. k = k0 /\ d0 = "blake3" => Blake3Name(k)' # None
        BY <1>6 DEF Blake3Name
      <4>3. Blake3Name(k)' # None => OneWhole(k)'
        BY <2>2 DEF NamesOf, OneWhole
      <4> QED
        BY <4>1, <4>2, <4>3
    <3> QED
      BY <1>2, <2>1, <3>1, <3>2, <3>3, StaysMore
  <2>4. Named(k)'
    <3>1. torn' = torn /\ answered' = answered
      OBVIOUS
    <3>2. ASSUME NEW d \in Dirs, thread'[t].size = k, Reached(t, d)'
          PROVE  (thread[t].size = k /\ Reached(t, d)) \/ public'[d][k] # None
      <4>1. k = k0 /\ thread[t].size = k0
        BY <1>3, <3>2
      <4>2. CASE d = d0
        BY <1>6, <4>1, <4>2
      <4>3. CASE d # d0
        <5>1. Reached(t, d)
          BY <1>1, <1>3, <1>4, <1>5, <3>2, <4>3 DEF Reached, Dirs, pc, d0
        <5> QED
          BY <4>1, <5>1
      <4> QED
        BY <4>2, <4>3
    <3>3. \A d \in Dirs : public[d][k] # None => public'[d][k] # None
      BY <1>6
    <3>4. ASSUME NEW d \in Dirs, At(t, k, d, {"hard", "sym"}) PROVE public'[d][k] # None
      <4>1. d = d0 /\ k = k0
        BY <3>4 DEF At, d0
      <4> QED
        BY <1>6, <4>1
    <3>5. Sha256Name(k)' = Sha256Name(k) \/ (thread[t].size = k /\ Reached(t, "blake3"))
      <4>1. CASE k = k0 /\ d0 = "sha256"
        BY <1>1, <1>4, <1>5, <4>1 DEF Reached, pc, d0
      <4>2. CASE ~(k = k0 /\ d0 = "sha256")
        BY <1>6, <4>2 DEF Sha256Name, Dirs
      <4> QED
        BY <4>1, <4>2
    <3> QED
      BY <1>2, <2>1, <3>1, <3>2, <3>3, <3>4, <3>5, NamedMore
  <2> QED
    BY <2>2, <2>3, <2>4
<1> QED
  BY <1>1, <1>2, <1>6, <1>7, <1>8, StepInv

\* A name that leads somewhere is one that was made.
LEMMA ExistsFacts ==
  ASSUME NEW k \in Sizes, NamesOf(k)
  PROVE  /\ Exists("blake3", k) <=> Blake3Name(k) # None
         /\ Exists("blake3", k) <=> Blake3Name(k) \in Whole
                                     \/ (Blake3Name(k) = "sha256" /\ Sha256Name(k) \in Whole)
         /\ Sha256Name(k) \in Whole => Exists("sha256", k)
         /\ Blake3Name(k) \in Whole /\ Sha256Name(k) # None => Exists("sha256", k)
         /\ Blake3Name(k) # None /\ Sha256Name(k) # None => Exists("sha256", k)
         /\ Exists("sha256", k) => Sha256Name(k) # None
BY PublicFilesAssumption DEF Exists, NamesOf, Blake3Name, Sha256Name, Whole, Other

\* A name that leads nowhere will be removed by a thread that has the other.
LEMMA CheckExistsStep == ASSUME NEW t \in Thread, Inv, CheckExists(t) PROVE Inv'
<1> DEFINE d0 == thread[t].dest
<1>0. PICK k0 : k0 = thread[t].size
  OBVIOUS
<1>1. /\ thread[t].pc = "exists"
      /\ IF Exists(d0, k0) THEN NextLink(t) ELSE Goto(t, "remove")
      /\ UNCHANGED <<job, public, trees, hard_links, answered, torn, crashes>>
  BY <1>0 DEF CheckExists
<1>2. /\ d0 \in Dirs /\ k0 \in Sizes /\ job[t] \in Jobs /\ Jobbed(t) /\ job' = job
      /\ public \in [Dirs -> [Sizes -> Entry]] /\ NamesOf(k0) /\ SourceStays(k0)
      /\ trees \subseteq Sizes /\ answered \subseteq trees
  BY <1>0, <1>1, Before
<1>3. CASE Exists(d0, k0)
  <2>1. NextLink(t)
    BY <1>1, <1>3
  <2> DEFINE e == public[d0][k0]
  <2>2. e \in Entry \ {None}
    <3>1. e # None
      BY <1>2, <1>3, ExistsFacts DEF Dirs, Blake3Name, Sha256Name
    <3> QED
      BY <1>2, <3>1
  <2>3. Put(d0, k0, e)
    BY <1>1, <1>2 DEF Put
  <2> HIDE DEF e
  <2>4. NamesOf(k0)'
    BY <1>1, <1>2 DEF NamesOf, Blake3Name, Sha256Name, HasSha256
  <2>5. public[d0][k0] \in {None, e} /\ k0 = thread[t].size
    BY <1>0 DEF e
  <2> QED
    BY <1>1, <2>1, <2>2, <2>3, <2>4, <2>5, LinkStep
<1>4. CASE ~Exists(d0, k0)
  <2>1. /\ Moved(t, [thread[t] EXCEPT !.pc = "remove"])
        /\ thread'[t].pc = "remove" /\ thread'[t].size = k0 /\ thread'[t].dest = d0
    BY <1>0, <1>1, <1>4, Before, GotoFacts DEF Pcs
  <2> HIDE DEF d0
  <2>2. \/ job[t] = "share" /\ d0 \in {"blake3", "sha256"}
        \/ job[t] = "blake3" /\ d0 = "sha256"
        \/ job[t] = "sha256" /\ d0 = "blake3"
    BY <1>1, <1>2 DEF Jobbed, Replacing, Working, Dirs, d0
  <2>3. Jobbed(t)' /\ TreeFirst(t)'
    BY <1>2, <2>1, <2>2 DEF Jobbed, TreeFirst, Replacing, Working
  <2>4. ASSUME NEW k \in Sizes PROVE NamesOf(k)' /\ SourceStays(k)' /\ Named(k)'
    <3>1. NamesOf(k) /\ SourceStays(k) /\ Named(k)
      BY Before
    <3>2. /\ Blake3Name(k)' = Blake3Name(k) /\ Sha256Name(k)' = Sha256Name(k)
          /\ OneWhole(k)' = OneWhole(k) /\ HasSha256' = HasSha256
      BY <1>1 DEF Blake3Name, Sha256Name, OneWhole, HasSha256
    <3>3. NamesOf(k)'
      BY <3>1, <3>2 DEF NamesOf
    <3>4. Named(k)'
      <4>1. torn' = torn /\ public' = public /\ answered' = answered
        BY <1>1
      <4>2. thread[t].size = k0
        BY <1>0
      <4>3. \A d \in Dirs : (Reached(t, d)' => Reached(t, d)) /\ ~At(t, k, d, {"hard", "sym"})
        BY <1>1, <1>2, <2>1, <2>2 DEF Reached, At, d0
      <4> QED
        BY <2>1, <3>1, <3>2, <4>1, <4>2, <4>3, NamedMore
    <3>5. CASE k # k0
      <4>1. /\ ~ShaWorking(t, k)' /\ ~ShaReplacing(t, k)' /\ ~ShareReplacing(t, k)'
            /\ ~FollowChecking(t, k)' /\ ~FollowReplacing(t, k)'
        BY <2>1, <3>5
           DEF ShaWorking, ShaReplacing, ShareReplacing, FollowChecking, FollowReplacing, At
      <4>2. SourceStays(k)'
        BY <2>1, <3>1, <3>2, <4>1, StaysMore
      <4> QED
        BY <3>3, <3>4, <4>2
    <3>6. CASE k = k0
      <4>1. ASSUME NEW u \in Thread \ {t}
            PROVE  /\ ShaWorking(u, k)' = ShaWorking(u, k)
                   /\ ShaReplacing(u, k)' = ShaReplacing(u, k)
                   /\ ShareReplacing(u, k)' = ShareReplacing(u, k)
                   /\ FollowChecking(u, k)' = FollowChecking(u, k)
                   /\ FollowReplacing(u, k)' = FollowReplacing(u, k)
        BY <2>1 DEF Moved, ShaWorking, ShaReplacing, ShareReplacing, FollowChecking,
                    FollowReplacing, At
      <4>2. CASE d0 = "blake3"
        <5>1. Blake3Name(k) \notin Whole
          BY <1>4, <3>1, <3>6, <4>2, ExistsFacts
        <5>2. /\ ShaWorking(t, k)' = ShaWorking(t, k) /\ ~FollowChecking(t, k)'
              /\ ~FollowReplacing(t, k)' /\ (ShaReplacing(t, k)' => ShaWorking(t, k))
          BY <1>0, <1>1, <1>2, <2>1, <2>2, <3>6, <4>2
             DEF ShaWorking, ShaReplacing, FollowChecking, FollowReplacing, At, Working, Replacing,
                 d0
        <5>3. \A u \in Thread : ShaWorking(u, k)' => ShaWorking(u, k)
          BY <4>1, <5>2
        <5>4. \A u \in Thread : ShaWorking(u, k) => Sha256Name(k) \in Whole
          BY <3>1, <5>1 DEF SourceStays, OneWhole
        <5>5. \A u \in Thread : ShaWorking(u, k) => \A v \in Thread : ~FollowReplacing(v, k)
          <6>1. \A u \in Thread : ShaWorking(u, k) => HasSha256
            BY DEF ShaWorking, HasSha256
          <6> QED
            BY <3>1, <5>1, <6>1 DEF SourceStays
        <5>6. \A u \in Thread : ShaReplacing(u, k)' => ShaWorking(u, k)
          <6>1. \A u \in Thread : ShaReplacing(u, k) => ShaWorking(u, k)
            BY DEF ShaReplacing, ShaWorking, At, Working
          <6> QED
            BY <4>1, <5>2, <6>1
        <5>7. \A u \in Thread : /\ FollowChecking(u, k)' => FollowChecking(u, k)
                                /\ FollowReplacing(u, k)' => FollowReplacing(u, k)
          BY <4>1, <5>2
        <5>8. SourceStays(k)'
          BY <3>1, <3>2, <5>3, <5>4, <5>5, <5>6, <5>7 DEF SourceStays
        <5> QED
          BY <3>3, <3>4, <5>8
      <4>3. CASE d0 = "sha256"
        <5>1. Sha256Name(k) \notin Whole
          BY <1>4, <3>1, <3>6, <4>3, ExistsFacts
        <5>2. /\ ~ShaWorking(t, k)' /\ ~ShaReplacing(t, k)' /\ ~ShareReplacing(t, k)'
              /\ ~FollowChecking(t, k)' /\ FollowChecking(t, k)
          BY <1>0, <1>1, <1>2, <2>1, <2>2, <3>6, <4>3
             DEF ShaWorking, ShaReplacing, ShareReplacing, FollowChecking, At, d0
        <5>3. HasSha256 => OneWhole(k) /\ Blake3Name(k) \in Whole
          BY <3>1, <5>1, <5>2 DEF SourceStays, OneWhole
        <5>4. \A u \in Thread : ~ShaReplacing(u, k)'
          BY <3>1, <4>1, <5>1, <5>2 DEF SourceStays
        <5>5. \A u \in Thread : /\ ShaWorking(u, k)' => ShaWorking(u, k)
                                /\ ShareReplacing(u, k)' => ShareReplacing(u, k)
                                /\ FollowChecking(u, k)' => FollowChecking(u, k)
          BY <4>1, <5>2
        <5>6. SourceStays(k)'
          BY <3>1, <3>2, <5>3, <5>4, <5>5 DEF SourceStays
        <5> QED
          BY <3>3, <3>4, <5>6
      <4> QED
        BY <1>2, <4>2, <4>3 DEF Dirs
    <3> QED
      BY <3>5, <3>6
  <2>5. public' \in [Dirs -> [Sizes -> Entry]] /\ trees' \subseteq Sizes /\ trees \subseteq trees'
        /\ answered' \subseteq trees' /\ UNCHANGED <<hard_links, torn, crashes>>
    BY <1>1, <1>2
  <2> QED
    BY <2>1, <2>3, <2>4, <2>5, StepInv
<1> QED
  BY <1>3, <1>4

\* In a team that Apart allows, a /share beside a SHA-256 download is the only thread
\* that follows up a blake3 name.
LEMMA ShareAlone ==
  ASSUME Apart, Inv, HasSha256, NEW t \in Thread, job[t] = "share",
         NEW u \in Thread, job[u] \in {"share", "blake3"}
  PROVE  u = t
<1>1. job \in Teams
  BY DEF Inv, TypeOK
<1>2. PICK v \in Thread : job[v] = "sha256"
  BY DEF HasSha256
<1> QED
  BY <1>1, <1>2 DEF Apart

\* A name that leads nowhere is removed; the other one stays.
LEMMA RemoveStep == ASSUME Apart, NEW t \in Thread, Inv, Remove(t) PROVE Inv'
<1> DEFINE d0 == thread[t].dest
<1>0. PICK k0 : k0 = thread[t].size
  OBVIOUS
<1>1. /\ thread[t].pc = "remove" /\ public' = [public EXCEPT ![d0][k0] = None] /\ Goto(t, "hard")
      /\ UNCHANGED <<job, trees, hard_links, answered, torn, crashes>>
  BY <1>0 DEF Remove, Set
<1>2. /\ d0 \in Dirs /\ k0 \in Sizes /\ job[t] \in Jobs /\ Jobbed(t) /\ job' = job
      /\ public \in [Dirs -> [Sizes -> Entry]]
      /\ trees \subseteq Sizes /\ answered \subseteq trees
  BY <1>0, <1>1, Before
<1>3. Put(d0, k0, None)
  <2>1. None \in Entry
    BY DEF Entry
  <2> HIDE DEF d0
  <2> QED
    BY <1>1, <1>2, <2>1, PutFacts
<1>4. /\ Moved(t, [thread[t] EXCEPT !.pc = "hard"])
      /\ thread'[t].pc = "hard" /\ thread'[t].size = k0 /\ thread'[t].dest = d0
  BY <1>0, <1>1, Before, GotoFacts DEF Pcs
<1> HIDE DEF d0
<1>5. \/ job[t] = "share" /\ d0 \in {"blake3", "sha256"}
      \/ job[t] = "blake3" /\ d0 = "sha256"
      \/ job[t] = "sha256" /\ d0 = "blake3"
  BY <1>1, <1>2 DEF Jobbed, Replacing, Working, Dirs, d0
<1>6. Jobbed(t)' /\ TreeFirst(t)'
  BY <1>2, <1>4, <1>5 DEF Jobbed, TreeFirst, Replacing, Working
<1>7. ASSUME NEW u \in Thread, NEW k \in Sizes
      PROVE  /\ ShaWorking(u, k)' = ShaWorking(u, k)
             /\ ShaReplacing(u, k)' = ShaReplacing(u, k)
             /\ ShareReplacing(u, k)' = ShareReplacing(u, k)
             /\ FollowChecking(u, k)' = FollowChecking(u, k)
             /\ FollowReplacing(u, k)' = FollowReplacing(u, k)
  <2>1. CASE u = t
    BY <1>0, <1>1, <1>2, <1>4, <2>1
       DEF ShaWorking, ShaReplacing, ShareReplacing, FollowChecking, FollowReplacing, At,
           Working, Replacing, d0
  <2>2. CASE u # t
    BY <1>4, <2>2
       DEF Moved, ShaWorking, ShaReplacing, ShareReplacing, FollowChecking, FollowReplacing, At
  <2> QED
    BY <2>1, <2>2
<1>8. HasSha256' = HasSha256
  BY <1>2 DEF HasSha256
<1>9. ASSUME NEW k \in Sizes PROVE NamesOf(k)' /\ SourceStays(k)'
  <2>1. NamesOf(k) /\ SourceStays(k)
    BY Before
  <2>2. CASE k # k0
    <3>1. Blake3Name(k)' = Blake3Name(k) /\ Sha256Name(k)' = Sha256Name(k)
      BY <1>3, <2>2 DEF Put, Blake3Name, Sha256Name, Dirs
    <3>2. OneWhole(k)' = OneWhole(k)
      BY <3>1 DEF OneWhole
    <3> QED
      BY <1>7, <1>8, <2>1, <3>1, <3>2 DEF NamesOf, SourceStays
  <2>3. CASE k = k0 /\ d0 = "blake3"
    <3>1. Blake3Name(k)' = None /\ Sha256Name(k)' = Sha256Name(k)
      BY <1>2, <1>3, <2>3 DEF Put, Blake3Name, Sha256Name, Dirs
    <3>2. NamesOf(k)'
      BY <2>1, <3>1, PublicFilesAssumption DEF NamesOf
    <3>3. \A u \in Thread : ShaWorking(u, k) => Sha256Name(k) \in Whole
      <4>1. CASE job[t] = "sha256"
        <5>1. ShaReplacing(t, k)
          BY <1>0, <1>1, <2>3, <4>1 DEF ShaReplacing, At, Replacing, d0
        <5> QED
          BY <2>1, <5>1 DEF SourceStays
      <4>2. CASE job[t] = "share"
        <5>1. ShareReplacing(t, k)
          BY <1>0, <1>1, <2>3, <4>2 DEF ShareReplacing, At, Replacing, d0
        <5> QED
          BY <2>1, <5>1 DEF SourceStays
      <4> QED
        BY <1>5, <2>3, <4>1, <4>2
    <3>4. ASSUME HasSha256, NEW u \in Thread, FollowReplacing(u, k) PROVE FALSE
      <4>1. CASE job[t] = "sha256"
        <5>1. ShaReplacing(t, k)
          BY <1>0, <1>1, <2>3, <4>1 DEF ShaReplacing, At, Replacing, d0
        <5> QED
          BY <2>1, <3>4, <5>1 DEF SourceStays
      <4>2. CASE job[t] = "share"
        <5>1. u = t
          BY <3>4, <4>2, ShareAlone DEF FollowReplacing
        <5> QED
          BY <2>3, <3>4, <5>1 DEF FollowReplacing, At, d0
      <4> QED
        BY <1>5, <2>3, <4>1, <4>2
    <3>5. ASSUME HasSha256, NEW u \in Thread, FollowChecking(u, k) PROVE Sha256Name(k) \in Whole
      <4>1. CASE job[t] = "sha256"
        <5>1. ShaReplacing(t, k)
          BY <1>0, <1>1, <2>3, <4>1 DEF ShaReplacing, At, Replacing, d0
        <5> QED
          BY <2>1, <5>1 DEF SourceStays
      <4>2. CASE job[t] = "share"
        <5>1. u = t
          BY <3>5, <4>2, ShareAlone DEF FollowChecking
        <5> QED
          BY <2>3, <3>5, <5>1 DEF FollowChecking, At, d0
      <4> QED
        BY <1>5, <2>3, <4>1, <4>2
    <3>6. \A u \in Thread : ShaReplacing(u, k) =>
            Sha256Name(k) \in Whole /\ \A v \in Thread : ~FollowReplacing(v, k)
      BY <2>1 DEF SourceStays
    <3>7. Sha256Name(k) \in Whole => OneWhole(k)'
      BY <3>1 DEF OneWhole
    <3>8. SourceStays(k)'
      BY <1>7, <1>8, <3>1, <3>3, <3>4, <3>5, <3>6, <3>7 DEF SourceStays
    <3> QED
      BY <3>2, <3>8
  <2>4. CASE k = k0 /\ d0 = "sha256"
    <3>1. Blake3Name(k)' = Blake3Name(k) /\ Sha256Name(k)' = None
      BY <1>2, <1>3, <2>4 DEF Put, Blake3Name, Sha256Name, Dirs
    <3>2. FollowReplacing(t, k) /\ job[t] \in {"blake3", "share"}
      BY <1>0, <1>1, <1>5, <2>4 DEF FollowReplacing, At, Replacing, d0
    <3>3. HasSha256 => Blake3Name(k) \in Whole
      BY <2>1, <3>2 DEF SourceStays
    <3>4. NamesOf(k)'
      BY <1>8, <2>1, <3>1, <3>3, PublicFilesAssumption DEF NamesOf, Whole
    <3>5. HasSha256 => OneWhole(k)'
      BY <3>1, <3>3 DEF OneWhole
    <3>6. \A u \in Thread : ShaWorking(u, k) \/ ShaReplacing(u, k) => HasSha256
      BY DEF ShaWorking, ShaReplacing, HasSha256
    <3>7. \A u \in Thread : ~ShaReplacing(u, k)
      BY <2>1, <3>2 DEF SourceStays
    <3>8. ASSUME HasSha256, NEW u \in Thread, ShareReplacing(u, k) PROVE FALSE
      <4>1. u = t
        BY <3>2, <3>8, ShareAlone DEF ShareReplacing
      <4> QED
        BY <2>4, <3>8, <4>1 DEF ShareReplacing, At, d0
    <3>9. SourceStays(k)'
      BY <1>7, <1>8, <3>1, <3>3, <3>5, <3>6, <3>7, <3>8 DEF SourceStays
    <3> QED
      BY <3>4, <3>9
  <2> QED
    BY <1>2, <2>2, <2>3, <2>4 DEF Dirs
<1>10. ASSUME NEW k \in Sizes PROVE Named(k)'
  <2>1. Named(k)
    BY Before
  <2>2. torn' = torn /\ answered' = answered /\ thread[t].size = k0
    BY <1>0, <1>1
  <2>3. \A d \in Dirs : Reached(t, d)' => Reached(t, d)
    BY <1>1, <1>2, <1>4, <1>5 DEF Reached, d0
  <2>4. ASSUME NEW d \in Dirs, public[d][k] # None
        PROVE  public'[d][k] # None \/ At(t, k, d, {"hard", "sym"})'
    <3>1. CASE d = d0 /\ k = k0
      BY <1>4, <3>1 DEF At
    <3>2. CASE ~(d = d0 /\ k = k0)
      BY <1>3, <2>4, <3>2 DEF Put
    <3> QED
      BY <3>1, <3>2
  <2>5. \A d \in Dirs : ~At(t, k, d, {"hard", "sym"})
    BY <1>1 DEF At
  <2>6. Sha256Name(k)' \in {Sha256Name(k), None}
    BY <1>3 DEF Put, Sha256Name, Dirs
  <2>7. None # "blake3"
    BY PublicFilesAssumption
  <2> QED
    BY <1>4, <2>1, <2>2, <2>3, <2>4, <2>5, <2>6, <2>7, NamedMore
<1>11. /\ public' \in [Dirs -> [Sizes -> Entry]] /\ trees' \subseteq Sizes /\ trees \subseteq trees'
       /\ answered' \subseteq trees' /\ UNCHANGED <<hard_links, torn, crashes>>
  BY <1>1, <1>2, <1>3 DEF Put
<1> QED
  BY <1>4, <1>6, <1>9, <1>10, <1>11, StepInv

\* A thread that was about nothing makes its first name, a file.
LEMMA FileStep ==
  ASSUME Inv, NEW t \in Thread, thread[t].pc \in {"start", "rename"},
         NEW d \in Dirs, NEW k0, k0 = thread[t].size, Put(d, k0, "file"),
         NEW x, Moved(t, x), thread'[t].size = k0, Jobbed(t)', TreeFirst(t)',
         UNCHANGED <<job, trees, hard_links, answered, torn, crashes>>,
         \A k \in Sizes :
           /\ ~ShaReplacing(t, k)' /\ ~ShareReplacing(t, k)' /\ ~FollowReplacing(t, k)'
           /\ ShaWorking(t, k)' => k = k0 /\ d = "sha256"
           /\ FollowChecking(t, k)' => k = k0,
         \A d2 \in Dirs : Reached(t, d2)' => d2 = d
  PROVE  Inv'
<1>1. k0 \in Sizes /\ public \in [Dirs -> [Sizes -> Entry]] /\ trees \subseteq Sizes
      /\ answered \subseteq trees
  BY Before
<1>2. /\ public' \in [Dirs -> [Sizes -> Entry]] /\ public'[d][k0] = "file"
      /\ \A d2 \in Dirs, k \in Sizes : public'[d2][k] = public[d2][k] \/ (d2 = d /\ k = k0)
      /\ \A d2 \in Dirs, k \in Sizes : public'[d2][k] \in {public[d2][k], "file"}
  BY <1>1 DEF Put
<1>3. None # "file"
  BY PublicFilesAssumption
<1>4. ASSUME NEW k \in Sizes PROVE NamesOf(k)' /\ SourceStays(k)' /\ Named(k)'
  <2>1. NamesOf(k) /\ SourceStays(k) /\ Named(k)
    BY Before
  <2>2. /\ Blake3Name(k)' \in {Blake3Name(k), "file"} /\ Sha256Name(k)' \in {Sha256Name(k), "file"}
        /\ k = k0 /\ d = "sha256" => Sha256Name(k)' = "file"
        /\ k = k0 /\ d = "blake3" => Blake3Name(k)' = "file"
        /\ d = "blake3" \/ d = "sha256"
    BY <1>2 DEF Blake3Name, Sha256Name, Dirs
  <2>3. NamesOf(k)'
    BY <2>1, <2>2 DEF NamesOf, HasSha256, Whole
  <2>4. SourceStays(k)'
    <3>1. /\ Blake3Name(k) \in Whole => Blake3Name(k)' \in Whole
          /\ Sha256Name(k) \in Whole => Sha256Name(k)' \in Whole
          /\ k = k0 => OneWhole(k)'
          /\ k = k0 /\ d = "sha256" => Sha256Name(k)' \in Whole
      BY <2>2 DEF Whole, OneWhole
    <3>2. /\ ~ShaReplacing(t, k)' /\ ~ShareReplacing(t, k)' /\ ~FollowReplacing(t, k)'
          /\ ShaWorking(t, k)' => k = k0 /\ d = "sha256"
          /\ FollowChecking(t, k)' => k = k0
      OBVIOUS
    <3> QED
      BY <2>1, <3>1, <3>2, StaysMore
  <2>5. Named(k)'
    <3>1. torn' = torn /\ answered' = answered
      OBVIOUS
    <3>2. \A d2 \in Dirs : thread'[t].size = k /\ Reached(t, d2)' => public'[d2][k] # None
      BY <1>2, <1>3
    <3>3. \A d2 \in Dirs : public[d2][k] # None => public'[d2][k] # None
      BY <1>2, <1>3
    <3>4. \A d2 \in Dirs : ~At(t, k, d2, {"hard", "sym"})
      BY DEF At
    <3>5. Sha256Name(k)' = "blake3" => Sha256Name(k) = "blake3"
      BY <2>2
    <3> QED
      BY <2>1, <3>1, <3>2, <3>3, <3>4, <3>5, NamedMore
  <2> QED
    BY <2>3, <2>4, <2>5
<1>5. trees' \subseteq Sizes /\ trees \subseteq trees' /\ answered' \subseteq trees'
  BY <1>1
<1> QED
  BY <1>2, <1>4, <1>5, StepInv

\* An upload renames its temporary file to the blake3 name.
LEMMA RenameStep == ASSUME NEW t \in Thread, Inv, Rename(t) PROVE Inv'
<1>0. PICK k0 : k0 = thread[t].size
  OBVIOUS
<1> DEFINE x == [thread[t] EXCEPT !.pc = "hard", !.dest = "sha256"]
           d0 == thread[t].dest
<1>1. /\ thread[t].pc = "rename" /\ public' = [public EXCEPT ![d0][k0] = "file"]
      /\ thread' = [thread EXCEPT ![t].pc = "hard", ![t].dest = "sha256"]
      /\ UNCHANGED <<job, trees, hard_links, answered, torn, crashes>>
  BY <1>0 DEF Rename, Set
<1>2. /\ d0 \in Dirs /\ k0 \in Sizes /\ job[t] \in Jobs /\ Jobbed(t) /\ job' = job
      /\ public \in [Dirs -> [Sizes -> Entry]] /\ thread \in [Thread -> State]
      /\ thread[t] \in State
  BY <1>0, <1>1, Before
<1>3. job[t] = "upload" /\ d0 \in Dirs
  BY <1>1, <1>2 DEF Jobbed, Replacing, Working
<1>4. Put(d0, k0, "file")
  <2>1. "file" \in Entry
    BY DEF Entry
  <2> HIDE DEF d0
  <2> QED
    BY <1>1, <1>2, <2>1, PutFacts
<1>5. x \in State /\ x.pc = "hard" /\ x.dest = "sha256" /\ x.size = k0
  BY <1>0, <1>2 DEF State, Pcs, Dirs
<1>6. thread' = [thread EXCEPT ![t] = x]
  BY <1>1, <1>2
<1> HIDE DEF x
<1>7. Moved(t, x) /\ thread'[t].pc = "hard" /\ thread'[t].dest = "sha256" /\ thread'[t].size = k0
  BY <1>2, <1>5, <1>6, MovedFacts
<1>8. Jobbed(t)' /\ TreeFirst(t)'
  BY <1>2, <1>3, <1>7 DEF Jobbed, TreeFirst
<1>9. \A k \in Sizes :
           /\ ~ShaReplacing(t, k)' /\ ~ShareReplacing(t, k)' /\ ~FollowReplacing(t, k)'
           /\ ~ShaWorking(t, k)' /\ ~FollowChecking(t, k)'
  BY <1>2, <1>3 DEF ShaWorking, ShaReplacing, ShareReplacing, FollowChecking, FollowReplacing
<1>10. \A d2 \in Dirs : Reached(t, d2)' => d2 = "blake3"
  BY <1>2, <1>3, <1>7 DEF Reached
<1>11. d0 = "blake3"
  BY <1>1, <1>2, <1>3 DEF Jobbed, Replacing, Working
<1> QED
  BY <1>0, <1>1, <1>2, <1>4, <1>7, <1>8, <1>9, <1>10, <1>11, FileStep

\* A download is renamed to its name.
LEMMA FinishStep == ASSUME NEW t \in Thread, Inv, Finish(t) PROVE Inv'
<1>0. PICK k0 : k0 = thread[t].size
  OBVIOUS
<1> DEFINE d == IF job[t] = "blake3" THEN "blake3" ELSE "sha256"
           pc == CASE job[t] = "blake3" -> "exists"
                   [] job[t] = "sha256" -> "tree"
                   [] OTHER -> "done"
           x == [thread[t] EXCEPT !.dest = Other(d), !.pc = pc]
<1>1. /\ thread[t].pc = "start" /\ job[t] \in {"blake3", "sha256", "small"}
      /\ public' = [public EXCEPT ![d][k0] = "file"]
      /\ thread' = [thread EXCEPT ![t].dest = Other(d), ![t].pc = pc]
      /\ UNCHANGED <<job, trees, hard_links, answered, torn, crashes>>
  BY <1>0 DEF Finish
<1>2. /\ k0 \in Sizes /\ Jobbed(t) /\ job' = job /\ d \in Dirs
      /\ public \in [Dirs -> [Sizes -> Entry]] /\ thread \in [Thread -> State]
      /\ thread[t] \in State
  BY <1>0, <1>1, Before DEF Dirs
<1>3. \/ job[t] = "blake3" /\ d = "blake3" /\ Other(d) = "sha256" /\ pc = "exists"
      \/ job[t] = "sha256" /\ d = "sha256" /\ Other(d) = "blake3" /\ pc = "tree"
      \/ job[t] = "small" /\ d = "sha256" /\ Other(d) = "blake3" /\ pc = "done"
  BY <1>1 DEF Other
<1> HIDE DEF d, pc
<1>4. Put(d, k0, "file")
  <2>1. "file" \in Entry
    BY DEF Entry
  <2> QED
    BY <1>1, <1>2, <2>1, PutFacts
<1>5. x \in State /\ x.pc = pc /\ x.dest = Other(d) /\ x.size = k0
  BY <1>0, <1>2, <1>3 DEF State, Pcs, Dirs
<1>6. thread' = [thread EXCEPT ![t] = x]
  BY <1>1, <1>2
<1> HIDE DEF x
<1>7. Moved(t, x) /\ thread'[t].pc = pc /\ thread'[t].dest = Other(d) /\ thread'[t].size = k0
  BY <1>2, <1>5, <1>6, MovedFacts
<1>8. Jobbed(t)' /\ TreeFirst(t)'
  BY <1>2, <1>3, <1>7 DEF Jobbed, TreeFirst, Working
<1>9. \A k \in Sizes :
           /\ ~ShaReplacing(t, k)' /\ ~ShareReplacing(t, k)' /\ ~FollowReplacing(t, k)'
           /\ ShaWorking(t, k)' => k = k0 /\ d = "sha256"
           /\ FollowChecking(t, k)' => k = k0
  BY <1>2, <1>3, <1>7
     DEF ShaWorking, ShaReplacing, ShareReplacing, FollowChecking, FollowReplacing, At, Replacing
<1>10. \A d2 \in Dirs : Reached(t, d2)' => d2 = d
  BY <1>2, <1>3, <1>7 DEF Reached
<1> QED
  BY <1>0, <1>1, <1>2, <1>4, <1>7, <1>8, <1>9, <1>10, FileStep

\* Where hard links fail, or there is a name already, a symbolic one is tried.
LEMMA NoHardLink ==
  ASSUME NEW t \in Thread, Inv, thread[t].pc = "hard", Goto(t, "sym"),
         UNCHANGED <<job, public, trees, hard_links, answered, torn, crashes>>
  PROVE  Inv'
<1>1. /\ Moved(t, [thread[t] EXCEPT !.pc = "sym"])
      /\ thread'[t].pc = "sym" /\ thread'[t].size = thread[t].size
      /\ thread'[t].dest = thread[t].dest
  BY Before, GotoFacts DEF Pcs
<1>2. Jobbed(t) /\ job' = job /\ trees \subseteq Sizes /\ answered \subseteq trees
  BY Before
<1>3. Jobbed(t)' /\ TreeFirst(t)'
  BY <1>1, <1>2 DEF Jobbed, TreeFirst, Working, Replacing
<1>4. ASSUME NEW k \in Sizes
      PROVE  /\ ShaWorking(t, k)' => ShaWorking(t, k)
             /\ ShaReplacing(t, k)' => ShaReplacing(t, k)
             /\ ShareReplacing(t, k)' => ShareReplacing(t, k)
             /\ FollowChecking(t, k)' => FollowChecking(t, k)
             /\ FollowReplacing(t, k)' => FollowReplacing(t, k)
  BY <1>1, <1>2
     DEF ShaWorking, ShaReplacing, ShareReplacing, FollowChecking, FollowReplacing, At, Replacing,
         Working
<1>5. ASSUME NEW k \in Sizes, NEW d \in Dirs
      PROVE  /\ Reached(t, d)' => Reached(t, d)
             /\ At(t, k, d, {"hard", "sym"}) => At(t, k, d, {"hard", "sym"})'
  BY <1>1, <1>2 DEF Reached, At
<1> QED
  BY <1>1, <1>2, <1>3, <1>4, <1>5, QuietStep

\* A hard link is made where there is no name, from one that leads somewhere.
LEMMA HardLinkStep == ASSUME NEW t \in Thread, Inv, HardLink(t) PROVE Inv'
<1>0. PICK k0 : k0 = thread[t].size
  OBVIOUS
<1> DEFINE d0 == thread[t].dest
           e == Linked(Source(t))
<1>1. /\ thread[t].pc = "hard"
      /\ UNCHANGED <<job, trees, hard_links, answered, torn, crashes>>
  BY DEF HardLink
<1>2. /\ d0 \in Dirs /\ k0 \in Sizes /\ job[t] \in Jobs /\ Jobbed(t) /\ job' = job
      /\ public \in [Dirs -> [Sizes -> Entry]] /\ NamesOf(k0) /\ SourceStays(k0)
  BY <1>0, <1>1, Before
<1>3. CASE hard_links /\ Here(t) = None /\ Source(t) # None
  <2>1. public' = [public EXCEPT ![d0][k0] = e] /\ NextLink(t) /\ public[d0][k0] = None
    BY <1>0, <1>3 DEF HardLink, Set, Here
  <2>2. \/ job[t] \in {"upload", "share", "blake3"} /\ d0 = "sha256"
        \/ job[t] \in {"share", "sha256"} /\ d0 = "blake3"
    BY <1>1, <1>2 DEF Jobbed, Dirs
  <2>3. /\ e \in Whole
        /\ d0 = "blake3" => job[t] = "share" \/ Sha256Name(k0) \in Whole
        /\ d0 = "sha256" => Sha256Name(k0) = None
    <3>1. CASE d0 = "sha256"
      <4>1. Source(t) = Blake3Name(k0) /\ Sha256Name(k0) = None
        BY <1>0, <2>1, <3>1 DEF Source, Other, Blake3Name, Sha256Name
      <4>2. Blake3Name(k0) \in Whole
        BY <1>2, <1>3, <4>1, PublicFilesAssumption DEF NamesOf, Whole
      <4> QED
        BY <3>1, <4>1, <4>2 DEF Linked, Dirs, Whole
    <3>2. CASE d0 = "blake3" /\ job[t] = "share"
      BY <3>2 DEF Source, Linked, Dirs, Whole
    <3>3. CASE d0 = "blake3" /\ job[t] = "sha256"
      <4>1. Source(t) = Sha256Name(k0)
        BY <1>0, <3>3 DEF Source, Other, Sha256Name
      <4>2. ShaReplacing(t, k0)
        BY <1>0, <1>1, <3>3 DEF ShaReplacing, At, Replacing
      <4>3. Sha256Name(k0) \in Whole
        BY <1>2, <4>2 DEF SourceStays
      <4> QED
        BY <3>3, <4>1, <4>3 DEF Linked, Dirs, Whole
    <3> QED
      BY <2>2, <3>1, <3>2, <3>3
  <2> HIDE DEF d0, e
  <2>4. e \in Entry \ {None}
    BY <2>3, PublicFilesAssumption DEF Entry, Whole
  <2>5. Put(d0, k0, e)
    BY <1>2, <2>1, <2>4, PutFacts
  <2>6. NamesOf(k0)'
    <3>1. d0 = "sha256" => Blake3Name(k0)' = Blake3Name(k0) /\ Sha256Name(k0)' = e
      BY <1>2, <2>5 DEF Put, Blake3Name, Sha256Name, Dirs
    <3>2. d0 = "blake3" => Blake3Name(k0)' = e /\ Sha256Name(k0)' = Sha256Name(k0)
      BY <1>2, <2>5 DEF Put, Blake3Name, Sha256Name, Dirs
    <3>3. HasSha256' = HasSha256
      BY <1>2 DEF HasSha256
    <3> QED
      BY <1>2, <2>2, <2>3, <3>1, <3>2, <3>3 DEF NamesOf, Whole
  <2> QED
    BY <1>0, <1>1, <2>1, <2>4, <2>5, <2>6, LinkStep DEF d0
<1>4. CASE ~(hard_links /\ Here(t) = None /\ Source(t) # None)
  <2>1. Goto(t, "sym") /\ UNCHANGED public
    BY <1>4 DEF HardLink
  <2> QED
    BY <1>1, <2>1, NoHardLink
<1> QED
  BY <1>3, <1>4

\* A symbolic link is made where there is no name, to one that leads somewhere.
LEMMA SymLinkStep == ASSUME NEW t \in Thread, Inv, SymLink(t) PROVE Inv'
<1>0. PICK k0 : k0 = thread[t].size
  OBVIOUS
<1> DEFINE d0 == thread[t].dest
           here == public[d0][k0]
           e == IF here # None THEN here
                ELSE IF job[t] = "share" /\ d0 = "blake3" THEN "user" ELSE Other(d0)
<1>1. /\ thread[t].pc = "sym" /\ public' = [public EXCEPT ![d0][k0] = e] /\ NextLink(t)
      /\ UNCHANGED <<job, trees, hard_links, answered, torn, crashes>>
  BY <1>0 DEF SymLink, Set, Here
<1>2. /\ d0 \in Dirs /\ k0 \in Sizes /\ job[t] \in Jobs /\ Jobbed(t) /\ job' = job
      /\ public \in [Dirs -> [Sizes -> Entry]] /\ NamesOf(k0) /\ SourceStays(k0)
  BY <1>0, <1>1, Before
<1>3. \/ job[t] \in {"upload", "share", "blake3"} /\ d0 = "sha256"
      \/ job[t] \in {"share", "sha256"} /\ d0 = "blake3"
  BY <1>1, <1>2 DEF Jobbed, Dirs
<1>4. here \in Entry
  BY <1>2
<1>5. /\ d0 = "sha256" => e = IF here # None THEN here ELSE "blake3"
      /\ d0 = "blake3" => e = IF here # None THEN here
                              ELSE IF job[t] = "share" THEN "user" ELSE "sha256"
      /\ job[t] = "sha256" => HasSha256 /\ Sha256Name(k0) \in Whole
  <2>1. job[t] = "sha256" => ShaReplacing(t, k0)
    BY <1>0, <1>1, <1>3 DEF ShaReplacing, At, Replacing
  <2>2. job[t] = "sha256" => HasSha256 /\ Sha256Name(k0) \in Whole
    BY <1>2, <2>1 DEF SourceStays, HasSha256
  <2> HIDE DEF here, d0
  <2> QED
    BY <1>3, <2>2 DEF Other
<1>6. here = (IF d0 = "sha256" THEN Sha256Name(k0) ELSE Blake3Name(k0))
  BY <1>3 DEF Sha256Name, Blake3Name
<1>7. here \in {None, e}
  OBVIOUS
<1> HIDE DEF d0, here, e
<1>8. e \in Entry \ {None}
  BY <1>3, <1>4, <1>5, PublicFilesAssumption DEF Entry, Dirs
<1>9. Put(d0, k0, e)
  BY <1>1, <1>2, <1>8, PutFacts
<1>10. NamesOf(k0)'
  <2>1. d0 = "sha256" => Blake3Name(k0)' = Blake3Name(k0) /\ Sha256Name(k0)' = e
    BY <1>2, <1>9 DEF Put, Blake3Name, Sha256Name, Dirs
  <2>2. d0 = "blake3" => Blake3Name(k0)' = e /\ Sha256Name(k0)' = Sha256Name(k0)
    BY <1>2, <1>9 DEF Put, Blake3Name, Sha256Name, Dirs
  <2>3. HasSha256' = HasSha256
    BY <1>2 DEF HasSha256
  <2>4. CASE d0 = "sha256"
    <3>1. Sha256Name(k0)' = (IF Sha256Name(k0) # None THEN Sha256Name(k0) ELSE "blake3")
      BY <1>5, <1>6, <2>1, <2>4
    <3>2. Blake3Name(k0) = "sha256" => Sha256Name(k0) # None
      BY <1>2, PublicFilesAssumption DEF NamesOf, Whole
    <3> QED
      BY <1>2, <2>1, <2>3, <2>4, <3>1, <3>2 DEF NamesOf
  <2>5. CASE d0 = "blake3"
    <3>1. Blake3Name(k0)' = (IF Blake3Name(k0) # None THEN Blake3Name(k0)
                             ELSE IF job[t] = "share" THEN "user" ELSE "sha256")
      BY <1>5, <1>6, <2>2, <2>5
    <3>2. Blake3Name(k0)' = Blake3Name(k0) \/ Blake3Name(k0)' = "user"
          \/ (Blake3Name(k0)' = "sha256" /\ job[t] = "sha256")
      BY <1>3, <2>5, <3>1
    <3> QED
      BY <1>2, <1>5, <2>2, <2>3, <2>5, <3>2 DEF NamesOf, Whole
  <2> QED
    BY <1>3, <2>4, <2>5
<1> QED
  BY <1>0, <1>1, <1>7, <1>8, <1>9, <1>10, LinkStep DEF d0, here

\* The process dies: the threads that were at work are gone, what they were about to
\* link is torn.
LEMMA CrashStep == ASSUME Inv, Crash PROVE Inv'
<1>1. /\ crashes < MaxCrashes /\ crashes' = crashes + 1
      /\ thread' = [t \in Thread |-> IF Active(t) THEN [thread[t] EXCEPT !.pc = "gone"]
                                     ELSE thread[t]]
      /\ torn' = torn \cup {thread[t].size : t \in {u \in Thread : Relinking(u)}}
      /\ UNCHANGED <<job, public, trees, hard_links, answered>>
  BY DEF Crash
<1>2. thread \in [Thread -> State] /\ crashes \in 0 .. MaxCrashes /\ torn \subseteq Sizes
      /\ MaxCrashes \in Nat
  BY PublicFilesAssumption DEF Inv, TypeOK
<1>3. ASSUME NEW t \in Thread
      PROVE  /\ thread'[t] \in State
             /\ thread'[t].pc = "gone" \/ thread'[t] = thread[t]
             /\ thread'[t].size = thread[t].size
             /\ thread'[t].pc \in {"start", "done", "gone"}
  <2>0. thread[t] \in State
    BY <1>2
  <2>1. CASE Active(t)
    <3>1. thread'[t] = [thread[t] EXCEPT !.pc = "gone"]
      BY <1>1, <2>1
    <3> QED
      BY <2>0, <3>1 DEF State, Pcs
  <2>2. CASE ~Active(t)
    <3>1. thread'[t] = thread[t]
      BY <1>1, <2>2
    <3> QED
      BY <2>0, <2>2, <3>1 DEF Active
  <2> QED
    BY <2>1, <2>2
<1>4. TypeOK'
  <2>1. thread' \in [Thread -> State]
    <3>1. thread' = [t \in Thread |-> thread'[t]]
      BY <1>1
    <3> QED
      BY <1>3, <3>1
  <2>2. torn' \subseteq Sizes
    BY <1>1, <1>2 DEF State
  <2>3. crashes' \in 0 .. MaxCrashes
    BY <1>1, <1>2
  <2> QED
    BY <1>1, <2>1, <2>2, <2>3 DEF Inv, TypeOK
<1>5. ASSUME NEW t \in Thread PROVE Jobbed(t)' /\ TreeFirst(t)'
  <2>1. Jobbed(t) /\ TreeFirst(t)
    BY DEF Inv
  <2>2. CASE thread'[t].pc = "gone"
    BY <2>2 DEF Jobbed, TreeFirst
  <2>3. CASE thread'[t] = thread[t]
    BY <1>1, <2>1, <2>3 DEF Jobbed, TreeFirst
  <2> QED
    BY <1>3, <2>2, <2>3
<1>6. ASSUME NEW k \in Sizes PROVE NamesOf(k)' /\ SourceStays(k)' /\ Named(k)'
  <2>1. NamesOf(k) /\ Named(k)
    BY DEF Inv
  <2>2. NamesOf(k)'
    BY <1>1, <2>1 DEF NamesOf, Blake3Name, Sha256Name, HasSha256
  <2>3. SourceStays(k)'
    <3>1. \A t \in Thread :
             /\ ~ShaWorking(t, k)' /\ ~ShaReplacing(t, k)' /\ ~ShareReplacing(t, k)'
             /\ ~FollowChecking(t, k)' /\ ~FollowReplacing(t, k)'
      <4> SUFFICES ASSUME NEW t \in Thread, NEW d \in Dirs
                   PROVE  /\ ~At(t, k, d, Working)' /\ ~At(t, k, d, Replacing)'
                          /\ ~At(t, k, d, {"exists"})'
        BY DEF ShaWorking, ShaReplacing, ShareReplacing, FollowChecking, FollowReplacing, Dirs
      <4> QED
        BY <1>3 DEF At, Working, Replacing
    <3> QED
      BY <3>1 DEF SourceStays
  <2>4. Named(k)'
    <3> SUFFICES ASSUME NEW d \in Dirs, public[d][k] = None,
                        \/ k \in answered \/ \E t \in Thread : thread'[t].size = k /\ Reached(t, d)'
                        \/ d = "blake3" /\ Sha256Name(k) = "blake3"
                 PROVE  k \in torn'
      BY <1>1 DEF Named, Sha256Name
    <3>1. ASSUME NEW t \in Thread, Reached(t, d)' PROVE Reached(t, d)
      <4>1. thread'[t].pc # "gone"
        BY <3>1 DEF Reached
      <4>2. thread'[t] = thread[t]
        BY <1>3, <4>1
      <4> QED
        BY <1>1, <3>1, <4>2 DEF Reached
    <3>2. \/ k \in answered \/ \E t \in Thread : thread[t].size = k /\ Reached(t, d)
          \/ d = "blake3" /\ Sha256Name(k) = "blake3"
      BY <1>3, <3>1
    <3>3. k \in torn \/ \E t \in Thread : At(t, k, d, {"hard", "sym"})
      BY <2>1, <3>2 DEF Named
    <3>4. ASSUME NEW t \in Thread, At(t, k, d, {"hard", "sym"}) PROVE k \in torn'
      BY <1>1, <3>4 DEF At, Relinking
    <3> QED
      BY <1>1, <3>3, <3>4
  <2> QED
    BY <2>2, <2>3, <2>4
<1>7. (answered \subseteq trees)' /\ (crashes = 0 => torn = {})'
  BY <1>1, <1>2 DEF Inv
<1> QED
  BY <1>4, <1>5, <1>6, <1>7 DEF Inv

\* At first there are no names, and no thread is about any.
LEMMA InitInv == Init => Inv
<1> SUFFICES ASSUME Init PROVE Inv
  OBVIOUS
<1>1. /\ job \in Teams
      /\ public = [d \in Dirs |-> [k \in Sizes |-> None]]
      /\ trees = {} /\ hard_links \in BOOLEAN
      /\ thread = [t \in Thread |-> [pc |-> "start", size |-> Leaves, dest |-> "blake3"]]
      /\ answered = {} /\ torn = {} /\ crashes = 0
  BY DEF Init
<1>2. Leaves \in Sizes /\ None \in Entry /\ 0 \in 0 .. MaxCrashes
  BY PublicFilesAssumption DEF Sizes, Entry
<1>3. thread \in [Thread -> State]
      /\ \A t \in Thread : thread[t].pc = "start" /\ thread[t].dest = "blake3"
  BY <1>1, <1>2 DEF State, Pcs, Dirs
<1>4. TypeOK
  BY <1>1, <1>2, <1>3 DEF TypeOK
<1>5. \A t \in Thread : Jobbed(t) /\ TreeFirst(t)
  BY <1>3 DEF Jobbed, TreeFirst
<1>6. ASSUME NEW k \in Sizes PROVE NamesOf(k) /\ SourceStays(k) /\ Named(k)
  <2>1. NamesOf(k)
    BY <1>1, PublicFilesAssumption DEF NamesOf, Blake3Name, Sha256Name, Dirs
  <2>2. SourceStays(k)
    BY <1>3 DEF SourceStays, ShaWorking, ShaReplacing, ShareReplacing, FollowChecking,
                FollowReplacing, At, Working, Replacing
  <2>3. Named(k)
    BY <1>1, <1>3, PublicFilesAssumption DEF Named, Reached, Sha256Name, Dirs
  <2> QED
    BY <2>1, <2>2, <2>3
<1> QED
  BY <1>1, <1>4, <1>5, <1>6 DEF Inv

\* Every step keeps the invariant, for the teams that Apart allows.
LEMMA NextInv == ASSUME Apart PROVE Inv /\ [Next]_vars => Inv'
<1> SUFFICES ASSUME Inv, [Next]_vars PROVE Inv'
  OBVIOUS
<1>1. CASE Crash
  BY <1>1, CrashStep
<1>2. ASSUME NEW t \in Thread, Step(t) PROVE Inv'
  BY <1>2, ReceiveStep, RenameStep, FinishStep, ShareStep, TreeStep, CheckExistsStep, RemoveStep,
     HardLinkStep, SymLinkStep, AnswerStep DEF Step
<1>3. CASE UNCHANGED vars
  <2>1. UNCHANGED <<job, public, trees, hard_links, thread, answered, torn, crashes>>
    BY <1>3 DEF vars
  <2> QED
    BY <2>1 DEF Inv, TypeOK, Jobbed, TreeFirst, NamesOf, SourceStays, Named, Reached, At,
                ShaWorking, ShaReplacing, ShareReplacing, FollowChecking, FollowReplacing,
                OneWhole, Blake3Name, Sha256Name, HasSha256
<1> QED
  BY <1>1, <1>2, <1>3 DEF Next

\* The inductive invariant holds throughout.
LEMMA Invariant == ASSUME Apart PROVE Spec => []Inv
<1>1. Inv /\ [Next]_vars => Inv'
  BY NextInv
<1> QED
  BY <1>1, InitInv, PTL DEF Spec

-----------------------------------------------------------------------------
(* The properties.                                                         *)

\* Types are kept by every step, for teams of any jobs.
LEMMA TypeNext == TypeOK /\ [Next]_vars => TypeOK'
<1> SUFFICES ASSUME TypeOK, [Next]_vars PROVE TypeOK'
  OBVIOUS
<1>1. /\ job \in Teams /\ public \in [Dirs -> [Sizes -> Entry]] /\ trees \subseteq Sizes
      /\ hard_links \in BOOLEAN /\ thread \in [Thread -> State]
      /\ answered \subseteq Sizes /\ torn \subseteq Sizes /\ crashes \in 0 .. MaxCrashes
      /\ MaxCrashes \in Nat
  BY PublicFilesAssumption DEF TypeOK
<1>2. CASE Crash
  <2>1. \A t \in Thread : [thread[t] EXCEPT !.pc = "gone"] \in State
    BY <1>1 DEF State, Pcs
  <2>2. thread' \in [Thread -> State]
    BY <1>1, <1>2, <2>1 DEF Crash
  <2>3. torn' \subseteq Sizes
    BY <1>1, <1>2 DEF Crash, State
  <2>4. crashes' \in 0 .. MaxCrashes
    BY <1>1, <1>2 DEF Crash
  <2> QED
    BY <1>1, <1>2, <2>2, <2>3, <2>4 DEF Crash, TypeOK
<1>3. ASSUME NEW t \in Thread, Step(t) PROVE TypeOK'
  <2>1. thread[t].size \in Sizes /\ thread[t].dest \in Dirs /\ thread[t] \in State
    BY <1>1 DEF State
  <2>2. ASSUME NEW pc \in Pcs, Goto(t, pc) PROVE thread' \in [Thread -> State]
    <3>1. [thread[t] EXCEPT !.pc = pc] \in State
      BY <2>1 DEF State
    <3> QED
      BY <1>1, <2>2, <3>1 DEF Goto
  <2>3. ASSUME NEW e \in Entry, Set(t, e) PROVE public' \in [Dirs -> [Sizes -> Entry]]
    BY <1>1, <2>1, <2>3 DEF Set
  <2>4. ASSUME NextLink(t) PROVE thread' \in [Thread -> State]
    <3>1. CASE thread' = [thread EXCEPT ![t].pc = "exists", ![t].dest = "sha256"]
      <4>1. [thread[t] EXCEPT !.pc = "exists", !.dest = "sha256"] \in State
        BY <2>1 DEF State, Pcs, Dirs
      <4> QED
        BY <1>1, <3>1, <4>1
    <3>2. CASE Goto(t, "tree") \/ Goto(t, "done")
      BY <2>2, <3>2 DEF Pcs
    <3> QED
      BY <2>4, <3>1, <3>2 DEF NextLink
  <2>5. CASE Receive(t)
    <3>1. ASSUME NEW k \in Sizes, NEW pc \in {"gone", "rename"},
                 thread' = [thread EXCEPT ![t].size = k, ![t].pc = pc]
          PROVE  thread' \in [Thread -> State]
      <4>1. [thread[t] EXCEPT !.size = k, !.pc = pc] \in State
        BY <2>1 DEF State, Pcs
      <4> QED
        BY <1>1, <3>1, <4>1
    <3>2. thread' \in [Thread -> State]
      BY <2>2, <2>5, <3>1 DEF Receive, Pcs
    <3> QED
      BY <1>1, <2>5, <3>2 DEF Receive, TypeOK
  <2>6. CASE Rename(t)
    <3>1. [thread[t] EXCEPT !.pc = "hard", !.dest = "sha256"] \in State
      BY <2>1 DEF State, Pcs, Dirs
    <3>2. thread' \in [Thread -> State]
      BY <1>1, <2>6, <3>1 DEF Rename
    <3>3. public' \in [Dirs -> [Sizes -> Entry]]
      BY <2>3, <2>6 DEF Rename, Entry
    <3> QED
      BY <1>1, <2>6, <3>2, <3>3 DEF Rename, TypeOK
  <2>7. CASE Finish(t)
    <3>1. PICK d \in Dirs, pc \in Pcs :
            /\ public' = [public EXCEPT ![d][thread[t].size] = "file"]
            /\ thread' = [thread EXCEPT ![t].dest = Other(d), ![t].pc = pc]
      BY <2>7 DEF Finish, Dirs, Pcs
    <3>2. [thread[t] EXCEPT !.dest = Other(d), !.pc = pc] \in State
      BY <2>1 DEF State, Dirs, Other
    <3>3. thread' \in [Thread -> State]
      BY <1>1, <3>1, <3>2
    <3>4. "file" \in Entry
      BY DEF Entry
    <3>5. public' \in [Dirs -> [Sizes -> Entry]]
      BY <1>1, <2>1, <3>1, <3>4
    <3> QED
      BY <1>1, <2>7, <3>3, <3>5 DEF Finish, TypeOK
  <2>8. CASE Share(t) \/ Tree(t) \/ Answer(t)
    <3>1. thread' \in [Thread -> State]
      BY <2>2, <2>8 DEF Share, Tree, Answer, Pcs
    <3> QED
      BY <1>1, <2>1, <2>8, <3>1 DEF Share, Tree, Answer, TypeOK
  <2>9. CASE CheckExists(t)
    <3>1. thread' \in [Thread -> State]
      BY <2>2, <2>4, <2>9 DEF CheckExists, Pcs
    <3> QED
      BY <1>1, <2>9, <3>1 DEF CheckExists, TypeOK
  <2>10. CASE Remove(t)
    <3>1. thread' \in [Thread -> State] /\ public' \in [Dirs -> [Sizes -> Entry]]
      BY <2>2, <2>3, <2>10 DEF Remove, Pcs, Entry
    <3> QED
      BY <1>1, <2>10, <3>1 DEF Remove, TypeOK
  <2>11. Other(thread[t].dest) \in Dirs
    BY DEF Other, Dirs
  <2>12. CASE HardLink(t)
    <3>1. Source(t) \in Entry
      BY <1>1, <2>1, <2>11 DEF Source, Entry
    <3>2. Linked(Source(t)) \in Entry
      BY <3>1 DEF Linked, Entry
    <3>3. thread' \in [Thread -> State]
      BY <2>2, <2>4, <2>12 DEF HardLink, Pcs
    <3>4. public' \in [Dirs -> [Sizes -> Entry]]
      BY <1>1, <2>3, <2>12, <3>2 DEF HardLink
    <3> QED
      BY <1>1, <2>12, <3>3, <3>4 DEF HardLink, TypeOK
  <2>13. CASE SymLink(t)
    <3> DEFINE e == IF Here(t) # None THEN Here(t)
                    ELSE IF job[t] = "share" /\ thread[t].dest = "blake3" THEN "user"
                    ELSE Other(thread[t].dest)
    <3>1. Here(t) \in Entry
      BY <1>1, <2>1 DEF Here
    <3>2. e \in Entry
      BY <2>11, <3>1 DEF Entry
    <3>3. Set(t, e)
      BY <2>13 DEF SymLink
    <3> HIDE DEF e
    <3>4. thread' \in [Thread -> State] /\ public' \in [Dirs -> [Sizes -> Entry]]
      BY <2>3, <2>4, <2>13, <3>2, <3>3 DEF SymLink
    <3> QED
      BY <1>1, <2>13, <3>4 DEF SymLink, TypeOK
  <2> QED
    BY <1>3, <2>5, <2>6, <2>7, <2>8, <2>9, <2>10, <2>12, <2>13 DEF Step
<1>4. CASE UNCHANGED vars
  BY <1>1, <1>4 DEF vars, TypeOK
<1> QED
  BY <1>2, <1>3, <1>4 DEF Next

\* Names are files or links to them, threads are where the code can be (handle_upload,
\* /share and what follows a download), whatever jobs meet.
THEOREM TypeCorrect == Spec => []TypeOK
<1>1. Init => TypeOK
  BY InitInv DEF Inv
<1> QED
  BY <1>1, TypeNext, PTL DEF Spec

\* An upload that was answered (handle_upload) keeps both names and its tree, except
\* while a link is being replaced, and after a crash there.
THEOREM AnsweredIsKeptCorrect == ASSUME Apart PROVE Spec => []AnsweredIsKept
<1>1. Inv => AnsweredIsKept
  <2> SUFFICES ASSUME Inv, NEW k \in answered \ torn,
                      \A t \in Thread : Relinking(t) => thread[t].size # k
               PROVE  k \in trees /\ \A d \in Dirs : Exists(d, k)
    BY DEF AnsweredIsKept
  <2>1. k \in trees /\ k \in Sizes
    BY DEF Inv, TypeOK
  <2>2. NamesOf(k) /\ Named(k)
    BY <2>1 DEF Inv
  <2>3. \A t \in Thread, d \in Dirs : ~At(t, k, d, {"hard", "sym"})
    BY DEF At, Relinking
  <2>4. \A d \in Dirs : public[d][k] # None
    BY <2>2, <2>3 DEF Named
  <2>5. Exists("blake3", k) /\ Exists("sha256", k)
    BY <2>1, <2>2, <2>4, ExistsFacts DEF Blake3Name, Sha256Name, Dirs
  <2> QED
    BY <2>1, <2>5 DEF Dirs
<1>2. Spec => []Inv
  BY Invariant
<1> QED
  BY <1>1, <1>2, PTL

\* When the threads of a content have ended it has both names (what follows
\* serve_http_content's downloads, /share and handle_upload).
THEOREM QuietIsWholeCorrect == ASSUME Apart PROVE Spec => []QuietIsWhole
<1>1. Inv => QuietIsWhole
  <2> SUFFICES ASSUME Inv, \A t \in Thread : ~Active(t), crashes = 0,
                      NEW t \in Thread, thread[t].pc = "done", NEW d \in Dirs,
                      ~(job[t] = "small" /\ d = "blake3")
               PROVE  Exists(d, thread[t].size)
    BY DEF QuietIsWhole
  <2> DEFINE k == thread[t].size
  <2>1. /\ k \in Sizes /\ NamesOf(k) /\ Named(k) /\ torn = {}
    BY Before DEF Inv
  <2>2. \A u \in Thread, e \in Dirs : ~At(u, k, e, {"hard", "sym"})
    BY DEF At, Active
  <2>3. \A e \in Dirs : Reached(t, e) => public[e][k] # None
    BY <2>1, <2>2 DEF Named
  <2>4. Reached(t, "sha256") /\ Reached(t, d)
    BY DEF Reached, Dirs
  <2>5. Sha256Name(k) # None /\ (d = "blake3" => Blake3Name(k) # None)
    BY <2>3, <2>4 DEF Dirs, Blake3Name, Sha256Name
  <2>6. CASE d = "blake3"
    BY <2>1, <2>5, <2>6, ExistsFacts
  <2>7. CASE d = "sha256" /\ Blake3Name(k) # None
    BY <2>1, <2>5, <2>7, ExistsFacts
  <2>8. CASE d = "sha256" /\ Blake3Name(k) = None
    <3>1. Sha256Name(k) # "blake3"
      BY <2>1, <2>2, <2>8 DEF Named, Dirs, Blake3Name
    <3>2. Sha256Name(k) \in Whole
      BY <2>1, <2>5, <3>1 DEF NamesOf
    <3> QED
      BY <2>1, <2>8, <3>2, ExistsFacts
  <2> QED
    BY <2>6, <2>7, <2>8 DEF Dirs
<1>2. Spec => []Inv
  BY Invariant
<1> QED
  BY <1>1, <1>2, PTL

=============================================================================

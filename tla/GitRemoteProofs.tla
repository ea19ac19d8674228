-------------------------- MODULE GitRemoteProofs --------------------------
(***************************************************************************)
(* Proofs about GitRemote, for any number of processes, refs, versions and *)
(* faults.  The argument for PushesAdd: until a push is excused, the only  *)
(* process that can publish is the one that holds the lock, so that what   *)
(* was published when its fetch was answered still is when it publishes    *)
(* (PushFits); and the file it builds on is that answer unless another     *)
(* process changed it, which the process is marked for (AnswerFits).  An   *)
(* upload that was left behind and not overtaken is the only one, and      *)
(* nobody has had the lock since (UploadsFit).                             *)
(***************************************************************************)
EXTENDS GitRemote, TLAPS

-----------------------------------------------------------------------------
(* The inductive invariant.                                                 *)

Fetching == {"etag", "compare", "remove_bundle", "remove_etag", "request", "store", "store_etag"}

\* Who calls is where it goes on.
JobFits(q) ==
  /\ proc[q].pc = "list" => proc[q].job = "list"
  /\ proc[q].pc = "unbundle" => proc[q].job \in {"list", "heal"}
  /\ proc[q].pc = "lock" => proc[q].job = "probe"
  /\ proc[q].pc \in {"drop_bundle", "drop_etag"} => proc[q].job = "heal"
  /\ proc[q].pc \in {"base", "heads", "publish", "unlock"} => proc[q].job = "push"

\* The cached bundle is the one that was compared, written or answered.
AnswerFits(q) ==
  /\ proc[q].job = "push" /\ proc[q].pc \in Fetching => ~proc[q].existing
  /\ proc[q].pc \in {"remove_bundle", "remove_etag"} => proc[q].tag = None
  /\ proc[q].pc = "request" /\ ~proc[q].disturbed => proc[q].tag \in {None, bundle_file}
  /\ proc[q].pc = "store_etag" /\ ~proc[q].disturbed => bundle_file = proc[q].body
  /\ proc[q].pc \in InUse /\ (proc[q].job = "push" => proc[q].existing) /\ ~proc[q].disturbed
       => bundle_file = proc[q].body

Current(b) == published # None /\ b # None /\ b.refs = published.refs

\* A push holds the lock, and builds on what is published.
PushFits(q) ==
  proc[q].job = "push" /\ ~excused =>
    /\ lock = q
    /\ proc[q].pc \in {"store", "store_etag"} => proc[q].missed \/ Current(proc[q].body)
    /\ proc[q].pc = "base" =>
         \/ proc[q].missed
         \/ IF proc[q].existing THEN Current(proc[q].body) ELSE published = None
    /\ proc[q].pc = "heads" /\ ~proc[q].disturbed =>
         \/ proc[q].missed
         \/ IF proc[q].existing THEN Current(proc[q].body) /\ bundle_file = proc[q].body
            ELSE published = None
    /\ proc[q].pc = "publish" /\ ~proc[q].disturbed /\ ~proc[q].missed =>
         \A r \in Ref \ Odd : proc[q].union[r] = Union(q, pushed)[r]

ProcFits(q) == JobFits(q) /\ AnswerFits(q) /\ PushFits(q)

NothingPushed == published = None => pushed = NoRefs

\* An upload that was left, and that no push has overtaken, still adds to what
\* is published, and is the only one.
Left(q) == uploads[q] # None /\ ~uploads[q].stale /\ ~excused
UploadFits(q) ==
  Left(q) => /\ proc[q].pc \in {"unlock", "done"}
             /\ lock \in {q, None}
             /\ \A r \in Ref \ Odd : uploads[q].bundle.refs[r] = Union(q, pushed)[r]
UploadsFit == \A q \in Proc : UploadFits(q) /\ \A p \in Proc : Left(p) /\ Left(q) => p = q

IInv == TypeOK /\ PushesAdd /\ NothingPushed /\ UploadsFit /\ \A q \in Proc : ProcFits(q)

-----------------------------------------------------------------------------
(* Types.                                                                   *)

\* A bundle without refs is one.
LEMMA NoRefsType == NoRefs \in Refs
BY DEF NoRefs, Refs

\* A union of refs is refs.
LEMMA UnionType ==
  ASSUME NEW p \in Proc, NEW base \in Refs
  PROVE  Union(p, base) \in Refs
BY GitRemoteAssumption DEF Union, Refs

\* What is advertised of a bundle is refs.
LEMMA AdvertisedType ==
  ASSUME NEW b \in Bundle
  PROVE  Advertised(b) \in Refs
BY DEF Advertised, Bundle, Refs

\* An idle process is one.
LEMMA IdleType == Idle \in Process
BY NoRefsType DEF Idle, Process, Pcs, InUse, Jobs

\* What a process leaves of an upload is one.
LEMMA SentType ==
  ASSUME NEW p \in Proc, NEW whole \in BOOLEAN, proc[p] \in Process
  PROVE  Sent(p, whole) \in Upload
BY DEF Sent, Upload, Bundle, Process

\* A cut bundle keeps the refs of its header.
LEMMA CutType ==
  ASSUME NEW b \in Bundle
  PROVE  Cut(b) \in Bundle /\ Cut(b).refs = b.refs
BY DEF Cut, Bundle

\* A process that has its answer is one.
LEMMA AnsweredType ==
  ASSUME NEW me \in Process, NEW pc \in Pcs, NEW body \in Bundle \cup {None},
         NEW etag \in Bundle \cup {None}, NEW behind \in BOOLEAN
  PROVE  /\ [me EXCEPT !.pc = pc, !.body = body, !.tag = None, !.existing = TRUE, !.missed = behind]
               \in Process
         /\ [me EXCEPT !.pc = pc, !.tag = None, !.missed = behind, !.body = body, !.etag = etag]
               \in Process
<1> DEFINE B == Bundle \cup {None}
<1>1. None \in B /\ body \in B /\ etag \in B
  OBVIOUS
<1>2. Process = [pc : Pcs, job : Jobs, tag : B, body : B, etag : B, existing : BOOLEAN,
                 union : Refs, disturbed : BOOLEAN, missed : BOOLEAN]
  BY DEF Process
<1> HIDE DEF B
<1> QED
  BY <1>1, <1>2, ZenonT(60)

\* An upload that is overtaken is one.
LEMMA StaleType ==
  ASSUME NEW u \in Upload
  PROVE  [u EXCEPT !.stale = TRUE] \in Upload
BY DEF Upload

\* A process that writes the bundle file keeps files and processes of their type.
LEMMA ChangeType ==
  ASSUME TypeOK, NEW p \in Proc, NEW b \in Bundle \cup {None}, NEW me \in Process,
         ChangeBundle(p, b, me)
  PROVE  bundle_file' \in Bundle \cup {None} /\ proc' \in [Proc -> Process]
<1>1. \A q \in Proc : [proc[q] EXCEPT !.disturbed = TRUE] \in Process
  BY DEF TypeOK, Process
<1> QED
  BY <1>1 DEF ChangeBundle, TypeOK

\* Where a job goes on after its fetch is a place of the program.
LEMMA AfterFetchType ==
  ASSUME NEW j \in Jobs
  PROVE  AfterFetch(j) \in Pcs
BY DEF AfterFetch, Jobs, Pcs, InUse

\* A process that starts is of its type.
LEMMA StartType ==
  /\ \A p \in Proc : [Idle EXCEPT !.pc = "etag", !.job = IF Pushes(p) THEN "probe" ELSE "list"]
                       \in Process
  /\ [Idle EXCEPT !.pc = "etag", !.job = "push"] \in Process
BY IdleType, ZenonT(40) DEF Process, Pcs, InUse, Jobs

\* A step of p changes p alone.
LEMMA BecomeType ==
  ASSUME TypeOK, NEW p \in Proc, NEW me \in Process, Become(p, me)
  PROVE  proc' \in [Proc -> Process] /\ proc'[p] = me /\ \A q \in Proc \ {p} : proc'[q] = proc[q]
BY DEF Become, TypeOK

\* At first everything is of its type.
LEMMA InitType == Init => TypeOK
<1> SUFFICES ASSUME Init PROVE TypeOK
  OBVIOUS
<1>1. proc \in [Proc -> Process]
  BY StartType DEF Init
<1>2. First \in Bundle \cup {None} /\ pushed \in Refs /\ uploads \in [Proc -> Upload \cup {None}]
  BY GitRemoteAssumption, NoRefsType DEF Init, Bundle
<1>3. faults \in 0 .. MaxFaults
  <2>1. faults = 0
    BY DEF Init
  <2>2. MaxFaults \in Nat
    BY GitRemoteAssumption
  <2> QED
    BY <2>1, <2>2
<1> QED
  BY <1>1, <1>2, <1>3 DEF Init, TypeOK

\* No step leaves the types.
LEMMA StepType ==
  ASSUME TypeOK, [Next]_vars
  PROVE  TypeOK'
<1> USE GitRemoteAssumption DEF TypeOK
<1>0. CASE UNCHANGED vars
  BY <1>0 DEF vars
<1>t. \A p \in Proc : proc[p] \in Process
  OBVIOUS
<1>p. {"etag", "compare", "remove_bundle", "remove_etag", "request", "store", "store_etag",
       "drop_bundle", "drop_etag", "heads", "publish", "unlock", "done", "list", "unbundle",
       "base", "lock"} \subseteq Pcs
  BY DEF Pcs, InUse
<1>a. \A p \in Proc : AfterFetch(proc[p].job) \in Pcs
  BY <1>t, AfterFetchType DEF Process
<1>g. ASSUME NEW p \in Proc, NEW pc \in Pcs, Goto(p, pc) PROVE proc' \in [Proc -> Process]
  <2>1. [proc[p] EXCEPT !.pc = pc] \in Process
    BY <1>t DEF Process
  <2> QED
    BY <1>g, <2>1, BecomeType DEF Goto
<1>e. ASSUME NEW p \in Proc, End(p) PROVE proc' \in [Proc -> Process]
  BY <1>e, IdleType, BecomeType DEF End
<1>f. Fault => faults' \in 0 .. MaxFaults
  BY DEF Fault
<1>1. ASSUME NEW p \in Proc, ReadEtag(p) PROVE TypeOK'
  <2>1. [proc[p] EXCEPT !.tag = etag_file,
                          !.pc = IF etag_file = None THEN "remove_bundle" ELSE "compare"]
         \in Process
    BY <1>t, <1>p, ZenonT(40) DEF Process
  <2> QED
    BY <1>1, <2>1, BecomeType DEF ReadEtag, cache, remote, node
<1>2. ASSUME NEW p \in Proc, Compare(p) PROVE TypeOK'
  <2> DEFINE next == IF bundle_file = proc[p].tag THEN "request" ELSE "remove_bundle"
             tag == IF bundle_file = proc[p].tag THEN proc[p].tag ELSE None
  <2>2. next \in Pcs /\ tag \in Bundle \cup {None}
    BY <1>t, <1>p DEF Process
  <2>1. [proc[p] EXCEPT !.disturbed = FALSE, !.pc = next, !.tag = tag] \in Process
    <3> HIDE DEF next, tag
    <3> QED
      BY <2>2, <1>t, ZenonT(40) DEF Process
  <2> QED
    BY <1>2, <2>1, BecomeType DEF Compare, cache, remote, node
<1>3. ASSUME NEW p \in Proc, RemoveBundle(p) PROVE TypeOK'
  <2>1. [proc[p] EXCEPT !.pc = IF @ = "drop_bundle" THEN "drop_etag" ELSE "remove_etag"] \in Process
    BY <1>t, <1>p DEF Process
  <2> QED
    BY <1>3, <2>1, ChangeType DEF RemoveBundle, remote, node
<1>4. ASSUME NEW p \in Proc, RemoveEtag(p) PROVE TypeOK'
  BY <1>4, <1>g, <1>p DEF RemoveEtag, remote, node
<1>5. ASSUME NEW p \in Proc, NotModified(p) PROVE TypeOK'
  <2>1. [proc[p] EXCEPT !.pc = AfterFetch(proc[p].job), !.body = served,
                          !.tag = None, !.existing = TRUE, !.missed = served # published] \in Process
    <3> DEFINE behind == served # published
    <3>1. behind \in BOOLEAN /\ AfterFetch(proc[p].job) \in Pcs
      BY <1>a
    <3> HIDE DEF behind
    <3>2. [proc[p] EXCEPT !.pc = AfterFetch(proc[p].job), !.body = served,
             !.tag = None, !.existing = TRUE, !.missed = behind] \in Process
      BY <3>1, <1>t, AnsweredType
    <3> QED
      BY <3>2 DEF behind
  <2> QED
    BY <1>5, <2>1, BecomeType DEF NotModified, cache, remote, node
<1>6. ASSUME NEW p \in Proc, Fresh(p) PROVE TypeOK'
  <2>1. PICK whole \in BOOLEAN :
          /\ IF whole THEN UNCHANGED faults ELSE Fault
          /\ Become(p, [proc[p] EXCEPT !.pc = "store", !.tag = None,
                          !.missed = served # published, !.body = IF whole THEN served ELSE Cut(served),
                          !.etag = IF tagged THEN served ELSE None])
    BY <1>6 DEF Fresh
  <2>2. served \in Bundle /\ Cut(served) \in Bundle
    BY <1>6, CutType DEF Fresh
  <2> DEFINE body == IF whole THEN served ELSE Cut(served)
             etag == IF tagged THEN served ELSE None
  <2>5. body \in Bundle /\ etag \in Bundle \cup {None}
    BY <2>2
  <2>3. [proc[p] EXCEPT !.pc = "store", !.tag = None, !.missed = served # published,
                         !.body = body, !.etag = etag] \in Process
    <3> DEFINE behind == served # published
    <3>1. behind \in BOOLEAN
      OBVIOUS
    <3> HIDE DEF body, etag, behind
    <3>2. [proc[p] EXCEPT !.pc = "store", !.tag = None, !.missed = behind,
                          !.body = body, !.etag = etag] \in Process
      BY <2>5, <3>1, <1>t, <1>p, AnsweredType
    <3> QED
      BY <3>2 DEF behind
  <2>4. proc' \in [Proc -> Process]
    BY <2>1, <2>3, BecomeType
  <2> QED
    BY <1>6, <1>f, <2>1, <2>4 DEF Fresh, cache, remote, node
<1>7. ASSUME NEW p \in Proc, NoAnswer(p) PROVE TypeOK'
  <2>1. [proc[p] EXCEPT !.pc = AfterFetch(proc[p].job), !.missed = published # None] \in Process
    BY <1>t, <1>a, ZenonT(40) DEF Process
  <2>2. proc' \in [Proc -> Process]
    BY <1>7, <1>e, <2>1, BecomeType DEF NoAnswer
  <2> QED
    BY <1>7, <1>f, <2>2 DEF NoAnswer, cache, remote, node
<1>8. ASSUME NEW p \in Proc, Store(p) PROVE TypeOK'
  <2>1. [proc[p] EXCEPT !.pc = "store_etag", !.disturbed = FALSE] \in Process
    BY <1>t, <1>p, ZenonT(40) DEF Process
  <2>2. proc[p].body \in Bundle \cup {None}
    BY <1>t DEF Process
  <2> QED
    BY <1>8, <2>1, <2>2, ChangeType DEF Store, remote, node
<1>9. ASSUME NEW p \in Proc, StoreEtag(p) PROVE TypeOK'
  <2>1. [proc[p] EXCEPT !.pc = AfterFetch(proc[p].job), !.etag = None,
                          !.existing = TRUE] \in Process
    BY <1>t, <1>a, ZenonT(40) DEF Process
  <2>2. etag_file' \in Bundle \cup {None}
    BY <1>9, <1>t DEF StoreEtag, Process
  <2> QED
    BY <1>9, <2>1, <2>2, BecomeType DEF StoreEtag, remote, node
<1>10. ASSUME NEW p \in Proc, List(p) PROVE TypeOK'
  BY <1>10, <1>g, <1>e, <1>p DEF List, cache, remote, node
<1>11. ASSUME NEW p \in Proc, Unbundle(p) PROVE TypeOK'
  <2>1. [proc[p] EXCEPT !.pc = "drop_bundle", !.job = "heal"] \in Process
    BY <1>t, <1>p, ZenonT(40) DEF Process, Jobs
  <2> QED
    BY <1>11, <2>1, BecomeType, <1>e DEF Unbundle, cache, remote, node
<1>12. ASSUME NEW p \in Proc, Lock(p) PROVE TypeOK'
  <2>1. proc' \in [Proc -> Process]
    BY <1>12, StartType, BecomeType DEF Lock
  <2>2. uploads' \in [Proc -> Upload \cup {None}]
    <3>1. ASSUME NEW q \in Proc, uploads[q] # None
          PROVE  [uploads[q] EXCEPT !.stale = TRUE] \in Upload
      BY <3>1, StaleType
    <3> QED
      BY <1>12, <3>1 DEF Lock, Overtaken
  <2> QED
    BY <1>12, <2>1, <2>2 DEF Lock, cache, node
<1>13. ASSUME NEW p \in Proc, StatusFails(p) PROVE TypeOK'
  BY <1>13, <1>e, <1>f DEF StatusFails, cache, remote, node
<1>14. ASSUME NEW p \in Proc, LockFails(p) PROVE TypeOK'
  BY <1>14, StartType, BecomeType, <1>f DEF LockFails, cache, node
<1>15. ASSUME NEW p \in Proc, FailPush(p) PROVE TypeOK'
  BY <1>15, <1>g, <1>p DEF FailPush, cache, remote, node
<1>16. ASSUME NEW p \in Proc, Base(p) PROVE TypeOK'
  <2>1. [proc[p] EXCEPT !.pc = "heads", !.body = bundle_file] \in Process
    BY <1>t, <1>p, ZenonT(40) DEF Process
  <2> QED
    BY <1>16, <1>15, <2>1, BecomeType DEF Base, cache, remote, node
<1>17. ASSUME NEW p \in Proc, Heads(p) PROVE TypeOK'
  <2>1. CASE FailPush(p)
    BY <2>1, <1>15
  <2>2. CASE ~FailPush(p)
    <3> DEFINE u == Union(p, IF proc[p].existing THEN Advertised(bundle_file) ELSE NoRefs)
    <3>1. /\ proc[p].existing => bundle_file # None
          /\ Become(p, [proc[p] EXCEPT !.pc = "publish", !.body = None, !.union = u])
          /\ UNCHANGED <<cache, remote, lock, faults>>
      BY <1>17, <2>2 DEF Heads
    <3>2. u \in Refs
      BY <3>1, UnionType, AdvertisedType, NoRefsType
    <3>3. [proc[p] EXCEPT !.pc = "publish", !.body = None, !.union = u] \in Process
      BY <3>2, <1>t, <1>p, ZenonT(40) DEF Process
    <3>4. proc' \in [Proc -> Process]
      BY <3>1, <3>3, BecomeType
    <3> QED
      BY <3>1, <3>4 DEF cache, remote, node
  <2> QED
    BY <2>1, <2>2
<1>o. ASSUME NEW p \in Proc, NEW u \in Upload, Overwrite(p, u)
      PROVE  /\ published' \in Bundle /\ served' \in Bundle /\ pushed' \in Refs
             /\ excused' \in BOOLEAN /\ tagged' = tagged
  BY <1>o, UnionType DEF Overwrite, Upload
<1>n. None \notin Bundle
  OBVIOUS
<1>l. \A p \in Proc : Unlocked(p) \in Proc \cup {None}
  BY DEF Unlocked
<1>v. ASSUME NEW p \in Proc, Leave(p) PROVE uploads' \in [Proc -> Upload \cup {None}]
  BY <1>v, <1>t, SentType DEF Leave
<1>18. ASSUME NEW p \in Proc, Publish(p) PROVE TypeOK'
  <2>1. PICK whole \in BOOLEAN :
          Overwrite(p, Sent(p, whole)) /\ (UNCHANGED faults \/ Fault)
    BY <1>18 DEF Publish
  <2>2. /\ published' \in Bundle /\ served' \in Bundle /\ pushed' \in Refs
        /\ excused' \in BOOLEAN /\ tagged' = tagged
    BY <2>1, <1>o, <1>t, SentType
  <2>3. proc' \in [Proc -> Process] /\ faults' \in 0 .. MaxFaults
    BY <1>18, <2>1, <1>f, <1>g, <1>p DEF Publish
  <2> QED
    BY <1>18, <1>n, <2>2, <2>3 DEF Publish, cache
<1>18a. ASSUME NEW p \in Proc, PublishFails(p) PROVE TypeOK'
  BY <1>18a, <1>v, <1>f, <1>g, <1>p DEF PublishFails, cache, node
<1>19. ASSUME NEW p \in Proc, Unlock(p) PROVE TypeOK'
  BY <1>19, <1>e, <1>l DEF Unlock, cache, remote, node
<1>20. ASSUME NEW p \in Proc, Crash(p) PROVE TypeOK'
  BY <1>20, <1>v, <1>e, <1>l, <1>f DEF Crash, cache, node
<1>21. ASSUME NEW p \in Proc, Land(p) PROVE TypeOK'
  <2>1. uploads[p] \in Upload
    BY <1>21 DEF Land
  <2>2. Overwrite(p, uploads[p])
    BY <1>21 DEF Land
  <2>3. /\ published' \in Bundle /\ served' \in Bundle /\ pushed' \in Refs
        /\ excused' \in BOOLEAN /\ tagged' = tagged
    BY <2>1, <2>2, <1>o
  <2>4. faults' \in 0 .. MaxFaults
    BY <1>21, <1>f DEF Land
  <2> QED
    BY <1>21, <1>n, <2>3, <2>4 DEF Land, cache
<1> QED
  BY <1>0, <1>1, <1>2, <1>3, <1>4, <1>5, <1>6, <1>7, <1>8, <1>9, <1>10, <1>11, <1>12, <1>13, <1>14,
     <1>16, <1>17, <1>18, <1>18a, <1>19, <1>20, <1>21 DEF Next, Step

\* Bundles, cache files and processes are of their type, whatever fails.
THEOREM TypeCorrect == Spec => []TypeOK
<1>1. Init => TypeOK
  BY InitType
<1>2. TypeOK /\ [Next]_vars => TypeOK'
  BY StepType
<1> QED
  BY <1>1, <1>2, PTL DEF Spec

-----------------------------------------------------------------------------
(* The invariant.                                                           *)

\* What another process may do to q while it runs.
LEMMA Others ==
  ASSUME NEW q \in Proc, ProcFits(q),
         proc'[q] = proc[q] \/ (proc[q] \in Process /\ proc'[q] = [proc[q] EXCEPT !.disturbed = TRUE]),
         bundle_file' = bundle_file \/ proc[q].pc \notin Relies \/ proc'[q].disturbed,
         \/ excused'
         \/ proc[q].job # "push"
         \/ /\ lock = q => lock' = q
            /\ UNCHANGED <<published, pushed>> /\ (excused => excused')
  PROVE  ProcFits(q)'
<1>1. /\ proc'[q].pc = proc[q].pc /\ proc'[q].job = proc[q].job /\ proc'[q].tag = proc[q].tag
      /\ proc'[q].body = proc[q].body /\ proc'[q].existing = proc[q].existing
      /\ proc'[q].union = proc[q].union /\ proc'[q].missed = proc[q].missed
      /\ proc[q].disturbed => proc'[q].disturbed
  BY DEF Process
<1>2. JobFits(q)'
  BY <1>1 DEF ProcFits, JobFits
<1>3. AnswerFits(q)'
  BY <1>1 DEF ProcFits, AnswerFits, Relies
<1>4. PushFits(q)'
  <2>1. CASE excused' \/ proc[q].job # "push"
    BY <1>1, <2>1 DEF PushFits
  <2>2. CASE /\ lock = q => lock' = q
             /\ UNCHANGED <<published, pushed>> /\ (excused => excused')
    BY <1>1, <2>2 DEF ProcFits, PushFits, Current, Relies, InUse, Union
  <2> QED
    BY <2>1, <2>2
<1> QED
  BY <1>2, <1>3, <1>4 DEF ProcFits
\* The lock does not change for those who hold it and are not p.
LockKept(p) == \A q \in Proc \ {p} : lock = q => lock' = q

\* A step of p that leaves bundle and node alone disturbs no other process.
LEMMA OthersBecome ==
  ASSUME TypeOK, \A q \in Proc : ProcFits(q), NEW p \in Proc, NEW me, Become(p, me),
         UNCHANGED <<bundle_file, published, pushed, excused>>, LockKept(p)
  PROVE  proc'[p] = me /\ \A q \in Proc \ {p} : ProcFits(q)'
<1>1. \A q \in Proc \ {p} : proc'[q] = proc[q]
  BY DEF Become, TypeOK
<1>2. ASSUME NEW q \in Proc \ {p} PROVE ProcFits(q)'
  BY <1>1, Others DEF LockKept
<1> QED
  BY <1>2 DEF Become, TypeOK

\* A write to the bundle file marks those that go by it, and so disturbs none of them.
LEMMA OthersChange ==
  ASSUME TypeOK, \A q \in Proc : ProcFits(q), NEW p \in Proc, NEW b, NEW me, ChangeBundle(p, b, me),
         UNCHANGED <<lock, published, pushed, excused>>
  PROVE  proc'[p] = me /\ bundle_file' = b /\ \A q \in Proc \ {p} : ProcFits(q)'
<1>1. ASSUME NEW q \in Proc \ {p} PROVE ProcFits(q)'
  <2>1. proc[q] \in Process
    BY DEF TypeOK
  <2>2. CASE b = bundle_file \/ proc[q].pc \notin Relies
    <3>1. proc'[q] = proc[q]
      BY <2>2 DEF ChangeBundle
    <3> QED
      BY <2>2, <3>1, Others DEF ChangeBundle
  <2>3. CASE ~(b = bundle_file \/ proc[q].pc \notin Relies)
    <3>1. proc'[q] = [proc[q] EXCEPT !.disturbed = TRUE]
      BY <2>3 DEF ChangeBundle
    <3>2. proc'[q].disturbed
      BY <2>1, <3>1 DEF Process
    <3> QED
      BY <2>1, <3>1, <3>2, Others
  <2> QED
    BY <2>2, <2>3
<1> QED
  BY <1>1 DEF ChangeBundle

\* A process that has ended, or begins to fetch.
LEMMA IdleFits ==
  ASSUME NEW p \in Proc, proc'[p] = Idle
  PROVE  ProcFits(p)'
BY DEF Idle, ProcFits, JobFits, AnswerFits, PushFits, InUse, Fetching

\* After each step every process is as far as its lock, its answer and its job say.
LEMMA StepFits ==
  ASSUME IInv, [Next]_vars
  PROVE  \A q \in Proc : ProcFits(q)'
<1> USE DEF IInv
<1>t. \A p \in Proc : proc[p] \in Process
  BY DEF TypeOK
<1>0. CASE UNCHANGED vars
  BY <1>0, Others DEF vars
<1>e. ASSUME NEW p \in Proc, End(p), UNCHANGED <<bundle_file, published, pushed, excused>>,
             LockKept(p)
      PROVE  \A q \in Proc : ProcFits(q)'
  BY <1>e, OthersBecome, IdleFits DEF End
<1>1. ASSUME NEW p \in Proc, ReadEtag(p) PROVE \A q \in Proc : ProcFits(q)'
  <2> DEFINE me == [proc[p] EXCEPT !.tag = etag_file,
                  !.pc = IF etag_file = None THEN "remove_bundle" ELSE "compare"]
  <2>1. proc'[p] = me /\ \A q \in Proc \ {p} : ProcFits(q)'
    BY <1>1, OthersBecome DEF ReadEtag, At, LockKept, cache, remote, node
  <2>2. ProcFits(p)'
    BY <1>1, <1>t, <2>1 DEF ReadEtag, At, cache, remote, node, ProcFits, JobFits, AnswerFits,
       PushFits, Current, InUse, Fetching, Process
  <2> QED
    BY <2>1, <2>2
<1>2. ASSUME NEW p \in Proc, Compare(p) PROVE \A q \in Proc : ProcFits(q)'
  <2> DEFINE me == [proc[p] EXCEPT !.disturbed = FALSE,
                  !.pc = IF bundle_file = proc[p].tag THEN "request" ELSE "remove_bundle",
                  !.tag = IF bundle_file = @ THEN @ ELSE None]
  <2>1. proc'[p] = me /\ \A q \in Proc \ {p} : ProcFits(q)'
    BY <1>2, OthersBecome DEF Compare, At, LockKept, cache, remote, node
  <2>2. ProcFits(p)'
    BY <1>2, <1>t, <2>1 DEF Compare, At, cache, remote, node, ProcFits, JobFits, AnswerFits, PushFits,
       Current, InUse, Fetching, Process
  <2> QED
    BY <2>1, <2>2
<1>3. ASSUME NEW p \in Proc, RemoveBundle(p) PROVE \A q \in Proc : ProcFits(q)'
  <2> DEFINE me == [proc[p] EXCEPT !.pc = IF @ = "drop_bundle" THEN "drop_etag" ELSE "remove_etag"]
  <2>1. proc'[p] = me /\ bundle_file' = None /\ \A q \in Proc \ {p} : ProcFits(q)'
    BY <1>3, OthersChange DEF RemoveBundle, remote, node
  <2>2. ProcFits(p)'
    BY <1>3, <1>t, <2>1 DEF RemoveBundle, remote, node, ProcFits, JobFits, AnswerFits, PushFits,
       Current, InUse, Fetching, Process
  <2> QED
    BY <2>1, <2>2
<1>4. ASSUME NEW p \in Proc, RemoveEtag(p) PROVE \A q \in Proc : ProcFits(q)'
  <2> DEFINE me == [proc[p] EXCEPT !.pc = IF At(p, "drop_etag") THEN "etag" ELSE "request"]
  <2>1. proc'[p] = me /\ \A q \in Proc \ {p} : ProcFits(q)'
    BY <1>4, OthersBecome DEF RemoveEtag, Goto, At, LockKept, cache, remote, node
  <2>2. ProcFits(p)'
    BY <1>4, <1>t, <2>1 DEF RemoveEtag, Goto, At, cache, remote, node, ProcFits, JobFits, AnswerFits,
       PushFits, Current, InUse, Fetching, Process
  <2> QED
    BY <2>1, <2>2
<1>5. ASSUME NEW p \in Proc, NotModified(p) PROVE \A q \in Proc : ProcFits(q)'
  <2> DEFINE me == [proc[p] EXCEPT !.pc = AfterFetch(proc[p].job), !.body = served,
                  !.tag = None, !.existing = TRUE, !.missed = served # published]
  <2>1. proc'[p] = me /\ \A q \in Proc \ {p} : ProcFits(q)'
    BY <1>5, OthersBecome DEF NotModified, At, LockKept, cache, remote, node
  <2>2. ProcFits(p)'
    <3>1. /\ proc'[p].pc = AfterFetch(proc[p].job) /\ proc'[p].job = proc[p].job
          /\ proc'[p].body = served /\ proc'[p].missed = (served # published)
          /\ proc'[p].disturbed = proc[p].disturbed /\ proc'[p].existing /\ proc[p].job \in Jobs
      BY <1>t, <2>1 DEF Process
    <3>2. /\ proc[p].pc = "request" /\ proc[p].tag = served /\ published # None /\ served # None
          /\ UNCHANGED <<bundle_file, published, lock, excused, pushed>>
      BY <1>5 DEF NotModified, At, cache, remote, node, TypeOK
    <3>3. JobFits(p)' /\ AnswerFits(p)'
      BY <3>1, <3>2 DEF ProcFits, JobFits, AnswerFits, InUse, Fetching, AfterFetch, Jobs
    <3>4. PushFits(p)'
      BY <3>1, <3>2 DEF ProcFits, PushFits, Current, AfterFetch, Jobs
    <3> QED
      BY <3>3, <3>4 DEF ProcFits
  <2> QED
    BY <2>1, <2>2
<1>6. ASSUME NEW p \in Proc, Fresh(p) PROVE \A q \in Proc : ProcFits(q)'
  <2>1. PICK whole \in BOOLEAN :
          Become(p, [proc[p] EXCEPT !.pc = "store", !.tag = None,
                       !.missed = served # published, !.body = IF whole THEN served ELSE Cut(served),
                       !.etag = IF tagged THEN served ELSE None])
    BY <1>6 DEF Fresh
  <2> DEFINE body == IF whole THEN served ELSE Cut(served)
             me == [proc[p] EXCEPT !.pc = "store", !.tag = None, !.missed = served # published,
                      !.body = body, !.etag = IF tagged THEN served ELSE None]
  <2>2. body # None /\ body.refs = served.refs
    BY <1>6, CutType, GitRemoteAssumption DEF Fresh, TypeOK
  <2>3. proc'[p] = me /\ \A q \in Proc \ {p} : ProcFits(q)'
    BY <1>6, <2>1, OthersBecome DEF Fresh, LockKept, cache, remote, node
  <2>4. /\ proc'[p].pc = "store" /\ proc'[p].job = proc[p].job /\ proc'[p].body = body
        /\ proc'[p].existing = proc[p].existing /\ proc'[p].missed = (served # published)
    <3> HIDE DEF body
    <3> QED
      BY <2>3, <1>t DEF Process
  <2>5. ProcFits(p)'
    BY <1>6, <2>2, <2>4 DEF Fresh, At, cache, remote, node, ProcFits, JobFits, AnswerFits, PushFits,
       Current, InUse, Fetching
  <2> QED
    BY <2>3, <2>5
<1>7. ASSUME NEW p \in Proc, NoAnswer(p) PROVE \A q \in Proc : ProcFits(q)'
  <2> DEFINE me == [proc[p] EXCEPT !.pc = AfterFetch(proc[p].job), !.missed = published # None]
  <2>1. CASE proc[p].job \in {"probe", "push"}
    <3>1. proc'[p] = me /\ \A q \in Proc \ {p} : ProcFits(q)'
      BY <1>7, <2>1, OthersBecome DEF NoAnswer, LockKept, cache, remote, node
    <3>2. /\ proc'[p].pc = IF proc[p].job = "probe" THEN "lock" ELSE "base"
          /\ proc'[p].job = proc[p].job /\ proc'[p].existing = proc[p].existing
          /\ proc'[p].missed = (published # None)
      BY <1>t, <2>1, <3>1 DEF AfterFetch, Process
    <3>3. ProcFits(p)'
      BY <1>7, <2>1, <3>2 DEF NoAnswer, At, cache, remote, node,
         ProcFits, JobFits, AnswerFits, PushFits, Current, InUse, Fetching
    <3> QED
      BY <3>1, <3>3
  <2>2. CASE proc[p].job \notin {"probe", "push"}
    BY <1>7, <2>2, <1>e DEF NoAnswer, LockKept, cache, remote, node
  <2> QED
    BY <2>1, <2>2
<1>8. ASSUME NEW p \in Proc, Store(p) PROVE \A q \in Proc : ProcFits(q)'
  <2> DEFINE me == [proc[p] EXCEPT !.pc = "store_etag", !.disturbed = FALSE]
  <2>1. proc'[p] = me /\ bundle_file' = proc[p].body /\ \A q \in Proc \ {p} : ProcFits(q)'
    BY <1>8, OthersChange DEF Store, At, remote, node
  <2>2. ProcFits(p)'
    BY <1>8, <1>t, <2>1 DEF Store, At, remote, node, ProcFits, JobFits, AnswerFits, PushFits, Current,
       InUse, Fetching, Process
  <2> QED
    BY <2>1, <2>2
<1>9. ASSUME NEW p \in Proc, StoreEtag(p) PROVE \A q \in Proc : ProcFits(q)'
  <2> DEFINE me == [proc[p] EXCEPT !.pc = AfterFetch(proc[p].job), !.etag = None, !.existing = TRUE]
  <2>1. proc'[p] = me /\ \A q \in Proc \ {p} : ProcFits(q)'
    BY <1>9, OthersBecome DEF StoreEtag, At, LockKept, cache, remote, node
  <2>2. /\ proc'[p].pc = AfterFetch(proc[p].job) /\ proc'[p].job = proc[p].job
        /\ proc'[p].missed = proc[p].missed /\ proc'[p].disturbed = proc[p].disturbed
        /\ proc'[p].body = proc[p].body /\ proc'[p].existing /\ proc[p].job \in Jobs
    BY <1>t, <2>1 DEF Process
  <2>3. proc[p].pc = "store_etag" /\ UNCHANGED <<bundle_file, published, lock, excused, pushed>>
    BY <1>9 DEF StoreEtag, At, cache, remote, node
  <2>4. JobFits(p)' /\ AnswerFits(p)'
    BY <1>9, <2>2, <2>3 DEF ProcFits, JobFits, AnswerFits, InUse, Fetching, AfterFetch, Jobs
  <2>5. PushFits(p)'
    BY <1>9, <2>2, <2>3 DEF ProcFits, AnswerFits, PushFits, Current, AfterFetch, Jobs
  <2> QED
    BY <2>1, <2>4, <2>5 DEF ProcFits
<1>10. ASSUME NEW p \in Proc, List(p) PROVE \A q \in Proc : ProcFits(q)'
  <2> DEFINE me == [proc[p] EXCEPT !.pc = "unbundle"]
  <2>1. CASE bundle_file = None
    BY <1>10, <2>1, <1>e DEF List, Goto, At, LockKept, cache, remote, node
  <2>2. CASE ~(bundle_file = None)
    <3>1. proc'[p] = me /\ \A q \in Proc \ {p} : ProcFits(q)'
      BY <1>10, <2>2, OthersBecome DEF List, Goto, At, LockKept, cache, remote, node
    <3>2. ProcFits(p)'
      BY <1>10, <1>t, <2>2, <3>1 DEF List, Goto, At, cache, remote, node, ProcFits, JobFits,
         AnswerFits, PushFits, Current, InUse, Fetching, Process
    <3> QED
      BY <3>1, <3>2
  <2> QED
    BY <2>1, <2>2
<1>11. ASSUME NEW p \in Proc, Unbundle(p) PROVE \A q \in Proc : ProcFits(q)'
  <2> DEFINE me == [proc[p] EXCEPT !.pc = "drop_bundle", !.job = "heal"]
  <2>1. CASE Unpacks(bundle_file) \/ proc[p].job = "heal"
    BY <1>11, <2>1, <1>e DEF Unbundle, At, LockKept, cache, remote, node
  <2>2. CASE ~(Unpacks(bundle_file) \/ proc[p].job = "heal")
    <3>1. proc'[p] = me /\ \A q \in Proc \ {p} : ProcFits(q)'
      BY <1>11, <2>2, OthersBecome DEF Unbundle, At, LockKept, cache, remote, node
    <3>2. ProcFits(p)'
      BY <1>11, <1>t, <2>2, <3>1 DEF Unbundle, At, cache, remote, node, ProcFits, JobFits,
         AnswerFits, PushFits, Current, InUse, Fetching, Process
    <3> QED
      BY <3>1, <3>2
  <2> QED
    BY <2>1, <2>2
<1>12. ASSUME NEW p \in Proc, Lock(p) PROVE \A q \in Proc : ProcFits(q)'
  <2>1. LockKept(p)
    BY <1>12, GitRemoteAssumption DEF Lock, LockKept
  <2>2. proc'[p] = [Idle EXCEPT !.pc = "etag", !.job = "push"] /\ \A q \in Proc \ {p} : ProcFits(q)'
    BY <1>12, <2>1, OthersBecome DEF Lock, cache, node
  <2>3. ProcFits(p)'
    BY <1>12, <2>2 DEF Lock, Idle, ProcFits, JobFits, AnswerFits, PushFits, Current, InUse, Fetching
  <2> QED
    BY <2>2, <2>3
<1>13. ASSUME NEW p \in Proc, StatusFails(p) PROVE \A q \in Proc : ProcFits(q)'
  BY <1>13, <1>e DEF StatusFails, LockKept, cache, remote, node
<1>14. ASSUME NEW p \in Proc, LockFails(p) PROVE \A q \in Proc : ProcFits(q)'
  <2>1. proc'[p] = [Idle EXCEPT !.pc = "etag", !.job = "push"] /\ \A q \in Proc \ {p} : proc'[q] = proc[q]
    BY <1>14 DEF LockFails, Become, TypeOK
  <2>2. \A q \in Proc \ {p} : ProcFits(q)'
    BY <1>14, <2>1, Others DEF LockFails, cache, node
  <2>3. ProcFits(p)'
    BY <1>14, <2>1 DEF LockFails, Idle, ProcFits, JobFits, AnswerFits, PushFits, Current, InUse,
       Fetching
  <2> QED
    BY <2>2, <2>3
<1>15. ASSUME NEW p \in Proc, FailPush(p), proc[p].pc \in {"base", "heads"}
       PROVE  \A q \in Proc : ProcFits(q)'
  <2>1. proc'[p] = [proc[p] EXCEPT !.pc = "unlock"] /\ \A q \in Proc \ {p} : ProcFits(q)'
    BY <1>15, OthersBecome DEF FailPush, Goto, LockKept, cache, remote, node
  <2>2. ProcFits(p)'
    BY <1>15, <1>t, <2>1 DEF FailPush, cache, remote, node, ProcFits, JobFits, AnswerFits, PushFits,
       Current, InUse, Fetching, Process
  <2> QED
    BY <2>1, <2>2
<1>16. ASSUME NEW p \in Proc, Base(p) PROVE \A q \in Proc : ProcFits(q)'
  <2>1. CASE FailPush(p)
    BY <1>16, <2>1, <1>15 DEF Base, At
  <2>2. CASE ~FailPush(p)
    <3>1. proc'[p] = [proc[p] EXCEPT !.pc = "heads", !.body = bundle_file]
          /\ \A q \in Proc \ {p} : ProcFits(q)'
      BY <1>16, <2>2, OthersBecome DEF Base, LockKept, cache, remote, node
    <3>2. ProcFits(p)'
      BY <1>16, <1>t, <2>2, <3>1 DEF Base, At, cache, remote, node, ProcFits, JobFits, AnswerFits,
         PushFits, Current, InUse, Fetching, Process
    <3> QED
      BY <3>1, <3>2
  <2> QED
    BY <2>1, <2>2
<1>17. ASSUME NEW p \in Proc, Heads(p) PROVE \A q \in Proc : ProcFits(q)'
  <2>1. CASE FailPush(p)
    BY <1>17, <2>1, <1>15 DEF Heads, At
  <2>2. CASE ~FailPush(p)
    <3> DEFINE u == Union(p, IF proc[p].existing THEN Advertised(bundle_file) ELSE NoRefs)
               me == [proc[p] EXCEPT !.pc = "publish", !.body = None, !.union = u]
    <3>1. /\ proc[p].existing => bundle_file # None
          /\ Become(p, me) /\ UNCHANGED <<cache, remote, lock, faults>>
      BY <1>17, <2>2 DEF Heads
    <3>2. proc'[p] = me /\ \A q \in Proc \ {p} : ProcFits(q)'
      BY <3>1, OthersBecome DEF LockKept, cache, remote, node
    <3>3. /\ proc'[p].pc = "publish" /\ proc'[p].job = proc[p].job /\ proc'[p].union = u
          /\ proc'[p].disturbed = proc[p].disturbed /\ proc'[p].missed = proc[p].missed
      <4> HIDE DEF u
      <4> QED
        BY <3>2, <1>t DEF Process
    <3>4. proc[p].pc = "heads" /\ proc[p].job = "push"
      BY <1>17 DEF Heads, At, ProcFits, JobFits
    <3>5. ASSUME ~excused, ~proc[p].disturbed, ~proc[p].missed, NEW r \in Ref \ Odd
          PROVE  u[r] = Union(p, pushed)[r]
      <4>1. IF proc[p].existing THEN Current(bundle_file) ELSE published = None
        BY <3>4, <3>5 DEF ProcFits, PushFits
      <4>2. CASE proc[p].existing
        <5>1. Advertised(bundle_file)[r] = pushed[r]
          BY <3>5, <4>1, <4>2 DEF Advertised, Current, PushesAdd
        <5> QED
          BY <4>2, <5>1 DEF Union
      <4>3. CASE ~proc[p].existing
        BY <4>1, <4>3 DEF Union, NothingPushed
      <4> QED
        BY <4>2, <4>3
    <3>6. ProcFits(p)'
      <4>1. JobFits(p)' /\ AnswerFits(p)'
        BY <3>3, <3>4 DEF JobFits, AnswerFits, InUse, Fetching
      <4>2. PushFits(p)'
        <5>1. ~excused => lock = p
          BY <3>4 DEF ProcFits, PushFits
        <5>2. excused' = excused /\ lock' = lock /\ pushed' = pushed
          BY <3>1 DEF remote, node
        <5>3. Union(p, pushed)' = Union(p, pushed)
          BY <5>2 DEF Union
        <5> HIDE DEF u
        <5> QED
          BY <3>3, <3>5, <5>1, <5>2, <5>3 DEF PushFits, Fetching
      <4> QED
        BY <4>1, <4>2 DEF ProcFits
    <3> QED
      BY <3>2, <3>6
  <2> QED
    BY <2>1, <2>2
<1>o. ASSUME NEW p \in Proc, NEW u, proc[p].pc = "publish", Overwrite(p, u),
             UNCHANGED bundle_file, LockKept(p),
             \A q \in Proc \ {p} : proc'[q] = proc[q]
      PROVE  \A q \in Proc \ {p} : ProcFits(q)'
  <2> SUFFICES ASSUME NEW q \in Proc \ {p} PROVE ProcFits(q)'
    OBVIOUS
  <2>1. excused' \/ proc[q].job # "push"
    BY <1>o DEF Overwrite, ProcFits, JobFits, PushFits
  <2> QED
    BY <1>o, <2>1, Others
<1>18. ASSUME NEW p \in Proc, Publish(p) PROVE \A q \in Proc : ProcFits(q)'
  <2>0. PICK whole \in BOOLEAN : Overwrite(p, Sent(p, whole))
    BY <1>18 DEF Publish
  <2>1. proc'[p] = [proc[p] EXCEPT !.pc = "unlock"] /\ \A q \in Proc \ {p} : proc'[q] = proc[q]
    BY <1>18 DEF Publish, Goto, Become, TypeOK
  <2>2. \A q \in Proc \ {p} : ProcFits(q)'
    BY <1>18, <1>o, <2>0, <2>1 DEF Publish, At, LockKept, cache
  <2>3. proc'[p].pc = "unlock" /\ proc'[p].job = "push" /\ lock' = lock /\ (excused => excused')
    BY <1>18, <1>t, <2>0, <2>1 DEF Publish, Overwrite, At, Process, ProcFits, JobFits
  <2>4. ProcFits(p)'
    BY <1>18, <2>3 DEF Publish, At, ProcFits, JobFits, AnswerFits, PushFits, InUse, Fetching
  <2> QED
    BY <2>2, <2>4
<1>18a. ASSUME NEW p \in Proc, PublishFails(p) PROVE \A q \in Proc : ProcFits(q)'
  <2>1. proc'[p] = [proc[p] EXCEPT !.pc = "unlock"] /\ \A q \in Proc \ {p} : ProcFits(q)'
    BY <1>18a, OthersBecome DEF PublishFails, Goto, LockKept, cache, node
  <2>2. ProcFits(p)'
    BY <1>18a, <1>t, <2>1 DEF PublishFails, At, cache, node, ProcFits, JobFits, AnswerFits,
       PushFits, InUse, Fetching, Process
  <2> QED
    BY <2>1, <2>2
<1>l. ASSUME NEW p \in Proc, lock' = Unlocked(p) PROVE LockKept(p)
  BY <1>l DEF LockKept, Unlocked
<1>19. ASSUME NEW p \in Proc, Unlock(p) PROVE \A q \in Proc : ProcFits(q)'
  BY <1>19, <1>e, <1>l DEF Unlock, cache, remote, node
<1>20. ASSUME NEW p \in Proc, Crash(p) PROVE \A q \in Proc : ProcFits(q)'
  BY <1>20, <1>e, <1>l DEF Crash, cache, node
<1>21. ASSUME NEW p \in Proc, Land(p), NEW q \in Proc PROVE ProcFits(q)'
  <2>1. /\ UNCHANGED <<proc, lock, bundle_file>> /\ (excused => excused')
        /\ uploads[p] # None /\ (~excused' => Left(p))
    BY <1>21 DEF Land, Overwrite, Left, cache
  <2>2. CASE excused' \/ proc[q].job # "push"
    BY <2>1, <2>2, Others
  <2>3. CASE ~excused' /\ proc[q].job = "push"
    <3>1. lock = q /\ lock \in {p, None} /\ proc[p].pc \in {"unlock", "done"}
      BY <2>1, <2>3 DEF ProcFits, PushFits, UploadsFit, UploadFits
    <3>2. q = p
      BY <3>1, GitRemoteAssumption
    <3> QED
      BY <2>1, <3>1, <3>2 DEF ProcFits, JobFits, AnswerFits, PushFits, InUse, Fetching
  <2> QED
    BY <2>2, <2>3
<1> QED
  BY <1>0, <1>1, <1>2, <1>3, <1>4, <1>5, <1>6, <1>7, <1>8, <1>9, <1>10, <1>11, <1>12, <1>13, <1>14,
     <1>16, <1>17, <1>18, <1>18a, <1>19, <1>20, <1>21 DEF Next, Step

\* A step of p that leaves the uploads and nobody who pushed.
LEMMA UploadsKept ==
  ASSUME UploadsFit, UNCHANGED <<uploads, pushed>>, excused => excused', lock' \in {lock, None},
         \A q \in Proc : proc[q].pc \in {"unlock", "done"} => proc'[q].pc \in {"unlock", "done"}
  PROVE  UploadsFit'
<1>1. \A q \in Proc : Left(q)' => Left(q)
  BY DEF Left
<1>2. \A q \in Proc : Union(q, pushed)' = Union(q, pushed)
  BY DEF Union
<1> QED
  BY <1>1, <1>2 DEF UploadsFit, UploadFits

\* p leaves its upload while it holds the lock, so that no other was left since.
LEMMA UploadLeft ==
  ASSUME IInv, NEW p \in Proc, Leave(p), UNCHANGED <<pushed, excused>>, lock' \in {lock, None},
         proc'[p].pc \in {"unlock", "done"}, \A q \in Proc \ {p} : proc'[q] = proc[q]
  PROVE  UploadsFit'
<1> USE DEF IInv
<1>1. CASE UNCHANGED uploads
  BY <1>1, UploadsKept
<1>2. CASE ~UNCHANGED uploads
  <2>1. PICK whole \in BOOLEAN : At(p, "publish") /\ uploads' = [uploads EXCEPT ![p] = Sent(p, whole)]
    BY <1>2 DEF Leave
  <2>2. proc[p].job = "push" /\ (~excused => lock = p)
    BY <2>1 DEF At, ProcFits, JobFits, PushFits
  <2>3. ASSUME NEW q \in Proc \ {p} PROVE ~Left(q)'
    <3>1. Left(q)' => Left(q)
      BY <2>1 DEF Left, TypeOK
    <3> QED
      BY <2>2, <3>1, GitRemoteAssumption DEF UploadsFit, UploadFits, Left
  <2>4. uploads'[p] = Sent(p, whole)
    BY <2>1 DEF TypeOK
  <2>5. Left(p)' => \A r \in Ref \ Odd : uploads'[p].bundle.refs[r] = Union(p, pushed)'[r]
    <3>1. Union(p, pushed)' = Union(p, pushed)
      BY DEF Union
    <3>2. ~excused /\ ~proc[p].disturbed /\ ~proc[p].missed
            => \A r \in Ref \ Odd : proc[p].union[r] = Union(p, pushed)[r]
      BY <2>1, <2>2 DEF At, ProcFits, PushFits
    <3>3. Left(p)' => ~excused /\ ~proc[p].disturbed /\ ~proc[p].missed
      <4> HIDE DEF IInv
      <4>1. Sent(p, whole).stale = (proc[p].disturbed \/ proc[p].missed)
        BY DEF Sent
      <4>2. Left(p)' => ~uploads'[p].stale /\ ~excused'
        BY DEF Left
      <4> QED
        BY <2>4, <4>1, <4>2
    <3> HIDE DEF IInv
    <3> QED
      BY <2>4, <3>1, <3>2, <3>3 DEF Sent
  <2>6. UploadFits(p)'
    BY <2>2, <2>5 DEF UploadFits, Left
  <2> QED
    BY <2>3, <2>6 DEF UploadsFit, UploadFits
<1> QED
  BY <1>1, <1>2

\* What was left of an upload is right, or marked as overtaken.
LEMMA StepUploads ==
  ASSUME IInv, [Next]_vars
  PROVE  UploadsFit'
<1> USE DEF IInv
<1>1. CASE UNCHANGED vars
  <2>1. UNCHANGED <<uploads, pushed, excused, lock, proc>>
    BY <1>1 DEF vars
  <2> QED
    BY <2>1, UploadsKept
<1>b. ASSUME NEW p \in Proc, NEW me, Become(p, me)
      PROVE  proc'[p] = me /\ \A q \in Proc \ {p} : proc'[q] = proc[q]
  BY <1>b DEF Become, TypeOK
<1>c. ASSUME NEW p \in Proc, NEW b, NEW me, ChangeBundle(p, b, me), NEW q \in Proc \ {p}
      PROVE  proc'[q].pc = proc[q].pc
  BY <1>c DEF ChangeBundle, TypeOK, Process
<1>k. ASSUME NEW p \in Proc, proc[p].pc \notin {"unlock", "done"}, UNCHANGED <<uploads, pushed, lock>>,
             excused => excused', \A q \in Proc \ {p} : proc'[q].pc = proc[q].pc
      PROVE  UploadsFit'
  BY <1>k, UploadsKept
<1>2. ASSUME NEW p \in Proc, RemoveBundle(p) \/ Store(p) PROVE UploadsFit'
  <2>1. /\ proc[p].pc \notin {"unlock", "done"} /\ UNCHANGED <<uploads, pushed, lock, excused>>
    BY <1>2 DEF RemoveBundle, Store, At, remote, node
  <2>2. \A q \in Proc \ {p} : proc'[q].pc = proc[q].pc
    BY <1>2, <1>c DEF RemoveBundle, Store
  <2> QED
    BY <1>k, <2>1, <2>2
<1>3. ASSUME NEW p \in Proc,
             \/ ReadEtag(p) \/ Compare(p) \/ RemoveEtag(p) \/ NotModified(p) \/ Fresh(p) \/ NoAnswer(p)
             \/ StoreEtag(p) \/ List(p) \/ Unbundle(p) \/ StatusFails(p) \/ LockFails(p) \/ Base(p)
             \/ Heads(p)
      PROVE  UploadsFit'
  <2>1. proc[p].pc \notin {"unlock", "done"} /\ UNCHANGED <<uploads, pushed, lock>> /\ (excused => excused')
    BY <1>3 DEF ReadEtag, Compare, RemoveEtag, NotModified, Fresh, NoAnswer, StoreEtag, List, Unbundle,
       StatusFails, LockFails, Base, Heads, FailPush, At, remote, node
  <2>2. \E me : Become(p, me)
    BY <1>3 DEF ReadEtag, Compare, RemoveEtag, NotModified, Fresh, NoAnswer, StoreEtag, List, Unbundle,
       StatusFails, LockFails, Base, Heads, FailPush, Goto, End
  <2> QED
    BY <1>b, <1>k, <2>1, <2>2
<1>4. ASSUME NEW p \in Proc, Lock(p) PROVE UploadsFit'
  <2>1. \A q \in Proc : ~Left(q)'
    BY <1>4 DEF Lock, Overtaken, Left, TypeOK, Upload
  <2> QED
    BY <2>1 DEF UploadsFit, UploadFits
<1>5. ASSUME NEW p \in Proc, Publish(p) PROVE UploadsFit'
  <2>1. PICK whole \in BOOLEAN : Overwrite(p, Sent(p, whole))
    BY <1>5 DEF Publish
  <2>2. proc[p].pc = "publish" /\ proc[p].job = "push" /\ (~excused => lock = p)
    BY <1>5 DEF Publish, At, ProcFits, JobFits, PushFits
  <2>3. ASSUME NEW q \in Proc PROVE ~Left(q)'
    <3>1. Left(q)' => Left(q)
      BY <1>5, <2>1 DEF Publish, Overwrite, Left
    <3> QED
      BY <2>2, <3>1, GitRemoteAssumption DEF UploadsFit, UploadFits, Left
  <2> QED
    BY <2>3 DEF UploadsFit, UploadFits
<1>6. ASSUME NEW p \in Proc, PublishFails(p) PROVE UploadsFit'
  <2>1. proc'[p].pc = "unlock" /\ \A q \in Proc \ {p} : proc'[q] = proc[q]
    BY <1>6, <1>b DEF PublishFails, Goto, TypeOK, Process
  <2> QED
    BY <1>6, <2>1, UploadLeft DEF PublishFails, node
<1>7. ASSUME NEW p \in Proc, Unlock(p) \/ Crash(p) PROVE UploadsFit'
  <2>1. proc'[p].pc = "done" /\ \A q \in Proc \ {p} : proc'[q] = proc[q]
    BY <1>7, <1>b DEF Unlock, Crash, End, Idle
  <2>2. lock' \in {lock, None} /\ Leave(p) /\ UNCHANGED <<pushed, excused>>
    BY <1>7 DEF Unlock, Crash, Unlocked, Leave, remote, node
  <2> QED
    BY <2>1, <2>2, UploadLeft
<1>8. ASSUME NEW p \in Proc, Land(p) PROVE UploadsFit'
  <2>1. /\ excused => excused'
        /\ ~excused' => Left(p)
        /\ \A q \in Proc : Left(q)' => Left(q) /\ q # p
    BY <1>8, GitRemoteAssumption DEF Land, Overwrite, Left, TypeOK
  <2>2. \A q \in Proc : ~Left(q)'
    BY <2>1 DEF UploadsFit, Left
  <2> QED
    BY <2>2 DEF UploadsFit, UploadFits
<1> QED
  BY <1>1, <1>2, <1>3, <1>4, <1>5, <1>6, <1>7, <1>8 DEF Next, Step

\* What is published only ever grows by what is pushed.
LEMMA StepAdds ==
  ASSUME IInv, [Next]_vars
  PROVE  PushesAdd' /\ NothingPushed'
<1> USE DEF IInv
<1>k. CASE UNCHANGED <<published, pushed>> /\ (excused => excused')
  BY <1>k DEF PushesAdd, NothingPushed
<1>o. ASSUME NEW p \in Proc, NEW u \in Upload, Overwrite(p, u),
             ~excused' => \A r \in Ref \ Odd : u.bundle.refs[r] = Union(p, pushed)[r]
      PROVE  PushesAdd' /\ NothingPushed'
  <2>1. published' # None /\ published' = u.bundle /\ pushed' = Union(p, pushed)
    BY <1>o, GitRemoteAssumption DEF Overwrite, Upload
  <2> QED
    BY <1>o, <2>1 DEF PushesAdd, NothingPushed
<1>1. CASE UNCHANGED vars
  BY <1>1, <1>k DEF vars
<1>2. ASSUME NEW p \in Proc, Step(p) \/ Crash(p)
      PROVE  (UNCHANGED <<published, pushed>> /\ (excused => excused')) \/ Publish(p)
  BY <1>2 DEF Step, ReadEtag, Compare, RemoveBundle, RemoveEtag, NotModified, Fresh, NoAnswer,
     Store, StoreEtag, List, Unbundle, Lock, StatusFails, LockFails, Base, Heads, FailPush, Unlock,
     PublishFails, Crash, remote, node
<1>3. ASSUME NEW p \in Proc, Publish(p) PROVE PushesAdd' /\ NothingPushed'
  <2>1. PICK whole \in BOOLEAN : Overwrite(p, Sent(p, whole))
    BY <1>3 DEF Publish
  <2>2. Sent(p, whole) \in Upload
    BY SentType DEF TypeOK
  <2>3. ~excused' => \A r \in Ref \ Odd : Sent(p, whole).bundle.refs[r] = Union(p, pushed)[r]
    BY <1>3, <2>1 DEF Publish, Sent, Overwrite, At, ProcFits, JobFits, PushFits
  <2> QED
    BY <1>o, <2>1, <2>2, <2>3
<1>4. ASSUME NEW p \in Proc, Land(p) PROVE PushesAdd' /\ NothingPushed'
  <2>1. Overwrite(p, uploads[p]) /\ uploads[p] \in Upload
    BY <1>4 DEF Land, TypeOK
  <2>2. ~excused' => Left(p)
    BY <1>4 DEF Land, Overwrite, Left
  <2>3. ~excused' => \A r \in Ref \ Odd : uploads[p].bundle.refs[r] = Union(p, pushed)[r]
    BY <2>2 DEF UploadsFit, UploadFits
  <2> QED
    BY <1>o, <2>1, <2>3
<1> QED
  BY <1>1, <1>2, <1>3, <1>4, <1>k DEF Next

\* The invariant holds at first.
LEMMA InitInv == Init => IInv
<1> SUFFICES ASSUME Init PROVE IInv
  OBVIOUS
<1>1. PushesAdd /\ NothingPushed /\ UploadsFit
  BY DEF Init, PushesAdd, NothingPushed, UploadsFit, UploadFits, Left
<1>2. ASSUME NEW q \in Proc PROVE ProcFits(q)
  <2> DEFINE job == IF Pushes(q) THEN "probe" ELSE "list"
  <2>1. proc[q] = [Idle EXCEPT !.pc = "etag", !.job = job]
    BY DEF Init
  <2>2. proc[q].pc = "etag" /\ proc[q].job \in {"probe", "list"}
    BY <2>1 DEF Idle
  <2> QED
    BY <2>2 DEF ProcFits, JobFits, AnswerFits, PushFits, InUse, Fetching
<1> QED
  BY <1>1, <1>2, InitType DEF IInv

\* The invariant is inductive.
LEMMA StepInv == IInv /\ [Next]_vars => IInv'
BY StepType, StepFits, StepUploads, StepAdds DEF IInv

\* The inductive invariant holds of every session, push and fault of the helper
\* (main, cmd_list, cmd_fetch and cmd_push of git-remote, node-lcdp.rs).
THEOREM Invariant == Spec => []IInv
BY InitInv, StepInv, PTL DEF Spec

\* A bundle is used as the node answered it, unless another process has changed
\* the cached file since: no torn or mixed pair of bundle and ETag is taken for it.
THEOREM UsesTheAnswerCorrect == Spec => []UsesTheAnswer
<1>1. IInv => UsesTheAnswer
  BY DEF IInv, ProcFits, AnswerFits, UsesTheAnswer
<1> QED
  BY <1>1, Invariant, PTL

\* No push drops a ref that another push added, for any number of pushes at the
\* same time and any faults, but in the ways that PushesAdd excuses.
THEOREM PushesAddCorrect == Spec => []PushesAdd
<1>1. IInv => PushesAdd
  BY DEF IInv
<1> QED
  BY <1>1, Invariant, PTL
=============================================================================

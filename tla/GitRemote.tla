----------------------------- MODULE GitRemote -----------------------------
(***************************************************************************)
(* git-remote-lcdp (src/ctl/src/bin/git-remote-lcdp.rs): git runs one      *)
(* process of it per clone, fetch or push.  A repository is one bundle,    *)
(* published by its owner's node; a push fetches it, adds the pushed refs  *)
(* and publishes the union, and the node overwrites blindly.  Processes    *)
(* share two cache files, the bundle and its ETag, and a push lock.  They  *)
(* may die at any point, and what they were uploading may still be         *)
(* published afterwards.                                                   *)
(*                                                                         *)
(* A bundle is its refs and whether its pack is whole; its hash is itself. *)
(* The cache directory is writable and the pushes are to the node's own    *)
(* key.  The node of this commit sends no ETag with its answers            *)
(* (Tags = {FALSE}); the helper is written for one that does.              *)
(***************************************************************************)
EXTENDS Naturals

CONSTANTS Proc, Ref, Version, None,
          Odd,          \* refs whose name fails validate_refname
          First,        \* the bundle the node has at first, or None
          Specs,        \* what each process pushes; << >> only fetches
          Tags,         \* does the node send ETags? (either may be)
          MaxFaults     \* bound: crashes, cut bodies, timeouts, failing locks and
                        \* uploads, publications in the second of the one before

Refs == [Ref -> Version \cup {None}]
Bundle == [refs : Refs, whole : BOOLEAN]
NoRefs == [r \in Ref |-> None]

ASSUME GitRemoteAssumption ==
    /\ Odd \subseteq Ref /\ Tags \subseteq BOOLEAN /\ MaxFaults \in Nat
    /\ None \notin Version /\ None \notin Proc /\ None \notin Bundle
    /\ First \in [refs : Refs, whole : {TRUE}] \cup {None}
    /\ \A p \in Proc : /\ DOMAIN Specs[p] \subseteq Ref
                       /\ \A r \in DOMAIN Specs[p] : Specs[p][r] \in Version \cup {None}

VARIABLES published,    \* the file under origin/ of the node
          served,       \* the copy of it that the node answers with
          uploads,      \* what the node has of the upload that each process left
          tagged,       \* does the node send ETags?
          bundle_file, etag_file,   \* the cache
          lock,         \* the process that holds the push lock
          proc,
          pushed,       \* history: the refs as the pushes meant them
          excused,      \* history: a push was built on something stale
          faults        \* faults so far (bound)

vars == <<published, served, uploads, tagged, bundle_file, etag_file, lock, proc,
          pushed, excused, faults>>
cache == <<bundle_file, etag_file>>
node == <<published, served, tagged, pushed>>
remote == <<node, uploads, excused>>

Pushes(p) == DOMAIN Specs[p] # {}
Jobs == {"list", "heal", "probe", "push"}   \* who called fetch_bundle_cached
InUse == {"list", "unbundle", "base"}       \* the cached bundle is used as fetched
Relies == InUse \cup {"request", "store_etag", "heads"}
Pcs == {"etag", "compare", "remove_bundle", "remove_etag", "request",
        "store", "store_etag", "drop_bundle", "drop_etag", "lock", "heads",
        "publish", "unlock", "done"} \cup InUse
Process == [pc : Pcs, job : Jobs,
            tag : Bundle \cup {None},       \* cached_etag
            body : Bundle \cup {None},      \* what the node answered
            etag : Bundle \cup {None},      \* the ETag of the answer
            existing : BOOLEAN,             \* existing_bundle
            union : Refs,
            disturbed : BOOLEAN,    \* history: another process changed the cached bundle
            missed : BOOLEAN]       \* history: no answer in time, or not what is published
Upload == [bundle : Bundle,
           stale : BOOLEAN]         \* history: built on something stale, or overtaken
Idle == [pc |-> "done", job |-> "list", tag |-> None, body |-> None, etag |-> None,
         existing |-> FALSE, union |-> NoRefs, disturbed |-> FALSE, missed |-> FALSE]
\* `list` of a clone or fetch, `list for-push` of a push
Init == /\ published = First /\ served = First /\ uploads = [p \in Proc |-> None]
        /\ tagged \in Tags /\ bundle_file = None /\ etag_file = None /\ lock = None
        /\ proc = [p \in Proc |-> [Idle EXCEPT !.pc = "etag",
                                       !.job = IF Pushes(p) THEN "probe" ELSE "list"]]
        /\ pushed = IF First = None THEN NoRefs ELSE First.refs
        /\ excused = FALSE /\ faults = 0

----------------------------------------------------------------------------
At(p, pc) == proc[p].pc = pc
Become(p, me) == proc' = [proc EXCEPT ![p] = me]
Goto(p, pc) == Become(p, [proc[p] EXCEPT !.pc = pc])
End(p) == Become(p, Idle)
Fault == faults < MaxFaults /\ faults' = faults + 1
Cut(b) == [b EXCEPT !.whole = FALSE]
\* p gives the cached bundle another content, while others may be using it
ChangeBundle(p, b, me) ==
    /\ bundle_file' = b
    /\ proc' = [q \in Proc |-> IF q = p THEN me
                               ELSE IF b = bundle_file \/ proc[q].pc \notin Relies THEN proc[q]
                               ELSE [proc[q] EXCEPT !.disturbed = TRUE]]

----------------------------------------------------------------------------
(* fetch_bundle_cached.                                                     *)
AfterFetch(job) ==
    CASE job = "list" -> "list" [] job = "heal" -> "unbundle"
      [] job = "probe" -> "lock" [] job = "push" -> "base"

\* validate_cached_pair: first the ETag, then the bundle
ReadEtag(p) ==
    /\ At(p, "etag")
    /\ Become(p, [proc[p] EXCEPT !.tag = etag_file,
                            !.pc = IF etag_file = None THEN "remove_bundle" ELSE "compare"])
    /\ UNCHANGED <<cache, remote, lock, faults>>
\* Mutant of Compare: any bundle will do for the ETag.
CompareNothing(p) ==
    /\ At(p, "compare")
    /\ Become(p, [proc[p] EXCEPT !.disturbed = FALSE,
                            !.pc = IF bundle_file = None THEN "remove_bundle" ELSE "request",
                            !.tag = IF bundle_file = None THEN None ELSE @])
    /\ UNCHANGED <<cache, remote, lock, faults>>
Compare(p) ==
    /\ At(p, "compare")
    /\ Become(p, [proc[p] EXCEPT !.disturbed = FALSE,
                            !.pc = IF bundle_file = proc[p].tag THEN "request" ELSE "remove_bundle",
                            !.tag = IF bundle_file = @ THEN @ ELSE None])
    /\ UNCHANGED <<cache, remote, lock, faults>>
RemoveBundle(p) ==
    /\ proc[p].pc \in {"remove_bundle", "drop_bundle"}
    /\ ChangeBundle(p, None,
          [proc[p] EXCEPT !.pc = IF @ = "drop_bundle" THEN "drop_etag" ELSE "remove_etag"])
    /\ UNCHANGED <<etag_file, remote, lock, faults>>
RemoveEtag(p) ==
    /\ proc[p].pc \in {"remove_etag", "drop_etag"}
    /\ etag_file' = None
    /\ Goto(p, IF At(p, "drop_etag") THEN "etag" ELSE "request")
    /\ UNCHANGED <<bundle_file, remote, lock, faults>>

NotModified(p) ==
    /\ At(p, "request") /\ published # None /\ proc[p].tag = served
    /\ Become(p, [proc[p] EXCEPT !.pc = AfterFetch(proc[p].job), !.body = served,
                            !.tag = None, !.existing = TRUE, !.missed = served # published])
    /\ UNCHANGED <<cache, remote, lock, faults>>
\* The connection may end before the announced length: the body is taken as it is.
Fresh(p) ==
    /\ At(p, "request") /\ published # None /\ proc[p].tag # served
    /\ \E whole \in BOOLEAN :
        /\ IF whole THEN UNCHANGED faults ELSE Fault
        /\ Become(p, [proc[p] EXCEPT
              !.pc = "store", !.tag = None, !.missed = served # published,
              !.body = IF whole THEN served ELSE Cut(served),
              !.etag = IF tagged THEN served ELSE None])
    /\ UNCHANGED <<cache, remote, lock>>
\* A clone or fetch waits as long as it takes; a probe and a push go on without.
NoAnswer(p) ==
    /\ At(p, "request")
    /\ IF published = None /\ proc[p].job \in {"probe", "push"} THEN UNCHANGED faults ELSE Fault
    /\ IF proc[p].job \in {"probe", "push"}
       THEN Become(p, [proc[p] EXCEPT !.pc = AfterFetch(proc[p].job), !.missed = published # None])
       ELSE End(p)
    /\ UNCHANGED <<cache, remote, lock>>

\* write_atomic of the body, and of the ETag
Store(p) ==
    /\ At(p, "store")
    /\ ChangeBundle(p, proc[p].body,
          [proc[p] EXCEPT !.pc = "store_etag", !.disturbed = FALSE])
    /\ UNCHANGED <<etag_file, remote, lock, faults>>
StoreEtag(p) ==
    /\ At(p, "store_etag")
    /\ etag_file' = proc[p].etag
    /\ Become(p, [proc[p] EXCEPT !.pc = AfterFetch(proc[p].job), !.etag = None,
                            !.existing = TRUE])
    /\ UNCHANGED <<bundle_file, remote, lock, faults>>

----------------------------------------------------------------------------
(* `list` and `fetch`.                                                      *)
\* git bundle verify does not read the pack
List(p) ==
    /\ At(p, "list")
    /\ IF bundle_file = None THEN End(p) ELSE Goto(p, "unbundle")
    /\ UNCHANGED <<cache, remote, lock, faults>>
Unpacks(b) == IF b = None THEN FALSE ELSE b.whole
Unbundle(p) ==
    /\ At(p, "unbundle")
    /\ IF Unpacks(bundle_file) \/ proc[p].job = "heal" THEN End(p)
       ELSE Become(p, [proc[p] EXCEPT !.pc = "drop_bundle", !.job = "heal"])
    /\ UNCHANGED <<cache, remote, lock, faults>>

----------------------------------------------------------------------------
(* `push`.                                                                  *)
\* The uploads that the node has not finished when another push begins.
Overtaken == [q \in Proc |-> IF uploads[q] = None THEN None
                             ELSE [uploads[q] EXCEPT !.stale = TRUE]]
\* Mutant of Lock: it does not wait (LOCK_EX | LOCK_NB, and the result is ignored).
LockAtOnce(p) ==
    /\ At(p, "lock")
    /\ lock' = p /\ uploads' = Overtaken
    /\ Become(p, [Idle EXCEPT !.pc = "etag", !.job = "push"])
    /\ UNCHANGED <<cache, node, excused, faults>>
Lock(p) ==
    /\ At(p, "lock") /\ lock = None
    /\ lock' = p /\ uploads' = Overtaken
    /\ Become(p, [Idle EXCEPT !.pc = "etag", !.job = "push"])
    /\ UNCHANGED <<cache, node, excused, faults>>
\* the node's status cannot be read, or the lock file cannot be opened
StatusFails(p) ==
    /\ At(p, "lock") /\ Fault /\ End(p) /\ UNCHANGED <<cache, remote, lock>>
LockFails(p) ==
    /\ At(p, "lock") /\ Fault
    /\ Become(p, [Idle EXCEPT !.pc = "etag", !.job = "push"])
    /\ excused' = TRUE
    /\ UNCHANGED <<cache, node, uploads, lock>>

\* Mutant of FailPush: the error goes around the end of the batch.
FailPushEarly(p) == End(p) /\ UNCHANGED <<cache, remote, lock, faults>>
FailPush(p) == Goto(p, "unlock") /\ UNCHANGED <<cache, remote, lock, faults>>

\* temp_unbundle_existing: verify and unbundle, then list the heads
Base(p) ==
    /\ At(p, "base")
    /\ IF ~proc[p].existing \/ Unpacks(bundle_file)
       THEN /\ Become(p, [proc[p] EXCEPT !.pc = "heads", !.body = bundle_file])
            /\ UNCHANGED <<cache, remote, lock, faults>>
       ELSE FailPush(p)
Union(p, base) == [r \in Ref |-> IF r \in DOMAIN Specs[p] THEN Specs[p][r] ELSE base[r]]
Advertised(b) == [r \in Ref |-> IF r \in Odd THEN None ELSE b.refs[r]]
\* Heads of another bundle than the one unpacked need not have their objects.
Heads(p) ==
    /\ At(p, "heads")
    /\ \/ /\ proc[p].existing /\ bundle_file # proc[p].body
          /\ FailPush(p)
       \/ /\ proc[p].existing => bundle_file # None
          /\ \E union \in {Union(p, IF proc[p].existing THEN Advertised(bundle_file) ELSE NoRefs)} :
                IF union = NoRefs THEN FailPush(p)
                ELSE /\ Become(p, [proc[p] EXCEPT !.pc = "publish", !.body = None,
                                                !.union = union])
                     /\ UNCHANGED <<cache, remote, lock, faults>>

Sent(p, whole) == [bundle |-> [refs |-> proc[p].union, whole |-> whole],
                   stale |-> proc[p].disturbed \/ proc[p].missed]
\* The thread of the upload renames what it has read over origin/<name>, whole or
\* not.  The node goes on answering with its older copy when that is of the same
\* second as the new file (cached_seq < origin_seq).
Overwrite(p, upload) ==
    /\ published' = upload.bundle
    /\ served' \in {upload.bundle} \cup IF served = None THEN {} ELSE {served}
    /\ pushed' = Union(p, pushed) /\ UNCHANGED tagged
    /\ excused' = (excused \/ upload.stale)
\* A body cut by a full disk is answered with "ok" too.
Publish(p) ==
    /\ At(p, "publish")
    /\ \E whole \in BOOLEAN :
        /\ Overwrite(p, Sent(p, whole))
        /\ IF whole /\ served' = published' THEN UNCHANGED faults ELSE Fault
    /\ Goto(p, "unlock") /\ UNCHANGED <<cache, uploads, lock>>
\* p gives up, or dies: the node has nothing, a part, or the whole of its body.
Leave(p) ==
    \/ UNCHANGED uploads
    \/ /\ At(p, "publish")
       /\ \E whole \in BOOLEAN : uploads' = [uploads EXCEPT ![p] = Sent(p, whole)]
PublishFails(p) ==
    /\ At(p, "publish") /\ Fault /\ Leave(p)
    /\ Goto(p, "unlock") /\ UNCHANGED <<cache, node, excused, lock>>
\* flock is released when the file is closed.
Unlocked(p) == IF lock = p THEN None ELSE lock
Unlock(p) ==
    /\ At(p, "unlock") /\ lock' = Unlocked(p)
    /\ End(p) /\ UNCHANGED <<cache, remote, faults>>

----------------------------------------------------------------------------
Crash(p) ==
    /\ proc[p].pc # "done" /\ Fault
    /\ End(p) /\ lock' = Unlocked(p) /\ Leave(p)
    /\ UNCHANGED <<cache, node, excused>>
\* The node finishes the upload that p left, at any time, or never.
Land(p) ==
    /\ uploads[p] # None
    /\ Overwrite(p, uploads[p])
    /\ IF served' = published' THEN UNCHANGED faults ELSE Fault
    /\ uploads' = [uploads EXCEPT ![p] = None]
    /\ UNCHANGED <<cache, lock, proc>>

Step(p) ==
    \/ ReadEtag(p) \/ Compare(p) \/ RemoveBundle(p) \/ RemoveEtag(p)
    \/ NotModified(p) \/ Fresh(p) \/ NoAnswer(p) \/ Store(p) \/ StoreEtag(p)
    \/ List(p) \/ Unbundle(p)
    \/ Lock(p) \/ StatusFails(p) \/ LockFails(p) \/ Base(p) \/ Heads(p)
    \/ Publish(p) \/ PublishFails(p) \/ Unlock(p)
Next == \E p \in Proc : Step(p) \/ Crash(p) \/ Land(p)
Spec == Init /\ [][Next]_vars
\* While some process can go on, one does; which one is left open.
FairSpec == Spec /\ WF_vars(\E p \in Proc : Step(p))

----------------------------------------------------------------------------
TypeOK == /\ published \in Bundle \cup {None} /\ served \in Bundle \cup {None}
          /\ (served = None) = (published = None)
          /\ uploads \in [Proc -> Upload \cup {None}]
          /\ bundle_file \in Bundle \cup {None} /\ etag_file \in Bundle \cup {None}
          /\ lock \in Proc \cup {None} /\ proc \in [Proc -> Process]
          /\ tagged \in Tags /\ pushed \in Refs /\ excused \in BOOLEAN /\ faults \in 0 .. MaxFaults
\* A bundle is used as the node answered it (200) or has it (304), unless
\* another process has changed the shared file since: the pair of a torn or cut
\* write is never taken for the node's bundle (validate_cached_pair).
UsesTheAnswer ==
    \A p \in Proc :
        proc[p].pc \in InUse /\ (proc[p].job = "push" => proc[p].existing) /\ ~proc[p].disturbed
            => bundle_file = proc[p].body
\* While a push holds the lock, what it builds on stays what is published, and
\* nobody else publishes: no ref that was pushed is dropped (PushLock), except odd
\* names, and by a push
\*   - whose lock failed;
\*   - that was not answered in time, or answered with an older bundle, because the
\*     node had copied that one in the second of the last publication;
\*   - under whose hands another process changed the cached bundle;
\*   - whose upload the node finished after a later push had begun.
PushesAdd ==
    published = None \/ excused \/ \A r \in Ref \ Odd : published.refs[r] = pushed[r]
\* The same, whatever other processes do with the cache.
PushesAddWithoutFaults ==
    published = None \/ faults > 0 \/ \A r \in Ref \ Odd : published.refs[r] = pushed[r]
\* Every push ends, and every fetch once there is something to fetch: the lock
\* is freed on every path, a probe does not wait for ever, self-healing happens once.
SessionsEnd ==
    <>(\A p \in Proc : At(p, "done") \/ (published = None /\ ~Pushes(p)))
=============================================================================

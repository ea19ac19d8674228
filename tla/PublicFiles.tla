---------------------------- MODULE PublicFiles ----------------------------
(***************************************************************************)
(* The names under cjp2p/public (src/main.rs).  A content has a SHA-256    *)
(* name, a blake3 name and a blake3 tree; one of the names is a file, the  *)
(* other a hard link to it or, where hard links fail, a symbolic one.      *)
(* They are made by threads that do not know of each other: uploads, the   *)
(* /share command, and what follows a finished download.  Each checks,     *)
(* removes, renames and links in steps of its own, and the process may die *)
(* between any two.                                                        *)
(*                                                                         *)
(* All threads handle the same content, of `Leaves` blocks.  A body that   *)
(* ends early is its first k blocks.  Its tree was laid out for all of     *)
(* them, finalize_tree_mmap_v2 looks for the last k leaves: the "blake3    *)
(* name" that gives is that of no content.  Names are numbered by k.       *)
(* Writes to the disk succeed, and a shared file is left alone.            *)
(***************************************************************************)
EXTENDS Naturals

CONSTANTS Thread, None,
          Teams,        \* what the threads may be at: an assignment of jobs to them
          Leaves,       \* blocks of the content
          MaxCrashes    \* bound

Jobs == {"upload", "share", "blake3", "sha256",
         "small"}       \* a SHA-256 download of at most 1 MiB, or a version under /latest/
ASSUME PublicFilesAssumption ==
    /\ Teams \subseteq [Thread -> Jobs] /\ Leaves \in Nat \ {0} /\ MaxCrashes \in Nat
    /\ None \notin {"file", "user", "blake3", "sha256", "broken"}

Sizes == 1 .. Leaves
Dirs == {"blake3", "sha256"}
Other(d) == IF d = "blake3" THEN "sha256" ELSE "blake3"
\* "user": the file that was shared, by hard link or absolute path;
\* a directory: the name of the same content there; "broken": a moved relative link
Entry == {None, "file", "user", "broken"} \cup Dirs

VARIABLES job,          \* of each thread
          public,       \* what each name is
          trees,        \* blake3_tree_v2/
          hard_links,   \* does the file system have them?
          thread,
          answered,     \* history: uploads that were answered 200
          torn,         \* history: contents whose link was being replaced at a crash
          crashes

vars == <<job, public, trees, hard_links, thread, answered, torn, crashes>>

Pcs == {"start", "rename", "tree", "exists", "remove", "hard", "sym", "answer", "done", "gone"}
State == [pc : Pcs, size : Sizes,
          dest : Dirs]          \* the name that is being linked
Init == /\ job \in Teams
        /\ public = [d \in Dirs |-> [k \in Sizes |-> None]]
        /\ trees = {} /\ hard_links \in BOOLEAN
        /\ thread = [t \in Thread |-> [pc |-> "start", size |-> Leaves, dest |-> "blake3"]]
        /\ answered = {} /\ torn = {} /\ crashes = 0

----------------------------------------------------------------------------
Goto(t, pc) == thread' = [thread EXCEPT ![t].pc = pc]
Here(t) == public[thread[t].dest][thread[t].size]
Set(t, entry) == public' = [public EXCEPT ![thread[t].dest][thread[t].size] = entry]
\* Path::exists follows links
Exists(d, k) ==
    \/ public[d][k] \in {"file", "user"}
    \/ public[d][k] = Other(d) /\ public[Other(d)][k] \in {"file", "user"}

\* The body arrives; ends early with one leaf of several, or none: the thread panics.
\* Mutant of Receive: an empty body is a content, too.
ReceiveNothing(t) ==
    /\ thread[t].pc = "start" /\ job[t] = "upload"
    /\ \/ \E k \in 0 .. Leaves :
            thread' = [thread EXCEPT ![t].size = k,
                          ![t].pc = IF k = 1 /\ Leaves > 1 THEN "gone" ELSE "rename"]
       \/ Goto(t, "gone")
    /\ UNCHANGED <<job, public, trees, hard_links, answered, torn, crashes>>
Receive(t) ==
    /\ thread[t].pc = "start" /\ job[t] = "upload"
    /\ \/ \E k \in Sizes :
            thread' = [thread EXCEPT ![t].size = k,
                          ![t].pc = IF k = 1 /\ Leaves > 1 THEN "gone" ELSE "rename"]
       \/ Goto(t, "gone")
    /\ UNCHANGED <<job, public, trees, hard_links, answered, torn, crashes>>
\* handle_upload renames its temporary file, then links the SHA-256 name to it
Rename(t) ==
    /\ thread[t].pc = "rename"
    /\ Set(t, "file")
    /\ thread' = [thread EXCEPT ![t].pc = "hard", ![t].dest = "sha256"]
    /\ UNCHANGED <<job, trees, hard_links, answered, torn, crashes>>

\* A download is complete: it is renamed, and a thread links the other name.
Finish(t) ==
    /\ thread[t].pc = "start" /\ job[t] \in {"blake3", "sha256", "small"}
    /\ \E d \in {IF job[t] = "blake3" THEN "blake3" ELSE "sha256"} :
        /\ public' = [public EXCEPT ![d][thread[t].size] = "file"]
        /\ thread' = [thread EXCEPT
              ![t].dest = Other(d),
              ![t].pc = CASE job[t] = "blake3" -> "exists"
                          [] job[t] = "sha256" -> "tree"
                          [] OTHER -> "done"]
    /\ UNCHANGED <<job, trees, hard_links, answered, torn, crashes>>
Share(t) ==
    /\ thread[t].pc = "start" /\ job[t] = "share"
    /\ Goto(t, "tree")
    /\ UNCHANGED <<job, public, trees, hard_links, answered, torn, crashes>>

\* The tree is renamed unless there is one: the end of build_tree_from_mmap, and of
\* an upload.  A download whose file another thread has removed gets none.
Tree(t) ==
    /\ thread[t].pc = "tree"
    /\ IF job[t] = "sha256" /\ ~Exists("sha256", thread[t].size)
       THEN UNCHANGED trees /\ Goto(t, "done")
       ELSE /\ trees' = trees \cup {thread[t].size}
            /\ Goto(t, IF job[t] = "upload" THEN "answer" ELSE "exists")
    /\ UNCHANGED <<job, public, hard_links, answered, torn, crashes>>

\* After a link: an upload goes on to its tree, /share to the other name.
\* Mutant of NextLink: the answer does not wait for the tree.
NextLinkAnswers(t) ==
    CASE job[t] = "upload" -> Goto(t, "answer")
      [] job[t] = "share" /\ thread[t].dest = "blake3" ->
            thread' = [thread EXCEPT ![t].pc = "exists", ![t].dest = "sha256"]
      [] OTHER -> Goto(t, "done")
NextLink(t) ==
    CASE job[t] = "upload" -> Goto(t, "tree")
      [] job[t] = "share" /\ thread[t].dest = "blake3" ->
            thread' = [thread EXCEPT ![t].pc = "exists", ![t].dest = "sha256"]
      [] OTHER -> Goto(t, "done")
CheckExists(t) ==
    /\ thread[t].pc = "exists"
    /\ IF Exists(thread[t].dest, thread[t].size) THEN NextLink(t) ELSE Goto(t, "remove")
    /\ UNCHANGED <<job, public, trees, hard_links, answered, torn, crashes>>
Remove(t) ==
    /\ thread[t].pc = "remove"
    /\ Set(t, None) /\ Goto(t, "hard")
    /\ UNCHANGED <<job, trees, hard_links, answered, torn, crashes>>

\* A hard link to a symbolic link is another one with the same text, which
\* names something else if it is relative.
Linked(entry) == IF entry \in Dirs THEN "broken" ELSE entry
Source(t) ==
    IF job[t] = "share" /\ thread[t].dest = "blake3" THEN "user"
    ELSE public[Other(thread[t].dest)][thread[t].size]
HardLink(t) ==
    /\ thread[t].pc = "hard"
    /\ IF hard_links /\ Here(t) = None /\ Source(t) # None
       THEN Set(t, Linked(Source(t))) /\ NextLink(t)
       ELSE Goto(t, "sym") /\ UNCHANGED public
    /\ UNCHANGED <<job, trees, hard_links, answered, torn, crashes>>
\* Mutant of SymLink: relative to the wrong directory.
SymLinkAstray(t) ==
    /\ thread[t].pc = "sym"
    /\ Set(t, IF Here(t) # None THEN Here(t) ELSE "broken")
    /\ NextLink(t)
    /\ UNCHANGED <<job, trees, hard_links, answered, torn, crashes>>
SymLink(t) ==
    /\ thread[t].pc = "sym"
    /\ Set(t, IF Here(t) # None THEN Here(t)
              ELSE IF job[t] = "share" /\ thread[t].dest = "blake3" THEN "user"
              ELSE Other(thread[t].dest))
    /\ NextLink(t)
    /\ UNCHANGED <<job, trees, hard_links, answered, torn, crashes>>
Answer(t) ==
    /\ thread[t].pc = "answer"
    /\ answered' = answered \cup {thread[t].size}
    /\ Goto(t, "done")
    /\ UNCHANGED <<job, public, trees, hard_links, torn, crashes>>

----------------------------------------------------------------------------
Active(t) == thread[t].pc \notin {"start", "done", "gone"}
Relinking(t) == thread[t].pc \in {"hard", "sym"}
Crash ==
    /\ crashes < MaxCrashes /\ crashes' = crashes + 1
    /\ thread' = [t \in Thread |-> IF Active(t) THEN [thread[t] EXCEPT !.pc = "gone"]
                                   ELSE thread[t]]
    /\ torn' = torn \cup {thread[t].size : t \in {u \in Thread : Relinking(u)}}
    /\ UNCHANGED <<job, public, trees, hard_links, answered>>

Step(t) == \/ Receive(t) \/ Rename(t) \/ Finish(t) \/ Share(t) \/ Tree(t)
           \/ CheckExists(t) \/ Remove(t) \/ HardLink(t) \/ SymLink(t) \/ Answer(t)
Next == Crash \/ \E t \in Thread : Step(t)
Spec == Init /\ [][Next]_vars

----------------------------------------------------------------------------
TypeOK == /\ job \in Teams /\ public \in [Dirs -> [Sizes -> Entry]] /\ trees \subseteq Sizes
          /\ hard_links \in BOOLEAN /\ thread \in [Thread -> State]
          /\ answered \subseteq Sizes /\ torn \subseteq Sizes /\ crashes \in 0 .. MaxCrashes
\* An upload that was answered can be read under both names from then on and
\* has its tree while other threads share or download the same content, except
\* while a link is being replaced, and for good if the process died there.
\* (/share beside a SHA-256 download and another /share or a blake3 download of
\* it can remove both names: two threads check before either removes.)
AnsweredIsKept ==
    \A k \in answered \ torn :
        (\A t \in Thread : Relinking(t) => thread[t].size # k)
            => /\ k \in trees
               /\ \A d \in Dirs : Exists(d, k)
\* When the threads that work on a content have ended, it has both names; links
\* never go round in a circle (a small SHA-256 download gets no blake3 name).
\* (Beside the same three threads this is not so.)
QuietIsWhole ==
    (\A t \in Thread : ~Active(t)) /\ crashes = 0
        => \A t \in Thread : thread[t].pc = "done" =>
              \A d \in Dirs : Exists(d, thread[t].size) \/ (job[t] = "small" /\ d = "blake3")
=============================================================================

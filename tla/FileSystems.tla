---------------------------- MODULE FileSystems -----------------------------
(***************************************************************************)
(* Clients of one object store, all through S3FileSystem or all through    *)
(* AzureFileSystem, and what they can rely on.                             *)
(***************************************************************************)
EXTENDS S3FileSystem, AzureFileSystem

Works(me) == (S3Step(me) \/ AzureStep(me)) /\ UNCHANGED <<calls, faults>>

Next ==
    /\ \/ \E me \in Clients : /\ Works(me) \/ Fail(me) \/ \E call \in Calls[kind] : Begin(me, call)
                              /\ Watch(me)
       \/ \E l \in leases : Expire(l) /\ UNCHANGED watch
    /\ UNCHANGED <<kind, options>>

Spec == Init /\ [][Next]_vars

-----------------------------------------------------------------------------
(* Properties.                                                             *)

\* The object that x = <<c, k, object>> says is at a key.
Under(x, at) == x[1] = at.c /\ (at.p = Root \/ x[2] = File(at.p) \/ InDir(x[2], at.p))

\* A step of me may make the content of x disappear.  The deletion of a Move
\* may take what it has copied, and what was not there when it began.
MayLose(me, x) ==
    LET call == op[me].call
    IN  \/ call.op \in {"DeleteDir", "DeleteDirContents"} /\ Under(x, call.at)
        \/ call.op \in {"DeleteFile", "loon_delete_file", "Write"} /\ x[1] = call.at.c /\ x[2] = File(call.at.p)
        \/ call.op \in {"CopyFile", "Move"} /\ x[1] = call.to.c /\ x[2] = File(call.to.p)
        \/ /\ call.op = "Move" /\ (kind # "HNS" \/ call.at.p = Root)
           /\ Under(x, call.at)
           /\ x \notin watch[me].objects \/ op[me].found = <<x[3]>>

\* Content leaves the store only by a call that names it: by DeleteFile,
\* DeleteDir or DeleteDirContents, or because it is overwritten.  A Move
\* loses nothing, except on S3 and between containers what was written while
\* it ran.  (MovePathWithDataLakeAPI, S3FileSystem::Move, RenameContainer;
\* the prefixes with a slash of every listing.)
NoSilentLoss ==
    \A me \in Clients : op'[me] # op[me] =>
        \A x \in Objects : x[3] # Nil /\ (\A y \in Objects' : y[3] # x[3]) => MayLose(me, x)

\* A call keeps the directories it does not remove.  On Azure they never stop
\* existing: markers are made before the files are deleted that implied them.
\* On S3 they are made again before the call returns OK.  A directory that
\* another client's call removes or whose last key it takes does not count.
\* (DeleteFileOnContainer, DeleteDirContentsOnContainer, EnsureParentExists,
\* EnsureDirectoryExists.)
DirsKept ==
    \A me \in Clients : op'[me] # op[me] /\ ~In(me, "idle") =>
        \A d \in watch[me].dirs \ Dirs' :
           \/ Removes(op[me].call, d)
           \/ kind = "S3" /\ ~(op'[me].pc = "idle" /\ op'[me].result = "ok")

\* Content and directories vanish only by a call that names them.
NothingVanishes == [][NoSilentLoss /\ DirsKept]_vars

\* What a call says when it returns OK is so.  After DeleteDir and
\* DeleteDirContents nothing is left of what was there when they began,
\* though they list and delete in pages, and though others write and hold
\* leases.  A listing has every file that was there all the time, and nothing
\* twice.  (DoDeleteDirContentsAsync, DeleteDirContentsOnContainer,
\* DeleteDirContentsOnFileSystem; FileListerTask, GetFileInfoWithSelector.)
OkIsTrue ==
    [][\A me \in Clients : ~In(me, "idle") /\ op'[me].pc = "idle" /\ op'[me].result = "ok" =>
          LET call == op[me].call
              kept == {x \in watch[me].objects \cap Objects' :
                          x[1] = call.at.c /\ InDir(x[2], call.at.p)}
              found == op'[me].found
          IN  /\ call.op \in {"DeleteDir", "DeleteDirContents"} => kept = {}
              /\ call.op = "List" =>
                    /\ \A x \in kept : Recursion(x[2], call.at.p) <= (IF call.rec THEN call.num ELSE 0)
                                          => x[2] \in ToSet(found)
                    /\ IsInjective(found)]_vars

\* Store, leases and answers fit together.  Of a thing there is one lease.
\* On a hierarchical namespace a path is a file or a directory, and what is
\* above it are directories.  The listings of one entry by which a flat
\* namespace tells files from directories find what is there, except a
\* directory behind another one whose longer name sorts before the slash.
\* (GetFileInfo on a BlobContainerClient.)
StoreConsistent ==
    /\ kind \in {"S3", "Flat", "HNS"}
    /\ \A c \in Containers : store[c] # None => DOMAIN store[c] \subseteq Key
    /\ \A k, l \in leases : k.at = l.at => k = l
    /\ kind = "HNS" => \A c \in Containers : \A k \in Keys(c) :
          /\ [k EXCEPT !.dir = ~@] \notin Keys(c)
          /\ \A q \in Above(k.path) : Marker(q) \in Keys(c)
    /\ kind = "Flat" => \A c \in Containers, p \in Paths :
          \/ FlatGetFileInfo(c, p) = S3GetFileInfo(c, p)
          \/ \E q \in Likes(p) \ {p} : IsNonEmptyDirectory(c, q) /\ Pos(Marker(q)) < Pos(Marker(p))

=============================================================================

--------------------------- MODULE AzureFileSystem --------------------------
(***************************************************************************)
(* AzureFileSystem: on an account with a flat namespace, markers and       *)
(* implied directories, with leases on blobs; on an account with a         *)
(* hierarchical namespace, directories and renames, with leases on both    *)
(* ends.  Containers are leased too.                                       *)
(***************************************************************************)
EXTENDS ObjectStore

-----------------------------------------------------------------------------
(* What is at a path.                                                      *)

HnsGetFileInfo(c, p) ==
    IF File(p) \in Keys(c) THEN "File"
    ELSE IF Marker(p) \in Keys(c) THEN "Directory" ELSE "NotFound"

\* p itself and the siblings that begin with its name.
Likes(p) == {p} \cup {q \in Paths : <<p, q>> \in Lengthens}

AskWithSlash_Never(c, p, first) == "NotFound"

\* Another listing, with the slash, when the first blob comes before the slash.
AskWithSlash(c, p, first) ==
    IF /\ ~first.dir /\ first.path \in Likes(p)
       /\ Pos(first) < Pos(Marker(p))
       /\ \E k \in Keys(c) : InDir(k, p)
    THEN "Directory" ELSE "NotFound"

\* A listing of one entry that begins with the name, without a slash.
FlatGetFileInfo(c, p) ==
    LET hits == SelectSeq(KeyOrder, LAMBDA k : /\ k \in Keys(c)
                                               /\ \E q \in Likes(p) : k = File(q) \/ InDir(k, q))
    IN  IF hits = <<>> THEN "NotFound"
        ELSE IF hits[1] = File(p) THEN "File"
        ELSE IF InDir(hits[1], p) THEN "Directory"
        ELSE AskWithSlash(c, p, hits[1])

GetContainerProps(c) == IF store[c] = None THEN "NotFound" ELSE "Directory"

AzureGetFileInfo(c, p) ==
    IF p = Root THEN GetContainerProps(c)
    ELSE IF kind = "HNS" THEN HnsGetFileInfo(c, p) ELSE FlatGetFileInfo(c, p)

-----------------------------------------------------------------------------
(* The kind of namespace is asked for once.                                *)

AsksHns(call) ==
    call.op # "CopyFile" /\ (call.at.p # Root \/ call.op \in {"List", "DeleteDirContents"})

Ready(me, pc) == kind # "S3" /\ In(me, pc) /\ (op[me].knows \/ ~AsksHns(op[me].call))

HierarchicalNamespaceSupport(me) ==
    LET call == op[me].call
    IN  /\ kind # "S3" /\ ~In(me, "idle") /\ In(me, call.op)
        /\ AsksHns(call) /\ ~op[me].knows
        /\ store[call.at.c] # None
        /\ Goes(me, [knows |-> TRUE])

\* kContainerNotFound is not cached.  A recursive CreateDir makes the
\* container to ask once more.
ContainerNotFound(me) ==
    LET call == op[me].call
    IN  /\ kind # "S3" /\ ~In(me, "idle") /\ In(me, call.op)
        /\ AsksHns(call) /\ ~op[me].knows
        /\ store[call.at.c] = None
        /\ IF call.op = "CreateDir" /\ call.rec /\ ~op[me].flag
           THEN Then(me, [store EXCEPT ![call.at.c] = NoObjects], [flag |-> TRUE])
           ELSE IF call.op = "Write" THEN Goes(me, [pc |-> "create"])
           ELSE Answers(me, IF call.op \in {"List", "DeleteDirContents"} /\ call.lax THEN "ok" ELSE "error")

AzureDeleteFileChecked(me) ==
    /\ Ready(me, "loon_delete_file")
    /\ LET at == op[me].call.at IN loon_filesystem_delete_file(me, AzureGetFileInfo(at.c, at.p))

-----------------------------------------------------------------------------
(* CreateDir.                                                              *)

CreateContainerIfNotExists(me) ==
    LET at == op[me].call.at
    IN  /\ Ready(me, "CreateDir") /\ at.p = Root
        /\ Returns(me, [store EXCEPT ![at.c] = IF @ = None THEN NoObjects ELSE @], "ok")

\* Recursive: every segment is a directory or missing.
CheckSegments(me) ==
    LET at == op[me].call.at
        todo == IF In(me, "CreateDir") THEN Chain[at.p] ELSE op[me].todo
        info == AzureGetFileInfo(at.c, Head(todo))
        missing == IF info = "NotFound" THEN <<Head(todo)>> \o op[me].found ELSE op[me].found
    IN  /\ Ready(me, "CreateDir") \/ In(me, "segments")
        /\ at.p # Root /\ op[me].call.rec
        /\ IF info = "File" THEN Answers(me, "error")
           ELSE Goes(me, [pc |-> IF Tail(todo) = <<>> THEN "container" ELSE "segments",
                          todo |-> Tail(todo), found |-> missing])

EnsureContainer(me) ==
    /\ In(me, "container")
    /\ CreateDirs(me, [store EXCEPT ![op[me].call.at.c] = IF @ = None THEN NoObjects ELSE @],
                  op[me].found)

\* Not recursive: the directory above has to be there.
CreateDirInParent(me) ==
    LET at == op[me].call.at
    IN  /\ Ready(me, "CreateDir") /\ at.p # Root /\ ~op[me].call.rec
        /\ IF Parent[at.p] # Root /\ AzureGetFileInfo(at.c, Parent[at.p]) # "Directory"
           THEN Answers(me, "error")
           ELSE CreateDirs(me, store, <<at.p>>)

\* CreateDirOnContainer: PUT a marker.  CreateDirOnFileSystem: whatever is
\* there already will do.
CreateIfNotExists(me) ==
    LET c == op[me].call.at.c
        p == Head(op[me].todo)
        made == IF kind = "HNS" /\ Exists(store, [c |-> c, p |-> p]) THEN store ELSE Put(c, Marker(p), Nil)
    IN  /\ kind # "S3" /\ In(me, "mkdir")
        /\ IF store[c] = None \/ (kind = "HNS" /\ \E q \in Above(p) : File(q) \in Keys(c))
           THEN Answers(me, "error")
           ELSE CreateDirs(me, made, Tail(op[me].todo))

-----------------------------------------------------------------------------
(* DeleteDir, DeleteDirContents.                                           *)

DeleteContainer(me) ==
    LET at == op[me].call.at
    IN  /\ Ready(me, "DeleteDir") /\ at.p = Root
        /\ IF store[at.c] = None \/ LeasedToOthers(me, at) THEN Answers(me, "error")
           ELSE Returns(me, [store EXCEPT ![at.c] = None], "ok")

FlatContents_NoSlash(c, p) ==
    {k \in Keys(c) : p = Root \/ \E q \in Likes(p) : k = File(q) \/ InDir(k, q)}

\* The keys with the prefix of the directory, of which a page is a batch.
FlatContents(c, p) == {k \in Keys(c) : InDir(k, p)}

\* DeleteDirContentsOnContainer lists a page.  DeleteDirContents keeps the
\* marker, and makes one where there is none.
ListBlobsToDelete(me) ==
    LET call == op[me].call
        at == call.at
        preserve == call.op = "DeleteDirContents"
        K == FlatContents(at.c, at.p)
        page == Page(K, op[me].after)
        batch == IF preserve /\ at.p # Root THEN ToSet(page) \ {Marker(at.p)} ELSE ToSet(page)
        marked == op[me].flag \/ (at.p # Root /\ Marker(at.p) \in ToSet(page))
        strict == ~preserve \/ ~call.lax
    IN  /\ kind = "Flat" /\ (Ready(me, "DeleteDir") \/ Ready(me, "DeleteDirContents"))
        /\ at.p # Root \/ preserve
        /\ IF store[at.c] = None THEN Answers(me, "error")
           ELSE IF page = <<>> /\ op[me].after = 0
           THEN Answers(me, IF strict \/ (at.p # Root /\ FlatGetFileInfo(at.c, at.p) = "File")
                            THEN "error" ELSE "ok")
           ELSE IF batch = {} /\ ~More(K, op[me].after) THEN Answers(me, "ok")
           ELSE Goes(me, [pc |-> IF batch = {} THEN call.op
                                 ELSE IF preserve /\ ~marked /\ at.p # Root THEN "marker" ELSE "batch",
                          flag |-> marked, after |-> Pos(Last(page)),
                          pending |-> {batch}, more |-> More(K, op[me].after)])

\* The marker comes before the deletion: the directory never stops existing.
EnsureEmptyDirExists(me) ==
    LET call == op[me].call
        file == call.op = "DeleteFile" \/ call.op = "loon_delete_file"
        dir == IF file THEN Parent[call.at.p] ELSE call.at.p
    IN  /\ In(me, "marker")
        /\ IF store[call.at.c] = None THEN Answers(me, "error")
           ELSE Then(me, Put(call.at.c, Marker(dir), Nil), [pc |-> IF file THEN "unlink" ELSE "batch"])

SubmitBatch_Unchecked(me) ==
    LET call == op[me].call
        done == {k \in UNION op[me].pending :
                    k.dir \/ ~LeasedToOthers(me, [c |-> call.at.c, p |-> k.path])}
    IN  /\ In(me, "batch")
        /\ IF store[call.at.c] = None THEN Answers(me, "error")
           ELSE IF op[me].more THEN Then(me, Take(call.at.c, done), [pc |-> call.op, pending |-> {}])
           ELSE Returns(me, Take(call.at.c, done), "ok")

\* A batch deletes what it can, and says what it could not: blobs that are
\* gone or leased.
SubmitBatch(me) ==
    LET call == op[me].call
        batch == UNION op[me].pending
        done == {k \in batch \cap Keys(call.at.c) :
                    k.dir \/ ~LeasedToOthers(me, [c |-> call.at.c, p |-> k.path])}
    IN  /\ In(me, "batch")
        /\ IF store[call.at.c] = None THEN Answers(me, "error")
           ELSE IF done # batch THEN Returns(me, Take(call.at.c, done), "error")
           ELSE IF op[me].more THEN Then(me, Take(call.at.c, done), [pc |-> call.op, pending |-> {}])
           ELSE Returns(me, Take(call.at.c, done), "ok")

Tree(c, p) == {k \in Keys(c) : k = File(p) \/ InDir(k, p)}

\* DeleteDirOnFileSystem: look, then delete whatever is there.
ProbeDir(me) ==
    LET at == op[me].call.at
    IN  /\ kind = "HNS" /\ Ready(me, "DeleteDir") /\ at.p # Root
        /\ IF HnsGetFileInfo(at.c, at.p) = "Directory" THEN Goes(me, [pc |-> "drop"])
           ELSE Answers(me, "error")

DeleteRecursive(me) ==
    LET at == op[me].call.at
    IN  /\ In(me, "drop")
        /\ IF ~Exists(store, at) \/ LeasedToOthers(me, at) THEN Answers(me, "error")
           ELSE Returns(me, Take(at.c, Tree(at.c, at.p)), "ok")

Children(c, p) == {k \in Keys(c) : Parent[k.path] = p}

\* DeleteDirContentsOnFileSystem: a page of children, and one after the other.
ListChildrenToDelete(me) ==
    LET call == op[me].call
        at == call.at
        K == Children(at.c, at.p)
        page == Page(K, op[me].after)
    IN  /\ kind = "HNS" /\ Ready(me, "DeleteDirContents")
        /\ IF ~Exists(store, at) THEN Answers(me, IF call.lax THEN "ok" ELSE "error")
           ELSE IF at.p # Root /\ File(at.p) \in Keys(at.c) THEN Answers(me, "error")
           ELSE IF page = <<>> THEN Answers(me, "ok")
           ELSE Goes(me, [pc |-> "children", todo |-> page, after |-> Pos(Last(page)),
                          more |-> More(K, op[me].after)])

DeleteChild(me) ==
    LET call == op[me].call
        k == Head(op[me].todo)
        there == [c |-> call.at.c, p |-> k.path]
        refused == ~k.dir /\ Children(call.at.c, k.path) # {}
        st == Take(call.at.c, Tree(call.at.c, k.path))
    IN  /\ In(me, "children")
        /\ IF ~Exists(store, there) \/ LeasedToOthers(me, there) \/ refused THEN Answers(me, "error")
           ELSE IF Tail(op[me].todo) # <<>> THEN Then(me, st, [todo |-> Tail(op[me].todo)])
           ELSE IF op[me].more THEN Then(me, st, [pc |-> call.op, todo |-> <<>>])
           ELSE Returns(me, st, "ok")

-----------------------------------------------------------------------------
(* Leases.                                                                 *)

\* AcquireBlobLease and AcquireContainerLease: a conflict is tried once more.
AcquireLease(me, at, r, missing) ==
    IF ~Exists(store, at) THEN missing
    ELSE IF \E l \in leases : l.at = at
    THEN IF op[me].retried THEN Answers(me, "error") ELSE Goes(me, [retried |-> TRUE])
    ELSE /\ leases' = leases \cup {[at |-> at, by |-> me]}
         /\ op' = [op EXCEPT ![me] = r @@ [retried |-> FALSE] @@ @]
         /\ UNCHANGED store

-----------------------------------------------------------------------------
(* DeleteFile.                                                             *)

\* DeleteFileOnFileSystem looks first: a directory is not a file.
ProbeFile(me) ==
    LET at == op[me].call.at
    IN  /\ Ready(me, "DeleteFile")
        /\ kind = "HNS" \/ at.p = Root
        /\ IF at.p # Root /\ HnsGetFileInfo(at.c, at.p) = "File" THEN Goes(me, [pc |-> "unlink"])
           ELSE Answers(me, "error")

\* DeleteFileOnContainer: below a directory, the file is leased while the
\* marker of the directory is made.
LeaseFile(me) ==
    LET at == op[me].call.at
    IN  /\ kind = "Flat" /\ Ready(me, "DeleteFile") /\ at.p # Root
        /\ IF Parent[at.p] = Root THEN Goes(me, [pc |-> "unlink"])
           ELSE AcquireLease(me, at, [pc |-> "marker", flag |-> TRUE], Answers(me, "error"))

DeleteBlob(me) ==
    LET at == op[me].call.at
        refused == \/ LeasedToOthers(me, at)
                   \/ op[me].flag /\ ~Holds(me, at)
                   \/ kind = "HNS" /\ Children(at.c, at.p) # {}
    IN  /\ In(me, "unlink")
        /\ IF ~Exists(store, at) \/ refused THEN Answers(me, "error")
           ELSE Returns(me, Take(at.c, {File(at.p)} \cup (IF kind = "HNS" THEN {Marker(at.p)} ELSE {})), "ok")

-----------------------------------------------------------------------------
(* Move.                                                                   *)

SameContainer(me) ==
    LET call == op[me].call
    IN  /\ Ready(me, "Move") /\ call.at.p = Root /\ call.to = call.at
        /\ Answers(me, IF GetContainerProps(call.at.c) = "NotFound" THEN "error" ELSE "ok")

\* MoveContainerToPath, CreateContainerFromPath, MovePathUsingBlobsAPI.
MoveNotImplemented(me) ==
    LET call == op[me].call
    IN  /\ Ready(me, "Move")
        /\ (call.at.p = Root) # (call.to.p = Root) \/ (kind = "Flat" /\ call.at.p # Root)
        /\ Answers(me, "error")

LeasesBothEnds(call) ==
    IF call.at.p = Root THEN call.to.p = Root /\ call.at # call.to ELSE kind = "HNS" /\ call.to.p # Root

LeaseSource(me) ==
    LET call == op[me].call
    IN  /\ Ready(me, "Move") /\ LeasesBothEnds(call)
        /\ AcquireLease(me, call.at, [pc |-> "dest"], Answers(me, "error"))

\* A destination that is there is leased and looked at.
LeaseDest(me) ==
    LET call == op[me].call
        same == call.at.c = call.to.c \/ call.at.p = Root
        absent == IF same THEN Goes(me, [pc |-> "break", retried |-> FALSE]) ELSE Answers(me, "error")
    IN  /\ In(me, "dest")
        /\ AcquireLease(me, call.to, [pc |-> "check", flag |-> TRUE], absent)

CheckDest(me) ==
    LET call == op[me].call
        to == call.to
        replaces == HnsGetFileInfo(to.c, to.p) = "Directory"
        \* Requests with a lease that is no longer held fail.
        stale == \/ Exists(store, to) /\ ~Holds(me, to)
                 \/ replaces /\ Exists(store, call.at) /\ ~Holds(me, call.at)
    IN  /\ In(me, "check") /\ to.p # Root
        /\ IF \/ stale
              \/ replaces /\ HnsGetFileInfo(call.at.c, call.at.p) # "Directory"
              \/ call.at.c # to.c
           THEN Answers(me, "error")
           ELSE Goes(me, [pc |-> "break"])

\* RenameContainer: an empty container gives way to an empty one.
CheckDestEmpty(me) ==
    LET to == op[me].call.to
    IN  /\ In(me, "check") /\ to.p = Root
        /\ IF store[to.c] = None \/ Keys(to.c) # {} THEN Answers(me, "error")
           ELSE Goes(me, [pc |-> "empty"])

CheckSourceEmpty(me) ==
    LET at == op[me].call.at
    IN  /\ In(me, "empty")
        /\ \/ /\ store[at.c] # None /\ Keys(at.c) = {}
              /\ Goes(me, [pc |-> "break"])
           \/ \* not empty, or the lease of the destination is no longer StillValidFor long
              Answers(me, "error")

\* ARROW_CHECK_OK ends the process when there is nothing to break a lease on.
BreakBeforeDeletion(me) ==
    /\ In(me, "break")
    /\ IF Exists(store, op[me].call.at) THEN Goes(me, [pc |-> "rename"]) ELSE Aborts(me)

\* Rename on a hierarchical namespace: the whole tree at once.
Renamed(c, p, q) ==
    LET new[r \in Paths] ==
            IF r = p THEN q
            ELSE CHOOSE s \in Paths : Name[s] = Name[r] /\ Parent[s] = new[Parent[r]]
        old == store[c]
        moved == [k \in {[path |-> new[x.path], dir |-> x.dir] : x \in Tree(c, p)} |->
                     old[CHOOSE x \in Tree(c, p) : new[x.path] = k.path /\ x.dir = k.dir]]
    IN  [store EXCEPT ![c] = moved @@ Restrict(old, DOMAIN old \ (Tree(c, p) \cup {File(q), Marker(q)}))]

RenameFile(me) ==
    LET call == op[me].call
        at == call.at
        to == call.to
        leased == Holds(me, at) /\ IF op[me].flag THEN Holds(me, to) ELSE ~\E l \in leases : l.at = to
        fits == /\ Parent[to.p] = Root \/ Marker(Parent[to.p]) \in Keys(to.c)
                /\ Children(to.c, to.p) = {} /\ at.p \notin Above(to.p)
    IN  /\ In(me, "rename") /\ at.p # Root
        /\ IF Exists(store, at) /\ leased /\ fits THEN Returns(me, Renamed(at.c, at.p, to.p), "ok")
           ELSE Answers(me, "error")

\* The source container is renamed or, when an empty one takes its place, deleted.
RenameContainer(me) ==
    LET call == op[me].call
        renamed == [store EXCEPT ![call.to.c] = store[call.at.c], ![call.at.c] = None]
    IN  /\ In(me, "rename") /\ call.at.p = Root
        /\ IF store[call.at.c] = None \/ ~Holds(me, call.at) THEN Answers(me, "error")
           ELSE IF op[me].flag THEN Returns(me, [store EXCEPT ![call.at.c] = None], "ok")
           ELSE IF store[call.to.c] = None THEN Returns(me, renamed, "ok") ELSE Answers(me, "error")

-----------------------------------------------------------------------------
(* CopyFile and writes.                                                    *)

CheckDestParent(me) ==
    LET call == op[me].call
        to == call.to
    IN  /\ Ready(me, "CopyFile")
        /\ IF call.at.p = Root \/ to.p = Root THEN Answers(me, "error")
           ELSE IF call.at = to THEN Answers(me, "ok")
           ELSE IF Parent[to.p] # Root /\ FlatGetFileInfo(to.c, Parent[to.p]) = "File" THEN Answers(me, "error")
           ELSE Goes(me, [pc |-> "copy"])

StartCopyFromUri(me) ==
    LET call == op[me].call
        to == call.to
    IN  /\ In(me, "copy")
        /\ IF File(call.at.p) \notin Keys(call.at.c) \/ ~CanPut(me, to.c, File(to.p)) THEN Answers(me, "error")
           ELSE Returns(me, Put(to.c, File(to.p), store[call.at.c][File(call.at.p)]), "ok")

\* OpenAppendStream, truncating: no directory on a flat namespace, ...
EnsureNotFlatDirectory(me) ==
    LET at == op[me].call.at
    IN  /\ Ready(me, "Write")
        /\ IF at.p = Root \/ (kind = "Flat" /\ FlatGetFileInfo(at.c, at.p) = "Directory")
           THEN Answers(me, "error")
           ELSE Goes(me, [pc |-> "create"])

\* ... then an empty blob takes the place of what was there ...
CreateEmptyBlockBlob(me) ==
    LET at == op[me].call.at
    IN  /\ In(me, "create")
        /\ IF CanPut(me, at.c, File(at.p)) THEN Then(me, Put(at.c, File(at.p), Nil), [pc |-> "commit"])
           ELSE Answers(me, "error")

\* ... and Close commits the blocks.
CommitBlockList(me) ==
    LET at == op[me].call.at
    IN  /\ In(me, "commit")
        /\ IF CanPut(me, at.c, File(at.p)) THEN Returns(me, Put(at.c, File(at.p), op[me].n), "ok")
           ELSE Answers(me, "error")

-----------------------------------------------------------------------------
(* Listings.                                                               *)

\* GetFileInfoWithSelectorFromFileSystem.
ListPaths(me) ==
    LET call == op[me].call
        at == call.at
        K == IF call.rec THEN {k \in Keys(at.c) : InDir(k, at.p)} \ (IF at.p = Root THEN {} ELSE {Marker(at.p)})
             ELSE Children(at.c, at.p)
        page == Page(K, op[me].after)
        found == op[me].found \o SelectSeq(page, LAMBDA k : Recursion(k, at.p) <= call.num)
        flag == op[me].flag \/ page # <<>>
    IN  /\ kind = "HNS" /\ Ready(me, "List")
        /\ IF ~Exists(store, at) THEN Answers(me, IF call.lax THEN "ok" ELSE "error")
           ELSE IF at.p # Root /\ File(at.p) \in Keys(at.c) THEN Answers(me, "error")
           ELSE IF More(K, op[me].after)
           THEN Goes(me, [found |-> found, flag |-> flag, after |-> Pos(Last(page))])
           ELSE IF flag \/ call.lax \/ at.p = Root THEN Lists(me, found)
           ELSE Answers(me, "error")

\* GetFileInfoWithSelectorFromContainer calls itself for every prefix of a
\* page before it asks for the next page: todo is the stack of its frames.
ListBlobsByHierarchy(me) ==
    LET call == op[me].call
        c == call.at.c
        todo == IF op[me].todo = <<>> THEN <<[p |-> call.at.p, after |-> 0, left |-> call.num]>>
                ELSE op[me].todo
        frame == Head(todo)
        K == Entries(c, frame.p)
        page == Page(K, frame.after)
        infos == SelectSeq(page, LAMBDA k : frame.p = Root \/ k # Marker(frame.p))
        dirs == SelectSeq(infos, LAMBDA k : k.dir)
        inner == IF call.rec /\ frame.left > 0
                 THEN [i \in 1..Len(dirs) |-> [p |-> dirs[i].path, after |-> 0, left |-> frame.left - 1]]
                 ELSE <<>>
        next == IF More(K, frame.after) THEN <<[frame EXCEPT !.after = Pos(Last(page))]>> ELSE <<>>
        rest == IF store[c] = None THEN Tail(todo) ELSE inner \o next \o Tail(todo)
        found == op[me].found \o infos
        base == Tail(todo) = <<>>
        lost == base /\ IF store[c] = None THEN TRUE
                        ELSE page = <<>> /\ ~op[me].flag /\ call.at.p # Root
    IN  /\ kind = "Flat" /\ Ready(me, "List")
        /\ IF lost THEN Answers(me, IF call.lax THEN "ok" ELSE "error")
           ELSE IF rest = <<>> THEN Lists(me, found)
           ELSE Goes(me, [todo |-> rest, found |-> found, flag |-> TRUE])

AzureStep(me) ==
    \/ HierarchicalNamespaceSupport(me) \/ ContainerNotFound(me)
    \/ CreateContainerIfNotExists(me) \/ CheckSegments(me) \/ EnsureContainer(me)
    \/ CreateDirInParent(me) \/ CreateIfNotExists(me)
    \/ DeleteContainer(me) \/ ListBlobsToDelete(me) \/ EnsureEmptyDirExists(me) \/ SubmitBatch(me)
    \/ ProbeDir(me) \/ DeleteRecursive(me) \/ ListChildrenToDelete(me) \/ DeleteChild(me)
    \/ AzureDeleteFileChecked(me) \/ ProbeFile(me) \/ LeaseFile(me) \/ DeleteBlob(me)
    \/ SameContainer(me) \/ MoveNotImplemented(me) \/ LeaseSource(me) \/ LeaseDest(me)
    \/ CheckDest(me) \/ CheckDestEmpty(me) \/ CheckSourceEmpty(me) \/ BreakBeforeDeletion(me)
    \/ RenameFile(me) \/ RenameContainer(me)
    \/ CheckDestParent(me) \/ StartCopyFromUri(me)
    \/ EnsureNotFlatDirectory(me) \/ CreateEmptyBlockBlob(me) \/ CommitBlockList(me)
    \/ ListPaths(me) \/ ListBlobsByHierarchy(me)

=============================================================================

---------------------------- MODULE S3FileSystem ----------------------------
(***************************************************************************)
(* S3FileSystem: directories as markers and implied by keys, on a store    *)
(* that offers HEAD, PUT, COPY, DELETE of one object or of many, and       *)
(* listings in pages.                                                      *)
(***************************************************************************)
EXTENDS ObjectStore

-----------------------------------------------------------------------------
(* What is at a path.                                                      *)

IsNonEmptyDirectory(c, p) == p # Root /\ \E k \in Keys(c) : InDir(k, p)

\* HEAD of the key itself, without a slash: what Amazon wants.
IsEmptyDirectory(c, p) == IF p = Root THEN store[c] # None ELSE File(p) \in Keys(c)

S3GetFileInfo(c, p) ==
    IF p = Root THEN IF store[c] = None THEN "NotFound" ELSE "Directory"
    ELSE IF File(p) \in Keys(c) THEN "File"
    ELSE IF IsNonEmptyDirectory(c, p) THEN "Directory" ELSE "NotFound"

S3DeleteFileChecked(me) ==
    kind = "S3" /\ LET at == op[me].call.at IN loon_filesystem_delete_file(me, S3GetFileInfo(at.c, at.p))

-----------------------------------------------------------------------------
(* CreateDir.                                                              *)

\* With CreateBucket's HeadBucket: a bucket that is there is as good.
CreateBucket(me) ==
    LET at == op[me].call.at
    IN  /\ kind = "S3" /\ In(me, "CreateDir") /\ at.p = Root
        /\ IF store[at.c] # None THEN Answers(me, "ok")
           ELSE IF options.create THEN Returns(me, [store EXCEPT ![at.c] = NoObjects], "ok")
           ELSE Answers(me, "error")

\* Recursive: the bucket first, then up to the first directory there is.
S3CreateDirRecursive(me) ==
    LET at == op[me].call.at
        next == IF options.check THEN [pc |-> "walk", todo |-> Chain[at.p]]
                ELSE [pc |-> "mkdir", todo |-> Reverse(Chain[at.p])]
    IN  /\ kind = "S3" /\ In(me, "CreateDir") /\ at.p # Root /\ op[me].call.rec
        /\ IF store[at.c] # None THEN Goes(me, next)
           ELSE IF options.create THEN Then(me, [store EXCEPT ![at.c] = NoObjects], next)
           ELSE Answers(me, "error")

WalkUp(me) ==
    LET todo == op[me].todo
        missing == <<Head(todo)>> \o op[me].found
    IN  /\ kind = "S3" /\ In(me, "walk")
        /\ IF S3GetFileInfo(op[me].call.at.c, Head(todo)) # "NotFound"
           THEN CreateDirs(me, store, op[me].found)
           ELSE IF Tail(todo) = <<>> THEN CreateDirs(me, store, missing)
           ELSE Goes(me, [todo |-> Tail(todo), found |-> missing])

\* Not recursive: a parent, and on request no directory yet.
S3CreateDirInParent(me) ==
    LET at == op[me].call.at
        parent == Parent[at.p]
    IN  /\ kind = "S3" /\ In(me, "CreateDir") /\ at.p # Root /\ ~op[me].call.rec
        /\ IF ~IsNonEmptyDirectory(at.c, parent) /\ ~IsEmptyDirectory(at.c, parent)
           THEN Answers(me, "error")
           ELSE Goes(me, [pc |-> IF options.check THEN "new" ELSE "mkdir", todo |-> <<at.p>>])

NotThereYet(me) ==
    LET at == op[me].call.at
    IN  /\ kind = "S3" /\ In(me, "new")
        /\ IF S3GetFileInfo(at.c, at.p) # "NotFound" THEN Answers(me, "ok")
           ELSE Goes(me, [pc |-> "mkdir"])

CreateEmptyDir(me) ==
    LET c == op[me].call.at.c
    IN  /\ kind = "S3" /\ In(me, "mkdir")
        /\ IF store[c] = None THEN Answers(me, "error")
           ELSE CreateDirs(me, Put(c, Marker(Head(op[me].todo)), Nil), Tail(op[me].todo))

EnsureParentExists_Not(me, st, p) == Returns(me, st, "ok")

\* What was deleted may have been all that implied its parent.
EnsureParentExists(me, st, p) ==
    CreateDirs(me, st, IF Parent[p] = Root THEN <<>> ELSE <<Parent[p]>>)

-----------------------------------------------------------------------------
(* Listings.                                                               *)

\* FileListerState::GetNewDirectories: directories between k and p not seen yet.
GetNewDirectories(k, p, max, seen) ==
    {Marker(q) : q \in {q \in Above(k.path) : /\ p = Root \/ p \in Above(q)
                                              /\ Recursion(Marker(q), p) <= max}} \ seen

\* FileListerTask::ToFileInfos: the infos of a page without a delimiter, the
\* directories its keys imply after them.
ToFileInfos(page, p, max, found) ==
    FoldLeft(LAMBDA infos, k :
                 LET seen == ToSet(infos)
                     self == IF k = Marker(p) \/ Recursion(k, p) > max \/ k \in seen THEN <<>> ELSE <<k>>
                 IN  infos \o self \o SetToSeq(GetNewDirectories(k, p, max, seen)),
             found, page)

\* One ListObjectsV2 request, and what the call has found with it.
Lister(me, rec, max) ==
    LET at == op[me].call.at
        K == IF rec THEN {k \in Keys(at.c) : InDir(k, at.p)} ELSE Entries(at.c, at.p)
        page == Page(K, op[me].after)
    IN  [found |-> IF rec THEN ToFileInfos(page, at.p, max, op[me].found)
                   ELSE op[me].found \o SelectSeq(page, LAMBDA k : k # Marker(at.p)),
         flag |-> op[me].flag \/ page # <<>>,
         after |-> IF page = <<>> THEN 0 ELSE Pos(Last(page)),
         more |-> More(K, op[me].after)]

\* FileListerState::Finish.
NothingFound(me, list) == ~list.flag /\ op[me].call.at.p # Root

S3List(me) ==
    LET call == op[me].call
        list == Lister(me, call.rec, call.num)
    IN  /\ kind = "S3" /\ In(me, "List")
        /\ IF store[call.at.c] = None THEN Answers(me, IF call.lax THEN "ok" ELSE "error")
           ELSE IF list.more
           THEN Goes(me, [found |-> list.found, flag |-> list.flag, after |-> list.after])
           ELSE IF NothingFound(me, list) /\ ~call.lax THEN Answers(me, "error")
           ELSE Lists(me, list.found)

-----------------------------------------------------------------------------
(* DeleteDir, DeleteDirContents.                                           *)

EnsureIsDir(me) ==
    LET at == op[me].call.at
    IN  /\ kind = "S3" /\ (In(me, "DeleteDir") \/ In(me, "DeleteDirContents"))
        /\ IF at.p # Root /\ File(at.p) \in Keys(at.c) THEN Answers(me, "error")
           ELSE Goes(me, [pc |-> "clear"])

\* A page is listed, and its deletion is a task of its own.
ListFilesForDelete(me) ==
    LET call == op[me].call
        list == Lister(me, TRUE, NoLimit)
        page == SubSeq(list.found, Len(op[me].found) + 1, Len(list.found))
    IN  /\ kind = "S3" /\ In(me, "clear")
        /\ IF store[call.at.c] = None THEN Answers(me, "error")
           ELSE IF ~list.more /\ NothingFound(me, list)
           THEN Answers(me, IF call.op = "DeleteDirContents" /\ call.lax THEN "ok" ELSE "error")
           ELSE Goes(me, [pc |-> IF list.more THEN "clear" ELSE "cleared",
                          found |-> list.found, flag |-> list.flag, after |-> list.after,
                          pending |-> op[me].pending \cup (IF page = <<>> THEN {} ELSE {ToSet(page)})])

\* The deletions of pages run beside the listing, in any order.
DeleteObjects(me) ==
    LET c == op[me].call.at.c
    IN  /\ kind = "S3" /\ (In(me, "clear") \/ In(me, "cleared"))
        /\ \E batch \in op[me].pending :
              IF store[c] = None THEN Answers(me, "error")
              ELSE Then(me, Take(c, batch), [pending |-> op[me].pending \ {batch}])

DeleteBucket(me) ==
    LET at == op[me].call.at
    IN  /\ kind = "S3" /\ In(me, "cleared") /\ op[me].pending = {}
        /\ op[me].call.op = "DeleteDir" /\ at.p = Root
        /\ IF store[at.c] # None /\ Keys(at.c) = {} /\ options.delete
           THEN Returns(me, [store EXCEPT ![at.c] = None], "ok")
           ELSE Answers(me, "error")

DeleteDirMarker(me) ==
    LET at == op[me].call.at
    IN  /\ kind = "S3" /\ In(me, "cleared") /\ op[me].pending = {}
        /\ op[me].call.op = "DeleteDir" /\ at.p # Root
        /\ IF store[at.c] = None THEN Answers(me, "error")
           ELSE EnsureParentExists(me, Take(at.c, {Marker(at.p)}), at.p)

\* DeleteDirContents: the directory may be gone with what implied it.
EnsureDirectoryExists(me) ==
    LET at == op[me].call.at
    IN  /\ kind = "S3" /\ In(me, "cleared") /\ op[me].pending = {}
        /\ op[me].call.op = "DeleteDirContents"
        /\ CreateDirs(me, store, IF at.p = Root THEN <<>> ELSE <<at.p>>)

-----------------------------------------------------------------------------
(* Files.                                                                  *)

S3DeleteFile(me) ==
    LET at == op[me].call.at
    IN  /\ kind = "S3" /\ In(me, "DeleteFile")
        /\ IF at.p = Root \/ File(at.p) \notin Keys(at.c) THEN Answers(me, "error")
           ELSE Goes(me, [pc |-> "remove"])

\* Of DeleteFile and of Move.
DeleteObject(me) ==
    LET at == op[me].call.at
    IN  /\ kind = "S3" /\ In(me, "remove")
        /\ IF store[at.c] = None THEN Answers(me, "error")
           ELSE EnsureParentExists(me, Take(at.c, {File(at.p)}), at.p)

\* CopyFile, and Move: a copy, then the deletion of the source.
CopyObject(me) ==
    LET call == op[me].call
        object == store[call.at.c][File(call.at.p)]
        copied == Put(call.to.c, File(call.to.p), object)
    IN  /\ kind = "S3" /\ (In(me, "CopyFile") \/ In(me, "Move"))
        /\ IF call.at.p = Root \/ call.to.p = Root THEN Answers(me, "error")
           ELSE IF call.at = call.to THEN Answers(me, "ok")
           ELSE IF File(call.at.p) \notin Keys(call.at.c) \/ store[call.to.c] = None
           THEN Answers(me, "error")
           ELSE IF In(me, "Move") THEN Then(me, copied, [pc |-> "remove", found |-> <<object>>])
           ELSE Returns(me, copied, "ok")

\* The whole of an upload: it shows when it completes.
S3Write(me) ==
    LET at == op[me].call.at
    IN  /\ kind = "S3" /\ In(me, "Write")
        /\ IF at.p = Root \/ store[at.c] = None THEN Answers(me, "error")
           ELSE Returns(me, Put(at.c, File(at.p), op[me].n), "ok")

S3Step(me) ==
    \/ CreateBucket(me) \/ S3CreateDirRecursive(me) \/ WalkUp(me)
    \/ S3CreateDirInParent(me) \/ NotThereYet(me) \/ CreateEmptyDir(me)
    \/ S3List(me)
    \/ EnsureIsDir(me) \/ ListFilesForDelete(me) \/ DeleteObjects(me)
    \/ DeleteBucket(me) \/ DeleteDirMarker(me) \/ EnsureDirectoryExists(me)
    \/ S3DeleteFileChecked(me) \/ S3DeleteFile(me) \/ DeleteObject(me)
    \/ CopyObject(me) \/ S3Write(me)

=============================================================================

---------------------------- MODULE UploadStream ----------------------------
(***************************************************************************)
(* The output streams of the object stores: CustomOutputStream on S3-like  *)
(* stores (one PUT, or a multi-part upload that Close completes) and       *)
(* ObjectAppendStream on Azure (blocks that are staged, and a block list   *)
(* that Flush and Close commit).  With background writes a part is sent    *)
(* by an I/O thread while the caller goes on; the caller learns of the     *)
(* outcome only through a future that Flush and Close wait for.            *)
(*                                                                         *)
(* One stream and its single caller (the streams are not thread-safe), the *)
(* tasks on the I/O threads, and the store.  The bytes handed to Write are *)
(* numbered, and a part is the set of its bytes: a stream never reorders   *)
(* bytes inside of a part.  A part number of S3 and a position in the      *)
(* block list of Azure are both a slot.  Every request may fail, and may   *)
(* have had its effect all the same.                                       *)
(***************************************************************************)
EXTENDS Integers, Sequences, FiniteSets

CONSTANTS
    PartSize,     \* part_upload_size_, block_upload_size_
    MaxBytes,     \* bound: bytes handed to Write
    MaxCalls,     \* bound: Flush, Close, CloseAsync and Abort calls
    MaxFailures,  \* bound: failed requests and submissions
    None          \* no object at the path, nothing staged in a slot

ASSUME UploadAssumption ==
    /\ PartSize \in Nat \ {0}
    /\ MaxBytes \in Nat
    /\ MaxCalls \in Nat
    /\ MaxFailures \in Nat
    /\ \A p \in SUBSET (0 .. MaxBytes) : p # None
    /\ \A n \in 0 .. MaxBytes + MaxCalls + 2 : None \notin [1 .. n -> SUBSET (0 .. MaxBytes)]

Bytes == 1 .. MaxBytes
Old == 0               \* the content an appended Azure blob already has
Slots == 1 .. MaxBytes + MaxCalls + 2
Parts == SUBSET (Bytes \cup {Old})

VARIABLES
    mode,       \* the store, and whether background_writes is set
    opened,     \* Init returned OK
    closed,     \* closed_
    call,       \* the call the caller is in: operation and step
    given,      \* the bytes of the last Write
    rest,       \* the bytes of this Write that are still to be placed
    handed,     \* bytes handed to Write so far
    accepted,   \* bytes of the Writes that returned OK
    buffer,     \* current_part_ or current_block_
    pos,        \* pos_
    upload,     \* multipart_upload_id_ is set
    slot,       \* part_number_, or the length of block_ids plus one
    tasks,      \* slots whose background task has not reported yet
    puts,       \* slots whose background PutObject has not reported yet
    sent,       \* what was last sent for every slot
    staged,     \* the parts or uncommitted blocks that the store holds
    completed,  \* completed_parts
    inProgress, \* uploads_in_progress, blocks_in_progress
    status,     \* UploadState::status is OK
    future,     \* the futures made so far; the last one is pending_*_completed
    finishing,  \* futures that a task has still to mark, mutex_ released
    object,     \* what readers see at the path: the parts in order
    outcome,    \* what the last Close, CloseAsync or Abort returned
    flushed,    \* number of slots a successful Flush covers
    failedWrite,\* some Write returned an error
    dropped,    \* some counted upload ended without reporting
    closes,     \* Close and CloseAsync calls
    sealed,     \* accepted when the last of them began
    calls, failures

stream == <<opened, closed, call, given, rest, handed, accepted, buffer, pos>>
parts == <<upload, slot, tasks, puts, sent, staged, completed>>
state == <<inProgress, status, future, finishing>>
history == <<outcome, flushed, failedWrite, dropped, closes, sealed, calls, failures>>
vars == <<mode, stream, parts, state, object, history>>

S3 == mode.store = "S3"
Background == mode.background

TypeOK ==
    /\ mode \in [store : {"S3", "Azure"}, background : BOOLEAN]
    /\ opened \in BOOLEAN /\ closed \in BOOLEAN /\ upload \in BOOLEAN
    /\ call \in [op : {"none", "write", "flush", "close", "closeAsync", "abort"},
                 step : {"none", "fill", "send", "direct", "last", "put", "wait", "commit"}]
    /\ given \in SUBSET Bytes /\ rest \in SUBSET Bytes /\ buffer \in SUBSET Bytes
    /\ handed \in 0 .. MaxBytes /\ pos \in 0 .. MaxBytes
    /\ accepted \in SUBSET Bytes
    /\ slot \in Slots
    /\ tasks \in SUBSET Slots /\ puts \in SUBSET Slots
    /\ sent \in [Slots -> {None} \cup Parts]
    /\ staged \in [Slots -> {None} \cup Parts]
    /\ completed \in SUBSET Slots
    /\ inProgress \in Nat
    /\ status \in BOOLEAN
    /\ future \in Seq({"pending", "ok", "error"}) /\ future # << >>
    /\ finishing \subseteq DOMAIN future
    /\ outcome \in {"none", "ok", "error", "aborted"}
    /\ flushed \in 0 .. MaxBytes + MaxCalls + 2

----------------------------------------------------------------------------
(* Helpers.                                                                *)

Idle == call.op = "none"
At(step) == call.step = step
Goto(step) == call' = [call EXCEPT !.step = step]
Done == call' = [op |-> "none", step |-> "none"]

\* A request or a submission that goes wrong.
Fails == failures < MaxFailures /\ failures' = failures + 1

Last == Len(future)

Smallest(n, b) == {x \in b : Cardinality({y \in b : y <= x}) <= n}

\* Mutant: the first upload after a pause does not make a new future.
Counted_OldFuture ==
    /\ inProgress' = inProgress + 1
    /\ future' = IF inProgress = 0 /\ Last = 1 THEN Append(future, "pending") ELSE future

\* CreateBlock and Upload count an upload; the first one makes a new future.
Counted ==
    /\ inProgress' = inProgress + 1
    /\ future' = IF inProgress = 0 THEN Append(future, "pending") ELSE future

\* The write call returned.
WriteReturns(ok) ==
    /\ Done
    /\ accepted' = IF ok THEN accepted \cup given ELSE accepted
    /\ failedWrite' = (failedWrite \/ ~ok)

----------------------------------------------------------------------------
(* Opening.  S3: Init with allow_delayed_open_ sends nothing.  Azure: a    *)
(* new stream writes an empty blob over whatever is there, an appending    *)
(* one reads the block list of an existing blob.                           *)

Init ==
    /\ mode \in [store : {"S3", "Azure"}, background : BOOLEAN]
    /\ opened = FALSE /\ closed = FALSE
    /\ call = [op |-> "none", step |-> "none"]
    /\ given = {} /\ rest = {} /\ handed = 0 /\ accepted = {} /\ buffer = {} /\ pos = 0
    /\ upload = FALSE /\ slot = 1 /\ tasks = {} /\ puts = {} /\ completed = {}
    /\ sent = [s \in Slots |-> None]
    /\ staged = [s \in Slots |-> None]
    /\ inProgress = 0 /\ status = TRUE
    /\ future = <<"ok">> /\ finishing = {}
    /\ object \in IF mode.store = "S3" THEN {None} ELSE {None, <<{Old}>>}
    /\ outcome = "none" /\ flushed = 0 /\ failedWrite = FALSE /\ dropped = FALSE
    /\ closes = 0 /\ sealed = {} /\ calls = 0 /\ failures = 0

OpenTruncate ==
    /\ ~opened
    /\ opened' = TRUE
    /\ object' = IF S3 THEN object ELSE <<>>
    /\ UNCHANGED <<mode, closed, call, given, rest, handed, accepted, buffer, pos,
                   parts, state, history>>

OpenAppend ==
    /\ ~opened
    /\ ~S3
    /\ opened' = TRUE
    /\ IF object = None
       THEN object' = <<>> /\ UNCHANGED <<slot, sent, staged>>
       ELSE /\ slot' = 2
            /\ sent' = [sent EXCEPT ![1] = object[1]]
            /\ staged' = [staged EXCEPT ![1] = object[1]]
            /\ UNCHANGED object
    /\ UNCHANGED <<mode, closed, call, given, rest, handed, accepted, buffer, pos,
                   upload, tasks, puts, completed, state, history>>

----------------------------------------------------------------------------
(* DoWrite.                                                                *)

\* The call, with n more bytes.
Write(n) ==
    /\ opened /\ ~closed /\ Idle
    /\ handed + n <= MaxBytes
    /\ handed' = handed + n
    /\ given' = handed + 1 .. handed + n
    /\ rest' = given'
    /\ call' = [op |-> "write", step |-> IF buffer # {} THEN "fill" ELSE "direct"]
    /\ UNCHANGED <<mode, opened, closed, accepted, buffer, pos, parts, state, object, history>>

\* Bytes buffered by prior calls: fill the buffer up; it is sent when full.
FillBuffer ==
    /\ At("fill")
    /\ LET copied == Smallest(PartSize - Cardinality(buffer), rest)
       IN  /\ buffer' = buffer \cup copied
           /\ rest' = rest \ copied
           /\ pos' = pos + Cardinality(copied)
    /\ IF Cardinality(buffer') < PartSize
       THEN WriteReturns(TRUE)
       ELSE Goto("send") /\ UNCHANGED <<accepted, failedWrite>>
    /\ UNCHANGED <<mode, opened, closed, given, handed, parts, state, object,
                   outcome, flushed, dropped, closes, sealed, calls, failures>>

\* What is left when no whole part is: it stays in the buffer.
KeepRest ==
    /\ At("direct")
    /\ Cardinality(rest) < PartSize
    /\ buffer' = IF rest = {} THEN buffer ELSE rest
    /\ pos' = pos + Cardinality(rest)
    /\ rest' = {}
    /\ WriteReturns(TRUE)
    /\ UNCHANGED <<mode, opened, closed, given, handed, parts, state, object,
                   outcome, flushed, dropped, closes, sealed, calls, failures>>

----------------------------------------------------------------------------
(* Sending a part: the full buffer, whole parts straight from the caller,  *)
(* or the last part of Close.                                              *)

\* Azure sends all that is left in one block, S3 one part.
DirectPart == IF S3 THEN Smallest(PartSize, rest) ELSE rest

Sending ==
    \/ At("send")
    \/ At("direct") /\ Cardinality(rest) >= PartSize
    \/ At("last")

NextPart == IF At("direct") THEN DirectPart ELSE buffer

\* The call fails; Close and CloseAsync of S3 give the stream up
\* (CleanupIfFailed), those of Azure leave it open.
CallFails ==
    IF call.op = "write"
    THEN WriteReturns(FALSE) /\ UNCHANGED <<closed, outcome>>
    ELSE /\ Done
         /\ outcome' = "error"
         /\ closed' = S3
         /\ UNCHANGED <<accepted, failedWrite>>

\* After a part: the loop of DoWrite goes on, or Close waits for the uploads.
\* The bytes of a part sent from the caller's memory count in pos_ only now.
PartIsOut ==
    /\ IF At("direct")
       THEN rest' = rest \ DirectPart /\ pos' = pos + Cardinality(DirectPart) /\ UNCHANGED buffer
       ELSE buffer' = {} /\ UNCHANGED <<rest, pos>>
    /\ call' = [call EXCEPT !.step = IF call.op = "write" THEN "direct" ELSE "wait"]
    /\ UNCHANGED <<accepted, failedWrite, closed, outcome>>

\* CreateMultipartUpload, before the first part of an S3 upload.
CreateMultipartUpload ==
    /\ S3 /\ ~upload /\ Sending
    /\ \/ upload' = TRUE /\ UNCHANGED <<stream, failures, failedWrite, outcome>>
       \/ /\ Fails
          /\ rest' = {}
          /\ CallFails
          /\ UNCHANGED <<upload, opened, given, handed, buffer, pos>>
    /\ UNCHANGED <<mode, slot, tasks, puts, sent, staged, completed, state, object,
                   flushed, dropped, closes, sealed, calls>>

\* UploadPart or StageBlock in the caller's thread.  The buffer is given up
\* (FinishCurrentPart) whether or not the request succeeds.  A block id is
\* listed before the request, a part number is used up after it.
SendPart ==
    /\ ~Background /\ Sending /\ (S3 => upload)
    /\ sent' = [sent EXCEPT ![slot] = NextPart]
    /\ \/ /\ staged' = [staged EXCEPT ![slot] = NextPart]
          /\ slot' = slot + 1
          /\ completed' = IF S3 THEN completed \cup {slot} ELSE completed
          /\ PartIsOut
          /\ UNCHANGED failures
       \/ /\ Fails
          /\ staged' \in {staged, [staged EXCEPT ![slot] = NextPart]}
          /\ slot' = IF S3 THEN slot ELSE slot + 1
          /\ buffer' = IF At("direct") THEN buffer ELSE {}
          /\ rest' = {}
          /\ CallFails
          /\ UNCHANGED <<completed, pos>>
    /\ UNCHANGED <<mode, opened, given, handed, upload, tasks, puts, state, object, flushed, dropped, closes, sealed, calls>>

\* Upload: the part number is used up once the part is submitted.
NextNumber == slot + 1

\* The same with background writes: the part is counted and handed to an I/O
\* thread.  When SubmitIO refuses it, it stays counted.
SubmitPart ==
    /\ Background /\ Sending /\ (S3 => upload)
    /\ Counted
    /\ sent' = [sent EXCEPT ![slot] = NextPart]
    /\ \/ /\ tasks' = tasks \cup {slot}
          /\ slot' = NextNumber
          /\ PartIsOut
          /\ UNCHANGED <<failures, dropped>>
       \/ /\ Fails
          /\ dropped' = TRUE
          /\ slot' = IF S3 THEN slot ELSE slot + 1
          /\ buffer' = IF At("direct") THEN buffer ELSE {}
          /\ rest' = {}
          /\ CallFails
          /\ UNCHANGED <<tasks, pos>>
    /\ UNCHANGED <<mode, opened, given, handed, upload, puts, staged, completed, status, finishing,
                   object, flushed, closes, sealed, calls>>

----------------------------------------------------------------------------
(* The background task of a part.                                          *)

\* UploadState::status keeps the first error.
StatusAfter(ok) == status /\ ok

\* The task that counts uploads_in_progress down to zero finishes the future.
CountedDown == inProgress - 1
\* Mutant: the future is finished only when all went well.
LastReport_OnSuccess == inProgress' = 0 /\ status'

LastReport == inProgress' = 0

\* The request, and what the completion handler does under the mutex.
TaskReports(s) ==
    /\ s \in tasks
    /\ tasks' = tasks \ {s}
    /\ \/ /\ staged' = [staged EXCEPT ![s] = sent[s]]
          /\ completed' = IF S3 THEN completed \cup {s} ELSE completed
          /\ status' = StatusAfter(TRUE)
          /\ UNCHANGED failures
       \/ /\ Fails
          /\ status' = StatusAfter(FALSE)
          /\ staged' \in {staged, [staged EXCEPT ![s] = sent[s]]}
          /\ UNCHANGED completed
    /\ inProgress' = CountedDown
    /\ finishing' = IF LastReport THEN finishing \cup {Last} ELSE finishing
    /\ UNCHANGED <<mode, stream, upload, slot, puts, sent, future, object,
                   outcome, flushed, failedWrite, dropped, closes, sealed, calls>>

\* The S3 client was finalized: TriggerUploadRequest returns before the
\* handler is called.
TaskDropped(s) ==
    /\ S3
    /\ s \in tasks \cup puts
    /\ Fails
    /\ tasks' = tasks \ {s}
    /\ puts' = puts \ {s}
    /\ dropped' = TRUE
    /\ UNCHANGED <<mode, stream, upload, slot, sent, staged, completed, state, object,
                   outcome, flushed, failedWrite, closes, sealed, calls>>

\* With the mutex released, the future gets the status of that moment.
MarkFinished(f) ==
    /\ f \in finishing
    /\ finishing' = finishing \ {f}
    /\ future' = [future EXCEPT ![f] = IF status THEN "ok" ELSE "error"]
    /\ UNCHANGED <<mode, stream, parts, inProgress, status, object, history>>

----------------------------------------------------------------------------
(* Flush, Close, CloseAsync and Abort.                                     *)

Calls(op, step) ==
    /\ opened /\ ~closed /\ Idle
    /\ calls < MaxCalls
    /\ calls' = calls + 1
    /\ call' = [op |-> op, step |-> step]
    /\ UNCHANGED <<mode, opened, closed, given, rest, handed, accepted, buffer, pos, parts, state,
                   object, outcome, flushed, failedWrite, dropped, failures>>

Flush == Calls("flush", "wait") /\ UNCHANGED <<closes, sealed>>
\* ShouldBeMultipartUpload
ShouldBeMultipartUpload == pos > PartSize - 1

\* EnsureReadyToFlushFromClose: S3 sends the last part, or an empty one when
\* there is none yet, or everything with one PUT; Azure sends its last block.
Close(op) ==
    /\ Calls(op, IF S3 /\ ~ShouldBeMultipartUpload THEN "put"
                 ELSE IF buffer # {} \/ (S3 /\ slot = 1) THEN "last" ELSE "wait")
    /\ closes' = closes + 1
    /\ sealed' = accepted

\* UploadUsingSingleRequest: the whole object with one PutObject, ...
PutObject ==
    /\ ~Background /\ At("put")
    /\ buffer' = {}
    /\ \/ /\ object' = <<buffer>>
          /\ slot' = slot + 1
          /\ Goto("wait")
          /\ UNCHANGED <<failures, closed, outcome>>
       \/ /\ Fails
          /\ object' \in {object, <<buffer>>}
          /\ Done /\ closed' = TRUE /\ outcome' = "error"
          /\ UNCHANGED slot
    /\ UNCHANGED <<mode, opened, given, rest, handed, accepted, pos, upload, tasks, puts, sent, staged,
                   completed, state, flushed, failedWrite, dropped, closes, sealed, calls>>

\* ... or by an I/O thread,
SubmitPut ==
    /\ Background /\ At("put")
    /\ Counted
    /\ sent' = [sent EXCEPT ![slot] = buffer]
    /\ buffer' = {}
    /\ \/ puts' = puts \cup {slot} /\ slot' = slot + 1 /\ Goto("wait")
          /\ UNCHANGED <<failures, dropped, closed, outcome>>
       \/ /\ Fails
          /\ dropped' = TRUE
          /\ Done /\ closed' = TRUE /\ outcome' = "error"
          /\ UNCHANGED <<puts, slot>>
    /\ UNCHANGED <<mode, opened, given, rest, handed, accepted, pos, upload, tasks, staged,
                   completed, status, finishing, object, flushed, failedWrite, closes, sealed, calls>>

\* whose handler does not count down but always marks the future.
PutReports(s) ==
    /\ s \in puts
    /\ puts' = puts \ {s}
    /\ \/ object' = <<sent[s]>> /\ UNCHANGED <<status, failures>>
       \/ Fails /\ status' = StatusAfter(FALSE) /\ object' \in {object, <<sent[s]>>}
    /\ finishing' = finishing \cup {Last}
    /\ UNCHANGED <<mode, stream, upload, slot, tasks, sent, staged, completed, inProgress,
                   future, outcome, flushed, failedWrite, dropped, closes, sealed, calls>>

\* The call returns at its end.  A failed Close of S3 gives the stream up, a
\* failed CloseAsync that had to wait and a failed Close of Azure do not.
Returns(ok, gaveUp) ==
    /\ Done
    /\ outcome' = IF call.op = "flush" THEN outcome ELSE IF ok THEN "ok" ELSE "error"
    /\ closed' = (call.op # "flush" /\ (ok \/ gaveUp))
    /\ flushed' = IF ok /\ call.op = "flush" THEN slot - 1 ELSE flushed
\* Mutant: the uploads in the background are not waited for.
UploadsFinished_NotAwaited == TRUE

\* The future that Flush and Close wait for is finished.
UploadsFinished == future[Last] # "pending"

Waited ==
    /\ At("wait")
    /\ UploadsFinished
    /\ IF future[Last] # "error" /\ (~S3 \/ (call.op # "flush" /\ upload))
       THEN Goto("commit") /\ UNCHANGED <<outcome, closed, flushed>>
       ELSE Returns(future[Last] # "error", S3 /\ call.op = "close")
    /\ UNCHANGED <<mode, opened, given, rest, handed, accepted, buffer, pos, parts, state, object,
                   failedWrite, dropped, closes, sealed, calls, failures>>

\* The store refuses to complete an upload without parts or with a part it
\* does not have, and to commit a block list with such a block.
Committable ==
    IF S3 THEN completed # {} /\ \A s \in Slots : s \in completed => \A t \in 1 .. s : t \in completed
          ELSE \A s \in 1 .. slot - 1 : staged[s] # None

Content ==
    IF S3 THEN [s \in 1 .. Cardinality(completed) |-> staged[s]]
          ELSE [s \in 1 .. slot - 1 |-> staged[s]]

\* FinishPartUploadAfterFlush (CompleteMultipartUpload), CommitBlockList
Commit ==
    /\ At("commit")
    /\ \/ /\ Committable
          /\ object' = Content
          /\ Returns(TRUE, TRUE)
          /\ UNCHANGED failures
       \/ /\ Committable /\ Fails
          /\ object' \in {object, Content}
          /\ Returns(FALSE, S3)
       \/ /\ ~Committable
          /\ Returns(FALSE, S3)
          /\ UNCHANGED <<object, failures>>
    /\ UNCHANGED <<mode, opened, given, rest, handed, accepted, buffer, pos, parts, state,
                   failedWrite, dropped, closes, sealed, calls>>

\* CompleteMultipartUploadWithErrorFixup: an error inside of a 200 answer is
\* taken for an error, and the request is sent again if that may help.
CompleteAgain ==
    /\ At("commit") /\ S3 /\ Committable
    /\ Fails
    /\ object' \in {object, Content}
    /\ UNCHANGED <<mode, stream, parts, state, outcome, flushed, failedWrite, dropped, closes,
                   sealed, calls>>

\* Abort: S3 discards the parts, Azure just lets go of the blob.
Abort ==
    /\ opened /\ ~closed /\ Idle
    /\ calls < MaxCalls
    /\ calls' = calls + 1
    /\ \/ /\ closed' = TRUE
          /\ outcome' = "aborted"
          /\ buffer' = {}
          /\ staged' = IF S3 /\ upload THEN [s \in Slots |-> None] ELSE staged
          /\ UNCHANGED failures
       \/ S3 /\ upload /\ Fails /\ UNCHANGED <<closed, outcome, buffer, staged>>
    /\ UNCHANGED <<mode, opened, call, given, rest, handed, accepted, pos, upload, slot, tasks, puts,
                   sent, completed, state, object, flushed, failedWrite, dropped, closes, sealed>>

----------------------------------------------------------------------------

\* The steps of the calls in progress and of the I/O threads.
Steps ==
    \/ FillBuffer \/ KeepRest
    \/ CreateMultipartUpload \/ SendPart \/ SubmitPart
    \/ PutObject \/ SubmitPut \/ Waited \/ Commit \/ CompleteAgain

Threads ==
    \/ \E s \in Slots : TaskReports(s) \/ PutReports(s)
    \/ \E f \in DOMAIN future : MarkFinished(f)

Next ==
    \/ OpenTruncate \/ OpenAppend
    \/ \E n \in 1 .. PartSize + 1 : Write(n)
    \/ Flush \/ Close("close") \/ Close("closeAsync") \/ Abort
    \/ Steps \/ Threads
    \/ \E s \in Slots : TaskDropped(s)

Spec == Init /\ [][Next]_vars

\* The caller's thread runs on while it is in a call, and the I/O threads
\* carry out what was submitted.
FairSpec == Spec /\ WF_vars(Steps) /\ WF_vars(Threads)

----------------------------------------------------------------------------
(* Properties.                                                             *)

Visible == UNION {object[i] : i \in DOMAIN object}

\* A Close that returned OK has made everything visible: all bytes of the
\* Writes that returned OK, once and in order, after what was there before an
\* append - whatever failed on the way, and whatever the order in which the
\* background parts ended.  Without background writes S3 promises it only to
\* a caller that stops at the first failed Write: a part number whose upload
\* failed is used again for the next data.
ClosedIsComplete ==
    outcome = "ok" /\ (S3 /\ ~Background => ~failedWrite) =>
        /\ object # None
        /\ accepted \subseteq Visible
        /\ \A i, j \in DOMAIN object : i < j =>
              \A x \in object[i], y \in object[j] : x < y

\* Readers of an S3 object never see a part of it, also when a Close failed or
\* its answer was lost.  (A CloseAsync that failed leaves the stream open with
\* an empty buffer, and closing it again puts that.)
NeverPartial ==
    S3 /\ object # None /\ ~failedWrite /\ closes <= 1 => sealed \subseteq Visible

\* A Flush that returned OK: the store holds every part sent before it, as it
\* was sent, and on Azure readers see them.
FlushCovers ==
    outcome # "aborted" /\ (S3 /\ ~Background => ~failedWrite) =>
        \A s \in 1 .. flushed :
            /\ staged[s] # None
            /\ staged[s] = sent[s]
            /\ ~S3 => s \in DOMAIN object /\ object[s] = sent[s]

\* The assertions of FinishPartUploadAfterFlush and AddCompletedPart: when the
\* upload is completed no part is under way and completed_parts is full, and
\* no slot of it is filled twice.
UploadAssertions ==
    S3 /\ ~failedWrite =>
        /\ At("commit") => /\ tasks = {}
                           /\ slot > 1
                           /\ completed = 1 .. slot - 1
        /\ tasks \cap completed = {}

\* Every call returns, unless an upload was counted whose task never reports
\* (SubmitIO refused it, or the client was finalized): then Flush and Close
\* wait for ever.
CallReturns == (~Idle) ~> (Idle \/ dropped)

\* The types, a complete object after a successful Close, no partial object,
\* what a successful Flush promises, and the assertions of the code when the
\* upload is completed.
StreamConsistent ==
    TypeOK /\ ClosedIsComplete /\ NeverPartial /\ FlushCovers /\ UploadAssertions

=============================================================================

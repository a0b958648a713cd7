----------------------------- MODULE AsyncReads -----------------------------
(***************************************************************************)
(* Asynchronous reads of S3 objects, and the clients they are sent with.   *)
(*                                                                         *)
(* The client of a file system is owned by a holder; the file system and   *)
(* the files opened with it share the holder, and the cache of file        *)
(* systems shares the file system.  A read copies the client out of the    *)
(* holder and locks the finalizer in shared mode until its request is      *)
(* over.  At exit AwsInstance::Finalize locks the finalizer exclusively,   *)
(* takes the clients out of all holders and shuts the SDK down, while      *)
(* other threads go on reading.                                            *)
(*                                                                         *)
(* S3Client and S3CrtClient have holders and finalizers of the same code,  *)
(* and the model has one: that of the asynchronous reads.  The content of  *)
(* the objects is left out.                                                *)
(***************************************************************************)
EXTENDS Naturals, FiniteSets

CONSTANTS
    Reads,      \* bound: asynchronous reads, numbered in the order they start
    Clients,    \* bound: file systems alive, each with its holder and client
    NoClient

ASSUME ClientsAssumption ==
    Reads \subseteq Nat /\ IsFiniteSet(Reads) /\ NoClient \notin Clients

FileIds == 1 .. Cardinality(Reads) + 1
NoFile == 0

VARIABLES
    reads,       \* the reads
    sdk,         \* the AWS SDK: "none", "ready", "finalizing", "shut"
    finalized,   \* finalized_ of the finalizer
    holders,     \* holders_ of the finalizer
    finalizing,  \* the holders that Finalize has still to empty
    filled,      \* holders whose client_ is set
    cached,      \* the file system in the cache
    fs,          \* the file system of the program's handle
    file,        \* the file of the program's handle
    holderOf     \* holder_ of the files that are alive

client == <<finalized, holders, finalizing, filled>>
owners == <<cached, fs, file, holderOf>>
readVars == <<reads, sdk, client, owners>>

\* `call': where the caller is; `io': the future; `refs': who has the context
\* of the request, and with it the lock, the client and the file; `keeps': the
\* callback's copy of the file; `calls': how often the callback ran.
NoRead ==
    [call |-> "idle", io |-> "none", file |-> NoFile, client |-> NoClient,
     refs |-> {}, keeps |-> FALSE, calls |-> 0]

ReadsInit ==
    /\ reads = [r \in Reads |-> NoRead]
    /\ sdk = "none" /\ finalized = FALSE
    /\ holders = {} /\ finalizing = {} /\ filled = {}
    /\ cached = NoClient /\ fs = NoClient /\ file = NoFile
    /\ holderOf = [f \in FileIds |-> NoClient]

----------------------------------------------------------------------------
(* Lifetimes: shared pointers.                                             *)

Uses(read, f) ==
    read.file = f /\ (read.call \in {"locking", "issued"} \/ read.keeps \/ read.refs # {})

FileAlive(f) == f = file \/ \E r \in Reads : Uses(reads[r], f)

HolderAlive(c) == c \in {cached, fs} \/ \E f \in FileIds : holderOf[f] = c

ClientAlive(c) ==
    \/ c \in filled /\ HolderAlive(c)
    \/ \E r \in Reads : reads[r].client = c

Unused == { c \in Clients : ~HolderAlive(c) /\ ~ClientAlive(c) }

----------------------------------------------------------------------------
(* Making and giving up file systems and files.                            *)

\* S3ClientFinalizer::AddClient: expired holders are removed.
AddClient(c) ==
    /\ ~finalized
    /\ holders' = { h \in holders : HolderAlive(h) } \cup {c}
    /\ filled' = { h \in filled : HolderAlive(h) } \cup {c}
    /\ UNCHANGED <<finalized, finalizing>>

\* InitS3: the first file system of the process initializes the SDK, and
\* registers its finalization at exit.
InitS3 == sdk' = IF sdk = "none" THEN "ready" ELSE sdk

CheckS3Initialized(status) == status = "ready"

\* A new file system with its client; refused once the SDK is being finalized.
MakeFilesystem ==
    /\ InitS3 /\ CheckS3Initialized(sdk')
    /\ Unused # {}
    /\ fs' = CHOOSE c \in Unused : TRUE
    /\ AddClient(fs')
    /\ UNCHANGED <<file, holderOf>>

\* FilesystemCache::get: cached, or made and put into the cache.
GetFilesystem ==
    \/ /\ cached # NoClient
       /\ fs' = cached
       /\ UNCHANGED <<sdk, client, cached, file, holderOf>>
    \/ /\ cached = NoClient
       /\ MakeFilesystem
       /\ cached' = fs'

\* It fails before the SDK is initialized or after.
GetFilesystemFails ==
    /\ sdk' = sdk \/ (cached = NoClient /\ InitS3)
    /\ UNCHANGED <<client, owners>>

\* The handle is deleted; the cache and the files keep the file system.
DestroyFilesystem == fs' = NoClient /\ UNCHANGED <<sdk, client, cached, file, holderOf>>

\* FilesystemCache::clean
CleanCache == cached' = NoClient /\ UNCHANGED <<sdk, client, fs, file, holderOf>>

\* The program has no other file handle.
OpenInputFile ==
    /\ file = NoFile
    /\ CheckS3Initialized(sdk)
    /\ file' = CHOOSE f \in FileIds : ~FileAlive(f)
    /\ holderOf' = [holderOf EXCEPT ![file'] = fs]
    /\ UNCHANGED <<sdk, client, cached, fs>>

\* ObjectCrtInputFile::Close: reads in flight do not need the holder.
CloseFile ==
    /\ holderOf' = [holderOf EXCEPT ![file] = NoClient]
    /\ UNCHANGED <<sdk, client, cached, fs, file>>

DestroyFile ==
    /\ file' = NoFile
    /\ holderOf' = [f \in FileIds |->
                      IF \E r \in Reads : Uses(reads[r], f) THEN holderOf[f] ELSE NoClient]
    /\ UNCHANGED <<sdk, client, cached, fs>>

----------------------------------------------------------------------------
(* A read.                                                                 *)

\* A step of a read; without its last user a file gives its holder up.
Change(r, read) ==
    /\ reads' = [reads EXCEPT ![r] =
                   IF Uses(read, read.file) THEN read ELSE [read EXCEPT !.file = NoFile]]
    /\ holderOf' = [f \in FileIds |->
                      IF f = file \/ \E q \in Reads : Uses(reads'[q], f)
                      THEN holderOf[f] ELSE NoClient]
    /\ UNCHANGED <<sdk, client, cached, fs, file>>

Starts(r) == reads[r] = NoRead /\ \A q \in Reads : q < r => reads[q] # NoRead

\* ReadAtAsyncInto without a request: the file is closed, the range is wrong
\* or empty.  The future is finished.
ReadNothing(r) ==
    /\ file # NoFile /\ Starts(r)
    /\ Change(r, [NoRead EXCEPT !.call = "issued", !.io = "finished", !.file = file])

\* S3ClientHolder::Lock copies the client, then releases the holder's mutex.
CopyClient(r) ==
    /\ file # NoFile /\ holderOf[file] # NoClient /\ Starts(r)
    /\ Change(r, [NoRead EXCEPT !.call = "locking", !.file = file,
                    !.client = IF holderOf[file] \in filled THEN holderOf[file] ELSE NoClient])

\* The request is sent, with a context that has the lock, the client and the
\* file.
GetObjectAsync(read) ==
    [read EXCEPT !.call = "issued", !.io = "pending", !.refs = {"caller", "handler"}]

\* Mutant: finalized_ is not read again under the lock.
LockShared_Unchecked(r) ==
    /\ reads[r].call = "locking"
    /\ Change(r, GetObjectAsync(reads[r]))

\* Then it locks the finalizer, and looks whether that is finalized.
LockShared(r) ==
    /\ reads[r].call = "locking"
    /\ Change(r, IF finalized
                 THEN [reads[r] EXCEPT !.call = "issued", !.io = "finished", !.client = NoClient]
                 ELSE GetObjectAsync(reads[r]))

\* The handler of the request marks the future, with the bytes or an error.
ReadEnds(r) ==
    /\ reads[r].io = "pending"
    /\ Change(r, [reads[r] EXCEPT !.io = "finished"])

\* The last one to give the context up releases client and lock.
WithoutRef(read, who) ==
    LET rest == read.refs \ {who}
    IN  [read EXCEPT !.refs = rest, !.client = IF rest = {} THEN NoClient ELSE @]

CallBack(read) == [read EXCEPT !.calls = @ + 1, !.keeps = FALSE]

\* ReadAtAsyncInto has returned.  Attached to a future that is finished, the
\* callback runs at once.
AddCallback(r) ==
    /\ reads[r].call = "issued"
    /\ LET attached == [WithoutRef(reads[r], "caller") EXCEPT !.call = "returned", !.keeps = TRUE]
       IN  Change(r, IF attached.io = "finished" THEN CallBack(attached) ELSE attached)

\* Mutant: the callback is skipped once the handle is destroyed.
RunCallback_WhileOpen(r) ==
    /\ file = reads[r].file
    /\ reads[r].call = "returned" /\ reads[r].io = "finished" /\ reads[r].calls = 0
    /\ Change(r, CallBack(reads[r]))

\* Attached before, it runs inside of the handler.
RunCallback(r) ==
    /\ reads[r].call = "returned" /\ reads[r].io = "finished" /\ reads[r].calls = 0
    /\ Change(r, CallBack(reads[r]))

\* The handler returns, and the SDK destroys it.
HandlerReturns(r) ==
    /\ "handler" \in reads[r].refs /\ reads[r].io = "finished"
    /\ reads[r].call = "returned" => reads[r].calls = 1
    /\ Change(r, WithoutRef(reads[r], "handler"))

----------------------------------------------------------------------------
(* Exit: the handler of atexit calls FinalizeS3.                           *)

FinalizeS3 ==
    /\ sdk = "ready"
    /\ sdk' = "finalizing"
    /\ UNCHANGED <<reads, client, owners>>

\* S3ClientFinalizer::Finalize waits for the reads that have the lock.
FinalizeClients ==
    /\ sdk = "finalizing" /\ ~finalized
    /\ \A r \in Reads : reads[r].refs = {}
    /\ finalized' = TRUE
    /\ finalizing' = holders /\ holders' = {}
    /\ UNCHANGED <<reads, sdk, filled, owners>>

\* S3ClientHolder::Finalize, unless the holder is gone.
FinalizeHolder(c) ==
    /\ c \in finalizing
    /\ finalizing' = finalizing \ {c}
    /\ filled' = filled \ {c}
    /\ UNCHANGED <<reads, sdk, finalized, holders, owners>>

ShutdownAPI ==
    /\ sdk = "finalizing" /\ finalized /\ finalizing = {}
    /\ sdk' = "shut"
    /\ UNCHANGED <<reads, client, owners>>

----------------------------------------------------------------------------

ReadGoesOn(r) ==
    LockShared(r) \/ ReadEnds(r) \/ AddCallback(r) \/ RunCallback(r) \/ HandlerReturns(r)

ReadStep(r) == ReadNothing(r) \/ CopyClient(r) \/ ReadGoesOn(r)

ExitGoesOn == FinalizeClients \/ (\E c \in Clients : FinalizeHolder(c)) \/ ShutdownAPI

ExitStep == FinalizeS3 \/ ExitGoesOn
=============================================================================

---------------------------- MODULE Transaction ----------------------------
(***************************************************************************)
(* The commit protocol of milvus-storage transactions.                     *)
(*                                                                         *)
(* A table is a directory of manifest files manifest-<v>.avro, v = 1, 2,   *)
(* ...; version v+1 supersedes version v.  There is no server and no lock: *)
(* a Transaction reads one version (Open), records updates, and publishes  *)
(* a new version (Commit) by listing the directory, letting its resolver   *)
(* rebuild the manifest, and writing version latest+1 with a write that is *)
(* meant to fail if that file exists.  Processes also keep a cache of      *)
(* manifests that is never invalidated, because "manifest files are        *)
(* immutable once written".                                                *)
(*                                                                         *)
(* The content of a manifest is abstracted to the sequence of transactions *)
(* whose updates it contains, in the order applyUpdates applied them; what *)
(* applyUpdates does to the fields of a manifest is module ManifestUpdates. *)
(***************************************************************************)
EXTENDS Integers, Sequences

CONSTANTS
    Txns,        \* Transaction objects
    Procs,       \* processes; each has its own manifest cache and may crash
    ProcOf,      \* the process a transaction runs in
    Resolver,    \* "Fail", "Overwrite", or "Rebase" (see RequireLatest)
    RetryLimit,  \* Transaction::retry_limit_
    StoreKinds,  \* how the store may carry out Manifest::WriteTo (see Stores)
    MaxVersion,  \* BOUND: versions the directory can hold
    MaxCommits,  \* BOUND: calls of Commit() on one Transaction object
    Absent,      \* no such file / no such cache entry
    Empty        \* the file exists and has no content yet

(***************************************************************************)
(* The three ways a manifest reaches the store:                            *)
(*  PutIfAbsent    AWS, GCP, Tencent, Aliyun: the stream buffers, Close    *)
(*                 sends one PUT with an if-absent header.                 *)
(*  CreateThenFill Azure; local files, for the threads of one process:     *)
(*                 opening the stream creates an empty file if there was   *)
(*                 none, Close gives it its content.                       *)
(*  CheckThenPut   every other store (OpenConditionalOutputStream returns  *)
(*                 NotImplemented), and local files across processes: look *)
(*                 whether the file exists, then write unconditionally.    *)
(***************************************************************************)
Stores == {"PutIfAbsent", "CreateThenFill", "CheckThenPut"}

Versions  == 1..MaxVersion
Manifests == Seq(Txns)

ASSUME ConstAssumption ==
    /\ RetryLimit \in Nat
    /\ MaxVersion \in Nat
    /\ MaxCommits \in Nat
    /\ ProcOf \in [Txns -> Procs]
    /\ Resolver \in [Txns -> {"Fail", "Overwrite", "Rebase"}]
    /\ StoreKinds \subseteq Stores
    /\ Absent \notin Manifests
    /\ Empty \notin Manifests
    /\ Absent # Empty

\* "Absent" also stands for the version of a transaction that is not open.
ASSUME AbsentAssumption == Absent \notin Nat

VARIABLES
    kind,           \* which kind of store the table is in, fixed
    store,          \* the table's manifest directory
    cache,          \* Manifest::getCache() of every process
    pc,             \* where each transaction is
    readVersion,    \* read_version_
    readManifest,   \* read_manifest_
    hasChanges,     \* updates_.hasChanges()
    latestVersion,  \* latest_version of the current iteration of Commit's loop
    resolved,       \* resolved_manifest of that iteration
    retryCount,     \* retry_count
    commits,        \* calls of Commit() so far
    outcome,        \* what the last call of Commit() returned
    committed       \* every version Commit() has returned to the caller

opened == <<readVersion, readManifest, hasChanges>>
loop   == <<latestVersion, resolved, retryCount>>
vars   == <<kind, store, cache, pc, opened, loop, commits, outcome, committed>>

Locations ==
    {"idle", "loading", "open", "reload", "loadLatest", "write", "fill", "put",
     "dead"}
InCommit == {"reload", "loadLatest", "write", "fill", "put"}
Live     == InCommit \cup {"open"}
Outcomes ==
    {"none", "running", "committed", "Invalid", "TxnResolutionFailed",
     "TxnExhaustedRetry", "IOError"}

TypeOK ==
    /\ kind \in Stores
    /\ store \in [Versions -> Manifests \cup {Absent, Empty}]
    /\ cache \in [Procs -> [Versions -> Manifests \cup {Absent}]]
    /\ pc \in [Txns -> Locations]
    /\ readVersion \in [Txns -> 0..MaxVersion]
    /\ readManifest \in [Txns -> Manifests]
    /\ hasChanges \in [Txns -> BOOLEAN]
    /\ latestVersion \in [Txns -> 0..MaxVersion]
    /\ resolved \in [Txns -> Manifests]
    /\ retryCount \in [Txns -> Nat]
    /\ commits \in [Txns -> 0..MaxCommits]
    /\ outcome \in [Txns -> Outcomes]
    /\ committed \in [Txns -> SUBSET Versions]

Init ==
    /\ kind \in StoreKinds
    /\ store = [v \in Versions |-> Absent]
    /\ cache = [p \in Procs |-> [v \in Versions |-> Absent]]
    /\ pc = [t \in Txns |-> "idle"]
    /\ readVersion = [t \in Txns |-> 0]
    /\ readManifest = [t \in Txns |-> << >>]
    /\ hasChanges = [t \in Txns |-> FALSE]
    /\ latestVersion = [t \in Txns |-> 0]
    /\ resolved = [t \in Txns |-> << >>]
    /\ retryCount = [t \in Txns |-> 0]
    /\ commits = [t \in Txns |-> 0]
    /\ outcome = [t \in Txns |-> "none"]
    /\ committed = [t \in Txns |-> {}]

----------------------------------------------------------------------------
(* Reading the directory and the manifests.                                *)

\* n is what get_latest_version returns: the greatest version that has a
\* file, whatever is in the file; 0 when there is none.
IsLatest(n) ==
    /\ n # 0 => store[n] # Absent
    /\ \A v \in Versions : v > n => store[v] = Absent

\* read_manifest(v) of a transaction in process p can succeed: version 0 is
\* the empty manifest, a cached manifest needs no file, and a file must be
\* there and deserialize (an empty file does not).
Loadable(p, v) ==
    v # 0 /\ cache[p][v] = Absent => store[v] \notin {Absent, Empty}

\* The manifest it returns.
Loaded(p, v) ==
    IF v = 0 THEN << >>
    ELSE IF cache[p][v] # Absent THEN cache[p][v] ELSE store[v]

\* Mutant: the cache key does not contain the version.
CacheAfterLoad_KeyWithoutVersion(p, v) ==
    IF v = 0 THEN cache ELSE [cache EXCEPT ![p] = [w \in Versions |-> Loaded(p, v)]]

\* Manifest::ReadFrom leaves the manifest in the cache of its process.
CacheAfterLoad(p, v) ==
    IF v = 0 THEN cache ELSE [cache EXCEPT ![p][v] = Loaded(p, v)]

\* applyUpdates(base, updates) of transaction t, when it accepts the updates.
ApplyUpdates(base, t) == Append(base, t)

\* Resolver::requireLatest().  Both built-in resolvers answer false; "Rebase"
\* stands for a caller-supplied resolver that answers true and applies the
\* updates to the latest manifest.
RequireLatest(t) == Resolver[t] = "Rebase"

----------------------------------------------------------------------------
(* Transaction::Open.                                                      *)

\* Open(LATEST): list the directory for the version to read ...
OpenLatest(t) ==
    /\ pc[t] = "idle"
    /\ \E n \in 0..MaxVersion :
         /\ IsLatest(n)
         /\ readVersion' = [readVersion EXCEPT ![t] = n]
    /\ pc' = [pc EXCEPT ![t] = "loading"]
    /\ UNCHANGED <<kind, store, cache, readManifest, hasChanges, loop, commits,
                   outcome, committed>>

\* ... or take the version the caller names, existing or not.
OpenAt(t, v) ==
    /\ pc[t] = "idle"
    /\ readVersion' = [readVersion EXCEPT ![t] = v]
    /\ pc' = [pc EXCEPT ![t] = "loading"]
    /\ UNCHANGED <<kind, store, cache, readManifest, hasChanges, loop, commits,
                   outcome, committed>>

\* Load that version, and start with no updates.
OpenLoad(t) ==
    /\ pc[t] = "loading"
    /\ Loadable(ProcOf[t], readVersion[t])
    /\ readManifest' =
         [readManifest EXCEPT ![t] = Loaded(ProcOf[t], readVersion[t])]
    /\ cache' = CacheAfterLoad(ProcOf[t], readVersion[t])
    /\ hasChanges' = [hasChanges EXCEPT ![t] = FALSE]
    /\ pc' = [pc EXCEPT ![t] = "open"]
    /\ UNCHANGED <<kind, store, readVersion, loop, commits, outcome, committed>>

\* The manifest file is missing, empty, or cannot be read: Open returns the
\* error and there is no Transaction; the caller may call Open again.
OpenFail(t) ==
    /\ pc[t] = "loading"
    /\ readVersion[t] # 0
    /\ cache[ProcOf[t]][readVersion[t]] = Absent
    /\ pc' = [pc EXCEPT ![t] = "idle"]
    /\ UNCHANGED <<kind, store, cache, opened, loop, commits, outcome, committed>>

\* DropColumn, AddColumnGroup, AppendFiles, AddDeltaLog, UpdateStat,
\* AddIndexInfo, DropIndex, AddLobFile: record an update, touch no file.
RecordUpdate(t) ==
    /\ pc[t] = "open"
    /\ hasChanges' = [hasChanges EXCEPT ![t] = TRUE]
    /\ UNCHANGED <<kind, store, cache, pc, readVersion, readManifest, loop, commits,
                   outcome, committed>>

----------------------------------------------------------------------------
(* Transaction::Commit: how it ends.                                       *)

\* Commit returns the error e.
Return(t, e) ==
    /\ pc' = [pc EXCEPT ![t] = "open"]
    /\ outcome' = [outcome EXCEPT ![t] = e]
    /\ UNCHANGED committed

\* Mutant: a version is skipped.
Target_Skips(t) == latestVersion[t] + 2

\* The version the current iteration writes.
Target(t) == latestVersion[t] + 1

\* Mutant: Commit returns latest_version instead of committed_version.
ReturnCommitted_Latest(t) ==
    /\ pc' = [pc EXCEPT ![t] = "open"]
    /\ outcome' = [outcome EXCEPT ![t] = "committed"]
    /\ committed' = [committed EXCEPT ![t] = @ \cup {latestVersion[t]}]
    /\ UNCHANGED retryCount

\* write_manifest returned OK: Commit returns the committed version.
ReturnCommitted(t) ==
    /\ pc' = [pc EXCEPT ![t] = "open"]
    /\ outcome' = [outcome EXCEPT ![t] = "committed"]
    /\ committed' = [committed EXCEPT ![t] = @ \cup {Target(t)}]
    /\ UNCHANGED retryCount

\* Mutant: one retry less than allowed.
ReturnConflict_OffByOne(t) ==
    /\ retryCount' = [retryCount EXCEPT ![t] = @ + 1]
    /\ IF retryCount[t] + 1 >= RetryLimit
       THEN Return(t, "TxnExhaustedRetry")
       ELSE /\ pc' = [pc EXCEPT ![t] = "reload"]
            /\ UNCHANGED <<outcome, committed>>

\* write_manifest returned AlreadyExists: try again from the top of the loop
\* unless the retries are used up.
ReturnConflict(t) ==
    /\ retryCount' = [retryCount EXCEPT ![t] = @ + 1]
    /\ IF retryCount[t] + 1 > RetryLimit
       THEN Return(t, "TxnExhaustedRetry")
       ELSE /\ pc' = [pc EXCEPT ![t] = "reload"]
            /\ UNCHANGED <<outcome, committed>>

\* Mutant: every error is retried, not only AlreadyExists.
ReturnError_Retries(t) ==
    /\ pc' = [pc EXCEPT ![t] = "reload"]
    /\ retryCount' = [retryCount EXCEPT ![t] = 1]
    /\ UNCHANGED <<outcome, committed>>

\* write_manifest returned anything else.
ReturnError(t) ==
    /\ Return(t, "IOError")
    /\ UNCHANGED retryCount

----------------------------------------------------------------------------
(* Transaction::Commit: the loop.                                          *)

\* The call.  A Transaction whose Commit has returned, with whatever result,
\* can be committed again.
Commit(t) ==
    /\ pc[t] = "open"
    /\ hasChanges[t]
    /\ commits[t] < MaxCommits
    /\ commits' = [commits EXCEPT ![t] = @ + 1]
    /\ pc' = [pc EXCEPT ![t] = "reload"]
    /\ outcome' = [outcome EXCEPT ![t] = "running"]
    /\ retryCount' = [retryCount EXCEPT ![t] = 0]
    /\ UNCHANGED <<kind, store, cache, opened, latestVersion, resolved, committed>>

\* With no updates recorded the call is Invalid.
CommitNothing(t) ==
    /\ pc[t] = "open"
    /\ ~ hasChanges[t]
    /\ commits[t] < MaxCommits
    /\ commits' = [commits EXCEPT ![t] = @ + 1]
    /\ outcome' = [outcome EXCEPT ![t] = "Invalid"]
    /\ UNCHANGED <<kind, store, cache, pc, opened, loop, committed>>

\* Carry on to write_manifest with the updates applied to base.
Resolve(t, base) ==
    /\ resolved' = [resolved EXCEPT ![t] = ApplyUpdates(base, t)]
    /\ pc' = [pc EXCEPT ![t] = "write"]
    /\ UNCHANGED <<outcome, committed>>

\* reload_latest_manifest lists the directory.  When the latest version is
\* still the one read, read_manifest_ is the latest manifest and every
\* resolver applies the updates to it.
ReloadUnchanged(t) ==
    /\ pc[t] = "reload"
    /\ IsLatest(readVersion[t])
    /\ latestVersion' = [latestVersion EXCEPT ![t] = readVersion[t]]
    /\ Resolve(t, readManifest[t])
    /\ UNCHANGED <<kind, store, cache, opened, retryCount, commits>>

\* Another version, n, is the latest.
Drift(t, n) ==
    /\ pc[t] = "reload"
    /\ IsLatest(n)
    /\ n # readVersion[t]
    /\ latestVersion' = [latestVersion EXCEPT ![t] = n]

\* Mutant: the resolver does not care which version is the latest.
ReloadOverwrite_Always(t) ==
    /\ \E n \in 0..MaxVersion : Drift(t, n)
    /\ Resolve(t, readManifest[t])
    /\ UNCHANGED <<kind, store, cache, opened, retryCount, commits>>

\* Mutant: applyUpdates works on the manifest it was given, not on a copy.
ReloadOverwrite_InPlace(t) ==
    /\ Resolver[t] = "Overwrite"
    /\ \E n \in 0..MaxVersion : Drift(t, n)
    /\ Resolve(t, readManifest[t])
    /\ readManifest' = [readManifest EXCEPT ![t] = ApplyUpdates(@, t)]
    /\ UNCHANGED <<kind, store, cache, readVersion, hasChanges, retryCount, commits>>

\* OverwriteResolver rebuilds on the manifest it read and never looks at n.
ReloadOverwrite(t) ==
    /\ Resolver[t] = "Overwrite"
    /\ \E n \in 0..MaxVersion : Drift(t, n)
    /\ Resolve(t, readManifest[t])
    /\ UNCHANGED <<kind, store, cache, opened, retryCount, commits>>

\* FailResolver gives up.
ReloadFail(t) ==
    /\ Resolver[t] = "Fail"
    /\ \E n \in 0..MaxVersion : Drift(t, n)
    /\ Return(t, "TxnResolutionFailed")
    /\ UNCHANGED <<kind, store, cache, opened, resolved, retryCount, commits>>

\* A resolver that answers true gets the content of n.
ReloadNeedsLatest(t) ==
    /\ RequireLatest(t)
    /\ \E n \in 0..MaxVersion : Drift(t, n)
    /\ pc' = [pc EXCEPT ![t] = "loadLatest"]
    /\ UNCHANGED <<kind, store, cache, opened, resolved, retryCount, commits, outcome,
                   committed>>

\* Mutant: the updates are applied to the manifest that was read.
LoadLatest_Stale(t) ==
    /\ pc[t] = "loadLatest"
    /\ Loadable(ProcOf[t], latestVersion[t])
    /\ cache' = CacheAfterLoad(ProcOf[t], latestVersion[t])
    /\ Resolve(t, readManifest[t])
    /\ UNCHANGED <<kind, store, opened, latestVersion, retryCount, commits>>

LoadLatest(t) ==
    /\ pc[t] = "loadLatest"
    /\ Loadable(ProcOf[t], latestVersion[t])
    /\ cache' = CacheAfterLoad(ProcOf[t], latestVersion[t])
    /\ Resolve(t, Loaded(ProcOf[t], latestVersion[t]))
    /\ UNCHANGED <<kind, store, opened, latestVersion, retryCount, commits>>

\* Listing or reading fails, applyUpdates rejects the updates, serialization
\* or a request of WriteTo fails without effect: Commit returns that error.
\* A file that CreateThenFill has created stays as it is.
CommitError(t) ==
    /\ pc[t] \in InCommit
    /\ ReturnError(t)
    /\ UNCHANGED <<kind, store, cache, opened, latestVersion, resolved, commits>>

----------------------------------------------------------------------------
(* Manifest::WriteTo.                                                      *)

Unwritten == <<kind, cache, opened, latestVersion, resolved, commits>>

\* Mutant: the PUT has no condition.
PutIfAbsent_Blind(t) ==
    /\ kind = "PutIfAbsent"
    /\ pc[t] = "write"
    /\ Target(t) \in Versions
    /\ store' = [store EXCEPT ![Target(t)] = resolved[t]]
    /\ ReturnCommitted(t) \/ ReturnError(t) \/ ReturnConflict(t)
    /\ UNCHANGED Unwritten

\* An if-absent PUT of the whole file.  The answer may be lost: then the
\* client library reports the error, or sends the request again and is told
\* that the file exists.
PutIfAbsent(t) ==
    /\ kind = "PutIfAbsent"
    /\ pc[t] = "write"
    /\ Target(t) \in Versions
    /\ store[Target(t)] = Absent
    /\ store' = [store EXCEPT ![Target(t)] = resolved[t]]
    /\ ReturnCommitted(t) \/ ReturnError(t) \/ ReturnConflict(t)
    /\ UNCHANGED Unwritten

\* Mutant: opening the stream truncates a file that exists.
CreateEmpty_Truncates(t) ==
    /\ kind = "CreateThenFill"
    /\ pc[t] = "write"
    /\ Target(t) \in Versions
    /\ store' = [store EXCEPT ![Target(t)] = Empty]
    /\ \/ /\ pc' = [pc EXCEPT ![t] = "fill"]
          /\ UNCHANGED <<outcome, committed, retryCount>>
       \/ ReturnError(t)
       \/ ReturnConflict(t)
    /\ UNCHANGED Unwritten

\* Opening the stream creates an empty file if there is none.  Its answer may
\* be lost as well.
CreateEmpty(t) ==
    /\ kind = "CreateThenFill"
    /\ pc[t] = "write"
    /\ Target(t) \in Versions
    /\ store[Target(t)] = Absent
    /\ store' = [store EXCEPT ![Target(t)] = Empty]
    /\ \/ /\ pc' = [pc EXCEPT ![t] = "fill"]
          /\ UNCHANGED <<outcome, committed, retryCount>>
       \/ ReturnError(t)
       \/ ReturnConflict(t)
    /\ UNCHANGED Unwritten

\* Closing it gives the file its content.
Fill(t) ==
    /\ pc[t] = "fill"
    /\ store' = [store EXCEPT ![Target(t)] = resolved[t]]
    /\ ReturnCommitted(t) \/ ReturnError(t)
    /\ UNCHANGED Unwritten

\* The fallback: GetFileInfo says there is no such file ...
CheckAbsent(t) ==
    /\ kind = "CheckThenPut"
    /\ pc[t] = "write"
    /\ Target(t) \in Versions
    /\ store[Target(t)] = Absent
    /\ pc' = [pc EXCEPT ![t] = "put"]
    /\ UNCHANGED <<store, outcome, committed, retryCount, Unwritten>>

\* ... and then the file is written, whatever is there by now.
PutAnyway(t) ==
    /\ pc[t] = "put"
    /\ store' = [store EXCEPT ![Target(t)] = resolved[t]]
    /\ ReturnCommitted(t) \/ ReturnError(t)
    /\ UNCHANGED Unwritten

\* Every store: the file exists, WriteTo returns AlreadyExists.
WriteConflict(t) ==
    /\ pc[t] = "write"
    /\ Target(t) \in Versions
    /\ store[Target(t)] # Absent
    /\ ReturnConflict(t)
    /\ UNCHANGED <<store, Unwritten>>

----------------------------------------------------------------------------
(* The processes.                                                          *)

\* The cache is one LRU list for all tables: manifests of other tables can
\* push any entry out.
Evict(p, v) ==
    /\ cache[p][v] # Absent
    /\ cache' = [cache EXCEPT ![p][v] = Absent]
    /\ UNCHANGED <<kind, store, pc, opened, loop, commits, outcome, committed>>

CleanCache(p) ==
    /\ cache' = [cache EXCEPT ![p] = [v \in Versions |-> Absent]]
    /\ UNCHANGED <<kind, store, pc, opened, loop, commits, outcome, committed>>

\* A process dies with its cache and its Transaction objects; transactions
\* not opened yet run in the restarted process.
Crash(p) ==
    /\ pc' = [t \in Txns |->
                IF ProcOf[t] = p /\ pc[t] # "idle" THEN "dead" ELSE pc[t]]
    /\ cache' = [cache EXCEPT ![p] = [v \in Versions |-> Absent]]
    /\ UNCHANGED <<kind, store, opened, loop, commits, outcome, committed>>

WriteTo(t) ==
    \/ PutIfAbsent(t) \/ CreateEmpty(t) \/ Fill(t) \/ CheckAbsent(t)
    \/ PutAnyway(t) \/ WriteConflict(t)

Reload(t) ==
    \/ ReloadUnchanged(t) \/ ReloadOverwrite(t) \/ ReloadFail(t)
    \/ ReloadNeedsLatest(t)

CommitStep(t) == Reload(t) \/ LoadLatest(t) \/ CommitError(t) \/ WriteTo(t)

Open(t) ==
    \/ OpenLatest(t) \/ (\E v \in 0..MaxVersion : OpenAt(t, v))
    \/ OpenLoad(t) \/ OpenFail(t)

Step(t) ==
    \/ Open(t) \/ RecordUpdate(t) \/ Commit(t) \/ CommitNothing(t)
    \/ CommitStep(t)

Environment(p) == (\E v \in Versions : Evict(p, v)) \/ CleanCache(p) \/ Crash(p)

Next == (\E t \in Txns : Step(t)) \/ (\E p \in Procs : Environment(p))

Spec == Init /\ [][Next]_vars

(***************************************************************************)
(* Commit is a loop of synchronous calls in the caller's thread, so every  *)
(* step of a call in progress is eventually taken unless the process dies. *)
(* Nothing obliges a caller to open or to commit a transaction.            *)
(***************************************************************************)
Fairness == \A t \in Txns : WF_vars(CommitStep(t))

FairSpec == Spec /\ Fairness

----------------------------------------------------------------------------
(* What the protocol promises.                                             *)

\* The store refuses to write over a file.
Conditional == kind # "CheckThenPut"

\* Version v has a file with a manifest in it.
Written(v) == store[v] \notin {Absent, Empty}

\* The manifest of version v; version 0 is the empty manifest.
Content(v) == IF v = 0 THEN << >> ELSE store[v]

\* The transaction whose commit produced the manifest m.
Author(m) == m[Len(m)]

\* The version whose manifest the author of version v must have built on: the
\* one it read for OverwriteResolver, the one just before v for the others.
BaseOf(v) ==
    IF Resolver[Author(store[v])] = "Overwrite"
    THEN readVersion[Author(store[v])]
    ELSE v - 1

\* No lost update (Transaction::Commit with applyUpdates and the resolvers):
\* every manifest is its base plus its author's updates, where the base is
\* the directly preceding version unless the author overwrites on purpose.
\* So a FailResolver commit can never drop what a concurrent commit added.
NoLostUpdate ==
    \A v \in Versions : Written(v) =>
        /\ store[v] # << >>
        /\ BaseOf(v) < v
        /\ BaseOf(v) = 0 \/ Written(BaseOf(v))
        /\ store[v] = Append(Content(BaseOf(v)), Author(store[v]))

\* A FailResolver transaction produces at most one version, however its
\* Commit calls end and however often they are repeated: a commit whose
\* answer was lost is not applied again by the next call.
FailCommitsOnce ==
    \A v, w \in Versions :
        /\ Written(v) /\ Written(w)
        /\ Author(store[v]) = Author(store[w])
        /\ Resolver[Author(store[v])] = "Fail"
        => v = w

\* Every version that Commit returned holds the caller's commit.
CommitsStay ==
    \A t \in Txns : \A v \in committed[t] :
        Written(v) /\ Author(store[v]) = t

\* A version that Commit returned to a caller holds that caller's commit, now
\* and for ever: no two callers are told the same version, and no later write
\* replaces what one of them was told is committed.  Not so on a store whose
\* write is unconditional (the fallback of Manifest::WriteTo).
DurableCommit == Conditional => CommitsStay

\* Versions have no gaps: the next version of a table is always one more
\* than the number of its manifest files (get_latest_version, committed_version).
ContiguousVersions ==
    \A v \in Versions : \A w \in 1..v : store[v] # Absent => store[w] # Absent

\* What GetManifest returns is version GetReadVersion as it is in the store,
\* as long as the Transaction lives and whatever the others commit, unless
\* they write unconditionally.
SnapshotIsolation ==
    Conditional => \A t \in Txns : pc[t] \in Live =>
        /\ readVersion[t] = 0 \/ Written(readVersion[t])
        /\ readManifest[t] = Content(readVersion[t])

\* What is in a cache is what is in the store.
CacheExact ==
    \A p \in Procs, v \in Versions :
        cache[p][v] # Absent => cache[p][v] = store[v]

\* The cache is never invalidated and yet never stale (Manifest::ReadFrom),
\* where a write is conditional.
CacheCoherent == Conditional => CacheExact

\* A retry of Commit's loop is never in vain: the listing it starts with
\* shows a version that the previous iteration did not see, so a transaction
\* retries only because some commit of the table took effect.
RetryMeansProgress ==
    \A t \in Txns :
        pc[t] = "reload" /\ retryCount[t] > 0 =>
            /\ Target(t) \in Versions
            /\ store[Target(t)] # Absent

\* With a retry allowed, FailResolver reports a lost race as
\* TxnResolutionFailed and never as TxnExhaustedRetry: after the first
\* conflict the version it read cannot be the latest again.
FailNeverExhausts ==
    \A t \in Txns :
        RetryLimit > 0 /\ Resolver[t] = "Fail"
            => /\ outcome[t] # "TxnExhaustedRetry"
               /\ retryCount[t] <= 1

\* The loop of Commit goes round only for a reason, and never to the end of
\* its retries where the resolver already knows that the race is lost.
RetriesJustified == RetryMeansProgress /\ FailNeverExhausts

\* "Manifest files are ... immutable once written" (manifest.cpp): no step
\* changes or removes a manifest that has content, where a write is conditional.
ManifestsImmutable ==
    [][Conditional => \A v \in Versions : Written(v) => store'[v] = store[v]]_vars

\* Commit returns: the retries bound the loop and nothing in it waits for
\* another transaction.
CommitReturns ==
    \A t \in Txns : pc[t] \in InCommit ~> pc[t] \notin InCommit

\* "A failed commit does not block a subsequent successful commit": when no
\* transaction is writing the latest version, that version can be loaded.
FailedCommitDoesNotBlock ==
    \A n \in Versions :
        /\ IsLatest(n)
        /\ \A t \in Txns : ~ (pc[t] = "fill" /\ Target(t) = n)
        => Written(n)

----------------------------------------------------------------------------
(* What the protocol implements, on a store with an atomic if-absent write: *)
(* the log is the directory, a transaction has begun while its object is    *)
(* alive, and a commit takes effect at its PUT.                             *)

Log == [v \in {w \in Versions : store[w] # Absent} |-> store[v]]

Snapshots ==
    [t \in Txns |-> IF pc[t] \in Live THEN readVersion[t] ELSE Absent]

Table == INSTANCE ManifestLog
         WITH None <- Absent, log <- Log, snapshot <- Snapshots, acked <- committed

\* Every behaviour of the listings, loads, retries, lost answers, cache losses
\* and crashes around Transaction::Commit is one of the append-only log: a
\* commit appends exactly one manifest, built on the version its resolver
\* allows, in one step, and whatever else happens changes no version.
ImplementsLog == Table!Spec
=============================================================================

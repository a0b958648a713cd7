------------------------- MODULE TransactionProofs -------------------------
(***************************************************************************)
(* Proofs about Transaction, for any number of transactions, processes and *)
(* versions and any retry limit.  Types are correct and versions have no   *)
(* gaps on every kind of store; the other safety properties are proved for *)
(* the two kinds whose write really is conditional.                        *)
(***************************************************************************)
EXTENDS Transaction, TLAPS

LEMMA AppendFacts ==
    ASSUME NEW m \in Manifests, NEW t \in Txns
    PROVE  /\ ApplyUpdates(m, t) \in Manifests
           /\ ApplyUpdates(m, t) # << >>
           /\ Author(ApplyUpdates(m, t)) = t
  BY DEF Manifests, ApplyUpdates, Author

----------------------------------------------------------------------------
(* Type correctness.  A transaction that has found its version free writes *)
(* inside the bound: without this conjunct TypeOK is not inductive.        *)

TargetInBound == \A t \in Txns : pc[t] \in {"fill", "put"} => Target(t) \in Versions

TypeInv == TypeOK /\ TargetInBound

LEMMA TypeInit == Init => TypeInv
  BY ConstAssumption DEF Init, TypeInv, TypeOK, TargetInBound, Locations,
     Outcomes, Manifests, Versions

LEMMA LoadedType ==
    ASSUME TypeOK, NEW p \in Procs, NEW v \in 0..MaxVersion, Loadable(p, v)
    PROVE  /\ Loaded(p, v) \in Manifests
           /\ CacheAfterLoad(p, v) \in [Procs -> [Versions -> Manifests \cup {Absent}]]
  <1>1. << >> \in Manifests
    BY DEF Manifests
  <1>2. CASE v = 0
    BY <1>1, <1>2 DEF Loaded, CacheAfterLoad, TypeOK
  <1>3. CASE v # 0
    <2>1. v \in Versions
      BY <1>3, ConstAssumption DEF Versions
    <2>2. Loaded(p, v) \in Manifests
      BY <1>3, <2>1 DEF Loaded, Loadable, TypeOK
    <2> QED
      BY <1>3, <2>1, <2>2 DEF CacheAfterLoad, TypeOK
  <1> QED
    BY <1>2, <1>3

LEMMA ReturnType ==
    ASSUME TypeInv, NEW t \in Txns, Target(t) \in Versions,
           ReturnCommitted(t) \/ ReturnError(t) \/ ReturnConflict(t)
    PROVE  /\ pc' \in [Txns -> Locations]
           /\ outcome' \in [Txns -> Outcomes]
           /\ committed' \in [Txns -> SUBSET Versions]
           /\ retryCount' \in [Txns -> Nat]
           /\ \A u \in Txns : pc'[u] \in {"fill", "put"} => pc'[u] = pc[u]
  <1> USE DEF TypeInv, TypeOK, Locations, Outcomes
  <1>1. CASE ReturnCommitted(t)
    BY <1>1 DEF ReturnCommitted
  <1>2. CASE ReturnError(t)
    BY <1>2 DEF ReturnError, Return
  <1>3. CASE ReturnConflict(t)
    <2>1. CASE retryCount[t] + 1 > RetryLimit
      BY <1>3, <2>1 DEF ReturnConflict, Return
    <2>2. CASE ~ (retryCount[t] + 1 > RetryLimit)
      <3>1. /\ pc' = [pc EXCEPT ![t] = "reload"]
            /\ retryCount' = [retryCount EXCEPT ![t] = @ + 1]
            /\ outcome' = outcome
            /\ committed' = committed
        BY <1>3, <2>2 DEF ReturnConflict
      <3>2. \A u \in Txns : pc'[u] \in {"fill", "put"} => pc'[u] = pc[u]
        BY <3>1
      <3>3. pc' \in [Txns -> Locations]
        BY <3>1
      <3> QED
        BY <3>1, <3>2, <3>3
    <2> QED
      BY <2>1, <2>2
  <1> QED
    BY <1>1, <1>2, <1>3

LEMMA TypeStep == TypeInv /\ [Next]_vars => TypeInv'
  <1> SUFFICES ASSUME TypeInv, [Next]_vars PROVE TypeInv'
    OBVIOUS
  <1> USE ConstAssumption DEF TypeInv
  <1>1. ASSUME NEW t \in Txns, OpenLatest(t) PROVE TypeInv'
    BY <1>1 DEF OpenLatest, TypeOK, TargetInBound, Target, Locations, loop
  <1>2. ASSUME NEW t \in Txns, NEW v \in 0..MaxVersion, OpenAt(t, v) PROVE TypeInv'
    BY <1>2 DEF OpenAt, TypeOK, TargetInBound, Target, Locations, loop
  <1>3. ASSUME NEW t \in Txns, OpenLoad(t) PROVE TypeInv'
    <2>1. readVersion[t] \in 0..MaxVersion /\ ProcOf[t] \in Procs
      BY DEF TypeOK
    <2>2. /\ Loaded(ProcOf[t], readVersion[t]) \in Manifests
          /\ cache' \in [Procs -> [Versions -> Manifests \cup {Absent}]]
      BY <1>3, <2>1, LoadedType DEF OpenLoad
    <2> QED
      BY <1>3, <2>2 DEF OpenLoad, TypeOK, TargetInBound, Target, Locations, loop
  <1>4. ASSUME NEW t \in Txns, OpenFail(t) PROVE TypeInv'
    BY <1>4 DEF OpenFail, TypeOK, TargetInBound, Target, Locations, loop, opened
  <1>5. ASSUME NEW t \in Txns, RecordUpdate(t) PROVE TypeInv'
    BY <1>5 DEF RecordUpdate, TypeOK, TargetInBound, Target, Locations, loop
  <1>6. ASSUME NEW t \in Txns, Commit(t) PROVE TypeInv'
    BY <1>6 DEF Commit, TypeOK, TargetInBound, Target, Locations, Outcomes, opened
  <1>7. ASSUME NEW t \in Txns, CommitNothing(t) PROVE TypeInv'
    BY <1>7 DEF CommitNothing, TypeOK, TargetInBound, Target, Outcomes, opened, loop
  <1>8. ASSUME NEW t \in Txns, ReloadUnchanged(t) PROVE TypeInv'
    <2>1. ApplyUpdates(readManifest[t], t) \in Manifests
      BY AppendFacts DEF TypeOK
    <2> QED
      BY <1>8, <2>1 DEF ReloadUnchanged, Resolve, TypeOK, TargetInBound, Target,
         Locations, opened
  <1>9. ASSUME NEW t \in Txns, ReloadOverwrite(t) PROVE TypeInv'
    <2>1. ApplyUpdates(readManifest[t], t) \in Manifests
      BY AppendFacts DEF TypeOK
    <2> QED
      BY <1>9, <2>1 DEF ReloadOverwrite, Drift, Resolve, TypeOK, TargetInBound,
         Target, Locations, opened
  <1>10. ASSUME NEW t \in Txns, ReloadFail(t) PROVE TypeInv'
    BY <1>10 DEF ReloadFail, Drift, Return, TypeOK, TargetInBound, Target,
       Locations, Outcomes, opened
  <1>11. ASSUME NEW t \in Txns, ReloadNeedsLatest(t) PROVE TypeInv'
    BY <1>11 DEF ReloadNeedsLatest, Drift, TypeOK, TargetInBound, Target, Locations, opened
  <1>12. ASSUME NEW t \in Txns, LoadLatest(t) PROVE TypeInv'
    <2>1. latestVersion[t] \in 0..MaxVersion /\ ProcOf[t] \in Procs
      BY DEF TypeOK
    <2>2. /\ Loaded(ProcOf[t], latestVersion[t]) \in Manifests
          /\ cache' \in [Procs -> [Versions -> Manifests \cup {Absent}]]
      BY <1>12, <2>1, LoadedType DEF LoadLatest
    <2>3. ApplyUpdates(Loaded(ProcOf[t], latestVersion[t]), t) \in Manifests
      BY <2>2, AppendFacts
    <2> QED
      BY <1>12, <2>2, <2>3 DEF LoadLatest, Resolve, TypeOK, TargetInBound, Target,
         Locations, opened
  <1>13. ASSUME NEW t \in Txns, CommitError(t) PROVE TypeInv'
    BY <1>13 DEF CommitError, ReturnError, Return, TypeOK, TargetInBound, Target,
       Locations, Outcomes, opened
  <1>14. ASSUME NEW t \in Txns, PutIfAbsent(t) PROVE TypeInv'
    BY <1>14, ReturnType DEF PutIfAbsent, Unwritten, TypeOK, TargetInBound, Target,
       opened
  <1>15. ASSUME NEW t \in Txns, CreateEmpty(t) PROVE TypeInv'
    <2>1. CASE pc' = [pc EXCEPT ![t] = "fill"] /\ UNCHANGED <<outcome, committed, retryCount>>
      BY <1>15, <2>1 DEF CreateEmpty, Unwritten, TypeOK, TargetInBound, Target,
         Locations, opened
    <2>2. CASE ReturnError(t) \/ ReturnConflict(t)
      BY <1>15, <2>2, ReturnType DEF CreateEmpty, Unwritten, TypeOK, TargetInBound,
         Target, opened
    <2> QED
      BY <1>15, <2>1, <2>2 DEF CreateEmpty
  <1>16. ASSUME NEW t \in Txns, Fill(t) PROVE TypeInv'
    <2>1. Target(t) \in Versions
      BY <1>16 DEF Fill, TargetInBound
    <2> QED
      BY <1>16, <2>1, ReturnType DEF Fill, Unwritten, TypeOK, TargetInBound, Target,
         opened
  <1>17. ASSUME NEW t \in Txns, CheckAbsent(t) PROVE TypeInv'
    BY <1>17 DEF CheckAbsent, Unwritten, TypeOK, TargetInBound, Target, Locations,
       opened
  <1>18. ASSUME NEW t \in Txns, PutAnyway(t) PROVE TypeInv'
    <2>1. Target(t) \in Versions
      BY <1>18 DEF PutAnyway, TargetInBound
    <2> QED
      BY <1>18, <2>1, ReturnType DEF PutAnyway, Unwritten, TypeOK, TargetInBound,
         Target, opened
  <1>19. ASSUME NEW t \in Txns, WriteConflict(t) PROVE TypeInv'
    BY <1>19, ReturnType DEF WriteConflict, Unwritten, TypeOK, TargetInBound,
       Target, opened
  <1>20. ASSUME NEW p \in Procs, Environment(p) PROVE TypeInv'
    <2>1. ASSUME NEW v \in Versions, Evict(p, v) PROVE TypeInv'
      BY <2>1 DEF Evict, TypeOK, TargetInBound, Target, loop, opened
    <2>2. CASE CleanCache(p)
      BY <2>2 DEF CleanCache, TypeOK, TargetInBound, Target, loop, opened
    <2>3. CASE Crash(p)
      BY <2>3 DEF Crash, TypeOK, TargetInBound, Target, Locations, loop, opened
    <2> QED
      BY <1>20, <2>1, <2>2, <2>3 DEF Environment
  <1>21. CASE UNCHANGED vars
    BY <1>21 DEF vars, TypeOK, TargetInBound, Target, loop, opened
  <1> QED
    BY <1>1, <1>2, <1>3, <1>4, <1>5, <1>6, <1>7, <1>8, <1>9, <1>10, <1>11, <1>12,
       <1>13, <1>14, <1>15, <1>16, <1>17, <1>18, <1>19, <1>20, <1>21
       DEF Next, Step, Open, CommitStep, Reload, WriteTo

\* Every reachable state is well typed, whatever the store: in particular the
\* manifests Commit writes and Open caches are always manifests, and the
\* versions it returns are versions of the directory.
THEOREM TypeCorrect == Spec => []TypeOK
  <1>1. Spec => []TypeInv
    BY TypeInit, TypeStep, PTL DEF Spec
  <1> QED
    BY <1>1, PTL DEF TypeInv

----------------------------------------------------------------------------
(* The kind of the store, and what needs no condition.                     *)

\* A table stays in its store.
LEMMA KindKept ==
    ASSUME [Next]_vars PROVE kind' = kind
  <1>1. ASSUME NEW t \in Txns, Open(t) PROVE kind' = kind
    BY <1>1 DEF Open, OpenLatest, OpenAt, OpenLoad, OpenFail
  <1>2. ASSUME NEW t \in Txns, RecordUpdate(t) \/ Commit(t) \/ CommitNothing(t)
        PROVE  kind' = kind
    BY <1>2 DEF RecordUpdate, Commit, CommitNothing
  <1>3. ASSUME NEW t \in Txns, Reload(t) PROVE kind' = kind
    BY <1>3 DEF Reload, ReloadUnchanged, ReloadOverwrite, ReloadFail,
       ReloadNeedsLatest
  <1>4. ASSUME NEW t \in Txns, LoadLatest(t) \/ CommitError(t) PROVE kind' = kind
    BY <1>4 DEF LoadLatest, CommitError
  <1>5. ASSUME NEW t \in Txns, WriteTo(t) PROVE kind' = kind
    BY <1>5 DEF WriteTo, PutIfAbsent, CreateEmpty, Fill, CheckAbsent, PutAnyway,
       WriteConflict, Unwritten
  <1>6. ASSUME NEW p \in Procs, Environment(p) PROVE kind' = kind
    BY <1>6 DEF Environment, Evict, CleanCache, Crash
  <1>7. CASE UNCHANGED vars
    BY <1>7 DEF vars
  <1> QED
    BY <1>1, <1>2, <1>3, <1>4, <1>5, <1>6, <1>7 DEF Next, Step, CommitStep

\* A listing shows a file, and files never vanish: a write is aimed at the
\* version after one that exists, whatever the store does with the write.
AimedAfterFile ==
    \A t \in Txns : pc[t] \in {"loadLatest", "write", "fill", "put"} =>
        (latestVersion[t] # 0 => store[latestVersion[t]] # Absent)

NoGapsInv == TypeInv /\ ContiguousVersions /\ AimedAfterFile

\* A step that changes no file.
LEMMA NoGapsQuiet ==
    ASSUME NoGapsInv, TypeInv', NEW t \in Txns, store' = store,
           \A u \in Txns \ {t} :
               pc'[u] = pc[u] /\ latestVersion'[u] = latestVersion[u],
           \/ pc'[t] \notin {"loadLatest", "write", "fill", "put"}
           \/ /\ latestVersion'[t] = latestVersion[t]
              /\ pc[t] \in {"loadLatest", "write", "fill", "put"}
           \/ IsLatest(latestVersion'[t])
    PROVE  NoGapsInv'
  <1>1. ContiguousVersions'
    BY DEF NoGapsInv, ContiguousVersions
  <1>2. AimedAfterFile'
    BY DEF NoGapsInv, AimedAfterFile, IsLatest
  <1> QED
    BY <1>1, <1>2 DEF NoGapsInv

\* A step that writes the file a transaction aims at.
LEMMA NoGapsWrite ==
    ASSUME NoGapsInv, TypeInv', NEW t \in Txns, NEW m, m # Absent,
           pc[t] \in {"write", "fill", "put"}, Target(t) \in Versions,
           store' = [store EXCEPT ![Target(t)] = m],
           \A u \in Txns : latestVersion'[u] = latestVersion[u],
           \A u \in Txns \ {t} : pc'[u] = pc[u]
    PROVE  NoGapsInv'
  <1> USE ConstAssumption
  <1>1. /\ latestVersion[t] \in 0..MaxVersion
        /\ Target(t) = latestVersion[t] + 1
        /\ latestVersion[t] # 0 => store[latestVersion[t]] # Absent
    BY DEF NoGapsInv, TypeInv, TypeOK, AimedAfterFile, Target
  <1>2. \A v \in Versions :
           store'[v] = IF v = Target(t) THEN m ELSE store[v]
    BY DEF NoGapsInv, TypeInv, TypeOK
  <1>3. ContiguousVersions'
    <2> SUFFICES ASSUME NEW v \in Versions, NEW w \in 1..v, store'[v] # Absent
                 PROVE  store'[w] # Absent
      BY DEF ContiguousVersions
    <2>1. w \in Versions
      BY DEF Versions
    <2>2. CASE w = Target(t)
      BY <1>2, <2>1, <2>2
    <2>3. CASE w # Target(t) /\ v # Target(t)
      BY <1>2, <2>1, <2>3 DEF NoGapsInv, ContiguousVersions
    <2>4. CASE w # Target(t) /\ v = Target(t)
      <3>1. latestVersion[t] \in Versions /\ w \in 1..latestVersion[t]
        BY <1>1, <2>4 DEF Versions
      <3>2. store[w] # Absent
        BY <1>1, <3>1 DEF NoGapsInv, ContiguousVersions, Versions
      <3> QED
        BY <1>2, <2>1, <2>4, <3>2
    <2> QED
      BY <2>2, <2>3, <2>4
  <1>4. AimedAfterFile'
    <2> SUFFICES ASSUME NEW u \in Txns, latestVersion[u] # 0,
                        pc'[u] \in {"loadLatest", "write", "fill", "put"}
                 PROVE  store'[latestVersion[u]] # Absent
      BY DEF AimedAfterFile
    <2>1. pc[u] \in {"loadLatest", "write", "fill", "put"}
      OBVIOUS
    <2>2. latestVersion[u] \in Versions /\ store[latestVersion[u]] # Absent
      BY <2>1 DEF NoGapsInv, AimedAfterFile, TypeInv, TypeOK, Versions
    <2> QED
      BY <1>2, <2>2
  <1> QED
    BY <1>3, <1>4 DEF NoGapsInv

LEMMA NoGapsStep == NoGapsInv /\ [Next]_vars => NoGapsInv'
  <1> SUFFICES ASSUME NoGapsInv, [Next]_vars PROVE NoGapsInv'
    OBVIOUS
  <1> DEFINE Aiming == {"loadLatest", "write", "fill", "put"}
  <1>0. TypeInv' /\ TypeInv
    BY TypeStep DEF NoGapsInv
  <1>1. ASSUME NEW t \in Txns, Open(t) PROVE NoGapsInv'
    <2>1. /\ store' = store /\ latestVersion' = latestVersion
          /\ pc'[t] \notin Aiming
          /\ \A u \in Txns \ {t} : pc'[u] = pc[u]
      BY <1>0, <1>1 DEF Open, OpenLatest, OpenAt, OpenLoad, OpenFail, loop, TypeInv,
         TypeOK
    <2> QED
      BY <1>0, <2>1, NoGapsQuiet
  <1>2. ASSUME NEW t \in Txns, RecordUpdate(t) \/ Commit(t) \/ CommitNothing(t)
        PROVE  NoGapsInv'
    <2>1. /\ store' = store /\ latestVersion' = latestVersion
          /\ pc'[t] \notin Aiming
          /\ \A u \in Txns \ {t} : pc'[u] = pc[u]
      BY <1>0, <1>2 DEF RecordUpdate, Commit, CommitNothing, loop, TypeInv, TypeOK
    <2> QED
      BY <1>0, <2>1, NoGapsQuiet
  <1>3. ASSUME NEW t \in Txns, Reload(t) PROVE NoGapsInv'
    <2>1. /\ store' = store
          /\ IsLatest(latestVersion'[t])
          /\ \A u \in Txns \ {t} :
                pc'[u] = pc[u] /\ latestVersion'[u] = latestVersion[u]
      <3>1. CASE ReloadUnchanged(t)
        BY <1>0, <3>1 DEF ReloadUnchanged, Resolve, TypeInv, TypeOK
      <3>2. CASE ReloadOverwrite(t)
        BY <1>0, <3>2 DEF ReloadOverwrite, Drift, Resolve, TypeInv, TypeOK
      <3>3. CASE ReloadFail(t)
        BY <1>0, <3>3 DEF ReloadFail, Drift, Return, TypeInv, TypeOK
      <3>4. CASE ReloadNeedsLatest(t)
        BY <1>0, <3>4 DEF ReloadNeedsLatest, Drift, TypeInv, TypeOK
      <3> QED
        BY <1>3, <3>1, <3>2, <3>3, <3>4 DEF Reload
    <2> QED
      BY <1>0, <2>1, NoGapsQuiet
  <1>4. ASSUME NEW t \in Txns, LoadLatest(t) \/ CommitError(t) PROVE NoGapsInv'
    <2>1. /\ store' = store /\ latestVersion' = latestVersion
          /\ pc'[t] \in Aiming => pc[t] \in Aiming
          /\ \A u \in Txns \ {t} : pc'[u] = pc[u]
      BY <1>0, <1>4 DEF LoadLatest, CommitError, Resolve, ReturnError, Return,
         TypeInv, TypeOK
    <2> QED
      BY <1>0, <2>1, NoGapsQuiet
  <1>5. ASSUME NEW t \in Txns, PutIfAbsent(t) \/ Fill(t) \/ PutAnyway(t)
        PROVE  NoGapsInv'
    <2>1. /\ Target(t) \in Versions
          /\ pc[t] \in {"write", "fill", "put"}
          /\ store' = [store EXCEPT ![Target(t)] = resolved[t]]
          /\ latestVersion' = latestVersion
      BY <1>0, <1>5 DEF PutIfAbsent, Fill, PutAnyway, TypeInv, TargetInBound, Unwritten
    <2>2. \A u \in Txns \ {t} : pc'[u] = pc[u]
      BY <1>0, <1>5 DEF PutIfAbsent, Fill, PutAnyway, ReturnCommitted, ReturnError,
         ReturnConflict, Return, TypeInv, TypeOK
    <2>3. resolved[t] # Absent
      BY <1>0, ConstAssumption DEF TypeInv, TypeOK
    <2> QED
      BY <1>0, <2>1, <2>2, <2>3, NoGapsWrite
  <1>6. ASSUME NEW t \in Txns, CreateEmpty(t) PROVE NoGapsInv'
    <2>1. /\ Target(t) \in Versions
          /\ pc[t] = "write"
          /\ store' = [store EXCEPT ![Target(t)] = Empty]
          /\ latestVersion' = latestVersion
      BY <1>6 DEF CreateEmpty, Unwritten
    <2>2. \A u \in Txns \ {t} : pc'[u] = pc[u]
      BY <1>0, <1>6 DEF CreateEmpty, ReturnError, ReturnConflict, Return, TypeInv,
         TypeOK
    <2> QED
      BY <1>0, <2>1, <2>2, NoGapsWrite, ConstAssumption
  <1>7. ASSUME NEW t \in Txns, CheckAbsent(t) \/ WriteConflict(t) PROVE NoGapsInv'
    <2>1. /\ store' = store /\ latestVersion' = latestVersion
          /\ pc'[t] \in Aiming => pc[t] \in Aiming
          /\ \A u \in Txns \ {t} : pc'[u] = pc[u]
      BY <1>0, <1>7 DEF CheckAbsent, WriteConflict, ReturnConflict, Return, Unwritten,
         TypeInv, TypeOK
    <2> QED
      BY <1>0, <2>1, NoGapsQuiet
  <1>8. ASSUME NEW p \in Procs, Environment(p) PROVE NoGapsInv'
    <2>1. /\ store' = store /\ latestVersion' = latestVersion
          /\ \A u \in Txns : pc'[u] \in Aiming => pc[u] \in Aiming
      BY <1>8 DEF Environment, Evict, CleanCache, Crash, loop
    <2>2. ContiguousVersions' /\ AimedAfterFile'
      BY <2>1 DEF NoGapsInv, ContiguousVersions, AimedAfterFile
    <2> QED
      BY <1>0, <2>2 DEF NoGapsInv
  <1>9. CASE UNCHANGED vars
    BY <1>0, <1>9 DEF vars, loop, NoGapsInv, ContiguousVersions, AimedAfterFile
  <1> QED
    BY <1>1, <1>2, <1>3, <1>4, <1>5, <1>6, <1>7, <1>8, <1>9
       DEF Next, Step, CommitStep, WriteTo

\* The versions of a table have no gaps, in every kind of store: the listing
\* of reload_latest_manifest and committed_version = latest_version + 1 need
\* no condition on the write for it.
THEOREM VersionsHaveNoGaps == Spec => []ContiguousVersions
  <1>1. Init => NoGapsInv
    BY TypeInit DEF Init, NoGapsInv, ContiguousVersions, AimedAfterFile, Versions
  <1> QED
    BY <1>1, NoGapsStep, PTL DEF Spec, NoGapsInv

----------------------------------------------------------------------------
(***************************************************************************)
(* Safety, for a store whose write is conditional.  NoLostUpdate is not    *)
(* inductive: a write puts a manifest that was built some steps earlier,   *)
(* from a manifest that came out of a cache, at a version that was chosen  *)
(* even before.  The conjuncts below carry those facts to the write.       *)
(***************************************************************************)

\* The version on whose manifest t's resolved manifest is built.
Base(t) ==
    IF Resolver[t] = "Overwrite" THEN readVersion[t] ELSE latestVersion[t]

Known(v) == v # 0 => Written(v)

\* What GetManifest returns is still in the store (SnapshotIsolation).
Snapshot(t) ==
    pc[t] \in Live =>
        /\ Known(readVersion[t])
        /\ readManifest[t] = Content(readVersion[t])

\* The version that t's listing returned still has its file, and a write of
\* FailResolver is still aimed at the version after the one it read.
Listed(t) ==
    pc[t] \in {"loadLatest", "write", "fill"} =>
        /\ latestVersion[t] # 0 => store[latestVersion[t]] # Absent
        /\ pc[t] = "loadLatest" => Resolver[t] = "Rebase"
        /\ Resolver[t] = "Fail" => readVersion[t] = latestVersion[t]

\* What t is about to write is its base, as it is in the store, and its own
\* updates.
Pending(t) ==
    pc[t] \in {"write", "fill"} =>
        /\ Base(t) <= latestVersion[t]
        /\ Known(Base(t))
        /\ resolved[t] = ApplyUpdates(Content(Base(t)), t)

\* A file that is being filled is empty.
Filling(t) == pc[t] = "fill" => store[Target(t)] = Empty

\* A retry starts after a version that the last listing did not show.
Retrying(t) ==
    pc[t] = "reload" /\ retryCount[t] > 0 =>
        Target(t) \in Versions /\ store[Target(t)] # Absent

\* FailResolver has used no retry when it writes.
FailRetry(t) ==
    Resolver[t] = "Fail" /\ RetryLimit > 0 =>
        /\ outcome[t] # "TxnExhaustedRetry"
        /\ retryCount[t] <= 1
        /\ pc[t] \in {"write", "fill"} => retryCount[t] = 0
        /\ pc[t] = "reload" /\ retryCount[t] > 0
              => readVersion[t] = latestVersion[t]

LocalInv(t) ==
    /\ pc[t] # "put"
    /\ Snapshot(t)
    /\ Listed(t)
    /\ Pending(t)
    /\ Filling(t)
    /\ Retrying(t)
    /\ FailRetry(t)

\* An empty file is filled by the transaction that created it and by no other.
OneFiller ==
    \A t, u \in Txns :
        pc[t] = "fill" /\ pc[u] = "fill" /\ Target(t) = Target(u) => t = u

\* The author of a version has been opened, so the version it read is fixed.
AuthorInv ==
    \A v \in Versions : Written(v) =>
        /\ pc[Author(store[v])] \notin {"idle", "loading"}
        /\ Resolver[Author(store[v])] = "Fail"
              => readVersion[Author(store[v])] = v - 1

StoreInv ==
    /\ ContiguousVersions
    /\ AuthorInv
    /\ NoLostUpdate
    /\ CommitsStay

IndInv ==
    /\ TypeInv
    /\ StoreInv
    /\ CacheExact
    /\ OneFiller
    /\ \A t \in Txns : LocalInv(t)

----------------------------------------------------------------------------
(* Steps in general.                                                       *)

Same(u) ==
    /\ pc'[u] = pc[u]
    /\ readVersion'[u] = readVersion[u]
    /\ readManifest'[u] = readManifest[u]
    /\ latestVersion'[u] = latestVersion[u]
    /\ resolved'[u] = resolved[u]
    /\ retryCount'[u] = retryCount[u]
    /\ outcome'[u] = outcome[u]

\* Manifests stay what they are and files stay where they are.
Grows ==
    /\ \A v \in Versions : Written(v) => store'[v] = store[v]
    /\ \A v \in Versions : store[v] # Absent => store'[v] # Absent

\* An opened transaction stays opened, at the version it read.
Settled ==
    \A u \in Txns : pc[u] \notin {"idle", "loading"} =>
        /\ pc'[u] \notin {"idle", "loading"}
        /\ readVersion'[u] = readVersion[u]

LEMMA AuthorType ==
    ASSUME NEW m \in Manifests, m # << >>
    PROVE  Author(m) \in Txns
  BY DEF Manifests, Author

\* A transaction that takes no part in a step keeps its invariant if the
\* store only grows.
LEMMA OthersKeep ==
    ASSUME TypeInv, NEW u \in Txns, LocalInv(u), Same(u), Grows,
           pc[u] = "fill" => store'[Target(u)] = Empty
    PROVE  LocalInv(u)'
  <1> USE ConstAssumption DEF TypeInv, TypeOK, Same
  <1>1. readVersion[u] \in 0..MaxVersion /\ latestVersion[u] \in 0..MaxVersion
    OBVIOUS
  <1>2. ASSUME NEW v \in 0..MaxVersion, Known(v)
        PROVE  Known(v)' /\ Content(v)' = Content(v)
    BY <1>2 DEF Grows, Known, Content, Written, Versions
  <1>3. Snapshot(u)'
    BY <1>1, <1>2 DEF LocalInv, Snapshot
  <1>4. Listed(u)'
    BY <1>1 DEF LocalInv, Listed, Grows, Versions
  <1>5. Base(u)' = Base(u) /\ Base(u) \in 0..MaxVersion
    BY <1>1 DEF Base
  <1>6. Pending(u)'
    BY <1>2, <1>5 DEF LocalInv, Pending, ApplyUpdates
  <1>7. Target(u)' = Target(u)
    BY DEF Target
  <1>8. Filling(u)' /\ Retrying(u)'
    BY <1>7 DEF LocalInv, Filling, Retrying, Grows
  <1>9. FailRetry(u)'
    BY DEF LocalInv, FailRetry
  <1> QED
    BY <1>3, <1>4, <1>6, <1>8, <1>9 DEF LocalInv

\* A step that writes no file keeps the invariants of the store.
LEMMA StoreKept ==
    ASSUME IndInv, UNCHANGED <<store, committed>>, Settled
    PROVE  StoreInv'
  <1> USE DEF IndInv, StoreInv
  <1>1. ASSUME NEW v \in Versions, Written(v)
        PROVE  Author(store[v]) \in Txns
    BY <1>1, AuthorType DEF TypeInv, TypeOK, NoLostUpdate, Written
  <1>2. ContiguousVersions' /\ CommitsStay'
    BY DEF ContiguousVersions, CommitsStay, Written
  <1>3. AuthorInv'
    BY <1>1 DEF AuthorInv, Settled, Written
  <1>4. NoLostUpdate'
    <2> SUFFICES ASSUME NEW v \in Versions, Written(v)
                 PROVE  /\ store[v] # << >>
                        /\ BaseOf(v)' < v
                        /\ BaseOf(v)' = 0 \/ Written(BaseOf(v)')
                        /\ store[v] = Append(Content(BaseOf(v)'), Author(store[v]))
      BY DEF NoLostUpdate, Written, Content
    <2>1. BaseOf(v)' = BaseOf(v)
      BY <1>1 DEF BaseOf, AuthorInv, Settled
    <2> QED
      BY <2>1 DEF NoLostUpdate
  <1> QED
    BY <1>2, <1>3, <1>4

\* A step of one transaction that writes no file.
LEMMA QuietStep ==
    ASSUME IndInv, TypeInv', NEW t \in Txns, UNCHANGED <<store, committed>>,
           \A u \in Txns \ {t} : Same(u),
           pc[t] \notin {"idle", "loading"} => readVersion'[t] = readVersion[t],
           pc[t] \notin {"idle", "loading"} => pc'[t] \notin {"idle", "loading"},
           pc'[t] # "fill", CacheExact', LocalInv(t)'
    PROVE  IndInv'
  <1>1. Settled
    BY DEF Settled, Same
  <1>2. StoreInv'
    BY <1>1, StoreKept
  <1>3. OneFiller'
    BY DEF IndInv, OneFiller, Same, Target
  <1>4. Grows
    BY DEF Grows
  <1>5. ASSUME NEW u \in Txns \ {t} PROVE LocalInv(u)'
    BY <1>4, <1>5, OthersKeep DEF IndInv, LocalInv, Filling
  <1> QED
    BY <1>2, <1>3, <1>5 DEF IndInv

\* The step that gives version Target(t) its manifest.
LEMMA WriteStep ==
    ASSUME IndInv, TypeInv', NEW t \in Txns, pc[t] \in {"write", "fill"},
           Target(t) \in Versions, ~ Written(Target(t)),
           store[Target(t)] = Absent \/ pc[t] = "fill",
           store' = [store EXCEPT ![Target(t)] = resolved[t]],
           \A u \in Txns \ {t} : Same(u),
           readVersion'[t] = readVersion[t], pc'[t] \in {"open", "reload"},
           UNCHANGED cache,
           \A u \in Txns : committed'[u] \subseteq
               (IF u = t THEN committed[u] \cup {Target(t)} ELSE committed[u]),
           LocalInv(t)'
    PROVE  IndInv'
  <1> USE ConstAssumption
  <1>0. PICK n \in Versions : n = Target(t)
    OBVIOUS
  <1>a. PICK b : b = Base(t)
    OBVIOUS
  <1>1. Grows
    <2>1. resolved[t] # Absent
      BY DEF IndInv, TypeInv, TypeOK
    <2> QED
      BY <2>1 DEF Grows, IndInv, TypeInv, TypeOK, Written
  <1>2. Settled
    BY DEF Settled, Same
  <1>3. /\ readVersion[t] \in 0..MaxVersion
        /\ latestVersion[t] \in 0..MaxVersion
        /\ n = latestVersion[t] + 1
    BY <1>0 DEF IndInv, TypeInv, TypeOK, Target
  <1>4. /\ b \in 0..MaxVersion
        /\ b <= latestVersion[t]
        /\ Known(b)
        /\ resolved[t] = ApplyUpdates(Content(b), t)
        /\ latestVersion[t] # 0 => store[latestVersion[t]] # Absent
        /\ Resolver[t] = "Fail" => readVersion[t] = latestVersion[t]
    BY <1>a, <1>3 DEF IndInv, LocalInv, Pending, Listed, Base
  <1>5. Content(b) \in Manifests
    <2>1. << >> \in Manifests
      BY DEF Manifests
    <2>2. b # 0 => b \in Versions
      BY <1>4 DEF Versions
    <2> QED
      BY <1>4, <2>1, <2>2 DEF Content, Known, Written, IndInv, TypeInv, TypeOK
  <1>6. /\ store'[n] = resolved[t]
        /\ resolved[t] \in Manifests
        /\ resolved[t] # << >>
        /\ Author(resolved[t]) = t
        /\ Written(n)'
        /\ \A v \in Versions \ {n} : store'[v] = store[v]
    <2>1. /\ resolved[t] \in Manifests
          /\ resolved[t] # << >>
          /\ Author(resolved[t]) = t
      BY <1>4, <1>5, AppendFacts
    <2>2. /\ store'[n] = resolved[t]
          /\ \A v \in Versions \ {n} : store'[v] = store[v]
      BY <1>0 DEF IndInv, TypeInv, TypeOK
    <2> QED
      BY <2>1, <2>2 DEF Written
  <1>7. ASSUME NEW v \in 0..MaxVersion, Known(v)
        PROVE  Known(v)' /\ Content(v)' = Content(v)
    BY <1>1, <1>7 DEF Grows, Known, Content, Written, Versions
  <1>8. ContiguousVersions'
    <2> SUFFICES ASSUME NEW v \in Versions, NEW w \in 1..v, store'[v] # Absent
                 PROVE  store'[w] # Absent
      BY DEF ContiguousVersions
    <2>1. w \in Versions
      BY DEF Versions
    <2>2. CASE v # n
      BY <1>1, <1>6, <2>1, <2>2 DEF IndInv, StoreInv, ContiguousVersions, Grows
    <2>3. CASE v = n /\ w # n
      <3>1. latestVersion[t] \in Versions /\ w \in 1..latestVersion[t]
        BY <1>3, <2>1, <2>3 DEF Versions
      <3>2. store[w] # Absent
        BY <1>4, <3>1 DEF IndInv, StoreInv, ContiguousVersions, Versions
      <3> QED
        BY <3>2, <2>1, <1>1 DEF Grows
    <2>4. CASE w = n
      BY <2>4, <1>6 DEF Written
    <2> QED
      BY <2>2, <2>3, <2>4
  <1>9. ASSUME NEW v \in Versions, v # n, Written(v)'
        PROVE  /\ Written(v)
               /\ store'[v] = store[v]
               /\ Author(store[v]) \in Txns
               /\ pc[Author(store[v])] \notin {"idle", "loading"}
               /\ readVersion'[Author(store[v])] = readVersion[Author(store[v])]
               /\ pc'[Author(store[v])] \notin {"idle", "loading"}
    <2>1. Written(v) /\ store'[v] = store[v]
      BY <1>6, <1>9 DEF Written
    <2>2. store[v] \in Manifests /\ store[v] # << >>
      BY <2>1 DEF IndInv, TypeInv, TypeOK, StoreInv, NoLostUpdate, Written
    <2>3. Author(store[v]) \in Txns
      BY <2>2, AuthorType
    <2> QED
      BY <1>2, <2>1, <2>3 DEF Settled, IndInv, StoreInv, AuthorInv
  <1>10. AuthorInv'
    <2> SUFFICES ASSUME NEW v \in Versions, Written(v)'
                 PROVE  /\ pc'[Author(store'[v])] \notin {"idle", "loading"}
                        /\ Resolver[Author(store'[v])] = "Fail"
                             => readVersion'[Author(store'[v])] = v - 1
      BY DEF AuthorInv
    <2>1. CASE v = n
      BY <1>3, <1>4, <1>6, <2>1
    <2>2. CASE v # n
      BY <1>9, <2>2 DEF IndInv, StoreInv, AuthorInv
    <2> QED
      BY <2>1, <2>2
  <1>11. NoLostUpdate'
    <2> SUFFICES ASSUME NEW v \in Versions, Written(v)'
                 PROVE  /\ store'[v] # << >>
                        /\ BaseOf(v)' < v
                        /\ BaseOf(v)' = 0 \/ Written(BaseOf(v))'
                        /\ store'[v] = Append(Content(BaseOf(v))', Author(store'[v]))
      BY DEF NoLostUpdate
    <2>1. CASE v = n
      <3>1. BaseOf(v)' = b
        BY <1>a, <1>3, <1>6, <2>1 DEF BaseOf, Base
      <3>2. Known(BaseOf(v))' /\ Content(BaseOf(v))' = Content(b)
        BY <1>4, <1>7, <3>1 DEF Known, Content, Written
      <3>3. store'[v] = Append(Content(BaseOf(v))', Author(store'[v]))
        BY <1>4, <1>6, <2>1, <3>2 DEF ApplyUpdates
      <3>4. BaseOf(v)' = 0 \/ Written(BaseOf(v))'
        BY <3>2 DEF Known
      <3>5. BaseOf(v)' < v
        BY <1>3, <1>4, <2>1, <3>1
      <3> QED
        BY <1>6, <2>1, <3>3, <3>4, <3>5
    <2>2. CASE v # n
      <3>1. BaseOf(v)' = BaseOf(v)
        BY <1>9, <2>2 DEF BaseOf
      <3>2. /\ store[v] # << >>
            /\ BaseOf(v) < v
            /\ BaseOf(v) = 0 \/ Written(BaseOf(v))
            /\ store[v] = Append(Content(BaseOf(v)), Author(store[v]))
        BY <1>9, <2>2 DEF IndInv, StoreInv, NoLostUpdate
      <3>3. BaseOf(v) \in 0..MaxVersion
        BY <1>9, <2>2 DEF BaseOf, IndInv, TypeInv, TypeOK, Versions
      <3>5. Known(BaseOf(v))
        BY <3>2 DEF Known
      <3>4. Known(BaseOf(v))' /\ Content(BaseOf(v))' = Content(BaseOf(v))
        BY <1>7, <3>1, <3>3, <3>5 DEF Known, Content, Written
      <3> QED
        BY <1>9, <2>2, <3>1, <3>2, <3>4 DEF Known
    <2> QED
      BY <2>1, <2>2
  <1>12. CommitsStay'
    <2> SUFFICES ASSUME NEW u \in Txns, NEW v \in committed'[u]
                 PROVE  Written(v)' /\ Author(store'[v]) = u
      BY DEF CommitsStay
    <2>1. CASE v = n /\ u = t
      BY <1>6, <2>1 DEF Written
    <2>2. CASE v \in committed[u]
      <3>1. v \in Versions
        BY <2>2 DEF IndInv, TypeInv, TypeOK
      <3>2. Written(v) /\ Author(store[v]) = u
        BY <2>2 DEF IndInv, StoreInv, CommitsStay
      <3> QED
        BY <1>1, <3>1, <3>2 DEF Grows, Written
    <2> QED
      BY <1>0, <2>1, <2>2
  <1>13. CacheExact'
    <2> SUFFICES ASSUME NEW q \in Procs, NEW v \in Versions, cache[q][v] # Absent
                 PROVE  cache[q][v] = store'[v]
      BY DEF CacheExact
    <2>1. cache[q][v] = store[v] /\ cache[q][v] \in Manifests
      BY DEF IndInv, TypeInv, TypeOK, CacheExact
    <2>2. Written(v)
      BY <2>1 DEF Written
    <2> QED
      BY <1>1, <2>1, <2>2 DEF Grows
  <1>14. OneFiller'
    BY DEF IndInv, OneFiller, Same, Target
  <1>15. ASSUME NEW u \in Txns \ {t} PROVE LocalInv(u)'
    <2>1. ASSUME pc[u] = "fill" PROVE store'[Target(u)] = Empty
      <3>1. store[Target(u)] = Empty
        BY <2>1 DEF IndInv, LocalInv, Filling
      <3>2. Target(u) # n
        BY <1>0, <2>1, <3>1 DEF IndInv, OneFiller
      <3>3. Target(u) \in Versions
        BY <2>1 DEF IndInv, TypeInv, TargetInBound
      <3> QED
        BY <1>6, <3>1, <3>2, <3>3
    <2> QED
      BY <1>1, <2>1, OthersKeep DEF IndInv
  <1> QED
    BY <1>8, <1>10, <1>11, <1>12, <1>13, <1>14, <1>15 DEF IndInv, StoreInv

\* The step that creates the empty file of version Target(t).
LEMMA CreateStep ==
    ASSUME IndInv, TypeInv', NEW t \in Txns, pc[t] = "write",
           Target(t) \in Versions, store[Target(t)] = Absent,
           store' = [store EXCEPT ![Target(t)] = Empty],
           \A u \in Txns \ {t} : Same(u),
           readVersion'[t] = readVersion[t], latestVersion'[t] = latestVersion[t],
           pc'[t] \in {"open", "reload", "fill"},
           UNCHANGED <<cache, committed>>, LocalInv(t)'
    PROVE  IndInv'
  <1> USE ConstAssumption
  <1>0. PICK n \in Versions : n = Target(t)
    OBVIOUS
  <1>1. /\ store'[n] = Empty
        /\ \A v \in Versions \ {n} : store'[v] = store[v]
        /\ \A v \in Versions : Written(v)' <=> Written(v)
        /\ \A v \in Versions : Written(v) => store'[v] = store[v]
    BY <1>0 DEF IndInv, TypeInv, TypeOK, Written
  <1>2. Grows
    BY <1>0, <1>1 DEF Grows
  <1>3. ContiguousVersions'
    <2> SUFFICES ASSUME NEW v \in Versions, NEW w \in 1..v, store'[v] # Absent
                 PROVE  store'[w] # Absent
      BY DEF ContiguousVersions
    <2>1. w \in Versions
      BY DEF Versions
    <2>2. CASE v # n
      BY <1>1, <1>2, <2>1, <2>2 DEF IndInv, StoreInv, ContiguousVersions, Grows
    <2>3. CASE v = n /\ w # n
      <3>1. /\ latestVersion[t] \in Versions
            /\ w \in 1..latestVersion[t]
            /\ store[latestVersion[t]] # Absent
        BY <1>0, <2>1, <2>3 DEF Versions, Target, IndInv, TypeInv, TypeOK, LocalInv,
           Listed
      <3>2. store[w] # Absent
        BY <3>1 DEF IndInv, StoreInv, ContiguousVersions
      <3> QED
        BY <3>2, <2>1, <1>2 DEF Grows
    <2>4. CASE w = n
      BY <2>4, <1>1
    <2> QED
      BY <2>2, <2>3, <2>4
  <1>4. ASSUME NEW v \in Versions, Written(v)
        PROVE  /\ Author(store[v]) \in Txns
               /\ readVersion'[Author(store[v])] = readVersion[Author(store[v])]
               /\ pc'[Author(store[v])] \notin {"idle", "loading"}
    <2>1. store[v] \in Manifests /\ store[v] # << >>
      BY <1>4 DEF IndInv, TypeInv, TypeOK, StoreInv, NoLostUpdate, Written
    <2>2. Author(store[v]) \in Txns
      BY <2>1, AuthorType
    <2> QED
      BY <1>4, <2>2 DEF Same, IndInv, StoreInv, AuthorInv
  <1>5. AuthorInv'
    BY <1>1, <1>4 DEF AuthorInv, IndInv, StoreInv
  <1>6. NoLostUpdate'
    <2> SUFFICES ASSUME NEW v \in Versions, Written(v)'
                 PROVE  /\ store'[v] # << >>
                        /\ BaseOf(v)' < v
                        /\ BaseOf(v)' = 0 \/ Written(BaseOf(v))'
                        /\ store'[v] = Append(Content(BaseOf(v))', Author(store'[v]))
      BY DEF NoLostUpdate
    <2>0. Written(v) /\ store'[v] = store[v]
      BY <1>1
    <2>1. BaseOf(v)' = BaseOf(v) /\ BaseOf(v) \in 0..MaxVersion
      BY <1>4, <2>0 DEF BaseOf, IndInv, TypeInv, TypeOK, Versions
    <2>2. /\ store[v] # << >>
          /\ BaseOf(v) < v
          /\ BaseOf(v) = 0 \/ Written(BaseOf(v))
          /\ store[v] = Append(Content(BaseOf(v)), Author(store[v]))
      BY <2>0 DEF IndInv, StoreInv, NoLostUpdate
    <2>3. BaseOf(v) = 0 \/ BaseOf(v) \in Versions
      BY <2>1 DEF Versions
    <2>4. Content(BaseOf(v))' = Content(BaseOf(v))
      BY <1>1, <2>1, <2>2, <2>3 DEF Content
    <2>5. BaseOf(v)' = 0 \/ Written(BaseOf(v))'
      BY <1>1, <2>1, <2>2, <2>3 DEF Written
    <2> QED
      BY <2>0, <2>1, <2>2, <2>4, <2>5
  <1>7. CommitsStay'
    BY <1>1 DEF CommitsStay, IndInv, StoreInv, TypeInv, TypeOK
  <1>8. CacheExact'
    <2> SUFFICES ASSUME NEW q \in Procs, NEW v \in Versions, cache[q][v] # Absent
                 PROVE  cache[q][v] = store'[v]
      BY DEF CacheExact
    <2>1. cache[q][v] = store[v] /\ cache[q][v] \in Manifests
      BY DEF IndInv, TypeInv, TypeOK, CacheExact
    <2> QED
      BY <1>1, <2>1 DEF Written
  <1>9. ASSUME NEW u \in Txns \ {t}, pc[u] = "fill"
        PROVE  /\ Target(u) # n
               /\ Target(u)' = Target(u)
               /\ store'[Target(u)] = Empty
    <2>1. store[Target(u)] = Empty /\ Target(u) \in Versions
      BY <1>9 DEF IndInv, LocalInv, Filling, TypeInv, TargetInBound
    <2> QED
      BY <1>0, <1>1, <1>9, <2>1 DEF Same, Target
  <1>10. OneFiller'
    <2>1. Target(t)' = n
      BY <1>0 DEF Target
    <2> QED
      BY <1>9, <2>1 DEF IndInv, OneFiller, Same
  <1>11. ASSUME NEW u \in Txns \ {t} PROVE LocalInv(u)'
    BY <1>2, <1>9, OthersKeep DEF IndInv
  <1> QED
    BY <1>3, <1>5, <1>6, <1>7, <1>8, <1>10, <1>11 DEF IndInv, StoreInv

\* How a transaction stands after write_manifest has returned: done, or back
\* at the top of the loop with a version that its last listing did not show.
LEMMA ReplyLocal ==
    ASSUME IndInv, NEW t \in Txns, pc[t] \in {"write", "fill"},
           Target(t) \in Versions, Grows, store'[Target(t)] # Absent,
           UNCHANGED <<opened, latestVersion, resolved>>,
           ReturnCommitted(t) \/ ReturnError(t) \/ ReturnConflict(t)
    PROVE  /\ LocalInv(t)'
           /\ pc'[t] \in {"open", "reload"}
           /\ \A u \in Txns \ {t} : Same(u)
           /\ \A u \in Txns : committed'[u] \subseteq
                 (IF u = t THEN committed[u] \cup {Target(t)} ELSE committed[u])
           /\ ~ ReturnCommitted(t) => committed' = committed
  <1> USE ConstAssumption DEF opened
  <1>1. /\ pc[t] \in Live
        /\ retryCount[t] \in Nat
        /\ readVersion[t] \in 0..MaxVersion
    BY DEF IndInv, TypeInv, TypeOK, Live, InCommit
  <1>2. Known(readVersion[t]) /\ readManifest[t] = Content(readVersion[t])
    BY <1>1 DEF IndInv, LocalInv, Snapshot
  <1>3. Known(readVersion[t])' /\ Content(readVersion[t])' = Content(readVersion[t])
    BY <1>1, <1>2 DEF Known, Content, Written, Grows, Versions
  <1>4. Snapshot(t)'
    BY <1>2, <1>3 DEF Snapshot
  <1>5. Resolver[t] = "Fail" /\ RetryLimit > 0 =>
           /\ outcome[t] # "TxnExhaustedRetry"
           /\ retryCount[t] = 0
           /\ readVersion[t] = latestVersion[t]
    BY DEF IndInv, LocalInv, FailRetry, Listed
  <1>6. Target(t)' = Target(t)
    BY DEF Target
  <1>7. CASE ReturnCommitted(t)
    BY <1>4, <1>5, <1>7 DEF ReturnCommitted, LocalInv, Listed, Pending, Filling,
       Retrying, FailRetry, Same, IndInv, TypeInv, TypeOK
  <1>8. CASE ReturnError(t)
    BY <1>4, <1>5, <1>8 DEF ReturnError, Return, LocalInv, Listed, Pending,
       Filling, Retrying, FailRetry, Same, IndInv, TypeInv, TypeOK
  <1>9. CASE ReturnConflict(t) /\ retryCount[t] + 1 > RetryLimit
    BY <1>1, <1>4, <1>5, <1>9 DEF ReturnConflict, Return, LocalInv, Listed, Pending,
       Filling, Retrying, FailRetry, Same, IndInv, TypeInv, TypeOK
  <1>10. CASE ReturnConflict(t) /\ ~ (retryCount[t] + 1 > RetryLimit)
    BY <1>1, <1>4, <1>5, <1>6, <1>10 DEF ReturnConflict, LocalInv, Listed, Pending,
       Filling, Retrying, FailRetry, Same, IndInv, TypeInv, TypeOK
  <1> QED
    BY <1>7, <1>8, <1>9, <1>10

----------------------------------------------------------------------------
(* The invariant.                                                          *)

LEMMA IndInit == Init => IndInv
  <1> SUFFICES ASSUME Init PROVE IndInv
    OBVIOUS
  <1>1. TypeInv
    BY TypeInit
  <1>2. \A v \in Versions : store[v] = Absent /\ ~ Written(v)
    BY DEF Init, Written
  <1>3. StoreInv
    BY <1>2 DEF StoreInv, ContiguousVersions, AuthorInv, NoLostUpdate, CommitsStay,
       Init
  <1>4. CacheExact /\ OneFiller
    BY DEF Init, CacheExact, OneFiller
  <1>5. ASSUME NEW t \in Txns PROVE LocalInv(t)
    BY DEF Init, LocalInv, Snapshot, Live, InCommit, Listed, Pending, Filling,
       Retrying, FailRetry
  <1> QED
    BY <1>1, <1>3, <1>4, <1>5 DEF IndInv

\* Loading a version gives its manifest in the store, from the cache or not.
LEMMA LoadExact ==
    ASSUME IndInv, NEW p \in Procs, NEW v \in 0..MaxVersion, Loadable(p, v)
    PROVE  /\ Known(v)
           /\ Loaded(p, v) = Content(v)
           /\ cache' = CacheAfterLoad(p, v) /\ store' = store => CacheExact'
  <1> USE ConstAssumption
  <1>1. v # 0 => v \in Versions
    BY DEF Versions
  <1>2. Known(v) /\ Loaded(p, v) = Content(v)
    BY <1>1 DEF IndInv, TypeInv, TypeOK, CacheExact, Loadable, Loaded, Known,
       Written, Content
  <1>3. ASSUME cache' = CacheAfterLoad(p, v), store' = store
        PROVE  CacheExact'
    BY <1>1, <1>2, <1>3 DEF CacheAfterLoad, CacheExact, IndInv, TypeInv, TypeOK,
       Content
  <1> QED
    BY <1>2, <1>3

LEMMA IndStep ==
    ASSUME Conditional, IndInv, [Next]_vars
    PROVE  IndInv'
  <1> USE ConstAssumption DEF opened, loop
  <1>0. TypeInv'
    BY TypeStep DEF IndInv
  <1> DEFINE Kept(t) == \A u \in Txns \ {t} : Same(u)
  <1>1. ASSUME NEW t \in Txns, OpenLatest(t) PROVE IndInv'
    <2>1. LocalInv(t)' /\ Kept(t) /\ pc'[t] = "loading"
      BY <1>1 DEF OpenLatest, LocalInv, Snapshot, Live, InCommit, Listed, Pending,
         Filling, Retrying, FailRetry, Same, IndInv, TypeInv, TypeOK
    <2> QED
      BY <1>0, <1>1, <2>1, QuietStep DEF OpenLatest, IndInv, CacheExact
  <1>2. ASSUME NEW t \in Txns, NEW v \in 0..MaxVersion, OpenAt(t, v) PROVE IndInv'
    <2>1. LocalInv(t)' /\ Kept(t) /\ pc'[t] = "loading"
      BY <1>2 DEF OpenAt, LocalInv, Snapshot, Live, InCommit, Listed, Pending,
         Filling, Retrying, FailRetry, Same, IndInv, TypeInv, TypeOK
    <2> QED
      BY <1>0, <1>2, <2>1, QuietStep DEF OpenAt, IndInv, CacheExact
  <1>3. ASSUME NEW t \in Txns, OpenLoad(t) PROVE IndInv'
    <2>1. ProcOf[t] \in Procs /\ readVersion[t] \in 0..MaxVersion
      BY DEF IndInv, TypeInv, TypeOK
    <2>2. /\ Known(readVersion[t])
          /\ Loaded(ProcOf[t], readVersion[t]) = Content(readVersion[t])
          /\ CacheExact'
      BY <1>3, <2>1, LoadExact DEF OpenLoad
    <2>3. /\ pc'[t] = "open"
          /\ readManifest'[t] = Content(readVersion[t])
          /\ readVersion' = readVersion
          /\ Kept(t)
      BY <1>3, <2>2 DEF OpenLoad, Same, IndInv, TypeInv, TypeOK
    <2>4. Snapshot(t)'
      BY <1>3, <2>2, <2>3 DEF OpenLoad, Snapshot, Known, Written, Content
    <2>5. LocalInv(t)'
      BY <1>3, <2>3, <2>4 DEF OpenLoad, LocalInv, Listed, Pending, Filling, Retrying,
         FailRetry, IndInv
    <2> QED
      BY <1>0, <1>3, <2>2, <2>3, <2>5, QuietStep DEF OpenLoad
  <1>4. ASSUME NEW t \in Txns, OpenFail(t) PROVE IndInv'
    <2>1. LocalInv(t)' /\ Kept(t) /\ pc'[t] = "idle"
      BY <1>4 DEF OpenFail, LocalInv, Snapshot, Live, InCommit, Listed, Pending,
         Filling, Retrying, FailRetry, Same, IndInv, TypeInv, TypeOK
    <2> QED
      BY <1>0, <1>4, <2>1, QuietStep DEF OpenFail, IndInv, CacheExact
  <1>5. ASSUME NEW t \in Txns, RecordUpdate(t) PROVE IndInv'
    <2>1. LocalInv(t)' /\ Kept(t)
      BY <1>5 DEF RecordUpdate, LocalInv, Snapshot, Known, Written, Content, Listed,
         Pending, Filling, Retrying, FailRetry, Same, IndInv, TypeInv, TypeOK
    <2> QED
      BY <1>0, <1>5, <2>1, QuietStep DEF RecordUpdate, IndInv, CacheExact
  <1>6. ASSUME NEW t \in Txns, Commit(t) PROVE IndInv'
    <2>1. Snapshot(t)' /\ Kept(t) /\ pc'[t] = "reload"
      BY <1>6 DEF Commit, LocalInv, Snapshot, Live, InCommit, Known, Written,
         Content, Same, IndInv, TypeInv, TypeOK
    <2>2. LocalInv(t)'
      BY <1>6, <2>1 DEF Commit, LocalInv, Listed, Pending, Filling, Retrying,
         FailRetry, IndInv, TypeInv, TypeOK
    <2> QED
      BY <1>0, <1>6, <2>1, <2>2, QuietStep DEF Commit, IndInv, CacheExact
  <1>7. ASSUME NEW t \in Txns, CommitNothing(t) PROVE IndInv'
    <2>1. Snapshot(t)' /\ Kept(t) /\ pc'[t] = "open"
      BY <1>7 DEF CommitNothing, LocalInv, Snapshot, Live, InCommit, Known, Written,
         Content, Same, IndInv, TypeInv, TypeOK
    <2>2. LocalInv(t)'
      BY <1>7, <2>1 DEF CommitNothing, LocalInv, Listed, Pending, Filling, Retrying,
         FailRetry, IndInv, TypeInv, TypeOK
    <2> QED
      BY <1>0, <1>7, <2>1, <2>2, QuietStep DEF CommitNothing, IndInv, CacheExact
  <1>8. ASSUME NEW t \in Txns, ReloadUnchanged(t) PROVE IndInv'
    <2>1. /\ Known(readVersion[t])
          /\ readManifest[t] = Content(readVersion[t])
      BY <1>8 DEF ReloadUnchanged, IndInv, LocalInv, Snapshot, Live, InCommit
    <2>2. /\ pc'[t] = "write" /\ Kept(t)
          /\ latestVersion'[t] = readVersion[t]
          /\ resolved'[t] = ApplyUpdates(Content(readVersion[t]), t)
          /\ UNCHANGED <<store, readVersion, readManifest, retryCount, outcome>>
      BY <1>8, <2>1 DEF ReloadUnchanged, Resolve, Same, IndInv, TypeInv, TypeOK
    <2>3. Base(t)' = readVersion[t]
      BY <2>2 DEF Base
    <2>4. Pending(t)' /\ Snapshot(t)' /\ Listed(t)'
      BY <2>1, <2>2, <2>3 DEF Pending, Snapshot, Listed, Known, Written, Content,
         ApplyUpdates, IndInv, TypeInv, TypeOK
    <2>5. ASSUME Resolver[t] = "Fail", RetryLimit > 0 PROVE retryCount[t] = 0
      <3>1. readVersion[t] \in 0..MaxVersion /\ retryCount[t] \in Nat
        BY DEF IndInv, TypeInv, TypeOK
      <3>2. ASSUME retryCount[t] > 0
            PROVE  readVersion[t] + 1 \in Versions /\ store[readVersion[t] + 1] # Absent
        BY <1>8, <2>5, <3>2 DEF ReloadUnchanged, IndInv, LocalInv, FailRetry, Retrying,
           Target
      <3>3. readVersion[t] + 1 \in Versions => store[readVersion[t] + 1] = Absent
        BY <1>8, <3>1 DEF ReloadUnchanged, IsLatest
      <3> QED
        BY <3>1, <3>2, <3>3
    <2>6. LocalInv(t)'
      BY <2>2, <2>4, <2>5 DEF LocalInv, Filling, Retrying, FailRetry, IndInv
    <2> QED
      BY <1>0, <1>8, <2>2, <2>6, QuietStep DEF ReloadUnchanged, Resolve, IndInv,
         CacheExact
  <1>9. ASSUME NEW t \in Txns, ReloadOverwrite(t) PROVE IndInv'
    <2>1. /\ Known(readVersion[t])
          /\ readManifest[t] = Content(readVersion[t])
      BY <1>9 DEF ReloadOverwrite, Drift, IndInv, LocalInv, Snapshot, Live, InCommit
    <2>2. PICK n \in 0..MaxVersion : Drift(t, n)
      BY <1>9 DEF ReloadOverwrite
    <2>3. /\ pc'[t] = "write" /\ Kept(t)
          /\ latestVersion'[t] = n
          /\ resolved'[t] = ApplyUpdates(Content(readVersion[t]), t)
          /\ UNCHANGED <<store, readVersion, readManifest, retryCount, outcome>>
          /\ Resolver[t] = "Overwrite"
      BY <1>9, <2>1, <2>2 DEF ReloadOverwrite, Drift, Resolve, Same, IndInv, TypeInv,
         TypeOK
    <2>4. readVersion[t] <= n /\ (n # 0 => store[n] # Absent)
      BY <2>1, <2>2 DEF Drift, IsLatest, Known, Written, IndInv, TypeInv, TypeOK,
         Versions
    <2>5. Base(t)' = readVersion[t]
      BY <2>3 DEF Base
    <2>6. Pending(t)' /\ Snapshot(t)' /\ Listed(t)'
      BY <2>1, <2>3, <2>4, <2>5 DEF Pending, Snapshot, Listed, Known, Written,
         Content, ApplyUpdates
    <2>7. LocalInv(t)'
      BY <2>3, <2>6 DEF LocalInv, Filling, Retrying, FailRetry
    <2> QED
      BY <1>0, <1>9, <2>3, <2>7, QuietStep DEF ReloadOverwrite, Resolve, IndInv,
         CacheExact
  <1>10. ASSUME NEW t \in Txns, ReloadFail(t) PROVE IndInv'
    <2>1. Snapshot(t)' /\ Kept(t) /\ pc'[t] = "open"
      BY <1>10 DEF ReloadFail, Drift, Return, LocalInv, Snapshot, Live, InCommit,
         Known, Written, Content, Same, IndInv, TypeInv, TypeOK
    <2>2. LocalInv(t)'
      BY <1>10, <2>1 DEF ReloadFail, Drift, Return, LocalInv, Listed, Pending,
         Filling, Retrying, FailRetry, IndInv, TypeInv, TypeOK
    <2> QED
      BY <1>0, <1>10, <2>1, <2>2, QuietStep DEF ReloadFail, Return, IndInv,
         CacheExact
  <1>11. ASSUME NEW t \in Txns, ReloadNeedsLatest(t) PROVE IndInv'
    <2>1. Snapshot(t)' /\ Kept(t) /\ pc'[t] = "loadLatest"
      BY <1>11 DEF ReloadNeedsLatest, Drift, LocalInv, Snapshot, Live, InCommit,
         Known, Written, Content, Same, IndInv, TypeInv, TypeOK
    <2>2. Listed(t)'
      BY <1>11, <2>1 DEF ReloadNeedsLatest, Drift, IsLatest, RequireLatest, Listed,
         IndInv, TypeInv, TypeOK
    <2>3. LocalInv(t)'
      BY <1>11, <2>1, <2>2 DEF ReloadNeedsLatest, RequireLatest, LocalInv, Pending,
         Filling, Retrying, FailRetry
    <2> QED
      BY <1>0, <1>11, <2>1, <2>3, QuietStep DEF ReloadNeedsLatest, IndInv,
         CacheExact
  <1>12. ASSUME NEW t \in Txns, LoadLatest(t) PROVE IndInv'
    <2>1. ProcOf[t] \in Procs /\ latestVersion[t] \in 0..MaxVersion
      BY DEF IndInv, TypeInv, TypeOK
    <2>2. /\ Known(latestVersion[t])
          /\ Loaded(ProcOf[t], latestVersion[t]) = Content(latestVersion[t])
          /\ CacheExact'
      BY <1>12, <2>1, LoadExact DEF LoadLatest
    <2>3. /\ pc'[t] = "write" /\ Kept(t)
          /\ resolved'[t] = ApplyUpdates(Content(latestVersion[t]), t)
          /\ UNCHANGED <<store, readVersion, readManifest, latestVersion, retryCount,
                         outcome>>
          /\ Resolver[t] = "Rebase"
      BY <1>12, <2>2 DEF LoadLatest, Resolve, Same, IndInv, TypeInv, TypeOK,
         LocalInv, Listed
    <2>4. Base(t)' = latestVersion[t]
      BY <2>3 DEF Base
    <2>5. Pending(t)'
      BY <2>1, <2>2, <2>3, <2>4 DEF Pending, Known, Written, Content, ApplyUpdates
    <2>6. Snapshot(t)' /\ Listed(t)'
      BY <1>12, <2>3 DEF LoadLatest, Snapshot, Live, InCommit, Listed, Known, Written,
         Content, IndInv, LocalInv
    <2>7. LocalInv(t)'
      BY <2>3, <2>5, <2>6 DEF LocalInv, Filling, Retrying, FailRetry
    <2> QED
      BY <1>0, <1>12, <2>2, <2>3, <2>7, QuietStep DEF LoadLatest, Resolve
  <1>13. ASSUME NEW t \in Txns, CommitError(t) PROVE IndInv'
    <2>1. Snapshot(t)' /\ Kept(t) /\ pc'[t] = "open"
      BY <1>13 DEF CommitError, ReturnError, Return, LocalInv, Snapshot, Live,
         InCommit, Known, Written, Content, Same, IndInv, TypeInv, TypeOK
    <2>2. LocalInv(t)'
      BY <1>13, <2>1 DEF CommitError, ReturnError, Return, LocalInv, Listed, Pending,
         Filling, Retrying, FailRetry, IndInv, TypeInv, TypeOK
    <2> QED
      BY <1>0, <1>13, <2>1, <2>2, QuietStep DEF CommitError, ReturnError, Return,
         InCommit, IndInv, CacheExact
  <1>14. ASSUME NEW t \in Txns, PutIfAbsent(t) PROVE IndInv'
    <2>1. ~ Written(Target(t)) /\ resolved[t] # Absent
      BY <1>14 DEF PutIfAbsent, Written, IndInv, TypeInv, TypeOK
    <2>2. Grows /\ store'[Target(t)] # Absent
      BY <1>14, <2>1 DEF PutIfAbsent, Grows, Written, IndInv, TypeInv, TypeOK
    <2>3. /\ LocalInv(t)'
          /\ pc'[t] \in {"open", "reload"}
          /\ Kept(t)
          /\ \A u \in Txns : committed'[u] \subseteq
                (IF u = t THEN committed[u] \cup {Target(t)} ELSE committed[u])
      BY <1>14, <2>2, ReplyLocal DEF PutIfAbsent, Unwritten
    <2> QED
      BY <1>0, <1>14, <2>1, <2>3, WriteStep DEF PutIfAbsent, Unwritten
  <1>15. ASSUME NEW t \in Txns, CreateEmpty(t) PROVE IndInv'
    <2>1. Grows /\ store'[Target(t)] = Empty
      BY <1>15 DEF CreateEmpty, Grows, Written, IndInv, TypeInv, TypeOK
    <2>2. CASE pc' = [pc EXCEPT ![t] = "fill"] /\ UNCHANGED <<outcome, committed, retryCount>>
      <3>1. /\ Kept(t) /\ pc[t] = "write" /\ pc'[t] = "fill"
            /\ UNCHANGED <<readVersion, readManifest, latestVersion, resolved,
                           retryCount, outcome>>
        BY <1>15, <2>2 DEF CreateEmpty, Unwritten, Same, IndInv, TypeInv, TypeOK
      <3>2. /\ readVersion[t] \in 0..MaxVersion
            /\ latestVersion[t] \in 0..MaxVersion
            /\ Base(t) \in 0..MaxVersion /\ Base(t)' = Base(t)
            /\ Target(t)' = Target(t)
        BY <3>1 DEF Base, Target, IndInv, TypeInv, TypeOK
      <3>3. ASSUME NEW v \in 0..MaxVersion, Known(v)
            PROVE  Known(v)' /\ Content(v)' = Content(v)
        BY <2>1, <3>3 DEF Grows, Known, Content, Written, Versions
      <3>4. Snapshot(t)'
        BY <3>1, <3>2, <3>3 DEF IndInv, LocalInv, Snapshot, Live, InCommit
      <3>5. Listed(t)'
        BY <2>1, <3>1, <3>2 DEF IndInv, LocalInv, Listed, Grows, Versions
      <3>6. Pending(t)'
        BY <3>1, <3>2, <3>3 DEF IndInv, LocalInv, Pending, ApplyUpdates
      <3>7. LocalInv(t)'
        BY <2>1, <3>1, <3>2, <3>4, <3>5, <3>6 DEF IndInv, LocalInv, Filling, Retrying,
           FailRetry
      <3> QED
        BY <1>0, <1>15, <2>2, <3>1, <3>7, CreateStep DEF CreateEmpty, Unwritten
    <2>3. CASE ReturnError(t) \/ ReturnConflict(t)
      <3>1. committed' = committed
        BY <2>3 DEF ReturnError, ReturnConflict, Return
      <3>2. /\ LocalInv(t)'
            /\ pc'[t] \in {"open", "reload"}
            /\ Kept(t)
        BY <1>15, <2>1, <2>3, ReplyLocal DEF CreateEmpty, Unwritten
      <3> QED
        BY <1>0, <1>15, <3>1, <3>2, CreateStep DEF CreateEmpty, Unwritten
    <2> QED
      BY <1>15, <2>2, <2>3 DEF CreateEmpty
  <1>16. ASSUME NEW t \in Txns, Fill(t) PROVE IndInv'
    <2>1. /\ Target(t) \in Versions
          /\ ~ Written(Target(t))
          /\ resolved[t] # Absent
      BY <1>16 DEF Fill, Written, IndInv, TypeInv, TypeOK, TargetInBound, LocalInv,
         Filling
    <2>2. Grows /\ store'[Target(t)] # Absent
      BY <1>16, <2>1 DEF Fill, Grows, Written, IndInv, TypeInv, TypeOK
    <2>3. /\ LocalInv(t)'
          /\ pc'[t] \in {"open", "reload"}
          /\ Kept(t)
          /\ \A u \in Txns : committed'[u] \subseteq
                (IF u = t THEN committed[u] \cup {Target(t)} ELSE committed[u])
      BY <1>16, <2>1, <2>2, ReplyLocal DEF Fill, Unwritten
    <2> QED
      BY <1>0, <1>16, <2>1, <2>3, WriteStep DEF Fill, Unwritten
  <1>17. ASSUME NEW t \in Txns, CheckAbsent(t) \/ PutAnyway(t) PROVE IndInv'
    BY <1>17 DEF CheckAbsent, PutAnyway, Conditional, IndInv, LocalInv
  <1>18. ASSUME NEW t \in Txns, WriteConflict(t) PROVE IndInv'
    <2>1. Grows
      BY <1>18 DEF WriteConflict, Grows
    <2>2. /\ LocalInv(t)'
          /\ pc'[t] \in {"open", "reload"}
          /\ Kept(t)
      BY <1>18, <2>1, ReplyLocal DEF WriteConflict, Unwritten
    <2>3. committed' = committed
      BY <1>18 DEF WriteConflict, ReturnConflict, Return
    <2> QED
      BY <1>0, <1>18, <2>2, <2>3, QuietStep DEF WriteConflict, Unwritten, IndInv,
         CacheExact
  <1>19. ASSUME NEW p \in Procs, Environment(p) PROVE IndInv'
    <2> DEFINE Forgets ==
                 /\ UNCHANGED <<store, committed, readVersion, readManifest,
                                latestVersion, resolved, retryCount, outcome>>
                 /\ \A u \in Txns :
                       pc'[u] = pc[u] \/ (pc[u] # "idle" /\ pc'[u] = "dead")
                 /\ \A q \in Procs, v \in Versions :
                       cache'[q][v] = cache[q][v] \/ cache'[q][v] = Absent
    <2>1. Forgets
      <3>1. ASSUME NEW v \in Versions, Evict(p, v) PROVE Forgets
        BY <3>1 DEF Evict, IndInv, TypeInv, TypeOK
      <3>2. CASE CleanCache(p)
        BY <3>2 DEF CleanCache, IndInv, TypeInv, TypeOK
      <3>3. CASE Crash(p)
        BY <3>3 DEF Crash, IndInv, TypeInv, TypeOK
      <3> QED
        BY <1>19, <3>1, <3>2, <3>3 DEF Environment
    <2>2. CacheExact'
      BY <2>1 DEF IndInv, CacheExact
    <2>3. Settled /\ Grows
      BY <2>1 DEF Settled, Grows
    <2>4. OneFiller'
      BY <2>1 DEF IndInv, OneFiller, Target
    <2>5. ASSUME NEW u \in Txns PROVE LocalInv(u)'
      <3>1. CASE pc'[u] = pc[u]
        BY <2>1, <2>3, <3>1, OthersKeep DEF Same, IndInv, LocalInv, Filling
      <3>2. CASE pc'[u] = "dead"
        BY <2>1, <3>2 DEF IndInv, LocalInv, Snapshot, Live, InCommit, Listed, Pending,
           Filling, Retrying, FailRetry
      <3> QED
        BY <2>1, <3>1, <3>2
    <2> QED
      BY <1>0, <2>1, <2>2, <2>3, <2>4, <2>5, StoreKept DEF IndInv
  <1>20. CASE UNCHANGED vars
    <2>1. Settled /\ Grows /\ \A u \in Txns : Same(u)
      BY <1>20 DEF vars, Settled, Grows, Same
    <2>2. ASSUME NEW u \in Txns PROVE LocalInv(u)'
      BY <1>20, <2>1, OthersKeep DEF vars, IndInv, LocalInv, Filling
    <2>3. CacheExact' /\ OneFiller'
      BY <1>20 DEF vars, IndInv, CacheExact, OneFiller, Target
    <2> QED
      BY <1>0, <1>20, <2>1, <2>2, <2>3, StoreKept DEF vars, IndInv
  <1> QED
    BY <1>1, <1>2, <1>3, <1>4, <1>5, <1>6, <1>7, <1>8, <1>9, <1>10, <1>11, <1>12,
       <1>13, <1>14, <1>15, <1>16, <1>17, <1>18, <1>19, <1>20
       DEF Next, Step, Open, CommitStep, Reload, WriteTo

\* The inductive invariant holds throughout, where the write is
\* conditional.
LEMMA Safety == Spec => [](Conditional => IndInv)
  <1>1. Init => (Conditional => IndInv)
    BY IndInit
  <1>2. (Conditional => IndInv) /\ [Next]_vars => (Conditional => IndInv)'
    BY IndStep, KindKept DEF Conditional
  <1> QED
    BY <1>1, <1>2, PTL DEF Spec

----------------------------------------------------------------------------
(* What follows from it, for a store whose write is conditional.           *)

\* No commit drops the updates of a version it was not asked to overwrite:
\* the listing, the resolver's base and the conditional write fit together.
THEOREM CommitsLoseNoUpdate == Spec => [](Conditional => NoLostUpdate)
  BY Safety, PTL DEF IndInv, StoreInv

\* However often Commit is called on a FailResolver transaction, and however
\* many answers are lost, its updates enter the table at most once.
THEOREM FailCommitsAtMostOnce == Spec => [](Conditional => FailCommitsOnce)
  <1>1. IndInv => FailCommitsOnce
    <2> SUFFICES ASSUME IndInv, NEW v \in Versions, NEW w \in Versions,
                        Written(v), Written(w),
                        Author(store[v]) = Author(store[w]),
                        Resolver[Author(store[v])] = "Fail"
                 PROVE  v = w
      BY DEF FailCommitsOnce
    <2>1. /\ readVersion[Author(store[v])] = v - 1
          /\ readVersion[Author(store[v])] = w - 1
      BY DEF IndInv, StoreInv, AuthorInv
    <2> QED
      BY <2>1 DEF Versions
  <1> QED
    BY <1>1, Safety, PTL

\* A version that Commit has returned stays the caller's.
THEOREM CommitsAreDurable == Spec => []DurableCommit
  BY Safety, PTL DEF IndInv, StoreInv, DurableCommit

\* A transaction sees the version it read as long as it lives.
THEOREM SnapshotsAreStable == Spec => []SnapshotIsolation
  <1>1. (Conditional => IndInv) => SnapshotIsolation
    BY DEF IndInv, LocalInv, Snapshot, Known, SnapshotIsolation
  <1> QED
    BY <1>1, Safety, PTL

\* The manifest cache, which nothing invalidates, is never stale.
THEOREM CacheIsNeverStale == Spec => []CacheCoherent
  BY Safety, PTL DEF IndInv, CacheCoherent

\* Commit starts another iteration only after another commit took effect, and
\* FailResolver never exhausts its retries: it reports a lost race as such.
THEOREM RetriesAreJustified == Spec => [](Conditional => RetriesJustified)
  <1>1. IndInv => RetryMeansProgress
    BY DEF IndInv, LocalInv, Retrying, RetryMeansProgress
  <1>2. IndInv => FailNeverExhausts
    BY DEF IndInv, LocalInv, FailRetry, FailNeverExhausts
  <1> QED
    BY <1>1, <1>2, Safety, PTL DEF RetriesJustified

\* No step changes a manifest that has been written.
THEOREM ManifestsNeverChange == Spec => ManifestsImmutable
  <1>1. ASSUME Conditional => IndInv, [Next]_vars
        PROVE  [Conditional => \A v \in Versions : Written(v) => store'[v] = store[v]]_vars
    <2> SUFFICES ASSUME Conditional, NEW v \in Versions, Written(v)
                 PROVE  store'[v] = store[v]
      OBVIOUS
    <2>1. CASE store' = store
      BY <2>1
    <2>2. ASSUME NEW t \in Txns, PutIfAbsent(t) PROVE store'[v] = store[v]
      BY <1>1, <2>2 DEF PutIfAbsent, Written, IndInv, TypeInv, TypeOK
    <2>3. ASSUME NEW t \in Txns, CreateEmpty(t) PROVE store'[v] = store[v]
      BY <1>1, <2>3 DEF CreateEmpty, Written, IndInv, TypeInv, TypeOK
    <2>4. ASSUME NEW t \in Txns, Fill(t) PROVE store'[v] = store[v]
      BY <1>1, <2>4 DEF Fill, Written, IndInv, TypeInv, TypeOK, LocalInv, Filling
    <2>5. ASSUME NEW t \in Txns, PutAnyway(t) PROVE store'[v] = store[v]
      BY <1>1, <2>5 DEF PutAnyway, IndInv, LocalInv
    <2>6. ASSUME store' # store
          PROVE  \E t \in Txns :
                    PutIfAbsent(t) \/ CreateEmpty(t) \/ Fill(t) \/ PutAnyway(t)
      <3>1. ASSUME NEW t \in Txns, Step(t)
            PROVE  PutIfAbsent(t) \/ CreateEmpty(t) \/ Fill(t) \/ PutAnyway(t)
        BY <2>6, <3>1 DEF Step, Open, OpenLatest, OpenAt, OpenLoad, OpenFail,
           RecordUpdate, Commit, CommitNothing, CommitStep, Reload, ReloadUnchanged,
           ReloadOverwrite, ReloadFail, ReloadNeedsLatest, LoadLatest, CommitError,
           WriteTo, CheckAbsent, WriteConflict
      <3>2. ASSUME NEW p \in Procs PROVE ~ Environment(p)
        BY <2>6 DEF Environment, Evict, CleanCache, Crash
      <3> QED
        BY <1>1, <2>6, <3>1, <3>2 DEF Next, vars
    <2> QED
      BY <2>1, <2>2, <2>3, <2>4, <2>5, <2>6
  <1> QED
    BY <1>1, Safety, PTL DEF Spec, ManifestsImmutable
=============================================================================

-------------------- MODULE TransactionRefinementProofs --------------------
(***************************************************************************)
(* On a store with an atomic if-absent PUT the commit protocol implements  *)
(* the append-only log of ManifestLog.  Three kinds of steps are visible   *)
(* in the log: a transaction opens (Begin), a PUT takes effect (Commit), a *)
(* process dies (End).  The inductive invariant of TransactionProofs says  *)
(* what the PUT needs: the directory is versions 1..latest_version without *)
(* a gap, and the manifest to be written is built on the allowed version.  *)
(***************************************************************************)
EXTENDS TransactionProofs, SequenceTheorems

\* No file is ever filled, or written without a condition.
OnlyPuts == \A t \in Txns : pc[t] \notin {"fill", "put"}

LEMMA PutsOnly ==
    ASSUME kind = "PutIfAbsent", TypeOK, OnlyPuts, [Next]_vars
    PROVE  OnlyPuts'
  <1> USE DEF OnlyPuts, TypeOK
  <1>1. ASSUME NEW t \in Txns, Open(t) PROVE OnlyPuts'
    BY <1>1 DEF Open, OpenLatest, OpenAt, OpenLoad, OpenFail
  <1>2. ASSUME NEW t \in Txns, RecordUpdate(t) \/ Commit(t) \/ CommitNothing(t)
        PROVE  OnlyPuts'
    BY <1>2 DEF RecordUpdate, Commit, CommitNothing
  <1>3. ASSUME NEW t \in Txns, Reload(t) PROVE OnlyPuts'
    BY <1>3 DEF Reload, ReloadUnchanged, ReloadOverwrite, ReloadFail,
       ReloadNeedsLatest, Resolve, Return
  <1>4. ASSUME NEW t \in Txns, LoadLatest(t) \/ CommitError(t) PROVE OnlyPuts'
    BY <1>4 DEF LoadLatest, CommitError, Resolve, ReturnError, Return
  <1>5. ASSUME NEW t \in Txns, WriteTo(t) PROVE OnlyPuts'
    BY <1>5 DEF WriteTo, PutIfAbsent, CreateEmpty, Fill, CheckAbsent, PutAnyway,
       WriteConflict, ReturnCommitted, ReturnError, ReturnConflict, Return
  <1>6. ASSUME NEW p \in Procs, Environment(p) PROVE OnlyPuts'
    BY <1>6 DEF Environment, Evict, CleanCache, Crash
  <1>7. CASE UNCHANGED vars
    BY <1>7 DEF vars
  <1> QED
    BY <1>1, <1>2, <1>3, <1>4, <1>5, <1>6, <1>7 DEF Next, Step, CommitStep

----------------------------------------------------------------------------
(* The log at the moment of a write.                                       *)

\* When a transaction finds the version after its listing free, the files of
\* the directory are exactly the versions up to its listing.
LEMMA LogBeforeWrite ==
    ASSUME IndInv, NEW t \in Txns, pc[t] = "write", Target(t) \in Versions,
           store[Target(t)] = Absent
    PROVE  /\ {w \in Versions : store[w] # Absent} = 1..latestVersion[t]
           /\ Log \in Seq(Manifests \cup {Empty})
           /\ Len(Log) = latestVersion[t]
  <1> USE ConstAssumption
  <1>1. /\ latestVersion[t] \in 0..MaxVersion
        /\ latestVersion[t] # 0 => store[latestVersion[t]] # Absent
        /\ Target(t) = latestVersion[t] + 1
    BY DEF IndInv, TypeInv, TypeOK, LocalInv, Listed, Target
  <1>2. ASSUME NEW w \in Versions, w <= latestVersion[t] PROVE store[w] # Absent
    <2>1. latestVersion[t] \in Versions /\ w \in 1..latestVersion[t]
      BY <1>1, <1>2 DEF Versions
    <2> QED
      BY <1>1, <2>1 DEF IndInv, StoreInv, ContiguousVersions, Versions
  <1>3. ASSUME NEW w \in Versions, w > latestVersion[t] PROVE store[w] = Absent
    <2>1. Target(t) \in 1..w
      BY <1>1, <1>3 DEF Versions
    <2> QED
      BY <2>1 DEF IndInv, StoreInv, ContiguousVersions
  <1>4. {w \in Versions : store[w] # Absent} = 1..latestVersion[t]
    BY <1>1, <1>2, <1>3 DEF Versions
  <1>5. Log = [v \in 1..latestVersion[t] |-> store[v]]
    BY <1>4 DEF Log
  <1>6. \A v \in 1..latestVersion[t] : store[v] \in Manifests \cup {Empty}
    BY <1>1, <1>2 DEF IndInv, TypeInv, TypeOK, Versions
  <1>7. Log \in [1..latestVersion[t] -> Manifests \cup {Empty}]
    BY <1>5, <1>6
  <1>8. latestVersion[t] \in Nat
    BY <1>1
  <1>9. Log \in Seq(Manifests \cup {Empty})
    BY <1>7, <1>8, SeqDef
  <1> QED
    BY <1>4, <1>7, <1>8, <1>9, LenProperties

\* A PUT that takes effect appends the written manifest to the log.
LEMMA PutAppends ==
    ASSUME IndInv, NEW t \in Txns, PutIfAbsent(t)
    PROVE  Log' = Append(Log, resolved[t])
  <1> USE ConstAssumption
  <1>1. PICK n \in 0..MaxVersion : n = latestVersion[t]
    BY DEF IndInv, TypeInv, TypeOK
  <1>2. /\ n + 1 \in Versions
        /\ store[n + 1] = Absent
        /\ store' = [store EXCEPT ![n + 1] = resolved[t]]
    BY <1>1 DEF PutIfAbsent, Target
  <1>3. /\ {w \in Versions : store[w] # Absent} = 1..n
        /\ Log \in Seq(Manifests \cup {Empty})
        /\ Len(Log) = n
    BY <1>1, LogBeforeWrite DEF PutIfAbsent
  <1>4. resolved[t] \in Manifests
    BY DEF IndInv, TypeInv, TypeOK
  <1>5. /\ \A v \in Versions \ {n + 1} : store'[v] = store[v]
        /\ store'[n + 1] = resolved[t]
    BY <1>2 DEF IndInv, TypeInv, TypeOK
  <1>6. {w \in Versions : store'[w] # Absent} = 1..(n + 1)
    <2>1. ASSUME NEW w PROVE w \in {x \in Versions : store'[x] # Absent} <=> w \in 1..(n + 1)
      <3>1. w \in 1..(n + 1) <=> w \in 1..n \/ w = n + 1
        OBVIOUS
      <3>2. w \in 1..n <=> w \in Versions /\ store[w] # Absent
        BY <1>3
      <3>3. resolved[t] # Absent
        BY <1>4
      <3> QED
        BY <1>2, <1>5, <3>1, <3>2, <3>3
    <2> QED
      BY <2>1
  <1>7. Log' = [v \in 1..(n + 1) |-> store'[v]]
    BY <1>6 DEF Log
  <1>8. Log = [v \in 1..n |-> store[v]]
    BY <1>3 DEF Log
  <1>9. \A v \in 1..n : v \in Versions \ {n + 1}
    BY <1>2 DEF Versions
  <1>10. \A v \in 1..n : Log'[v] = Log[v]
    BY <1>5, <1>7, <1>8, <1>9
  <1>11. Log'[n + 1] = resolved[t]
    BY <1>5, <1>7
  <1>12. /\ Append(Log, resolved[t]) \in Seq(Manifests \cup {Empty})
         /\ Len(Append(Log, resolved[t])) = n + 1
         /\ \A i \in 1..n : Append(Log, resolved[t])[i] = Log[i]
         /\ Append(Log, resolved[t])[n + 1] = resolved[t]
    BY <1>3, <1>4, AppendProperties
  <1>13. /\ DOMAIN Append(Log, resolved[t]) = 1..(n + 1)
         /\ Append(Log, resolved[t]) \in [1..(n + 1) -> Manifests \cup {Empty}]
    BY <1>12, LenProperties
  <1>14. \A i \in 1..(n + 1) : Log'[i] = Append(Log, resolved[t])[i]
    BY <1>10, <1>11, <1>12
  <1>15. Append(Log, resolved[t]) = [i \in 1..(n + 1) |-> Append(Log, resolved[t])[i]]
    BY <1>13
  <1> QED
    BY <1>7, <1>14, <1>15

----------------------------------------------------------------------------
(* The steps.                                                              *)

\* A step that leaves the files, the answers and the set of live transactions
\* alone is not visible in the log.
LEMMA Invisible ==
    ASSUME UNCHANGED <<store, committed>>,
           \A u \in Txns : /\ pc'[u] \in Live <=> pc[u] \in Live
                           /\ pc[u] \in Live => readVersion'[u] = readVersion[u]
    PROVE  UNCHANGED Table!logVars
  <1>1. Log' = Log
    BY DEF Log
  <1>2. Snapshots' = Snapshots
    BY DEF Snapshots
  <1> QED
    BY <1>1, <1>2 DEF Table!logVars

\* Open shows the log one of its versions.
LEMMA OpenBegins ==
    ASSUME IndInv, NEW t \in Txns, OpenLoad(t)
    PROVE  \E v \in Table!Existing : Table!Begin(t, v)
  <1> USE ConstAssumption
  <1>1. ProcOf[t] \in Procs /\ readVersion[t] \in 0..MaxVersion
    BY DEF IndInv, TypeInv, TypeOK
  <1>2. Known(readVersion[t])
    BY <1>1, LoadExact DEF OpenLoad
  <1>3. readVersion[t] \in Table!Existing
    BY <1>1, <1>2 DEF Table!Existing, Log, Known, Written, Versions
  <1>4. Snapshots[t] = Absent
    BY DEF Snapshots, OpenLoad, Live, InCommit
  <1>5. Snapshots' = [Snapshots EXCEPT ![t] = readVersion[t]]
    BY DEF Snapshots, OpenLoad, Live, InCommit, IndInv, TypeInv, TypeOK
  <1>6. Log' = Log /\ committed' = committed
    BY DEF Log, OpenLoad
  <1>7. Table!Begin(t, readVersion[t])
    BY <1>4, <1>5, <1>6 DEF Table!Begin
  <1> QED
    BY <1>3, <1>7

\* A PUT that takes effect is a commit, whatever the caller is told.
LEMMA PutCommits ==
    ASSUME IndInv, NEW t \in Txns, PutIfAbsent(t)
    PROVE  \E b \in Table!Existing, confirmed \in BOOLEAN :
              Table!Commit(t, b, confirmed)
  <1> USE ConstAssumption DEF PutIfAbsent
  <1>1. /\ latestVersion[t] \in 0..MaxVersion
        /\ readVersion[t] \in 0..MaxVersion
        /\ Known(Base(t))
        /\ resolved[t] = Append(Content(Base(t)), t)
        /\ Resolver[t] \in {"Fail", "Overwrite", "Rebase"}
        /\ Resolver[t] = "Fail" => readVersion[t] = latestVersion[t]
    BY DEF IndInv, TypeInv, TypeOK, LocalInv, Pending, Listed, ApplyUpdates
  <1>2. Base(t) \in 0..MaxVersion
    BY <1>1 DEF Base
  <1>3. Base(t) \in Table!Existing
    BY <1>1, <1>2 DEF Table!Existing, Log, Known, Written, Versions
  <1>4. Log' = Append(Log, Append(Table!ManifestOf(Base(t)), t))
    <2>1. Table!ManifestOf(Base(t)) = Content(Base(t))
      BY <1>1, <1>2 DEF Table!ManifestOf, Log, Content, Known, Written, Versions
    <2> QED
      BY <1>1, <2>1, PutAppends
  <1>5. Snapshots[t] = readVersion[t] /\ Snapshots[t] # Absent
    <2>1. readVersion[t] # Absent
      BY AbsentAssumption, <1>1
    <2> QED
      BY <2>1 DEF Snapshots, Live, InCommit
  <1>6. Snapshots' = Snapshots
    <2>1. /\ \A u \in Txns \ {t} : pc'[u] = pc[u]
          /\ pc'[t] \in {"open", "reload"}
          /\ readVersion' = readVersion
      BY DEF ReturnCommitted, ReturnError, ReturnConflict, Return, Unwritten, opened,
         IndInv, TypeInv, TypeOK
    <2> QED
      BY <2>1 DEF Snapshots, Live, InCommit
  <1>7. Len(Log) = latestVersion[t]
    BY LogBeforeWrite
  <1>8. Table!MayBuildOn(t, Base(t))
    BY <1>1, <1>5, <1>7 DEF Table!MayBuildOn, Base
  <1>9. CASE ReturnCommitted(t)
    <2>1. committed' = [committed EXCEPT ![t] = @ \cup {Len(Log) + 1}]
      BY <1>7, <1>9 DEF ReturnCommitted, Target
    <2>2. Table!Commit(t, Base(t), TRUE)
      BY <1>4, <1>5, <1>6, <1>8, <2>1 DEF Table!Commit
    <2> QED
      BY <1>3, <2>2
  <1>10. CASE ReturnError(t) \/ ReturnConflict(t)
    <2>1. committed' = committed
      BY <1>10 DEF ReturnError, ReturnConflict, Return
    <2>2. Table!Commit(t, Base(t), FALSE)
      BY <1>4, <1>5, <1>6, <1>8, <2>1 DEF Table!Commit
    <2> QED
      BY <1>3, <2>2
  <1> QED
    BY <1>9, <1>10

\* A crash ends the transactions of its process.
LEMMA CrashEnds ==
    ASSUME IndInv, NEW p \in Procs, Crash(p)
    PROVE  \E S \in SUBSET Txns : Table!End(S)
  <1> DEFINE S == {t \in Txns : ProcOf[t] = p}
  <1>1. Log' = Log /\ committed' = committed
    BY DEF Crash, Log
  <1>2. Snapshots' = [t \in Txns |-> IF t \in S THEN Absent ELSE Snapshots[t]]
    BY DEF Snapshots, Crash, opened, Live, InCommit
  <1>3. Table!End(S)
    BY <1>1, <1>2 DEF Table!End
  <1> QED
    BY <1>3

\* Every step of the protocol is a step of the log or none.
LEMMA StepRefines ==
    ASSUME kind = "PutIfAbsent", IndInv, OnlyPuts, [Next]_vars
    PROVE  [Table!Next]_Table!logVars
  <1> USE DEF Live, InCommit, IndInv, TypeInv, TypeOK
  <1>1. ASSUME NEW t \in Txns, OpenLatest(t) \/ OpenFail(t)
        PROVE  UNCHANGED Table!logVars
    BY <1>1, Invisible DEF OpenLatest, OpenFail, opened
  <1>2. ASSUME NEW t \in Txns, NEW v \in 0..MaxVersion, OpenAt(t, v)
        PROVE  UNCHANGED Table!logVars
    BY <1>2, Invisible DEF OpenAt
  <1>3. ASSUME NEW t \in Txns, OpenLoad(t) PROVE Table!Next
    BY <1>3, OpenBegins DEF Table!Next
  <1>4. ASSUME NEW t \in Txns, RecordUpdate(t) \/ Commit(t) \/ CommitNothing(t)
        PROVE  UNCHANGED Table!logVars
    BY <1>4, Invisible DEF RecordUpdate, Commit, CommitNothing, opened
  <1>5. ASSUME NEW t \in Txns, Reload(t) PROVE UNCHANGED Table!logVars
    BY <1>5, Invisible DEF Reload, ReloadUnchanged, ReloadOverwrite, ReloadFail,
       ReloadNeedsLatest, Drift, Resolve, Return, opened
  <1>6. ASSUME NEW t \in Txns, LoadLatest(t) \/ CommitError(t)
        PROVE  UNCHANGED Table!logVars
    BY <1>6, Invisible DEF LoadLatest, CommitError, Resolve, ReturnError, Return, opened
  <1>7. ASSUME NEW t \in Txns, PutIfAbsent(t) PROVE Table!Next
    BY <1>7, PutCommits DEF Table!Next
  <1>8. ASSUME NEW t \in Txns,
               CreateEmpty(t) \/ Fill(t) \/ CheckAbsent(t) \/ PutAnyway(t)
        PROVE  FALSE
    BY <1>8 DEF CreateEmpty, Fill, CheckAbsent, PutAnyway, OnlyPuts
  <1>9. ASSUME NEW t \in Txns, WriteConflict(t) PROVE UNCHANGED Table!logVars
    BY <1>9, Invisible DEF WriteConflict, ReturnConflict, Return, Unwritten, opened
  <1>10. ASSUME NEW p \in Procs, NEW v \in Versions, Evict(p, v)
         PROVE  UNCHANGED Table!logVars
    BY <1>10, Invisible DEF Evict, opened
  <1>11. ASSUME NEW p \in Procs, CleanCache(p) PROVE UNCHANGED Table!logVars
    BY <1>11, Invisible DEF CleanCache, opened
  <1>12. ASSUME NEW p \in Procs, Crash(p) PROVE Table!Next
    BY <1>12, CrashEnds DEF Table!Next
  <1>13. CASE UNCHANGED vars
    BY <1>13, Invisible DEF vars, opened
  <1> QED
    BY <1>1, <1>2, <1>3, <1>4, <1>5, <1>6, <1>7, <1>8, <1>9, <1>10, <1>11, <1>12,
       <1>13 DEF Next, Step, Open, CommitStep, WriteTo, Environment

\* With an atomic if-absent PUT, Transaction::Commit implements the append-only
\* log: each commit takes effect in one step, on the version its resolver
\* allows, for any number of transactions, processes, versions and retries.
THEOREM CommitImplementsLog == Spec /\ kind = "PutIfAbsent" => ImplementsLog
  <1> DEFINE Puts == kind = "PutIfAbsent" /\ OnlyPuts
  <1>1. Init => Table!Init
    <2> SUFFICES ASSUME Init PROVE Table!Init
      OBVIOUS
    <2>1. {w \in Versions : store[w] # Absent} = {}
      BY DEF Init
    <2>2. Log = << >>
      BY <2>1 DEF Log
    <2> QED
      BY <2>2 DEF Init, Table!Init, Snapshots, Live, InCommit
  <1>2. Init /\ kind = "PutIfAbsent" => Puts
    BY DEF Init, OnlyPuts
  <1>3. TypeOK /\ Puts /\ [Next]_vars => Puts'
    BY PutsOnly, KindKept
  <1>4. (Conditional => IndInv) /\ Puts /\ [Next]_vars => [Table!Next]_Table!logVars
    BY StepRefines DEF Conditional
  <1> HIDE DEF Puts
  <1> QED
    BY <1>1, <1>2, <1>3, <1>4, Safety, TypeCorrect, PTL
       DEF Spec, ImplementsLog, Table!Spec
=============================================================================

---------------------- MODULE CredentialRefreshProofs ----------------------
(***************************************************************************)
(* Proofs about CredentialRefresh, for any number of threads, every        *)
(* provider, and any life times, grace periods and cooldowns.              *)
(***************************************************************************)
EXTENDS CredentialRefresh, FiniteSetTheorems, TLAPS

\* The threads that may still ask for a credential.  Each of them asks once:
\* that is why there are no more credentials than calls.
Pending == {t \in Threads : pc[t] \in {"check", "upgrade", "fetch"}}

Budget == issued + Cardinality(Pending) <= calls

\* The credential in the cache is one of those issued so far, and Huawei
\* remembers every refresh that brought nothing.
CacheInv ==
    /\ cred # None => cred.id <= issued
    /\ provider = "Huawei" => lastFail = failedAt

\* What a thread knows: a request is sent after the call began, and what a
\* provider of the bridge goes on with was alive then.
ThreadInv(t) ==
    /\ began[t] <= now
    /\ pc[t] = "fetch" => began[t] <= asked[t] /\ asked[t] <= now
    /\ pc[t] = "read" => provider \in STS
    /\ pc[t] \in {"storage", "rebuild"} =>
          provider \in Bridge /\ had[t] # None /\ had[t].expires > began[t]
    /\ pc[t] = "config" =>
          provider = "RustAliyun" /\ cred # None /\ cred.expires > began[t]

IndInv ==
    /\ TypeOK
    /\ Budget
    /\ CacheInv
    /\ \A t \in Threads : ThreadInv(t)
    /\ ReturnsLive
    /\ StorageMatches

----------------------------------------------------------------------------
(* Answers and freshness.                                                  *)

\* A credential that a provider of the bridge takes for fresh has not expired.
LEMMA FreshIsLive ==
    ASSUME TypeOK, provider \in Bridge \cup {"AzureSas"}, Fresh(cred)
    PROVE  cred \in Credential /\ cred # None /\ cred.expires > now
  BY CredentialAssumption, NoneAssumption
     DEF TypeOK, Bridge, STS, Providers, Fresh, AliyunIsFresh, GcpIsFresh, AwsIsFresh,
         IsFresh, Credential, Never

\* What a request brings: nothing, or a credential with a new number.
LEMMA AnswerFacts ==
    ASSUME TypeOK, NEW t \in Threads, pc[t] = "fetch", issued < MaxCalls,
           began[t] <= asked[t], asked[t] <= now, NEW r \in Answers(t)
    PROVE  \/ r = None
           \/ r = Unread /\ provider \in {"AliyunSTS", "Huawei", "Tencent"}
           \/ /\ r \in Credential /\ r.id = issued + 1
              /\ provider \in Bridge => r.expires > began[t]
              /\ provider = "RustAliyun" => r.expires > now
  <1> DEFINE New == r \in Credential /\ r.id = issued + 1
             Live == r.expires > began[t]
  <1> USE CredentialAssumption, NoneAssumption
  <1>1. r \in With({asked[t] + 1, now + Life, Never, 0}) => New
    BY DEF With, TypeOK, Credential, Never
  <1>2. r \in With({asked[t] + 1, now + Life, Never}) => Live
    BY DEF With, TypeOK, Credential, Never
  <1>3. /\ Issued(t) \subseteq With({asked[t] + 1, now + Life, Never})
        /\ With({Never}) \subseteq With({asked[t] + 1, now + Life, Never})
        /\ With({asked[t] + 1, now + Life, Never}) \subseteq With({asked[t] + 1, now + Life, Never, 0})
        /\ With({0}) \subseteq With({asked[t] + 1, now + Life, Never, 0})
    BY DEF Issued, With
  <1>4. CASE provider \in {"AliyunSTS", "Tencent"}
    BY <1>1, <1>3, <1>4 DEF Answers, AliyunSTSAnswers, TencentAnswers, Bridge
  <1>5. CASE provider \in {"Huawei", "AliyunRAM", "AliyunChain", "AzureSas"}
    BY <1>1, <1>3, <1>5 DEF Answers, HuaweiAnswers, callHuaweiCloudSTS, FetchImdsCreds,
       InnerOidc, AssumeRole, FetchSasToken, Bridge
  <1>6. CASE provider = "RustAliyun"
    <2>1. r = None \/ (r \in Issued(t) /\ AliyunIsFresh(r))
      BY <1>6 DEF Answers, RefreshStore, ApplyRamMode, FetchAssumeRoleCreds, ApplyOidcChain,
         CallAssumeRole
    <2>2. r \in Issued(t) => New /\ Live
      BY <1>1, <1>2, <1>3
    <2>3. r \in Credential /\ AliyunIsFresh(r) => r.expires > now
      BY DEF AliyunIsFresh, TypeOK, Credential, Never
    <2> QED
      BY <2>1, <2>2, <2>3
  <1>7. CASE provider \in {"RustAzure", "RustGcp", "RustAws"}
    BY <1>1, <1>2, <1>3, <1>7 DEF Answers, AzureBrokerFetch, FetchImpersonatedToken,
       ProvideCredentials
  <1> QED
    BY <1>4, <1>5, <1>6, <1>7 DEF TypeOK, Providers, STS, Bridge

\* What is cached after an answer: the old credential or the new one, and
\* nothing only in the two providers that store empty results.
LEMMA KeptFacts ==
    ASSUME TypeOK, NEW r,
           r # Unread \/ provider \in {"AliyunSTS", "Huawei", "Tencent"}
    PROVE  /\ Kept(r) = cred \/ (Kept(r) = r /\ r # Unread)
           /\ r \notin {None, Unread} => Kept(r) = r
           /\ r = None /\ provider \notin {"AliyunSTS", "Tencent"} => Kept(r) = cred
           /\ r = Unread => Kept(r) = cred
  BY NoneAssumption DEF TypeOK, Providers, STS, Bridge, Kept, ReloadAliyunSTS, ReloadTencent,
     ReloadAliyunRAM, ReloadAliyunChain, ReloadHuawei, GetCredentialWith, KeepsCached

----------------------------------------------------------------------------
(* One credential per call.                                                *)

Asking == {"check", "upgrade", "fetch"}

LEMMA PendingFinite ==
    IsFiniteSet(Pending) /\ Cardinality(Pending) \in Nat
  BY CredentialAssumption, FS_Subset, FS_CardinalityType DEF Pending

\* A thread that goes from one step to another.
LEMMA PendingMoves ==
    ASSUME TypeOK, NEW t \in Threads, NEW s \in PCs, Goto(t, s)
    PROVE  /\ pc[t] \in Asking /\ s \in Asking => Cardinality(Pending') = Cardinality(Pending)
           /\ pc[t] \in Asking /\ s \notin Asking => Cardinality(Pending') = Cardinality(Pending) - 1
           /\ pc[t] \notin Asking /\ s \in Asking => Cardinality(Pending') = Cardinality(Pending) + 1
           /\ pc[t] \notin Asking /\ s \notin Asking => Cardinality(Pending') = Cardinality(Pending)
  <1> USE DEF Asking
  <1>1. /\ pc' \in [Threads -> PCs] /\ pc'[t] = s
        /\ \A u \in Threads \ {t} : pc'[u] = pc[u]
    BY DEF TypeOK, Goto
  <1>2. (pc[t] \in Asking <=> s \in Asking) => Pending' = Pending
    BY <1>1 DEF Pending
  <1>3. pc[t] \in Asking /\ s \notin Asking => Pending' = Pending \ {t} /\ t \in Pending
    BY <1>1 DEF Pending
  <1>4. pc[t] \notin Asking /\ s \in Asking => Pending' = Pending \cup {t} /\ t \notin Pending
    BY <1>1 DEF Pending
  <1> QED
    BY <1>2, <1>3, <1>4, PendingFinite, FS_AddElement, FS_RemoveElement

\* A thread that is still to ask has not used its call's credential.
LEMMA BudgetLeft ==
    ASSUME TypeOK, Budget, NEW t \in Threads, pc[t] \in Asking
    PROVE  issued < MaxCalls
  <1>1. t \in Pending
    BY DEF Pending, Asking
  <1>2. Cardinality(Pending) # 0
    BY <1>1, PendingFinite, FS_EmptySet
  <1> QED
    BY <1>2, PendingFinite, CredentialAssumption DEF Budget, TypeOK

----------------------------------------------------------------------------
(* The ways a step of a call ends.                                         *)

\* A step that only moves a thread on.
LEMMA GoesOnKeeps ==
    ASSUME IndInv, NEW t \in Threads, NEW s \in PCs, GoesOn(t, s)
    PROVE  /\ pc' \in [Threads -> PCs] /\ pc'[t] = s
           /\ \A u \in Threads \ {t} : pc'[u] = pc[u]
           /\ had' = had /\ began' = began
           /\ ReturnsLive' /\ StorageMatches'
  BY DEF IndInv, TypeOK, GoesOn, Goto, ReturnsLive, StorageMatches

\* A call that ends.
LEMMA EndsKeeps ==
    ASSUME IndInv, NEW t \in Threads, NEW c, NEW u, Ends(t, c, u), provider' = provider,
           provider \in Bridge \cup {"Huawei"} /\ c # None => c.expires > began[t],
           u = None \/ u = c
    PROVE  /\ pc' \in [Threads -> PCs] /\ pc'[t] = "idle"
           /\ \A v \in Threads \ {t} : pc'[v] = pc[v] /\ had'[v] = had[v] /\ began'[v] = began[v]
           /\ had' \in [Threads -> {None} \cup Credential]
           /\ began' \in [Threads -> 0 .. MaxNow] /\ began'[t] = 0
           /\ ReturnsLive' /\ StorageMatches'
  <1>1. ReturnsLive' /\ StorageMatches'
    BY DEF Ends, ReturnsLive, StorageMatches, Bridge
  <1> QED
    BY <1>1, CredentialAssumption DEF IndInv, TypeOK, Ends, Goto, PCs

\* A provider that has its answer: the call ends, or goes on with it.
LEMMA ReturnsKeeps ==
    ASSUME IndInv, NEW t \in Threads, NEW c \in {None} \cup Credential, Returns(t, c),
           provider' = provider,
           provider \notin STS,
           provider \in Bridge /\ c # None => c.expires > began[t],
           provider = "RustAliyun" /\ c # None => cred' # None /\ cred'.expires > began[t]
    PROVE  /\ pc' \in [Threads -> PCs] /\ pc'[t] \in {"idle", "storage", "config"}
           /\ Goto(t, pc'[t])
           /\ \A v \in Threads \ {t} : pc'[v] = pc[v] /\ had'[v] = had[v] /\ began'[v] = began[v]
           /\ had' \in [Threads -> {None} \cup Credential]
           /\ began' \in [Threads -> 0 .. MaxNow] /\ began'[t] <= began[t]
           /\ pc'[t] = "storage" =>
                 provider \in Bridge /\ had'[t] # None /\ had'[t].expires > began'[t]
           /\ pc'[t] = "config" =>
                 provider = "RustAliyun" /\ cred' # None /\ cred'.expires > began'[t]
           /\ ReturnsLive' /\ StorageMatches'
  <1>1. CASE Ends(t, c, None)
    <2>1. provider \in Bridge \cup {"Huawei"} /\ c # None => c.expires > began[t]
      BY DEF STS
    <2>2. /\ pc' \in [Threads -> PCs] /\ pc'[t] = "idle"
          /\ \A v \in Threads \ {t} : pc'[v] = pc[v] /\ had'[v] = had[v] /\ began'[v] = began[v]
          /\ had' \in [Threads -> {None} \cup Credential]
          /\ began' \in [Threads -> 0 .. MaxNow] /\ began'[t] = 0
          /\ ReturnsLive' /\ StorageMatches'
      BY <1>1, <2>1, EndsKeeps
    <2>3. Goto(t, pc'[t])
      BY <1>1, <2>2 DEF Ends, Goto
    <2>4. began'[t] <= began[t]
      BY <2>2, CredentialAssumption DEF IndInv, TypeOK
    <2> QED
      BY <2>2, <2>3, <2>4
  <1>2. CASE /\ c # None
             /\ \/ provider \in {"RustAzure", "RustGcp"} /\ Goto(t, "storage")
                \/ provider = "RustAliyun" /\ Goto(t, "config")
             /\ had' = [had EXCEPT ![t] = c]
             /\ returned' = None
             /\ UNCHANGED began
    <2>1. ReturnsLive' /\ StorageMatches'
      BY <1>2 DEF ReturnsLive, StorageMatches
    <2> QED
      BY <1>2, <2>1, CredentialAssumption DEF IndInv, TypeOK, Goto, PCs, Bridge
  <1> QED
    BY <1>1, <1>2 DEF Returns

----------------------------------------------------------------------------
(* The inductive invariant.                                                *)

LEMMA IndInit == Init => IndInv
  <1> SUFFICES ASSUME Init PROVE IndInv
    OBVIOUS
  <1> USE CredentialAssumption, NoneAssumption DEF Init
  <1>1. TypeOK
    <2>1. initialized \in BOOLEAN
      BY Zenon
    <2> QED
      BY <2>1 DEF TypeOK, PCs
  <1>2. Budget
    <2>1. Pending = {}
      BY DEF Pending
    <2> QED
      BY <2>1, FS_EmptySet DEF Budget
  <1>3. CacheInv /\ ReturnsLive /\ StorageMatches
    BY DEF CacheInv, ReturnsLive, StorageMatches
  <1>4. \A t \in Threads : ThreadInv(t)
    BY DEF ThreadInv
  <1> QED
    BY <1>1, <1>2, <1>3, <1>4 DEF IndInv

LEMMA CallStep == ASSUME IndInv, NEW t \in Threads, Call(t) PROVE IndInv'
  <1> USE CredentialAssumption DEF Call
  <1>1. TypeOK'
    BY DEF IndInv, TypeOK, Goto, PCs
  <1>2. Budget'
    <2>1. CASE ~initialized
      <3>1. Pending' = Pending
        BY <2>1 DEF Pending
      <3> QED
        BY <2>1, <3>1, PendingFinite DEF IndInv, Budget, TypeOK
    <2>2. CASE initialized
      <3>1. Cardinality(Pending') = Cardinality(Pending) + 1
        BY <2>2, PendingMoves DEF IndInv, Asking, PCs
      <3> QED
        BY <3>1, PendingFinite DEF IndInv, Budget, TypeOK
    <2> QED
      BY <2>1, <2>2
  <1>3. CacheInv' /\ ReturnsLive' /\ StorageMatches'
    BY DEF IndInv, CacheInv, ReturnsLive, StorageMatches
  <1>4. \A u \in Threads : ThreadInv(u)'
    BY DEF IndInv, TypeOK, ThreadInv, Goto, PCs
  <1> QED
    BY <1>1, <1>2, <1>3, <1>4 DEF IndInv

LEMMA TickStep == ASSUME IndInv, Tick PROVE IndInv'
  <1> USE CredentialAssumption DEF Tick, local
  <1>1. TypeOK'
    BY DEF IndInv, TypeOK
  <1>2. Budget'
    <2>1. Pending' = Pending
      BY DEF Pending
    <2> QED
      BY <2>1 DEF IndInv, Budget
  <1>3. CacheInv' /\ ReturnsLive' /\ StorageMatches'
    BY DEF IndInv, CacheInv, ReturnsLive, StorageMatches
  <1>4. \A u \in Threads : ThreadInv(u)'
    BY DEF IndInv, TypeOK, ThreadInv
  <1> QED
    BY <1>1, <1>2, <1>3, <1>4 DEF IndInv

\* A step of a thread that leaves the provider, the credential and the history
\* alone, and does not begin or end a request.
LEMMA QuietStep ==
    ASSUME IndInv, NEW t \in Threads, NEW s \in PCs \ {"fetch"},
           pc[t] # "fetch", Goto(t, s), pc[t] \in Asking \/ s \notin Asking,
           UNCHANGED <<provider, initialized, now, cred, writer, failedAt, asked,
                       lastFail, issued, calls>>,
           storage' \in {None} \cup Credential,
           had' \in [Threads -> {None} \cup Credential],
           began' \in [Threads -> 0 .. MaxNow],
           \A u \in Threads \ {t} : had'[u] = had[u] /\ began'[u] = began[u],
           ThreadInv(t)', ReturnsLive', StorageMatches'
    PROVE  IndInv'
  <1>1. /\ pc' \in [Threads -> PCs] /\ pc'[t] = s
        /\ \A u \in Threads \ {t} : pc'[u] = pc[u]
    BY DEF IndInv, TypeOK, Goto
  <1>2. TypeOK'
    BY <1>1 DEF IndInv, TypeOK
  <1>3. Budget'
    BY PendingMoves, PendingFinite DEF IndInv, Budget, TypeOK
  <1>4. CacheInv'
    BY DEF IndInv, CacheInv
  <1>5. \A u \in Threads : ThreadInv(u)'
    BY <1>1 DEF IndInv, ThreadInv
  <1> QED
    BY <1>2, <1>3, <1>4, <1>5 DEF IndInv

LEMMA CheckStep == ASSUME IndInv, NEW t \in Threads, Check(t) PROVE IndInv'
  <1> USE DEF Check, PCs, Asking
  <1>1. CASE GoesOn(t, "upgrade")
    <2>1. ThreadInv(t)'
      BY <1>1, GoesOnKeeps DEF IndInv, ThreadInv
    <2> QED
      BY <1>1, <2>1, GoesOnKeeps, QuietStep DEF GoesOn, IndInv, TypeOK
  <1>2. CASE provider \in STS /\ GoesOn(t, "read")
    <2>1. ThreadInv(t)'
      BY <1>2, GoesOnKeeps DEF IndInv, ThreadInv
    <2> QED
      BY <1>2, <2>1, GoesOnKeeps, QuietStep DEF GoesOn, IndInv, TypeOK
  <1>3. CASE Fresh(cred) /\ provider \notin STS /\ Returns(t, cred)
    <2>1. cred \in Credential /\ cred # None /\ cred.expires > now
      BY <1>3, FreshIsLive DEF IndInv, TypeOK, Providers
    <2>2. cred.expires > began[t]
      BY <2>1, CredentialAssumption DEF IndInv, TypeOK, ThreadInv, Credential, Never
    <2>3. ThreadInv(t)'
      BY <1>3, <2>1, <2>2, ReturnsKeeps DEF IndInv, TypeOK, ThreadInv
    <2> QED
      BY <1>3, <2>1, <2>2, <2>3, ReturnsKeeps, QuietStep DEF IndInv, TypeOK
  <1> QED
    BY <1>1, <1>2, <1>3

LEMMA AcquireStep == ASSUME IndInv, NEW t \in Threads, Acquire(t) PROVE IndInv'
  <1> USE DEF Acquire, PCs, Asking
  <1>1. CASE writer' = t /\ asked' = [asked EXCEPT ![t] = now] /\ GoesOn(t, "fetch")
    <2>1. /\ pc' \in [Threads -> PCs] /\ pc'[t] = "fetch"
          /\ \A u \in Threads \ {t} : pc'[u] = pc[u]
          /\ had' = had /\ began' = began
          /\ ReturnsLive' /\ StorageMatches'
      BY <1>1, GoesOnKeeps
    <2>2. \A u \in Threads : pc[u] # "fetch"
      BY CredentialAssumption DEF IndInv, TypeOK
    <2>3. TypeOK'
      BY <1>1, <2>1, <2>2 DEF IndInv, TypeOK
    <2>4. Budget'
      BY <1>1, PendingMoves, PendingFinite DEF IndInv, Budget, TypeOK, GoesOn
    <2>5. CacheInv'
      BY DEF IndInv, CacheInv
    <2>6. \A u \in Threads : ThreadInv(u)'
      BY <1>1, <2>1, CredentialAssumption DEF IndInv, TypeOK, ThreadInv
    <2> QED
      BY <2>1, <2>3, <2>4, <2>5, <2>6 DEF IndInv
  <1>2. CASE provider \in STS /\ GoesOn(t, "read") /\ UNCHANGED <<writer, asked>>
    <2>1. ThreadInv(t)'
      BY <1>2, GoesOnKeeps DEF IndInv, ThreadInv
    <2> QED
      BY <1>2, <2>1, GoesOnKeeps, QuietStep DEF GoesOn, IndInv, TypeOK
  <1>3. CASE /\ ~StillStale /\ provider \notin STS
             /\ Returns(t, cred) /\ UNCHANGED <<writer, asked>>
    <2>1. cred \in Credential /\ cred # None /\ cred.expires > now
      BY <1>3, FreshIsLive DEF IndInv, TypeOK, Providers, StillStale
    <2>2. cred.expires > began[t]
      BY <2>1, CredentialAssumption DEF IndInv, TypeOK, ThreadInv, Credential, Never
    <2>3. ThreadInv(t)'
      BY <1>3, <2>1, <2>2, ReturnsKeeps DEF IndInv, TypeOK, ThreadInv
    <2> QED
      BY <1>3, <2>1, <2>2, <2>3, ReturnsKeeps, QuietStep DEF IndInv, TypeOK
  <1> QED
    BY <1>1, <1>2, <1>3 DEF STS

LEMMA RefreshedStep == ASSUME IndInv, NEW t \in Threads, Refreshed(t) PROVE IndInv'
  <1> USE DEF PCs, Asking
  <1>1. /\ pc[t] = "fetch" /\ writer' = None
        /\ asked' = [asked EXCEPT ![t] = 0]
        /\ UNCHANGED <<provider, initialized, now, storage, calls>>
    BY DEF Refreshed
  <1>2. PICK r \in Answers(t) :
          /\ cred' = Kept(r)
          /\ failedAt' = IF provider # "Huawei" THEN failedAt
                         ELSE IF HuaweiFailed(r) THEN now ELSE None
          /\ lastFail' = IF provider = "Huawei" /\ cred' = cred THEN now ELSE None
          /\ issued' = IF r \in {None, Unread} THEN issued ELSE issued + 1
          /\ IF provider \in STS THEN GoesOn(t, "read") ELSE Answered(t, r)
    BY DEF Refreshed
  <1>3. issued < MaxCalls /\ began[t] <= asked[t] /\ asked[t] <= now
    BY <1>1, BudgetLeft DEF IndInv, ThreadInv
  <1>4. \/ r = None
        \/ r = Unread /\ provider \in {"AliyunSTS", "Huawei", "Tencent"}
        \/ /\ r \in Credential /\ r.id = issued + 1
           /\ provider \in Bridge => r.expires > began[t]
           /\ provider = "RustAliyun" => r.expires > now
    BY <1>1, <1>3, AnswerFacts DEF IndInv
  <1>5. /\ cred' = cred \/ (cred' = r /\ r # Unread)
        /\ r \notin {None, Unread} => cred' = r
        /\ r = None /\ provider \notin {"AliyunSTS", "Tencent"} => cred' = cred
        /\ r = Unread => cred' = cred
    BY <1>2, <1>4, KeptFacts, NoneAssumption DEF IndInv
  <1>6. cred' \in {None} \cup Credential
    BY <1>4, <1>5 DEF IndInv, TypeOK
  <1>7. CacheInv'
    <2>1. cred' # None => cred'.id <= issued'
      BY <1>2, <1>4, <1>5, NoneAssumption DEF IndInv, CacheInv, TypeOK, Credential
    <2>2. provider = "Huawei" => lastFail' = failedAt'
      <3>1. r \in Credential => cred' # cred
        BY <1>4, <1>5, NoneAssumption DEF IndInv, CacheInv, TypeOK, Credential
      <3> QED
        BY <1>2, <1>4, <1>5, <3>1, NoneAssumption DEF HuaweiFailed
    <2> QED
      BY <1>1, <2>1, <2>2 DEF CacheInv
  <1>8. /\ issued' \in 0 .. MaxCalls /\ issued' <= issued + 1
        /\ failedAt' \in {None} \cup 0 .. MaxNow
        /\ lastFail' \in {None} \cup 0 .. MaxNow
        /\ asked' \in [Threads -> 0 .. MaxNow]
    BY <1>1, <1>2, <1>3, CredentialAssumption DEF IndInv, TypeOK
  \* Where t is now.
  <1>9. /\ pc' \in [Threads -> PCs] /\ pc'[t] \in {"idle", "read", "storage", "config"}
        /\ Goto(t, pc'[t])
        /\ \A u \in Threads \ {t} : pc'[u] = pc[u] /\ had'[u] = had[u] /\ began'[u] = began[u]
        /\ had' \in [Threads -> {None} \cup Credential]
        /\ began' \in [Threads -> 0 .. MaxNow]
        /\ ThreadInv(t)' /\ ReturnsLive' /\ StorageMatches'
    <2>1. CASE provider \in STS
      <3>1. /\ pc' \in [Threads -> PCs] /\ pc'[t] = "read" /\ Goto(t, "read")
            /\ \A u \in Threads \ {t} : pc'[u] = pc[u]
            /\ had' = had /\ began' = began
            /\ ReturnsLive' /\ StorageMatches'
        BY <1>2, <2>1, GoesOnKeeps DEF GoesOn
      <3> QED
        BY <1>1, <2>1, <3>1 DEF IndInv, TypeOK, ThreadInv
    <2>2. CASE provider \notin STS
      <3> DEFINE c == IF r = None THEN OnFailure ELSE r
      <3>1. Returns(t, c)
        BY <1>2, <2>2 DEF Answered
      <3>2. c \in {None} \cup Credential
        BY <1>4, <2>2 DEF IndInv, TypeOK, OnFailure, STS
      <3>3. /\ provider \in Bridge /\ c # None => c.expires > began[t]
            /\ provider = "RustAliyun" /\ c # None => cred' = r /\ r # None /\ r.expires > began[t]
        BY <1>4, <1>5, <2>2, NoneAssumption DEF OnFailure, Bridge, STS
      <3> HIDE DEF c
      <3>4. /\ pc' \in [Threads -> PCs] /\ pc'[t] \in {"idle", "storage", "config"}
            /\ Goto(t, pc'[t])
            /\ \A v \in Threads \ {t} : pc'[v] = pc[v] /\ had'[v] = had[v] /\ began'[v] = began[v]
            /\ had' \in [Threads -> {None} \cup Credential]
            /\ began' \in [Threads -> 0 .. MaxNow] /\ began'[t] <= began[t]
            /\ pc'[t] = "storage" =>
                  provider \in Bridge /\ had'[t] # None /\ had'[t].expires > began'[t]
            /\ pc'[t] = "config" =>
                  provider = "RustAliyun" /\ cred' # None /\ cred'.expires > began'[t]
            /\ ReturnsLive' /\ StorageMatches'
        BY <1>1, <2>2, <3>1, <3>2, <3>3, ReturnsKeeps
      <3>5. began'[t] <= now'
        <4>1. began[t] \in Int /\ now \in Int /\ began[t] <= now /\ began'[t] \in Int
          BY <3>4, CredentialAssumption DEF IndInv, TypeOK, ThreadInv
        <4> QED
          BY <1>1, <3>4, <4>1
      <3>6. ThreadInv(t)'
        BY <1>1, <3>4, <3>5 DEF ThreadInv
      <3> QED
        BY <3>4, <3>6
    <2> QED
      BY <2>1, <2>2
  <1>10. TypeOK'
    <2>1. \A u \in Threads : writer' = u <=> pc'[u] = "fetch"
      BY <1>1, <1>9, CredentialAssumption DEF IndInv, TypeOK
    <2> QED
      BY <1>1, <1>6, <1>8, <1>9, <2>1 DEF IndInv, TypeOK
  <1>11. Budget'
    <2>1. Cardinality(Pending') = Cardinality(Pending) - 1
      BY <1>1, <1>9, PendingMoves DEF IndInv
    <2> QED
      BY <1>1, <1>8, <2>1, PendingFinite DEF IndInv, Budget, TypeOK
  \* The credential that a thread in current_config counts on is only replaced
  \* by one that is fresh now.
  <1>12. ASSUME NEW u \in Threads PROVE ThreadInv(u)'
    <2>1. CASE u = t
      BY <1>9, <2>1
    <2>2. CASE u # t
      <3>1. pc[u] = "config" => cred' # None /\ cred'.expires > began[u]
        <4> SUFFICES ASSUME pc[u] = "config" PROVE cred' # None /\ cred'.expires > began[u]
          OBVIOUS
        <4>1. provider = "RustAliyun" /\ cred # None /\ cred.expires > began[u] /\ began[u] <= now
          BY DEF IndInv, ThreadInv
        <4>2. CASE cred' = cred
          BY <4>1, <4>2
        <4>3. CASE cred' # cred
          <5>1. r \in Credential /\ cred' = r /\ r.expires > now
            BY <1>4, <1>5, <4>1, <4>3
          <5> QED
            BY <4>1, <5>1, NoneAssumption, CredentialAssumption
               DEF IndInv, TypeOK, Credential, Never
        <4> QED
          BY <4>2, <4>3
      <3> QED
        BY <1>1, <1>9, <2>2, <3>1 DEF IndInv, TypeOK, ThreadInv
    <2> QED
      BY <2>1, <2>2
  <1> QED
    BY <1>7, <1>9, <1>10, <1>11, <1>12 DEF IndInv

LEMMA ReadStep ==
    ASSUME IndInv, NEW t \in Threads, Read(t) \/ CurrentConfig(t) PROVE IndInv'
  <1> USE DEF PCs, Asking
  <1>1. PICK c : /\ Ends(t, c, None)
                 /\ provider \in Bridge \cup {"Huawei"} /\ c # None => c.expires > began[t]
    <2>1. CASE Read(t)
      <3>1. Ends(t, Handed(cred), None)
        BY <2>1 DEF Read
      <3>2. provider \notin Bridge
        BY <2>1 DEF Read, IndInv, ThreadInv, STS, Bridge
      <3>3. provider = "Huawei" /\ Handed(cred) # None => Handed(cred).expires > began[t]
        BY CredentialAssumption, NoneAssumption
           DEF Handed, Expired, IndInv, TypeOK, ThreadInv, Credential, Never
      <3> QED
        BY <3>1, <3>2, <3>3
    <2>2. CASE CurrentConfig(t)
      BY <2>2 DEF CurrentConfig, IndInv, ThreadInv
    <2> QED
      BY <2>1, <2>2
  <1>2. /\ pc[t] \notin Asking /\ Goto(t, "idle")
        /\ UNCHANGED <<provider, initialized, now, cred, writer, failedAt, storage, asked,
                       lastFail, issued, calls>>
    BY <1>1 DEF Read, CurrentConfig, Ends
  <1>3. ThreadInv(t)'
    BY <1>1, <1>2, EndsKeeps DEF IndInv, TypeOK, ThreadInv
  <1> QED
    BY <1>1, <1>2, <1>3, EndsKeeps, QuietStep DEF IndInv, TypeOK

LEMMA StorageStep ==
    ASSUME IndInv, NEW t \in Threads, FindStorage(t) \/ RebuildStorage(t) PROVE IndInv'
  <1> USE DEF PCs, Asking
  <1>1. pc[t] \in {"storage", "rebuild"} /\ had[t] \in Credential /\ had[t].expires > began[t]
    BY DEF FindStorage, RebuildStorage, IndInv, TypeOK, ThreadInv
  <1>2. UNCHANGED <<provider, initialized, now, cred, writer, failedAt, asked,
                    lastFail, issued, calls>>
    BY DEF FindStorage, RebuildStorage
  <1>3. storage' \in {None} \cup Credential
    BY <1>1 DEF FindStorage, RebuildStorage, IndInv, TypeOK
  <1>4. CASE GoesOn(t, "rebuild")
    <2>1. ThreadInv(t)'
      BY <1>1, <1>2, <1>4, GoesOnKeeps DEF IndInv, ThreadInv
    <2> QED
      BY <1>1, <1>2, <1>3, <1>4, <2>1, GoesOnKeeps, QuietStep DEF GoesOn, IndInv, TypeOK
  <1>5. CASE Ends(t, had[t], storage') /\ storage' = had[t]
    <2>1. ThreadInv(t)'
      BY <1>1, <1>2, <1>5, EndsKeeps DEF IndInv, TypeOK, ThreadInv
    <2> QED
      BY <1>1, <1>2, <1>3, <1>5, <2>1, EndsKeeps, QuietStep DEF Ends, IndInv, TypeOK
  <1> QED
    BY <1>4, <1>5
       DEF FindStorage, RebuildStorage, Delegated, SameToken, SameCredential

LEMMA TryWriteStep == ASSUME IndInv, NEW t \in Threads, TryWriteFails(t) PROVE IndInv'
  <1> USE DEF TryWriteFails, PCs, Asking
  <1>1. ThreadInv(t)'
    BY GoesOnKeeps DEF IndInv, ThreadInv
  <1> QED
    BY <1>1, GoesOnKeeps, QuietStep DEF GoesOn, IndInv, TypeOK

LEMMA IndStep == IndInv /\ [Next]_vars => IndInv'
  <1> SUFFICES ASSUME IndInv, [Next]_vars PROVE IndInv'
    OBVIOUS
  <1>1. CASE UNCHANGED vars
    <2>1. Pending' = Pending
      BY <1>1 DEF vars, local, Pending
    <2> QED
      BY <1>1, <2>1 DEF vars, local, IndInv, TypeOK, Budget, CacheInv, ThreadInv, ReturnsLive,
         StorageMatches
  <1> QED
    BY <1>1, TickStep, CallStep, CheckStep, AcquireStep, TryWriteStep, RefreshedStep, ReadStep,
       StorageStep DEF Next, Step

LEMMA IndInvAlways == Spec => []IndInv
  BY IndInit, IndStep, PTL DEF Spec

----------------------------------------------------------------------------
(* The theorems.                                                           *)

\* Every provider of the bridge, and Huawei, hands out only credentials that
\* were alive when the call began, however long the call waited for the lock or
\* for the service; and a caller's storage is built with its credential.
THEOREM CredentialsAreConsistent == Spec => []CredentialsConsistent
  <1>1. IndInv => CredentialsConsistent
    BY DEF IndInv, CredentialsConsistent
  <1> QED
    BY IndInvAlways, <1>1, PTL

\* A step that changes the cached credential is the end of a refresh.
LEMMA OnlyRefreshed ==
    ASSUME [Next]_vars, cred' # cred
    PROVE  \E t \in Threads : Refreshed(t)
  BY DEF Next, Step, Tick, Call, Check, Acquire, TryWriteFails, Read, CurrentConfig,
     FindStorage, RebuildStorage, vars

\* Whatever the services answer and whichever thread asks, a valid credential
\* is never lost to a failed refresh or to an older one (Reload, KeepsCached).
THEOREM ValidCredentialsKept == Spec => KeepsValid
  <1> DEFINE OnlyForNewer == cred # None /\ cred' # cred =>
                        IF cred' # None THEN cred'.id > cred.id
                        ELSE provider \in {"AliyunSTS", "Tencent"}
  <1>1. IndInv /\ [Next]_vars => [OnlyForNewer]_vars
    <2> SUFFICES ASSUME IndInv, [Next]_vars, cred # None, cred' # cred
                 PROVE  IF cred' # None THEN cred'.id > cred.id
                        ELSE provider \in {"AliyunSTS", "Tencent"}
      OBVIOUS
    <2>1. PICK t \in Threads : Refreshed(t)
      BY OnlyRefreshed
    <2>2. PICK r \in Answers(t) : cred' = Kept(r)
      BY <2>1 DEF Refreshed
    <2>3. \/ r = None
          \/ r = Unread /\ provider \in {"AliyunSTS", "Huawei", "Tencent"}
          \/ r \in Credential /\ r.id = issued + 1
      BY <2>1, BudgetLeft, AnswerFacts DEF Refreshed, IndInv, ThreadInv, Asking
    <2>4. /\ cred' = r /\ r # Unread
          /\ r = None => provider \in {"AliyunSTS", "Tencent"}
      BY <2>2, <2>3, KeptFacts, NoneAssumption DEF IndInv
    <2> QED
      BY <2>3, <2>4, NoneAssumption DEF IndInv, CacheInv, TypeOK, Credential
  <1> QED
    BY IndInvAlways, <1>1, PTL DEF Spec, KeepsValid

\* However many threads find the credential stale at once, one of them asks the
\* service (UpgradeToWriterLock and the second check), and after a failure none
\* does before the cooldown of Huawei is over.
THEOREM RefreshedOnce == Spec => OneRefresh
  <1> DEFINE Asks == \A t \in Threads : pc[t] # "fetch" /\ pc'[t] = "fetch" =>
                /\ ~Fresh(cred)
                /\ \A u \in Threads : pc[u] # "fetch"
                /\ provider = "Huawei" /\ lastFail # None =>
                      now - lastFail >= IF cred = None \/ Expired(cred) THEN Urgent ELSE Cooldown
  <1>1. IndInv /\ [Next]_vars => [Asks]_vars
    <2> SUFFICES ASSUME IndInv, Next, NEW t \in Threads, pc[t] # "fetch", pc'[t] = "fetch"
                 PROVE  /\ ~Fresh(cred)
                        /\ \A u \in Threads : pc[u] # "fetch"
                        /\ provider = "Huawei" /\ lastFail # None =>
                              now - lastFail >= IF cred = None \/ Expired(cred) THEN Urgent
                                                ELSE Cooldown
      BY DEF vars
    <2>1. Acquire(t)
      <3>1. ~Tick
        BY DEF Tick, local
      <3>2. PICK u \in Threads : Call(u) \/ Step(u)
        BY <3>1 DEF Next
      <3>3. \A s : Goto(u, s) /\ s # "fetch" => FALSE
        BY DEF IndInv, TypeOK, Goto
      <3>4. \A c : ~Returns(u, c)
        BY <3>3 DEF Returns, Ends
      <3>5. \A s : GoesOn(u, s) => s = "fetch"
        BY <3>3 DEF GoesOn
      <3>6. \A c, d : ~Ends(u, c, d)
        BY <3>3 DEF Ends
      <3>7. Acquire(u)
        BY <3>2, <3>3, <3>4, <3>5, <3>6 DEF Call, Step, Check, TryWriteFails, Refreshed, Answered,
           Read, CurrentConfig, FindStorage, RebuildStorage
      <3>8. u = t
        BY <3>7, <3>4 DEF Acquire, GoesOn, Goto, IndInv, TypeOK
      <3> QED
        BY <3>7, <3>8
    <2>2. ~Fresh(cred) /\ ~(provider = "Huawei" /\ IsInCooldown) /\ writer = None
      <3>1. ~GoesOn(t, "read") /\ ~Returns(t, cred)
        BY DEF GoesOn, Returns, Ends, Goto, IndInv, TypeOK
      <3> QED
        BY <2>1, <3>1 DEF Acquire, StillStale
    <2>3. \A u \in Threads : pc[u] # "fetch"
      BY <2>2, CredentialAssumption DEF IndInv, TypeOK
    <2>4. provider = "Huawei" /\ lastFail # None =>
             now - lastFail >= IF cred = None \/ Expired(cred) THEN Urgent ELSE Cooldown
      BY <2>2, CredentialAssumption DEF IsInCooldown, IndInv, CacheInv, TypeOK
    <2> QED
      BY <2>2, <2>3, <2>4
  <1> QED
    BY IndInvAlways, <1>1, PTL DEF Spec, OneRefresh
=============================================================================

-------------------------- MODULE CredentialRefresh --------------------------
(***************************************************************************)
(* Temporary credentials that the threads of a process share: the S3       *)
(* credential providers of Aliyun, Huawei and Tencent, the SAS tokens of   *)
(* Azure, and the providers of the Rust bridge.  A call that finds the     *)
(* cached credential close to its end asks a token service for another     *)
(* one, with everybody else kept out; the check, the lock, the request and *)
(* the final read are separate steps, and time passes between them.        *)
(*                                                                         *)
(* One provider instance; which one is chosen in Init.  A credential is    *)
(* its number and the moment it expires.                                   *)
(***************************************************************************)
EXTENDS Integers, FiniteSets

CONSTANTS
    Threads,
    Grace,     \* the refresh offset before the expiration
    Life,      \* life time of the credentials that the services issue
    Cooldown,  \* RELOAD_COOLDOWN_SECONDS
    Urgent,    \* RELOAD_COOLDOWN_SECONDS_URGENT
    MaxNow,    \* bound: the clock
    MaxCalls,  \* bound: calls of all threads
    None,      \* no credential: an empty one, or an error
    Unread     \* the token file cannot be opened

ASSUME CredentialAssumption ==
    /\ Grace \in Nat /\ Life \in Nat /\ Grace < Life
    /\ Cooldown \in Nat /\ Urgent \in Nat /\ Urgent <= Cooldown
    /\ MaxNow \in Nat /\ MaxCalls \in Nat
    /\ IsFiniteSet(Threads) /\ None \notin Threads

STS == {"AliyunSTS", "AliyunRAM", "AliyunChain", "Huawei", "Tencent"}
Bridge == {"RustAliyun", "RustAzure", "RustGcp", "RustAws"}
Providers == STS \cup {"AzureSas"} \cup Bridge

Never == MaxNow + Life + Grace + 1
Credential == [id : 1 .. MaxCalls + 1, expires : 0 .. Never]

ASSUME NoneAssumption == None # Unread /\ None \notin Credential /\ Unread \notin Credential

VARIABLES
    provider,     \* which provider this is
    initialized,  \* m_initialized
    now,          \* the clock
    cred,         \* m_credentials, cached
    writer,       \* thread that holds the writer lock, mutex or refresh_lock
    failedAt,     \* m_lastFailedReloadTime while m_lastReloadFailed, or None
    storage,      \* credential of the delegated storage (cached_storage)
    pc,           \* where every thread is
    asked,        \* when it sent the request that is under way
    had,          \* the credential it goes on with
    began,        \* the clock when its call began
    returned,     \* history: what the call that just ended returned, or None
    lastFail,     \* history: the last failed refresh of Huawei, or None
    issued, calls

local == <<pc, asked, had, began>>
vars == <<provider, initialized, now, cred, writer, failedAt, storage, local,
          returned, lastFail, issued, calls>>

PCs == {"idle", "check", "upgrade", "fetch", "read", "config", "storage", "rebuild"}

TypeOK ==
    /\ provider \in Providers /\ initialized \in BOOLEAN /\ now \in 0 .. MaxNow
    /\ cred \in {None} \cup Credential /\ storage \in {None} \cup Credential
    /\ writer \in {None} \cup Threads
    /\ failedAt \in {None} \cup 0 .. MaxNow /\ lastFail \in {None} \cup 0 .. MaxNow
    /\ pc \in [Threads -> PCs]
    /\ asked \in [Threads -> 0 .. MaxNow]
    /\ had \in [Threads -> {None} \cup Credential]
    /\ began \in [Threads -> 0 .. MaxNow]
    /\ issued \in 0 .. MaxCalls /\ calls \in 0 .. MaxCalls
    /\ \A t \in Threads : writer = t <=> pc[t] = "fetch"

Init ==
    /\ provider \in Providers
    /\ initialized \in IF provider \in {"AliyunSTS", "Huawei", "Tencent"} THEN BOOLEAN ELSE {TRUE}
    /\ now = 0 /\ cred = None /\ writer = None /\ failedAt = None /\ storage = None
    /\ pc = [t \in Threads |-> "idle"]
    /\ asked = [t \in Threads |-> 0]
    /\ had = [t \in Threads |-> None]
    /\ began = [t \in Threads |-> 0]
    /\ returned = None /\ lastFail = None /\ issued = 0 /\ calls = 0

----------------------------------------------------------------------------
(* Freshness.                                                              *)

Expired(c) == c.expires <= now

\* ExpiresSoon of the S3 providers
ExpiresSoon(c) == c.expires - now < Grace

\* IsFresh of AzureSasTokenPolicy
IsFresh(c) == c.expires - now > Grace

\* credential_is_fresh
AliyunIsFresh(c) == now + Grace < c.expires

\* needs_refresh
GcpIsFresh(c) == now + Grace < c.expires

\* current_credential: a credential without an expiration stays fresh
AwsIsFresh(c) == c.expires = Never \/ c.expires - now > Grace

Fresh(c) ==
    /\ c # None
    /\ CASE provider \in STS -> ~ExpiresSoon(c)
         [] provider = "RustAliyun" -> AliyunIsFresh(c)
         [] provider = "RustGcp" -> GcpIsFresh(c)
         [] provider = "RustAws" -> AwsIsFresh(c)
         [] OTHER -> IsFresh(c)

\* IsInCooldown
IsInCooldown ==
    /\ failedAt # None
    /\ now - failedAt < IF cred = None \/ Expired(cred) THEN Urgent ELSE Cooldown

----------------------------------------------------------------------------
(* What the services answer to a request that thread t sent, as the        *)
(* clients parse it: None is an answer that carries no credential.         *)

With(times) == {[id |-> issued + 1, expires |-> e] : e \in times}

\* A credential is issued while the request is under way.
Issued(t) == With({asked[t] + 1, now + Life})

\* GetAssumeRoleWithWebIdentityCredentials of Aliyun: without an Expiration
\* the credential keeps the default one, which is never reached.
AliyunSTSAnswers(t) == {None, Unread} \cup Issued(t) \cup With({Never})

\* ... of Tencent: an unreadable Expiration is the epoch.
TencentAnswers(t) == {None, Unread} \cup Issued(t) \cup With({0})

\* The second request of Huawei: without a readable expires_at it fails.
callHuaweiCloudSTS(t) == {None} \cup Issued(t)

\* The first one fails without the x-subject-token header.
HuaweiAnswers(t) == {None, Unread} \cup callHuaweiCloudSTS(t)

\* GetAssumeRoleCredentials
AssumeRole(t) == {None} \cup Issued(t) \cup With({Never})

\* The instance metadata service, then AssumeRole.
FetchImdsCreds(t) == {None} \cup AssumeRole(t)

\* The OIDC provider (empty credentials end the chain), then AssumeRole.
InnerOidc(t) == {None} \cup AssumeRole(t)

\* FetchSasToken: a token that had expired before the request is refused.
FetchSasToken(t) == {None} \cup {c \in Issued(t) : c.expires > asked[t]}

\* fetch of AzureBrokerClient
AzureBrokerFetch(t) == {None} \cup {c \in Issued(t) : c.expires > asked[t]}

\* call_assume_role: an answer without an Expiration counts as none.
CallAssumeRole(t) == {None} \cup Issued(t)

\* fetch_assume_role_creds: the credentials of the instance, then the role.
FetchAssumeRoleCreds(t) == {None} \cup CallAssumeRole(t)

\* apply_ram_mode_if_requested_with_expiration: in the other mode nothing.
ApplyRamMode(t) == {None} \cup FetchAssumeRoleCreds(t)

\* apply_oidc_chain_if_requested_with_expiration: the token file and the first
\* role may fail, then the second role is asked for.
ApplyOidcChain(t) == {None} \cup CallAssumeRole(t)

\* refresh_store: one of the two modes is on, and nothing that has to be
\* refreshed at once is accepted.
RefreshStore(t) ==
    {None} \cup {c \in ApplyRamMode(t) \cup ApplyOidcChain(t) : c # None /\ AliyunIsFresh(c)}

\* fetch_impersonated_token
FetchImpersonatedToken(t) == {None} \cup Issued(t)

\* provide_credentials of the AWS SDK
ProvideCredentials(t) == {None} \cup Issued(t) \cup With({Never})

Answers(t) ==
    CASE provider = "AliyunSTS" -> AliyunSTSAnswers(t)
      [] provider = "AliyunRAM" -> FetchImdsCreds(t)
      [] provider = "AliyunChain" -> InnerOidc(t)
      [] provider = "Huawei" -> HuaweiAnswers(t)
      [] provider = "Tencent" -> TencentAnswers(t)
      [] provider = "AzureSas" -> FetchSasToken(t)
      [] provider = "RustAliyun" -> RefreshStore(t)
      [] provider = "RustAzure" -> AzureBrokerFetch(t)
      [] provider = "RustGcp" -> FetchImpersonatedToken(t)
      [] provider = "RustAws" -> ProvideCredentials(t)

----------------------------------------------------------------------------
(* What a provider keeps of an answer.                                     *)

\* Reload of Aliyun: whatever the request returned, an empty credential too.
ReloadAliyunSTS(r) == IF r = Unread THEN cred ELSE r

\* Reload of Tencent
ReloadTencent(r) == IF r = Unread THEN cred ELSE r

\* Reload of the RAM provider keeps the old credential on any failure, ...
ReloadAliyunRAM(r) == IF r = None THEN cred ELSE r

\* that of the chain too,
ReloadAliyunChain(r) == IF r = None THEN cred ELSE r

\* Mutant: an unsuccessful answer is stored.
ReloadHuawei_Overwrites(r) == IF r = Unread THEN cred ELSE r

\* and that of Huawei, which remembers when it failed.
ReloadHuawei(r) == IF r \in {None, Unread} THEN cred ELSE r

HuaweiFailed(r) == r \in {None, Unread}

\* The other providers leave the cache alone when the request fails.
KeepsCached(r) == IF r = None THEN cred ELSE r

\* get_credential_with of the GCP provider does so as well.
GetCredentialWith(r) == IF r = None THEN cred ELSE r

Kept(r) ==
    CASE provider = "AliyunSTS" -> ReloadAliyunSTS(r)
      [] provider = "Tencent" -> ReloadTencent(r)
      [] provider = "AliyunRAM" -> ReloadAliyunRAM(r)
      [] provider = "AliyunChain" -> ReloadAliyunChain(r)
      [] provider = "Huawei" -> ReloadHuawei(r)
      [] provider = "RustGcp" -> GetCredentialWith(r)
      [] OTHER -> KeepsCached(r)

----------------------------------------------------------------------------
(* GetAWSCredentials, GetSasToken, get_credential, current_store.          *)

Goto(t, step) == pc' = [pc EXCEPT ![t] = step]

\* The call ends with credential c, and with a storage built with u.
Ends(t, c, u) ==
    /\ Goto(t, "idle")
    /\ returned' = [cred |-> c, used |-> u, began |-> began[t]]
    /\ had' = [had EXCEPT ![t] = None]
    /\ began' = [began EXCEPT ![t] = 0]

\* The call goes on.
GoesOn(t, step) == Goto(t, step) /\ returned' = None /\ UNCHANGED <<had, began>>

\* A provider outside of the S3 client has its answer.  In the Rust bridge the
\* caller may be an Iceberg storage, which goes on to build a client with it.
Returns(t, c) ==
    \/ Ends(t, c, None)
    \/ /\ c # None
       /\ \/ provider \in {"RustAzure", "RustGcp"} /\ Goto(t, "storage")
          \/ provider = "RustAliyun" /\ Goto(t, "config")
       /\ had' = [had EXCEPT ![t] = c]
       /\ returned' = None
       /\ UNCHANGED began

Call(t) ==
    /\ pc[t] = "idle"
    /\ calls < MaxCalls
    /\ calls' = calls + 1
    /\ IF ~initialized THEN UNCHANGED <<pc, began>>
       ELSE /\ began' = [began EXCEPT ![t] = now]
            /\ Goto(t, IF provider = "AzureSas" THEN "upgrade" ELSE "check")
    /\ returned' = None
    /\ UNCHANGED <<provider, initialized, now, cred, writer, failedAt, storage, asked, had,
                   lastFail, issued>>

\* The check under the reader lock.  The AWS provider has a lock of its own
\* for the refresh, so its readers need not wait.
Check(t) ==
    /\ pc[t] = "check"
    /\ writer = None \/ provider = "RustAws"
    /\ IF ~Fresh(cred) THEN GoesOn(t, "upgrade")
       ELSE IF provider \in STS THEN GoesOn(t, "read")
       ELSE Returns(t, cred)
    /\ UNCHANGED <<provider, initialized, now, cred, writer, failedAt, storage, asked,
                   lastFail, issued, calls>>

\* Mutant: no second check.
StillStale_Unchecked == TRUE

\* The second check, with the lock held alone.
StillStale == ~Fresh(cred)

\* UpgradeToWriterLock, write().await, refresh_lock, or the mutex of AzureSas
Acquire(t) ==
    /\ pc[t] = "upgrade"
    /\ writer = None
    /\ IF StillStale /\ ~(provider = "Huawei" /\ IsInCooldown)
       THEN /\ writer' = t
            /\ asked' = [asked EXCEPT ![t] = now]
            /\ GoesOn(t, "fetch")
       ELSE /\ IF provider \in STS THEN GoesOn(t, "read")
               ELSE Returns(t, cred)
            /\ UNCHANGED <<writer, asked>>
    /\ UNCHANGED <<provider, initialized, now, cred, failedAt, storage,
                   lastFail, issued, calls>>

\* try_current_store does not wait for the lock: it sleeps and starts again.
TryWriteFails(t) ==
    /\ provider = "RustAliyun"
    /\ pc[t] = "upgrade"
    /\ writer # None \/ \E u \in Threads \ {t} : pc[u] \in {"check", "config"}
    /\ GoesOn(t, "check")
    /\ UNCHANGED <<provider, initialized, now, cred, writer, failedAt, storage, asked,
                   lastFail, issued, calls>>

\* What a failed refresh returns: the SAS policy falls back to the token it
\* has, the providers of the bridge report the error.
OnFailure == IF provider = "AzureSas" THEN cred ELSE None

\* Mutant: a failed refresh is tried again.
Answered_Retries(t, r) ==
    IF r = None /\ provider = "RustAliyun" THEN GoesOn(t, "check")
    ELSE Returns(t, IF r = None THEN OnFailure ELSE r)

\* The end of current_store, get_credential and GetSasToken after a refresh.
Answered(t, r) == Returns(t, IF r = None THEN OnFailure ELSE r)

\* The answer arrives, and the lock is released.
Refreshed(t) ==
    /\ pc[t] = "fetch"
    /\ \E r \in Answers(t) :
          /\ cred' = Kept(r)
          /\ failedAt' = IF provider # "Huawei" THEN failedAt
                         ELSE IF HuaweiFailed(r) THEN now ELSE None
          /\ lastFail' = IF provider = "Huawei" /\ cred' = cred THEN now ELSE None
          /\ issued' = IF r \in {None, Unread} THEN issued ELSE issued + 1
          /\ IF provider \in STS THEN GoesOn(t, "read")
             ELSE Answered(t, r)
    /\ writer' = None
    /\ asked' = [asked EXCEPT ![t] = 0]
    /\ UNCHANGED <<provider, initialized, now, storage, calls>>

\* Mutant: the credential is returned as it is.
Handed_AsIs(c) == c

\* GetAWSCredentials of Huawei returns nothing rather than an expired one.
Handed(c) == IF provider = "Huawei" /\ c # None THEN (IF Expired(c) THEN None ELSE c) ELSE c

\* The S3 providers read the credential under the reader lock again.
Read(t) ==
    /\ pc[t] = "read"
    /\ writer = None
    /\ Ends(t, Handed(cred), None)
    /\ UNCHANGED <<provider, initialized, now, cred, writer, failedAt, storage, asked,
                   lastFail, issued, calls>>

\* current_config reads the cache again; it expects a credential in it.
CurrentConfig(t) ==
    /\ pc[t] = "config"
    /\ writer = None
    /\ Ends(t, cred, None)
    /\ UNCHANGED <<provider, initialized, now, cred, writer, failedAt, storage, asked,
                   lastFail, issued, calls>>

----------------------------------------------------------------------------
(* current_storage: the client that was built with a credential is kept    *)
(* for as long as the credential is the same.                              *)

\* The cached storage is for the same token (Azure), ...
SameToken(t) == storage # None /\ storage = had[t]

\* or for the same Arc (GCP).
SameCredential(t) == storage # None /\ storage = had[t]

Delegated(t) == IF provider = "RustAzure" THEN SameToken(t) ELSE SameCredential(t)

FindStorage(t) ==
    /\ pc[t] = "storage"
    /\ IF Delegated(t) THEN Ends(t, had[t], storage)
       ELSE GoesOn(t, "rebuild")
    /\ UNCHANGED <<provider, initialized, now, cred, writer, failedAt, storage, asked,
                   lastFail, issued, calls>>

RebuildStorage(t) ==
    /\ pc[t] = "rebuild"
    /\ storage' = IF Delegated(t) THEN storage ELSE had[t]
    /\ Ends(t, had[t], storage')
    /\ UNCHANGED <<provider, initialized, now, cred, writer, failedAt, asked,
                   lastFail, issued, calls>>

----------------------------------------------------------------------------

Tick ==
    /\ now < MaxNow
    /\ now' = now + 1
    /\ returned' = None
    /\ UNCHANGED <<provider, initialized, cred, writer, failedAt, storage, local,
                   lastFail, issued, calls>>

Step(t) ==
    \/ Check(t) \/ Acquire(t) \/ TryWriteFails(t) \/ Refreshed(t) \/ Read(t)
    \/ CurrentConfig(t) \/ FindStorage(t) \/ RebuildStorage(t)

Next == Tick \/ \E t \in Threads : Call(t) \/ Step(t)

Spec == Init /\ [][Next]_vars

\* A thread in a call goes on when it can; requests have a timeout.  A lock
\* that is free again and again is had in the end: the locks are fair, and two
\* callers of try_write sleep between their attempts, so that the one's read
\* does not meet the other's attempt for ever.
FairSpec == Spec /\ \A t \in Threads : WF_vars(Step(t)) /\ SF_vars(Acquire(t))

----------------------------------------------------------------------------
(* Properties.                                                             *)

\* A thread asks the service only when the credential of that moment has to
\* be refreshed and nobody else is asking: the ones that waited for the lock
\* see what the first one got.  After a failed refresh Huawei is left alone
\* for the cooldown, by the threads too that waited while it failed.
OneRefresh ==
    [][\A t \in Threads : pc[t] # "fetch" /\ pc'[t] = "fetch" =>
          /\ ~Fresh(cred)
          /\ \A u \in Threads : pc[u] # "fetch"
          /\ provider = "Huawei" /\ lastFail # None =>
                now - lastFail >= IF cred = None \/ Expired(cred) THEN Urgent ELSE Cooldown]_vars

\* A credential that is still valid is given up only for a newer one: a failed
\* refresh costs nothing, and current_config finds the credential it expects.
\* Not so in the web identity providers of Aliyun and Tencent, which store the
\* empty result of a failed request.
KeepsValid ==
    [][cred # None /\ cred' # cred =>
          IF cred' # None THEN cred'.id > cred.id
          ELSE provider \in {"AliyunSTS", "Tencent"}]_vars

\* No call returns a credential that had expired before the call began, with
\* the providers that report a failed refresh instead of falling back to what
\* they have.
ReturnsLive ==
    provider \in Bridge \cup {"Huawei"} /\ returned # None /\ returned.cred # None =>
        returned.cred.expires > returned.began

\* A storage is given to the caller whose credential it was built with, though
\* callers with an older and a newer credential replace each other's storage.
StorageMatches ==
    returned # None /\ returned.used # None => returned.used = returned.cred

\* Every call returns, also when refreshes fail and when try_write keeps
\* finding the lock taken.
EveryCallReturns == \A t \in Threads : pc[t] # "idle" ~> pc[t] = "idle"

\* The types, and what a call hands out: a credential that was alive when the
\* call began, and a storage that was built with it.
CredentialsConsistent == TypeOK /\ ReturnsLive /\ StorageMatches

=============================================================================

--------------------------- MODULE BindingsProofs ---------------------------
(***************************************************************************)
(* Proofs about the asynchronous reads of a program that closes and        *)
(* destroys what it likes and exits when it likes, for any number of reads *)
(* and of file systems: ReadsProtected.                                    *)
(***************************************************************************)
EXTENDS Bindings, FiniteSetTheorems, TLAPS

ReadType ==
    [call : {"idle", "locking", "issued", "returned"}, io : {"none", "pending", "finished"},
     file : FileIds \cup {NoFile}, client : Clients \cup {NoClient},
     refs : SUBSET {"caller", "handler"}, keeps : BOOLEAN, calls : Nat]

ReadsType ==
    /\ reads \in [Reads -> ReadType]
    /\ sdk \in {"none", "ready", "finalizing", "shut"}
    /\ finalized \in BOOLEAN
    /\ holders \subseteq Clients /\ finalizing \subseteq Clients /\ filled \subseteq Clients
    /\ cached \in Clients \cup {NoClient} /\ fs \in Clients \cup {NoClient}
    /\ file \in FileIds \cup {NoFile}
    /\ holderOf \in [FileIds -> Clients \cup {NoClient}]

\* A read by itself: whoever uses a file has one, the future is pending while
\* the handler has the context, and the client goes with the context.
ReadInv(read) ==
    /\ Uses(read, read.file) => read.file \in FileIds
    /\ read.io = "pending" => "handler" \in read.refs
    /\ read.call = "locking" => read.io = "none"
    /\ read.refs = {} /\ read.call # "locking" => read.client = NoClient
    /\ read.calls = 0 \/ (read.io = "finished" /\ read.calls = 1)
    /\ read.call # "returned" => read.calls = 0

\* The lock of the finalizer: who has a context has the lock, so the finalizer
\* is not finalized; and before it is, every read that is taking the lock has
\* its client.
LockInv(read) ==
    /\ read.refs # {} => ~finalized /\ read.client # NoClient
    /\ read.call = "locking" /\ ~finalized => read.client # NoClient

\* How far the exit is.
ExitInv ==
    /\ finalized => sdk \in {"finalizing", "shut"} /\ holders = {}
    /\ ~finalized => finalizing = {}
    /\ sdk = "shut" => finalized /\ finalizing = {}

\* No holder escapes the finalizer: a client that a living holder has is
\* registered, and before the finalization every living holder has one.
HolderInv ==
    \A c \in Clients : HolderAlive(c) =>
        /\ c \in filled => c \in holders \cup finalizing
        /\ ~finalized => c \in filled

IndInv ==
    /\ ReadsType
    /\ \A r \in Reads : ReadInv(reads[r]) /\ LockInv(reads[r])
    /\ ExitInv
    /\ HolderInv

LEMMA IndInit == ReadsInit => IndInv
  <1> SUFFICES ASSUME ReadsInit PROVE IndInv
    OBVIOUS
  <1> USE ClientsAssumption DEF ReadsInit
  <1>1. NoRead \in ReadType /\ ReadInv(NoRead)
    BY DEF NoRead, ReadType, ReadInv, Uses
  <1>2. ReadsType
    BY <1>1 DEF ReadsType
  <1>3. LockInv(NoRead)
    BY DEF NoRead, LockInv
  <1>4. ExitInv /\ HolderInv
    BY DEF ExitInv, HolderInv, HolderAlive
  <1> QED
    BY <1>1, <1>2, <1>3, <1>4 DEF IndInv

----------------------------------------------------------------------------
(* Steps of a read.                                                        *)

\* A step of a read keeps the invariant if the read is in order after it: the
\* others are as they were, and no holder comes to life.
LEMMA ChangeKeeps ==
    ASSUME IndInv, NEW r \in Reads, NEW read \in ReadType, Change(r, read),
           ReadInv(read), LockInv(read)
    PROVE  IndInv'
  <1> DEFINE after == IF Uses(read, read.file) THEN read ELSE [read EXCEPT !.file = NoFile]
  <1>1. after \in ReadType /\ ReadInv(after) /\ LockInv(after)
    <2>1. CASE Uses(read, read.file)
      BY <2>1
    <2>2. CASE ~Uses(read, read.file)
      BY <2>2 DEF ReadType, ReadInv, LockInv, Uses
    <2> QED
      BY <2>1, <2>2
  <1>2. /\ reads' = [reads EXCEPT ![r] = after]
        /\ UNCHANGED <<sdk, finalized, holders, finalizing, filled, cached, fs, file>>
        /\ holderOf' \in [FileIds -> Clients \cup {NoClient}]
        /\ \A f \in FileIds : holderOf'[f] \in {holderOf[f], NoClient}
    BY DEF Change, client, IndInv, ReadsType
  <1> HIDE DEF after
  <1>3. ReadsType'
    BY <1>1, <1>2 DEF IndInv, ReadsType
  <1>4. (\A q \in Reads : ReadInv(reads[q]) /\ LockInv(reads[q]))'
    <2> SUFFICES ASSUME NEW q \in Reads PROVE (ReadInv(reads[q]) /\ LockInv(reads[q]))'
      OBVIOUS
    <2>1. CASE q = r
      <3>1. reads'[q] = after
        BY <1>2, <2>1 DEF IndInv, ReadsType
      <3> QED
        BY <1>1, <1>2, <3>1 DEF ReadInv, LockInv, Uses
    <2>2. CASE q # r
      <3>1. reads'[q] = reads[q]
        BY <1>2, <2>2 DEF IndInv, ReadsType
      <3> QED
        BY <1>2, <3>1 DEF IndInv, ReadInv, LockInv, Uses
    <2> QED
      BY <2>1, <2>2
  <1>5. ExitInv'
    BY <1>2 DEF IndInv, ExitInv
  <1>6. HolderInv'
    <2>1. \A c \in Clients : HolderAlive(c)' => HolderAlive(c)
      BY <1>2, ClientsAssumption DEF HolderAlive
    <2> QED
      BY <1>2, <2>1 DEF IndInv, HolderInv
  <1> QED
    BY <1>3, <1>4, <1>5, <1>6 DEF IndInv

\* The callback runs once, and needs nothing but its file.
LEMMA CallBackKeeps ==
    ASSUME NEW read \in ReadType, ReadInv(read), LockInv(read),
           read.call = "returned", read.io = "finished", read.calls = 0
    PROVE  CallBack(read) \in ReadType /\ ReadInv(CallBack(read)) /\ LockInv(CallBack(read))
  <1>1. CallBack(read) \in ReadType
    <2>1. [read EXCEPT !.calls = @ + 1] \in ReadType
      BY DEF ReadType
    <2>2. CallBack(read) = [[read EXCEPT !.calls = @ + 1] EXCEPT !.keeps = FALSE]
      BY DEF CallBack, ReadType
    <2> QED
      BY <2>1, <2>2 DEF ReadType
  <1>2. /\ CallBack(read).call = "returned" /\ CallBack(read).io = "finished"
        /\ CallBack(read).file = read.file /\ CallBack(read).client = read.client
        /\ CallBack(read).refs = read.refs /\ CallBack(read).calls = 1
        /\ CallBack(read).keeps = FALSE
    BY DEF CallBack, ReadType
  <1>3. ReadInv(CallBack(read)) /\ LockInv(CallBack(read))
    BY <1>2 DEF ReadInv, LockInv, Uses
  <1> QED
    BY <1>1, <1>3

\* Who lets go of the context last takes the client along.
LEMMA WithoutRefKeeps ==
    ASSUME NEW read \in ReadType, ReadInv(read), LockInv(read), read.call # "locking",
           NEW who, who = "caller" \/ read.io # "pending"
    PROVE  /\ WithoutRef(read, who) \in ReadType
           /\ ReadInv(WithoutRef(read, who)) /\ LockInv(WithoutRef(read, who))
           /\ WithoutRef(read, who).io = read.io /\ WithoutRef(read, who).call = read.call
           /\ WithoutRef(read, who).calls = read.calls
           /\ Uses(read, read.file) => WithoutRef(read, who).file \in FileIds
  <1>1. WithoutRef(read, who) \in ReadType
    BY DEF WithoutRef, ReadType
  <1>2. /\ WithoutRef(read, who).call = read.call /\ WithoutRef(read, who).io = read.io
        /\ WithoutRef(read, who).file = read.file /\ WithoutRef(read, who).calls = read.calls
        /\ WithoutRef(read, who).refs = read.refs \ {who}
        /\ WithoutRef(read, who).keeps = read.keeps
        /\ WithoutRef(read, who).client =
              IF read.refs \ {who} = {} THEN NoClient ELSE read.client
    BY DEF WithoutRef, ReadType
  <1>3. ReadInv(WithoutRef(read, who)) /\ LockInv(WithoutRef(read, who))
    BY <1>2 DEF ReadInv, LockInv, Uses
  <1> QED
    BY <1>1, <1>2, <1>3 DEF ReadInv

LEMMA ReadStepKeeps == ASSUME IndInv, NEW r \in Reads, ReadStep(r) PROVE IndInv'
  <1> DEFINE now == reads[r]
  <1>0. now \in ReadType /\ ReadInv(now) /\ LockInv(now)
    BY DEF IndInv, ReadsType
  <1>1. CASE ReadNothing(r)
    <2> DEFINE read == [NoRead EXCEPT !.call = "issued", !.io = "finished", !.file = file]
    <2>1. read \in ReadType /\ ReadInv(read) /\ LockInv(read)
      BY <1>1 DEF ReadNothing, IndInv, ReadsType, NoRead, ReadType, ReadInv, LockInv, Uses
    <2> QED
      BY <1>1, <2>1, ChangeKeeps DEF ReadNothing
  <1>2. CASE CopyClient(r)
    <2> DEFINE copy == IF holderOf[file] \in filled THEN holderOf[file] ELSE NoClient
               read == [NoRead EXCEPT !.call = "locking", !.file = file, !.client = copy]
    <2>1. file \in FileIds /\ holderOf[file] \in Clients /\ HolderAlive(holderOf[file])
      BY <1>2 DEF CopyClient, IndInv, ReadsType, HolderAlive
    <2>2. copy \in Clients \cup {NoClient} /\ (~finalized => copy # NoClient)
      BY <2>1, ClientsAssumption DEF IndInv, HolderInv
    <2>3. Change(r, read)
      BY <1>2 DEF CopyClient
    <2> HIDE DEF copy
    <2>4. read \in ReadType /\ ReadInv(read) /\ LockInv(read)
      BY <2>1, <2>2 DEF NoRead, ReadType, ReadInv, LockInv, Uses
    <2> QED
      BY <2>3, <2>4, ChangeKeeps
  <1>3. CASE LockShared(r)
    <2> DEFINE refused == [now EXCEPT !.call = "issued", !.io = "finished", !.client = NoClient]
    <2>1. CASE finalized
      <3>1. refused \in ReadType /\ ReadInv(refused) /\ LockInv(refused)
        BY <1>0, <1>3, <2>1 DEF LockShared, ReadType, ReadInv, LockInv, Uses
      <3> QED
        BY <1>3, <2>1, <3>1, ChangeKeeps DEF LockShared
    <2>2. CASE ~finalized
      <3>1. /\ GetObjectAsync(now) \in ReadType
            /\ ReadInv(GetObjectAsync(now)) /\ LockInv(GetObjectAsync(now))
        BY <1>0, <1>3, <2>2 DEF LockShared, GetObjectAsync, ReadType, ReadInv, LockInv, Uses
      <3> QED
        BY <1>3, <2>2, <3>1, ChangeKeeps DEF LockShared
    <2> QED
      BY <2>1, <2>2
  <1>4. CASE ReadEnds(r)
    <2> DEFINE read == [now EXCEPT !.io = "finished"]
    <2>1. read \in ReadType /\ ReadInv(read) /\ LockInv(read)
      BY <1>0, <1>4 DEF ReadEnds, ReadType, ReadInv, LockInv, Uses
    <2> QED
      BY <1>4, <2>1, ChangeKeeps DEF ReadEnds
  <1>5. CASE AddCallback(r)
    <2> DEFINE without == WithoutRef(now, "caller")
               attached == [without EXCEPT !.call = "returned", !.keeps = TRUE]
    <2>1. now.call = "issued" /\ Change(r, IF attached.io = "finished" THEN CallBack(attached) ELSE attached)
      BY <1>5 DEF AddCallback
    <2>2. /\ without \in ReadType /\ ReadInv(without) /\ LockInv(without)
          /\ without.calls = 0 /\ without.call = "issued" /\ without.file \in FileIds
      BY <1>0, <2>1, WithoutRefKeeps DEF ReadInv, Uses
    <2> HIDE DEF without
    <2>3. /\ attached \in ReadType /\ attached.call = "returned" /\ attached.file = without.file
          /\ attached.io = without.io /\ attached.client = without.client
          /\ attached.refs = without.refs /\ attached.calls = without.calls
      BY <2>2 DEF ReadType
    <2> HIDE DEF attached
    <2>4. ReadInv(attached) /\ LockInv(attached)
      BY <2>2, <2>3 DEF ReadInv, LockInv, Uses
    <2>5. CASE attached.io = "finished"
      BY <2>1, <2>2, <2>3, <2>4, <2>5, CallBackKeeps, ChangeKeeps
    <2>6. CASE attached.io # "finished"
      BY <2>1, <2>3, <2>4, <2>6, ChangeKeeps
    <2> QED
      BY <2>5, <2>6
  <1>6. CASE RunCallback(r)
    BY <1>0, <1>6, CallBackKeeps, ChangeKeeps DEF RunCallback
  <1>7. CASE HandlerReturns(r)
    <2>1. now.io = "finished" /\ now.refs # {} /\ Change(r, WithoutRef(now, "handler"))
      BY <1>7 DEF HandlerReturns
    <2>2. now.call # "locking"
      BY <1>0, <2>1 DEF ReadInv
    <2> QED
      BY <1>0, <2>1, <2>2, WithoutRefKeeps, ChangeKeeps
  <1> QED
    BY <1>1, <1>2, <1>3, <1>4, <1>5, <1>6, <1>7 DEF ReadStep, ReadGoesOn

----------------------------------------------------------------------------
(* File systems, files and the cache.                                      *)

\* There are more names of files than a program with one handle can use.
LEMMA FreeFile == ASSUME ReadsType, file = NoFile PROVE \E f \in FileIds : ~FileAlive(f)
  <1> DEFINE fileOf == [r \in Reads |-> reads[r].file]
             inUse == {fileOf[r] : r \in Reads}
  <1>1. Cardinality(Reads) \in Nat
    BY ClientsAssumption, FS_CardinalityType
  <1>2. IsFiniteSet(FileIds) /\ Cardinality(FileIds) = Cardinality(Reads) + 1
    BY <1>1, FS_Interval DEF FileIds
  <1>3. IsFiniteSet(inUse) /\ Cardinality(inUse) <= Cardinality(Reads)
    <2>1. fileOf \in Surjection(Reads, inUse)
      BY DEF Surjection
    <2> QED
      BY <2>1, FS_Surjection, ClientsAssumption
  <1>4. SUFFICES ASSUME \A f \in FileIds : FileAlive(f) PROVE FALSE
    OBVIOUS
  <1>5. FileIds \subseteq inUse
    <2> SUFFICES ASSUME NEW f \in FileIds PROVE f \in inUse
      OBVIOUS
    <2>1. f # NoFile
      BY <1>1 DEF FileIds, NoFile
    <2>2. PICK r \in Reads : Uses(reads[r], f)
      BY <1>4, <2>1 DEF FileAlive
    <2> QED
      BY <2>2 DEF Uses
  <1>6. Cardinality(FileIds) <= Cardinality(inUse)
    BY <1>3, <1>5, FS_Subset
  <1> QED
    BY <1>1, <1>2, <1>3, <1>6, FS_CardinalityType

\* A call that only gives things up, or takes what is alive.
LEMMA OwnersKeep ==
    ASSUME IndInv, UNCHANGED <<reads, client>>, sdk' = sdk \/ (sdk = "none" /\ sdk' = "ready"),
           cached' \in Clients \cup {NoClient}, fs' \in Clients \cup {NoClient},
           file' \in FileIds \cup {NoFile},
           holderOf' \in [FileIds -> Clients \cup {NoClient}],
           \A c \in Clients : HolderAlive(c)' => HolderAlive(c)
    PROVE  IndInv'
  <1> USE DEF client
  <1>1. ReadsType'
    BY DEF IndInv, ReadsType
  <1>2. (\A r \in Reads : ReadInv(reads[r]) /\ LockInv(reads[r]))'
    BY DEF IndInv, ReadInv, LockInv, Uses
  <1>3. ExitInv' /\ HolderInv'
    BY DEF IndInv, ExitInv, HolderInv
  <1> QED
    BY <1>1, <1>2, <1>3 DEF IndInv

LEMMA MakeFilesystemKeeps ==
    ASSUME IndInv, MakeFilesystem, cached' = fs', UNCHANGED reads PROVE IndInv'
  <1>1. fs' \in Unused /\ Unused \subseteq Clients
    BY DEF MakeFilesystem, Unused
  <1>2. /\ ~finalized /\ finalized' = finalized /\ finalizing' = finalizing
        /\ holders' = { h \in holders : HolderAlive(h) } \cup {fs'}
        /\ filled' = { h \in filled : HolderAlive(h) } \cup {fs'}
        /\ UNCHANGED <<file, holderOf>>
        /\ sdk' = "ready"
    BY DEF MakeFilesystem, AddClient, CheckS3Initialized
  <1>3. ReadsType'
    BY <1>1, <1>2 DEF IndInv, ReadsType
  <1>4. (\A r \in Reads : ReadInv(reads[r]) /\ LockInv(reads[r]))'
    BY <1>2 DEF IndInv, ReadInv, LockInv, Uses
  <1>5. ExitInv'
    BY <1>2 DEF IndInv, ExitInv
  <1>6. HolderInv'
    <2> SUFFICES ASSUME NEW c \in Clients, HolderAlive(c)'
                 PROVE  c \in holders' /\ c \in filled'
      BY DEF HolderInv
    <2>1. CASE c = fs'
      BY <1>2, <2>1
    <2>2. CASE c # fs'
      <3>1. HolderAlive(c)
        BY <1>2, <2>2 DEF HolderAlive
      <3> QED
        BY <1>2, <3>1 DEF IndInv, HolderInv, ExitInv
    <2> QED
      BY <2>1, <2>2
  <1> QED
    BY <1>3, <1>4, <1>5, <1>6 DEF IndInv

\* Whatever function of the interface the program calls.
LEMMA OnClientsKeeps ==
    ASSUME IndInv, NEW f, OnClients(f), UNCHANGED reads PROVE IndInv'
  <1> USE DEF owners, client
  <1>1. CASE UNCHANGED <<sdk, client, owners>>
    BY <1>1, OwnersKeep DEF IndInv, ReadsType, HolderAlive
  <1>2. CASE GetFilesystem
    <2>1. CASE cached # NoClient /\ fs' = cached /\ UNCHANGED <<sdk, client, cached, file, holderOf>>
      BY <2>1, OwnersKeep DEF IndInv, ReadsType, HolderAlive
    <2>2. CASE MakeFilesystem /\ cached' = fs'
      BY <2>2, MakeFilesystemKeeps
    <2> QED
      BY <1>2, <2>1, <2>2 DEF GetFilesystem
  <1>3. CASE GetFilesystemFails
    BY <1>3, OwnersKeep DEF GetFilesystemFails, InitS3, IndInv, ReadsType, HolderAlive
  <1>4. CASE DestroyFilesystem
    BY <1>4, OwnersKeep, ClientsAssumption DEF DestroyFilesystem, IndInv, ReadsType, HolderAlive
  <1>5. CASE CleanCache
    BY <1>5, OwnersKeep, ClientsAssumption DEF CleanCache, IndInv, ReadsType, HolderAlive
  <1>6. CASE OpenInputFile
    <2>1. file' \in FileIds
      BY <1>6, FreeFile DEF OpenInputFile, IndInv
    <2> QED
      BY <1>6, <2>1, OwnersKeep, ClientsAssumption DEF OpenInputFile, IndInv, ReadsType, HolderAlive
  <1>7. CASE CloseFile
    BY <1>7, OwnersKeep, ClientsAssumption DEF CloseFile, IndInv, ReadsType, HolderAlive
  <1>8. CASE DestroyFile
    BY <1>8, OwnersKeep, ClientsAssumption DEF DestroyFile, IndInv, ReadsType, HolderAlive
  <1> QED
    BY <1>1, <1>2, <1>3, <1>4, <1>5, <1>6, <1>7, <1>8 DEF OnClients

----------------------------------------------------------------------------
(* The exit.                                                               *)

LEMMA ExitStepKeeps == ASSUME IndInv, ExitStep PROVE IndInv'
  <1> USE DEF owners, client
  <1>1. CASE FinalizeS3 \/ ShutdownAPI
    BY <1>1 DEF FinalizeS3, ShutdownAPI, IndInv, ReadsType, ReadInv, LockInv, Uses, ExitInv,
       HolderInv, HolderAlive
  <1>2. CASE FinalizeClients
    BY <1>2 DEF FinalizeClients, IndInv, ReadsType, ReadInv, LockInv, Uses, ExitInv,
       HolderInv, HolderAlive
  <1>3. ASSUME NEW c \in Clients, FinalizeHolder(c) PROVE IndInv'
    BY <1>3 DEF FinalizeHolder, IndInv, ReadsType, ReadInv, LockInv, Uses, ExitInv,
       HolderInv, HolderAlive
  <1> QED
    BY <1>1, <1>2, <1>3 DEF ExitStep, ExitGoesOn

LEMMA IndStep == IndInv /\ [Next]_vars => IndInv'
  <1> SUFFICES ASSUME IndInv, [Next]_vars PROVE IndInv'
    OBVIOUS
  <1>1. ASSUME NEW f \in Sessions[session], Call(f) PROVE IndInv'
    BY <1>1, OnClientsKeeps DEF Call
  <1>2. CASE UNCHANGED readVars
    BY <1>2, OwnersKeep DEF readVars, owners, client, IndInv, ReadsType, HolderAlive
  <1>3. CASE (ExitStep \/ \E r \in Reads : ReadStep(r)) /\ UNCHANGED program
    BY <1>3, ExitStepKeeps, ReadStepKeeps
  <1> QED
    BY <1>1, <1>2, <1>3 DEF Next, vars, Export, Release, RefuseRead

\* A program may close and destroy every handle, clear the cache and exit at
\* any moment: reads in flight keep their file and their client, no request
\* and no client is left when the SDK is shut down, except one that Lock has
\* just copied, and a callback runs once, when its read is over.
THEOREM ReadsAreProtected == Spec => []ReadsProtected
  <1>1. Init => IndInv
    BY IndInit DEF Init
  <1>2. IndInv => ReadsProtected
    <2> SUFFICES ASSUME IndInv PROVE ReadsProtected
      OBVIOUS
    <2>1. ASSUME NEW r \in Reads
          PROVE  /\ reads[r].refs # {} => reads[r].client # NoClient /\ sdk # "shut"
                 /\ reads[r].io = "pending" => reads[r].file \in FileIds /\ "handler" \in reads[r].refs
                 /\ reads[r].refs # {} \/ reads[r].keeps => reads[r].file \in FileIds
                 /\ reads[r].calls <= (IF reads[r].io = "finished" THEN 1 ELSE 0)
      BY DEF IndInv, ReadInv, LockInv, ExitInv, Uses
    <2>2. ASSUME sdk = "shut", NEW c \in Clients, ClientAlive(c) PROVE CopiedInLock(c)
      <3>1. finalized /\ holders = {} /\ finalizing = {}
        BY <2>2 DEF IndInv, ExitInv
      <3>2. PICK r \in Reads : reads[r].client = c
        BY <2>2, <3>1 DEF IndInv, HolderInv, ClientAlive
      <3>3. reads[r].refs = {} /\ reads[r].client # NoClient
        BY <3>1, <3>2, ClientsAssumption DEF IndInv, LockInv
      <3> QED
        BY <3>2, <3>3 DEF IndInv, ReadInv, CopiedInLock
    <2> QED
      BY <2>1, <2>2 DEF ReadsProtected
  <1> QED
    BY <1>1, <1>2, IndStep, PTL DEF Spec
=============================================================================

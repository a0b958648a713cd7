------------------------- MODULE UploadStreamProofs -------------------------
(***************************************************************************)
(* Proofs about UploadStream, for any part size and any number of bytes,   *)
(* calls and failures.                                                     *)
(***************************************************************************)
EXTENDS UploadStream, FiniteSetTheorems, TLAPS

----------------------------------------------------------------------------
(* The inductive invariant, in parts.                                      *)

Closing == call.op \in {"close", "closeAsync"}

\* Close has sent the object with one PUT and waits for the answer.
PutDone == S3 /\ Closing /\ call.step \in {"wait", "commit"} /\ pos < PartSize

\* The future that Flush and Close wait for is fine, or about to be marked so.
OkSoon == future[Last] = "ok" \/ (Last \in finishing /\ status)

\* Where the caller is, and what it has when it is there.
CallInv ==
    /\ ~opened => /\ Idle /\ ~closed /\ slot = 1 /\ handed = 0 /\ buffer = {} /\ rest = {}
                  /\ tasks = {} /\ puts = {} /\ completed = {} /\ flushed = 0 /\ outcome = "none"
                  /\ accepted = {} /\ ~upload /\ closes = 0 /\ object \in {None, <<{Old}>>}
    /\ Idle <=> At("none")
    /\ ~Idle => opened /\ ~closed
    /\ call.op = "write" => call.step \in {"fill", "send", "direct"}
    /\ call.op = "flush" => call.step \in {"wait", "commit"}
    /\ Closing => call.step \in {"last", "put", "wait", "commit"}
    /\ call.op # "abort"
    /\ call.op # "write" => rest = {}
    /\ At("send") => Cardinality(buffer) >= PartSize
    /\ At("direct") => buffer = {}
    /\ At("last") => (S3 => pos >= PartSize) /\ (buffer # {} \/ (S3 /\ slot = 1))
    /\ At("put") => S3 /\ pos < PartSize
    /\ Closing /\ call.step \in {"wait", "commit"} => buffer = {} /\ (S3 => slot > 1)
    /\ At("commit") => future[Last] = "ok" /\ (S3 => Closing /\ upload)
    /\ Closing => closes >= 1 /\ sealed = accepted

\* The bytes: rest is the end of what was handed in, the buffer comes before
\* it, and the parts come before the buffer, in the order of their slots.
ByteInv ==
    /\ \E lo \in 1 .. handed + 1 : rest = lo .. handed
    /\ buffer \subseteq 1 .. handed /\ given \subseteq 1 .. handed /\ accepted \subseteq 1 .. handed
    /\ \A x \in buffer, y \in rest : x < y
    /\ \A s \in Slots : sent[s] # None =>
          /\ s <= slot
          /\ \A x \in sent[s] : x <= handed /\ \A y \in buffer \cup rest : x < y
    /\ \A i, j \in Slots : i < j /\ sent[i] # None /\ sent[j] # None =>
          \A x \in sent[i], y \in sent[j] : x < y
    /\ Cardinality(buffer) <= pos
    /\ pos + Cardinality(rest) <= handed

\* There is a slot for every part.
Room ==
    /\ slot + Cardinality(buffer) + Cardinality(rest)
          + (IF call.step \in {"last", "put"} THEN 1 ELSE 0) <= handed + calls + 2
    /\ calls \in 0 .. MaxCalls /\ closes \in Nat

\* Slots: what is staged is what was sent.
SlotInv ==
    /\ tasks \cup completed \cup puts \subseteq 1 .. slot - 1
    /\ tasks \cap completed = {}
    /\ \A s \in tasks \cup completed \cup puts : sent[s] # None
    /\ \A s \in completed : outcome # "aborted" => staged[s] = sent[s]
    /\ ~S3 => /\ completed = {} /\ puts = {}
              /\ \A s \in 1 .. slot - 1 : sent[s] # None
              /\ \A s \in Slots : staged[s] # None => s < slot /\ staged[s] = sent[s]
    /\ S3 /\ tasks \cup completed # {} => pos >= PartSize /\ upload
    /\ S3 /\ upload /\ ~failedWrite /\ ~(At("direct") /\ Cardinality(rest) >= PartSize) =>
          pos >= PartSize
    /\ S3 /\ ~upload /\ status /\ ~closed /\ ~PutDone => slot = 1
    /\ flushed <= slot - 1

\* The count of uploads in progress, and the futures.
FutureInv ==
    /\ ~Background => /\ tasks = {} /\ puts = {} /\ inProgress = 0 /\ future = <<"ok">>
                      /\ finishing = {} /\ status /\ ~dropped
    /\ Cardinality(tasks) + (IF puts # {} \/ dropped THEN 1 ELSE 0) <= inProgress
    /\ tasks \cup puts # {} => ~OkSoon
    /\ inProgress > 0 /\ OkSoon => S3 /\ (closed \/ PutDone)
    /\ puts # {} /\ status => puts = {slot - 1} /\ tasks = {} /\ (closed \/ PutDone)
    /\ \A f \in DOMAIN future : future[f] = "error" => ~status
    /\ ~status \/ Last \in finishing => future[Last] # "ok"
    /\ S3 /\ dropped /\ ~upload /\ status /\ ~closed => puts = {} /\ PutDone /\ ~OkSoon

\* Nothing has gone wrong that a later success would hide.
Good ==
    /\ status /\ ~closed /\ ~PutDone
    /\ S3 /\ ~Background => ~failedWrite
    /\ S3 /\ Background => ~dropped

Sent(b) == \E s \in 1 .. slot - 1 : b \in sent[s]

\* Then every slot is accounted for and every byte is somewhere.
GoodInv ==
    Good => /\ S3 => completed \cup tasks = 1 .. slot - 1
            /\ \A b \in accepted : Sent(b) \/ b \in buffer
            /\ call.op = "write" => \A b \in given : Sent(b) \/ b \in buffer \/ b \in rest

\* Before the first part of an S3 object, or its only PUT, is sent.
UnsentInv ==
    /\ S3 /\ pos < PartSize /\ (closes = 0 \/ (closes = 1 /\ At("put"))) =>
          status /\ (~failedWrite => ~dropped /\ slot = 1)
    /\ puts # {} => closes >= 1 /\ (At("put") => closes >= 2)
    /\ S3 /\ closes = 0 => object = None
    /\ S3 /\ ~failedWrite /\ closes <= 1 => \A s \in puts : sealed \subseteq sent[s]

\* A PUT and its object.
PutInv ==
    PutDone =>
        /\ ~Background /\ ~failedWrite => object # None /\ DOMAIN object = {1} /\ accepted \subseteq object[1]
        /\ Background /\ ~upload /\ status =>
              /\ sent[slot - 1] # None /\ accepted \subseteq sent[slot - 1]
              /\ OkSoon => object = <<sent[slot - 1]>>

OutcomeInv ==
    /\ outcome \in {"ok", "aborted"} => closed
    /\ outcome = "ok" => puts = {}

IndInv ==
    /\ TypeOK /\ CallInv /\ ByteInv /\ Room /\ SlotInv /\ FutureInv
    /\ GoodInv /\ UnsentInv /\ PutInv /\ OutcomeInv
    /\ ClosedIsComplete /\ NeverPartial /\ FlushCovers
----------------------------------------------------------------------------
(* Sizes of sets of bytes and slots.                                       *)

\* The size of an interval.
LEMMA SizeOfInterval ==
    ASSUME NEW lo \in Int, NEW hi \in Int, lo <= hi + 1
    PROVE  IsFiniteSet(lo .. hi) /\ Cardinality(lo .. hi) = hi + 1 - lo
BY FS_Interval

\* Smallest cuts an interval in two: what it takes, and what it leaves.
LEMMA TakeSmallest ==
    ASSUME NEW n \in Int, NEW lo \in Int, NEW hi \in Int, lo <= hi + 1
    PROVE  \E mid \in lo .. hi + 1 :
              /\ Smallest(n, lo .. hi) = lo .. mid - 1
              /\ (lo .. hi) \ Smallest(n, lo .. hi) = mid .. hi
              /\ mid - lo <= n \/ mid = lo
              /\ mid <= hi => mid - lo >= n
<1> DEFINE mid == IF n <= 0 THEN lo ELSE IF hi < lo + n - 1 THEN hi + 1 ELSE lo + n
<1>1. /\ mid \in Int /\ mid \in lo .. hi + 1
      /\ mid - lo <= n \/ mid = lo
      /\ mid <= hi => mid - lo >= n
      /\ \A x \in lo .. hi : x - lo + 1 <= n <=> x <= mid - 1
    OBVIOUS
<1> HIDE DEF mid
<1>2. ASSUME NEW x \in lo .. hi PROVE Cardinality({y \in lo .. hi : y <= x}) = x - lo + 1
    <2>1. x \in Int /\ lo <= x + 1
        OBVIOUS
    <2>2. {y \in lo .. hi : y <= x} = lo .. x
        OBVIOUS
    <2>3. Cardinality(lo .. x) = x + 1 - lo
        BY <2>1, SizeOfInterval
    <2>4. x + 1 - lo = x - lo + 1
        BY <2>1
    <2> QED
        BY <2>2, <2>3, <2>4, Zenon
<1>3. Smallest(n, lo .. hi) = {x \in lo .. hi : x <= mid - 1}
    BY <1>1, <1>2 DEF Smallest
<1>4. Smallest(n, lo .. hi) = lo .. mid - 1
    <2>1. {x \in lo .. hi : x <= mid - 1} = lo .. mid - 1
        BY <1>1
    <2> QED
        BY <1>3, <2>1, Zenon
<1>5. (lo .. hi) \ Smallest(n, lo .. hi) = mid .. hi
    BY <1>1, <1>4
<1> QED
    BY <1>1, <1>4, <1>5

\* Sets of bytes and of slots are finite.
LEMMA FiniteSets ==
    ASSUME NEW S, S \in SUBSET Bytes \/ S \in SUBSET Slots
    PROVE  IsFiniteSet(S) /\ Cardinality(S) \in Nat /\ (Cardinality(S) = 0 <=> S = {})
<1>1. IsFiniteSet(Bytes) /\ IsFiniteSet(Slots)
    BY UploadAssumption, FS_Interval DEF Bytes, Slots
<1>2. IsFiniteSet(S)
    BY <1>1, FS_Subset
<1> QED
    BY <1>2, FS_CardinalityType, FS_EmptySet

\* One slot more, one slot less.
LEMMA OneSlot ==
    ASSUME NEW S \in SUBSET Slots, NEW s \in Slots
    PROVE  /\ Cardinality(S \ {s}) \in Nat
           /\ Cardinality(S \ {s}) = Cardinality(S) - (IF s \in S THEN 1 ELSE 0)
           /\ Cardinality(S \cup {s}) \in Nat
           /\ Cardinality(S \cup {s}) = Cardinality(S) + (IF s \in S THEN 0 ELSE 1)
<1>1. IsFiniteSet(S) /\ Cardinality(S) \in Nat
    BY FiniteSets
<1>2. S \ {s} \in SUBSET Slots /\ S \cup {s} \in SUBSET Slots
    OBVIOUS
<1>3. Cardinality(S \ {s}) \in Nat /\ Cardinality(S \cup {s}) \in Nat
    BY <1>2, FiniteSets
<1>4. /\ Cardinality(S \ {s}) = IF s \in S THEN Cardinality(S) - 1 ELSE Cardinality(S)
      /\ Cardinality(S \cup {s}) = IF s \in S THEN Cardinality(S) ELSE Cardinality(S) + 1
    BY <1>1, FS_AddElement, FS_RemoveElement, Zenon
<1> QED
    BY <1>1, <1>3, <1>4

\* Another part in a slot.
LEMMA OnePart ==
    ASSUME NEW f \in [Slots -> {None} \cup Parts], NEW s \in Slots, NEW p \in Parts
    PROVE  [f EXCEPT ![s] = p] \in [Slots -> {None} \cup Parts]
OBVIOUS

\* What Sending takes out of the buffer or out of the caller's memory, and what
\* it leaves there.
Left == IF At("direct") THEN rest \ DirectPart ELSE rest

Counts == IF At("direct") THEN Cardinality(DirectPart) ELSE 0

LEMMA PartFacts ==
    ASSUME IndInv, Sending
    PROVE  /\ NextPart \in SUBSET (1 .. handed) /\ NextPart \in Parts /\ NextPart # None
           /\ NextPart \cup Left = buffer \cup rest
           /\ \A x \in NextPart, y \in Left : x < y
           /\ \E lo \in 1 .. handed + 1 : Left = lo .. handed
           /\ Cardinality(Left) \in Nat /\ Counts \in Nat
           /\ Cardinality(Left) <= Cardinality(rest)
           /\ slot + 1 + Cardinality(Left) <= handed + calls + 2
           /\ pos + Counts + Cardinality(Left) <= handed
           /\ S3 => pos + Counts >= PartSize
<1> USE UploadAssumption
<1>1. PICK lo \in 1 .. handed + 1 : rest = lo .. handed
    BY DEF IndInv, ByteInv
<1>2. handed \in Nat /\ handed <= MaxBytes /\ pos \in Nat /\ lo \in Int /\ slot \in Nat
    BY DEF IndInv, TypeOK, Slots
<1>3. Cardinality(rest) = handed + 1 - lo
    BY <1>1, <1>2, SizeOfInterval
<1>4. Cardinality(buffer) \in Nat /\ (Cardinality(buffer) = 0 <=> buffer = {})
    BY FiniteSets DEF IndInv, TypeOK
<1>5. CASE At("direct")
    <2>1. PICK mid \in lo .. handed + 1 :
              /\ DirectPart = lo .. mid - 1
              /\ Left = mid .. handed
              /\ mid - lo >= PartSize
        <3>1. handed + 1 - lo >= PartSize
            BY <1>3, <1>5 DEF Sending, At
        <3>2. CASE S3
            <4>1. PICK mid \in lo .. handed + 1 :
                      /\ Smallest(PartSize, lo .. handed) = lo .. mid - 1
                      /\ (lo .. handed) \ Smallest(PartSize, lo .. handed) = mid .. handed
                      /\ mid <= handed => mid - lo >= PartSize
                <5>1. PartSize \in Int /\ handed \in Int /\ lo <= handed + 1
                    BY <1>2
                <5> QED
                    BY <1>2, <5>1, TakeSmallest, Zenon
            <4>2. DirectPart = lo .. mid - 1 /\ Left = mid .. handed
                BY <1>1, <1>5, <3>2, <4>1, Zenon DEF DirectPart, Left
            <4> QED
                BY <1>2, <3>1, <4>1, <4>2
        <3>3. CASE ~S3
            BY <1>1, <1>2, <1>5, <3>1, <3>3 DEF DirectPart, Left
        <3> QED
            BY <3>2, <3>3
    <2>2. Counts = mid - lo /\ Cardinality(Left) = handed + 1 - mid
        <3>1. /\ mid - 1 \in Int /\ lo <= (mid - 1) + 1 /\ mid \in Int /\ mid <= handed + 1
              /\ handed \in Int /\ (mid - 1) + 1 - lo = mid - lo
            BY <1>2, <2>1
        <3>2. Cardinality(lo .. mid - 1) = (mid - 1) + 1 - lo
            BY <1>2, <3>1, SizeOfInterval, Zenon
        <3>3. Cardinality(mid .. handed) = handed + 1 - mid
            BY <3>1, SizeOfInterval, Zenon
        <3> QED
            BY <1>5, <2>1, <3>1, <3>2, <3>3, Zenon DEF Counts
    <2>3. NextPart = lo .. mid - 1 /\ buffer = {}
        BY <1>5, <2>1 DEF NextPart, IndInv, CallInv
    <2>4. NextPart \cup Left = buffer \cup rest
        BY <1>1, <1>2, <2>1, <2>3
    <2>5. NextPart \in SUBSET (1 .. handed) /\ NextPart \in Parts
        BY <1>1, <1>2, <2>1, <2>3 DEF Parts, Bytes
    <2>6. \A x \in NextPart, y \in Left : x < y
        BY <1>2, <2>1, <2>3
    <2>7. slot + 1 + Cardinality(Left) <= handed + calls + 2
        BY <1>2, <1>3, <1>4, <1>5, <2>1, <2>2, <2>3 DEF IndInv, Room, At
    <2>8. pos + Counts + Cardinality(Left) <= handed
        BY <1>2, <1>3, <2>1, <2>2 DEF IndInv, ByteInv
    <2> QED
        BY <1>2, <1>3, <2>1, <2>2, <2>4, <2>5, <2>6, <2>7, <2>8 DEF Parts, Bytes, Old
<1>6. CASE ~At("direct")
    <2>1. NextPart = buffer /\ Left = rest /\ Counts = 0
        BY <1>6 DEF NextPart, Left, Counts
    <2>2. slot + 1 + Cardinality(Left) <= handed + calls + 2
        BY <1>2, <1>3, <1>4, <1>6, <2>1 DEF IndInv, CallInv, Room, Sending, At
    <2>3. S3 => pos >= PartSize
        BY <1>2, <1>4, <1>6 DEF IndInv, CallInv, ByteInv, Sending, At
    <2>4. buffer \in SUBSET (1 .. handed) /\ buffer \in Parts /\ buffer # None
        BY DEF IndInv, TypeOK, ByteInv, Parts, Bytes, Old
    <2>5. /\ \A x \in buffer, y \in rest : x < y
          /\ pos + Cardinality(rest) <= handed
        BY DEF IndInv, ByteInv
    <2> QED
        BY <1>1, <1>2, <1>3, <2>1, <2>2, <2>3, <2>4, <2>5
<1> QED
    BY <1>5, <1>6

\* What FillBuffer copies from the caller's memory to the buffer.
Copied == Smallest(PartSize - Cardinality(buffer), rest)

LEMMA FillFacts ==
    ASSUME IndInv
    PROVE  /\ buffer \cup Copied \in SUBSET (1 .. handed)
           /\ Copied \subseteq rest
           /\ \E lo \in 1 .. handed + 1 : rest \ Copied = lo .. handed
           /\ \A x \in buffer \cup Copied, y \in rest \ Copied : x < y
           /\ Cardinality(Copied) \in Nat /\ Cardinality(rest \ Copied) \in Nat
           /\ Cardinality(buffer \cup Copied) = Cardinality(buffer) + Cardinality(Copied)
           /\ Cardinality(Copied) + Cardinality(rest \ Copied) = Cardinality(rest)
           /\ Cardinality(buffer \cup Copied) < PartSize => rest \ Copied = {}
<1> USE UploadAssumption
<1>1. PICK lo \in 1 .. handed + 1 : rest = lo .. handed
    BY DEF IndInv, ByteInv
<1>2. /\ handed \in Int /\ lo \in Int /\ lo <= handed + 1
      /\ buffer \in SUBSET (1 .. handed)
      /\ \A x \in buffer, y \in rest : x < y
    BY DEF IndInv, TypeOK, ByteInv
<1>3. IsFiniteSet(buffer) /\ Cardinality(buffer) \in Nat
    BY FiniteSets DEF IndInv, TypeOK
<1>4. PartSize - Cardinality(buffer) \in Int
    BY <1>3
<1>5. PICK mid \in lo .. handed + 1 :
          /\ Smallest(PartSize - Cardinality(buffer), lo .. handed) = lo .. mid - 1
          /\ (lo .. handed) \ Smallest(PartSize - Cardinality(buffer), lo .. handed) = mid .. handed
          /\ mid <= handed => mid - lo >= PartSize - Cardinality(buffer)
    BY <1>2, <1>4, TakeSmallest, Zenon
<1>6. Copied = lo .. mid - 1 /\ rest \ Copied = mid .. handed
    BY <1>1, <1>5, Zenon DEF Copied
<1> DEFINE left == rest \ Copied
<1> HIDE DEF left
<1>7. /\ mid \in Int /\ lo <= mid /\ mid <= handed + 1 /\ 1 <= lo
      /\ Copied = lo .. mid - 1 /\ left = mid .. handed
      /\ Copied \subseteq rest /\ left \subseteq rest
    BY <1>1, <1>2, <1>6 DEF left
<1>8. /\ IsFiniteSet(Copied) /\ Cardinality(Copied) = mid - lo
      /\ Cardinality(left) = handed + 1 - mid
      /\ Cardinality(rest) = handed + 1 - lo
    BY <1>1, <1>2, <1>6, <1>7, SizeOfInterval
<1>9. Cardinality(buffer \cup Copied) = Cardinality(buffer) + Cardinality(Copied)
    <2>1. buffer \cap Copied = {}
        BY <1>1, <1>2, <1>6
    <2>2. /\ Cardinality(buffer \cap Copied) = 0
          /\ Cardinality(buffer \cup Copied) =
                Cardinality(buffer) + Cardinality(Copied) - Cardinality(buffer \cap Copied)
        BY <1>3, <1>8, <2>1, FS_Union, FS_EmptySet, Zenon
    <2> QED
        BY <1>2, <1>3, <1>8, <1>7, <2>1, <2>2
<1>10. \A x \in buffer \cup Copied, y \in left : x < y
    BY <1>2, <1>7
<1>11. buffer \cup Copied \in SUBSET (1 .. handed)
    <2>1. lo .. mid - 1 \subseteq 1 .. handed
        BY <1>2, <1>7
    <2> QED
        BY <1>2, <1>7, <2>1, Zenon
<1>12. Cardinality(buffer \cup Copied) < PartSize => left = {}
    BY <1>2, <1>3, <1>5, <1>7, <1>8, <1>9
<1>13. /\ mid \in 1 .. handed + 1 /\ Cardinality(Copied) \in Nat /\ Cardinality(left) \in Nat
       /\ Cardinality(Copied) + Cardinality(left) = Cardinality(rest)
    BY <1>2, <1>7, <1>8
<1> QED
    BY <1>7, <1>9, <1>10, <1>11, <1>12, <1>13 DEF left

\* The numbers that the invariant counts with.
LEMMA Numbers ==
    ASSUME IndInv
    PROVE  /\ IsFiniteSet(buffer) /\ Cardinality(buffer) \in Nat /\ (Cardinality(buffer) = 0 <=> buffer = {})
           /\ IsFiniteSet(rest) /\ Cardinality(rest) \in Nat /\ (Cardinality(rest) = 0 <=> rest = {})
           /\ IsFiniteSet(tasks) /\ Cardinality(tasks) \in Nat /\ (Cardinality(tasks) = 0 <=> tasks = {})
           /\ Cardinality({}) = 0
           /\ PartSize \in Nat \ {0} /\ MaxBytes \in Nat /\ MaxCalls \in Nat
           /\ handed \in 0 .. MaxBytes /\ pos \in Nat /\ slot \in Nat \ {0} /\ inProgress \in Nat
           /\ calls \in 0 .. MaxCalls /\ closes \in Nat /\ flushed \in Nat
           /\ Cardinality(buffer) <= pos /\ pos + Cardinality(rest) <= handed
           /\ slot + Cardinality(buffer) + Cardinality(rest) <= handed + calls + 2
<1>1. TypeOK
    BY DEF IndInv
<1>2. /\ IsFiniteSet(buffer) /\ Cardinality(buffer) \in Nat /\ (Cardinality(buffer) = 0 <=> buffer = {})
      /\ IsFiniteSet(rest) /\ Cardinality(rest) \in Nat /\ (Cardinality(rest) = 0 <=> rest = {})
      /\ IsFiniteSet(tasks) /\ Cardinality(tasks) \in Nat /\ (Cardinality(tasks) = 0 <=> tasks = {})
      /\ Cardinality({}) = 0
    BY <1>1, FiniteSets, FS_EmptySet DEF TypeOK
<1>3. /\ PartSize \in Nat \ {0} /\ MaxBytes \in Nat /\ MaxCalls \in Nat
      /\ handed \in 0 .. MaxBytes /\ pos \in Nat /\ slot \in Nat \ {0} /\ inProgress \in Nat
      /\ flushed \in Nat
    BY <1>1, UploadAssumption DEF TypeOK, Slots
<1>4. calls \in 0 .. MaxCalls /\ closes \in Nat
    BY DEF IndInv, Room
<1>5. Cardinality(buffer) <= pos /\ pos + Cardinality(rest) <= handed
    BY DEF IndInv, ByteInv
<1>6. slot + Cardinality(buffer) + Cardinality(rest) <= handed + calls + 2
    BY <1>2, <1>3, <1>4 DEF IndInv, Room
<1> QED
    BY <1>2, <1>3, <1>4, <1>5, <1>6

\* Where the caller is when it sends a part.
LEMMA SendingFacts ==
    ASSUME IndInv, Sending
    PROVE  /\ opened /\ ~closed /\ ~PutDone
           /\ call.op \in {"write", "close", "closeAsync"} /\ call.step \in {"send", "direct", "last"}
           /\ call.op = "write" <=> call.step # "last"
           /\ call.step = "direct" => buffer = {} /\ Cardinality(rest) >= PartSize
           /\ call.step # "direct" => rest = {} \/ call.step = "send"
           /\ call = [op |-> call.op, step |-> call.step]
BY DEF IndInv, TypeOK, CallInv, Sending, At, Idle, Closing, PutDone

\* A part is on its way: the caller goes on.
LEMMA PartIsOutFacts ==
    ASSUME IndInv, Sending, PartIsOut
    PROVE  /\ buffer' = {} /\ rest' = Left /\ pos' = pos + Counts
           /\ call' = [op |-> call.op, step |-> IF call.op = "write" THEN "direct" ELSE "wait"]
           /\ UNCHANGED <<accepted, failedWrite, closed, outcome>>
<1>1. buffer' = {} /\ rest' = Left /\ pos' = pos + Counts
    BY SendingFacts, Numbers DEF PartIsOut, Left, Counts, At
<1>2. call' = [op |-> call.op, step |-> IF call.op = "write" THEN "direct" ELSE "wait"]
    BY SendingFacts DEF PartIsOut
<1> QED
    BY <1>1, <1>2 DEF PartIsOut

\* A part could not be sent: the caller's Write or Close ends.
LEMMA CallFailsFacts ==
    ASSUME IndInv, Sending, CallFails
    PROVE  /\ call' = [op |-> "none", step |-> "none"] /\ accepted' = accepted
           /\ failedWrite => failedWrite'
           /\ call.op = "write" => failedWrite' /\ UNCHANGED <<closed, outcome>>
           /\ call.op # "write" => (closed' <=> S3) /\ outcome' = "error" /\ failedWrite' = failedWrite
           /\ S3 => failedWrite' \/ closed'
           /\ closed' \in BOOLEAN /\ outcome' \in {outcome, "error"}
<1>1. closed \in BOOLEAN
    BY DEF IndInv, TypeOK
<1>2. CASE call.op = "write"
    BY <1>1, <1>2 DEF CallFails, WriteReturns, Done
<1>3. CASE call.op # "write"
    BY <1>3 DEF CallFails, Done, S3
<1> QED
    BY <1>2, <1>3

\* What an attempt to send a part does to the bytes.
PartGone ==
    /\ sent' = [sent EXCEPT ![slot] = NextPart]
    /\ buffer' = {}
    /\ \/ rest' = Left /\ pos' = pos + Counts /\ slot' = slot + 1
       \/ rest' = {} /\ pos' = pos /\ slot' \in {slot, slot + 1}
    /\ call'.step \notin {"last", "put"}
    /\ UNCHANGED <<given, handed, accepted, calls, closes>>

LEMMA PartGoneFacts ==
    ASSUME IndInv, Sending, PartGone
    PROVE  /\ ByteInv' /\ Room'
           /\ slot' \in Slots /\ rest' \in SUBSET Bytes /\ buffer' \in SUBSET Bytes /\ pos' \in 0 .. MaxBytes
           /\ sent' \in [Slots -> {None} \cup Parts]
           /\ sent'[slot] = NextPart /\ \A s \in Slots : s # slot => sent'[s] = sent[s]
<1>1. slot \in Slots /\ sent \in [Slots -> {None} \cup Parts]
    BY DEF IndInv, TypeOK
<1>2. NextPart \in Parts /\ NextPart \in SUBSET (1 .. handed) /\ NextPart # None
    BY PartFacts
<1>3. sent' \in [Slots -> {None} \cup Parts]
    BY <1>1, <1>2, OnePart DEF PartGone
<1>4. sent'[slot] = NextPart /\ \A s \in Slots : s # slot => sent'[s] = sent[s]
    BY <1>1 DEF PartGone
<1>5. /\ \E lo \in 1 .. handed + 1 : rest' = lo .. handed
      /\ rest' \subseteq buffer \cup rest
      /\ \A x \in NextPart, y \in rest' : x < y
    <2>1. CASE rest' = Left
        BY <2>1, PartFacts
    <2>2. CASE rest' = {}
        BY <2>2, Numbers
    <2> QED
        BY <2>1, <2>2 DEF PartGone
<1>6. /\ Cardinality(rest') \in Nat /\ Cardinality(buffer') = 0
      /\ pos' \in Nat /\ pos' + Cardinality(rest') <= handed
      /\ slot' \in Nat /\ slot <= slot' /\ slot' + Cardinality(rest') <= handed + calls + 2
    <2>1. Cardinality(buffer') = 0
        BY Numbers DEF PartGone
    <2>2. /\ Cardinality(Left) \in Nat /\ Counts \in Nat
          /\ slot + 1 + Cardinality(Left) <= handed + calls + 2
          /\ pos + Counts + Cardinality(Left) <= handed
        BY PartFacts, Zenon
    <2>3. /\ slot \in Nat /\ pos \in Nat /\ handed \in Nat /\ calls \in Nat /\ Cardinality({}) = 0
        BY Numbers
    <2>4. CASE rest' = Left /\ pos' = pos + Counts /\ slot' = slot + 1
        BY <2>1, <2>2, <2>3, <2>4
    <2>5. CASE rest' = {} /\ pos' = pos /\ slot' \in {slot, slot + 1}
        BY <2>1, <2>2, <2>3, <2>5
    <2> QED
        BY <2>4, <2>5 DEF PartGone
<1>7. ByteInv'
    <2>1. \A s \in Slots : sent'[s] # None =>
              /\ s <= slot'
              /\ \A x \in sent'[s] : x <= handed' /\ \A y \in buffer' \cup rest' : x < y
        <3>1. ASSUME NEW s \in Slots, s # slot, sent[s] # None
              PROVE  s <= slot /\ \A x \in sent[s] : x <= handed /\ \A y \in rest' : x < y
            BY <1>5, <3>1 DEF IndInv, ByteInv
        <3>2. \A x \in NextPart : x <= handed /\ \A y \in rest' : x < y
            BY <1>2, <1>5, Numbers
        <3>3. buffer' \cup rest' = rest' /\ handed' = handed
            BY DEF PartGone
        <3>4. \A s \in Slots : s <= slot => s <= slot'
            BY <1>6, Numbers DEF Slots
        <3> QED
            BY <1>1, <1>4, <1>6, <3>1, <3>2, <3>3, <3>4
    <2>2. \A i, j \in Slots : i < j /\ sent'[i] # None /\ sent'[j] # None =>
              \A x \in sent'[i], y \in sent'[j] : x < y
        <3>1. ASSUME NEW i \in Slots, sent[i] # None PROVE i <= slot /\ \A x \in sent[i], y \in NextPart : x < y
            BY <3>1, PartFacts DEF IndInv, ByteInv
        <3>2. \A i, j \in Slots : i < j /\ sent[i] # None /\ sent[j] # None =>
                  \A x \in sent[i], y \in sent[j] : x < y
            BY DEF IndInv, ByteInv
        <3> QED
            BY <1>4, <3>1, <3>2, Numbers DEF Slots
    <2>3. /\ buffer' \subseteq 1 .. handed' /\ given' \subseteq 1 .. handed' /\ accepted' \subseteq 1 .. handed'
          /\ \A x \in buffer', y \in rest' : x < y
        BY DEF PartGone, IndInv, ByteInv
    <2>4. Cardinality(buffer') <= pos' /\ pos' + Cardinality(rest') <= handed'
        BY <1>6, Numbers DEF PartGone
    <2> QED
        BY <1>5, <2>1, <2>2, <2>3, <2>4 DEF ByteInv, PartGone
<1>8. Room'
    BY <1>6, Numbers DEF PartGone, Room, IndInv
<1>9. slot' \in Slots /\ pos' \in 0 .. MaxBytes
    BY <1>6, Numbers DEF Slots
<1>10. rest' \in SUBSET Bytes /\ buffer' \in SUBSET Bytes
    BY <1>5 DEF PartGone, IndInv, TypeOK
<1> QED
    BY <1>3, <1>4, <1>7, <1>8, <1>9, <1>10

\* The slots before the current one.
LEMMA EarlierSlots ==
    ASSUME IndInv
    PROVE  /\ slot \in Slots /\ slot \notin 1 .. slot - 1
           /\ \A s \in 1 .. slot - 1 : s \in Slots /\ s # slot
           /\ \A s \in 1 .. flushed : s \in Slots /\ s # slot /\ s \in 1 .. slot - 1
           /\ 1 .. (slot + 1) - 1 = (1 .. slot - 1) \cup {slot}
<1>1. slot \in Slots
    BY DEF IndInv, TypeOK
<1>2. flushed <= slot - 1
    BY DEF IndInv, SlotInv
<1> QED
    BY <1>1, <1>2, Numbers DEF Slots

\* The bytes of the new part count as sent once its slot is used up.
LEMMA SentFacts ==
    ASSUME IndInv, Sending, PartGone
    PROVE  /\ \A b : Sent(b) => Sent(b)'
           /\ slot' = slot + 1 => \A b \in NextPart : Sent(b)'
<1>1. sent'[slot] = NextPart /\ \A s \in Slots : s # slot => sent'[s] = sent[s]
    BY PartGoneFacts
<1>2. slot' \in {slot, slot + 1} /\ 1 .. slot - 1 \subseteq 1 .. slot' - 1
    BY Numbers DEF PartGone
<1>3. \A b : Sent(b) => Sent(b)'
    BY <1>1, <1>2, EarlierSlots DEF Sent
<1>4. ASSUME slot' = slot + 1, NEW b \in NextPart
      PROVE  Sent(b)'
    BY <1>1, <1>4, EarlierSlots, Zenon DEF Sent
<1> QED
    BY <1>3, <1>4

\* An upload is counted while none is about to be reported as finished: the
\* future that Flush and Close wait for is a fresh one, or still open.
LEMMA CountedFacts ==
    ASSUME IndInv, Counted, ~closed, ~PutDone, UNCHANGED <<status, finishing>>
    PROVE  /\ inProgress' = inProgress + 1 /\ inProgress' \in Nat
           /\ future' \in Seq({"pending", "ok", "error"}) /\ future' # << >>
           /\ finishing' \subseteq DOMAIN future'
           /\ \A f \in DOMAIN future' : future'[f] = "error" => ~status
           /\ future'[Last'] # "ok" /\ ~OkSoon'
<1>1. /\ inProgress \in Nat /\ future \in Seq({"pending", "ok", "error"}) /\ future # << >>
      /\ finishing \subseteq DOMAIN future
    BY DEF IndInv, TypeOK
<1>2. \A f \in DOMAIN future : future[f] = "error" => ~status
    BY DEF IndInv, FutureInv
<1>3. CASE inProgress = 0
    <2>1. future' = Append(future, "pending") /\ inProgress' = inProgress + 1
        BY <1>3 DEF Counted
    <2>2. /\ Len(future') = Len(future) + 1 /\ DOMAIN future' = 1 .. Len(future) + 1
          /\ DOMAIN future = 1 .. Len(future) /\ Len(future) \in Nat
          /\ future'[Len(future')] = "pending"
          /\ \A f \in DOMAIN future : future'[f] = future[f]
          /\ future' \in Seq({"pending", "ok", "error"}) /\ future' # << >>
        BY <1>1, <2>1
    <2>3. Len(future') \notin finishing /\ finishing' \subseteq DOMAIN future'
        BY <1>1, <2>2
    <2>4. \A f \in DOMAIN future' : future'[f] = "error" => ~status
        BY <1>2, <2>2
    <2> QED
        BY <1>1, <2>1, <2>2, <2>3, <2>4 DEF OkSoon, Last
<1>4. CASE inProgress # 0
    <2>1. ~OkSoon
        BY <1>1, <1>4 DEF IndInv, FutureInv
    <2>2. future' = future /\ inProgress' = inProgress + 1
        BY <1>4 DEF Counted
    <2> QED
        BY <1>1, <1>2, <2>1, <2>2 DEF OkSoon, Last
<1> QED
    BY <1>3, <1>4

----------------------------------------------------------------------------
(* Every action keeps the invariant.                                       *)

\* Opening a stream sends nothing on S3 and empties the blob on Azure.
LEMMA OpenTruncateKeeps ==
    ASSUME IndInv, OpenTruncate
    PROVE  IndInv'
<1>1. /\ ~opened /\ opened' /\ (S3 => object' = object)
      /\ UNCHANGED <<mode, closed, call, given, rest, handed, accepted, buffer, pos, parts, state, history>>
    BY DEF OpenTruncate
<1>2. Idle /\ outcome = "none" /\ flushed = 0
    BY <1>1 DEF IndInv, CallInv
<1> USE DEF parts, state, history
<1>3. (OkSoon' <=> OkSoon) /\ ~PutDone' /\ ~PutDone
    BY <1>1, <1>2 DEF OkSoon, Last, PutDone, S3, Closing, Idle
<1>4. TypeOK'
    BY <1>1 DEF IndInv, TypeOK
<1>5. CallInv'
    BY <1>1 DEF IndInv, CallInv, S3, Idle, At, Last, Closing
<1>6. ByteInv' /\ Room' /\ SlotInv' /\ FutureInv' /\ UnsentInv'
    BY <1>1, <1>3 DEF IndInv, ByteInv, Room, SlotInv, FutureInv, UnsentInv, S3, Background, Last, At
<1>7. GoodInv' /\ PutInv' /\ OutcomeInv'
    BY <1>1, <1>2, <1>3 DEF IndInv, Good, GoodInv, Sent, PutInv, OutcomeInv, S3, Background
<1>8. ClosedIsComplete' /\ NeverPartial' /\ FlushCovers'
    BY <1>1, <1>2, Numbers DEF IndInv, ClosedIsComplete, NeverPartial, Visible, FlushCovers, S3
<1> QED
    BY <1>4, <1>5, <1>6, <1>7, <1>8 DEF IndInv

\* Opening for append: the block of the existing blob takes the first slot.
LEMMA OpenAppendKeeps ==
    ASSUME IndInv, OpenAppend
    PROVE  IndInv'
<1>1. /\ slot = 1 /\ handed = 0 /\ rest = {} /\ buffer = {} /\ accepted = {}
      /\ tasks = {} /\ puts = {} /\ completed = {} /\ flushed = 0 /\ closes = 0 /\ outcome = "none"
      /\ ~opened /\ Idle /\ mode.store # "S3" /\ object \in {None, <<{0}>>}
    BY DEF IndInv, CallInv, OpenAppend, Old, S3
<1>2. {0} \in Parts /\ {0} # None /\ 1 \in Slots /\ 2 \in Slots /\ 1 .. 0 = {} /\ 1 .. 1 = {1}
    BY UploadAssumption DEF Parts, Old, Slots
<1>3. \A s \in Slots : (sent[s] # None => s <= 1) /\ staged[s] = None
    BY <1>1, Numbers DEF IndInv, ByteInv, SlotInv, S3, Slots
<1>4. /\ opened' /\ UNCHANGED <<mode, closed, call, given, rest, handed, accepted, buffer, pos,
                                upload, tasks, puts, completed, state, history>>
      /\ \/ UNCHANGED <<slot, sent, staged>> /\ object' = << >>
         \/ /\ slot' = 2 /\ sent' = [sent EXCEPT ![1] = {0}] /\ staged' = [staged EXCEPT ![1] = {0}]
            /\ object' = object
    BY <1>1 DEF OpenAppend
<1> USE DEF state, history
<1>5. TypeOK'
    <2>1. sent' \in [Slots -> {None} \cup Parts] /\ staged' \in [Slots -> {None} \cup Parts]
        <3>1. sent \in [Slots -> {None} \cup Parts] /\ staged \in [Slots -> {None} \cup Parts]
            BY DEF IndInv, TypeOK
        <3>2. /\ [sent EXCEPT ![1] = {0}] \in [Slots -> {None} \cup Parts]
              /\ [staged EXCEPT ![1] = {0}] \in [Slots -> {None} \cup Parts]
            BY <1>2, <3>1, OnePart
        <3> QED
            BY <1>4, <3>1, <3>2, Zenon
    <2>2. slot' \in Slots
        BY <1>2, <1>4 DEF IndInv, TypeOK
    <2> QED
        BY <1>4, <2>1, <2>2 DEF IndInv, TypeOK
<1>6. CallInv'
    BY <1>1, <1>4, Numbers DEF IndInv, CallInv, Idle, At, Closing, Last, S3
<1>7. ByteInv'
    <2>1. CASE UNCHANGED <<slot, sent, staged>>
        BY <1>4, <2>1 DEF IndInv, ByteInv
    <2>2. CASE /\ slot' = 2 /\ sent' = [sent EXCEPT ![1] = {0}]
        <3>1. \A s \in Slots : sent'[s] # None => s = 1 /\ sent'[s] = {0}
            BY <1>2, <1>3, <2>2 DEF IndInv, TypeOK, Slots
        <3> QED
            BY <1>1, <1>4, <2>2, <3>1 DEF IndInv, ByteInv
    <2> QED
        BY <1>4, <2>1, <2>2
<1>8. Room'
    BY <1>1, <1>4, Numbers DEF IndInv, CallInv, Room, Idle, At
<1>9. SlotInv'
    <2>1. CASE UNCHANGED <<slot, sent, staged>>
        BY <1>1, <1>4, <2>1 DEF IndInv, SlotInv, S3, Closing, PutDone
    <2>2. CASE slot' = 2 /\ sent' = [sent EXCEPT ![1] = {0}] /\ staged' = [staged EXCEPT ![1] = {0}]
        <3>1. \A s \in Slots : staged'[s] # None => s < slot' /\ staged'[s] = sent'[s]
            BY <1>2, <1>3, <2>2 DEF IndInv, TypeOK
        <3>2. sent'[1] # None /\ 1 .. slot' - 1 = {1}
            BY <1>2, <2>2 DEF IndInv, TypeOK
        <3> QED
            BY <1>1, <1>4, <2>2, <3>1, <3>2 DEF SlotInv, S3
    <2> QED
        BY <1>4, <2>1, <2>2
<1>10. FutureInv' /\ UnsentInv' /\ PutInv'
    BY <1>1, <1>4 DEF IndInv, FutureInv, UnsentInv, PutInv, S3, Background, Idle, At, Last, Closing, PutDone, OkSoon
<1>11. GoodInv'
    BY <1>1, <1>4 DEF IndInv, Good, GoodInv, S3, Idle
<1>12. OutcomeInv' /\ ClosedIsComplete' /\ NeverPartial' /\ FlushCovers'
    BY <1>1, <1>4 DEF IndInv, OutcomeInv, ClosedIsComplete, NeverPartial, FlushCovers, S3
<1> QED
    BY <1>5, <1>7, <1>9, <1>10, <1>11, <1>12, <1>6, <1>8 DEF IndInv

\* Write: the new bytes come after all that were handed in before.
LEMMA WriteKeeps ==
    ASSUME IndInv, NEW n \in 1 .. PartSize + 1, Write(n)
    PROVE  IndInv'
<1>1. /\ opened /\ ~closed /\ call.op = "none" /\ call.step = "none" /\ rest = {}
      /\ handed + n <= MaxBytes /\ handed' = handed + n
      /\ given' = handed + 1 .. handed + n /\ rest' = handed + 1 .. handed + n
      /\ call' = [op |-> "write", step |-> IF buffer # {} THEN "fill" ELSE "direct"]
      /\ UNCHANGED <<mode, opened, closed, accepted, buffer, pos, parts, state, object, history>>
    BY DEF Write, Idle, IndInv, CallInv, At
<1>2. n \in Nat /\ handed \in Nat /\ Cardinality(rest') = n
    <2>1. handed \in Nat /\ PartSize \in Nat
        BY Numbers
    <2>2. /\ n \in Nat /\ handed + 1 \in Int /\ handed + n \in Int /\ handed + 1 <= (handed + n) + 1
          /\ (handed + n) + 1 - (handed + 1) = n
        BY <2>1
    <2>3. Cardinality(handed + 1 .. handed + n) = (handed + n) + 1 - (handed + 1)
        BY <2>2, SizeOfInterval, Zenon
    <2> QED
        BY <1>1, <2>1, <2>2, <2>3, Zenon
<1> USE DEF parts, state, history
<1>3. (OkSoon' <=> OkSoon) /\ ~PutDone' /\ ~PutDone
    BY <1>1 DEF OkSoon, Last, PutDone, S3, Closing
<1>4. TypeOK'
    <2>1. given' \in SUBSET Bytes /\ rest' \in SUBSET Bytes /\ handed' \in 0 .. MaxBytes
        <3>1. handed + n <= MaxBytes /\ MaxBytes \in Nat
            BY <1>1, Numbers
        <3>2. handed + 1 .. handed + n \subseteq 1 .. MaxBytes /\ handed + n \in 0 .. MaxBytes
            BY <1>2, <3>1
        <3> QED
            BY <1>1, <3>2, Zenon DEF Bytes
    <2> QED
        BY <1>1, <2>1 DEF IndInv, TypeOK
<1>5. CallInv'
    BY <1>1 DEF IndInv, CallInv, S3, Idle, At, Last, Closing
<1>6. ByteInv'
    <2>1. \E lo \in 1 .. handed' + 1 : rest' = lo .. handed'
        BY <1>1, <1>2
    <2>2. /\ buffer' \subseteq 1 .. handed /\ accepted' \subseteq 1 .. handed
          /\ Cardinality(buffer') <= pos' /\ pos' <= handed
        <3>1. Cardinality(rest) = 0
            BY <1>1, Numbers
        <3>2. /\ buffer \subseteq 1 .. handed /\ accepted \subseteq 1 .. handed
              /\ Cardinality(buffer) <= pos /\ pos + Cardinality(rest) <= handed
            BY DEF IndInv, ByteInv
        <3>3. pos \in Nat /\ handed \in Nat
            BY Numbers
        <3>4. pos <= handed
            BY <3>1, <3>2, <3>3
        <3> QED
            BY <1>1, <3>2, <3>4, Zenon
    <2>3. /\ buffer' \subseteq 1 .. handed' /\ given' \subseteq 1 .. handed' /\ accepted' \subseteq 1 .. handed'
          /\ \A x \in buffer', y \in rest' : x < y
          /\ pos' + Cardinality(rest') <= handed'
        <3>1. /\ handed' = handed + n
              /\ given' = handed + 1 .. handed + n /\ rest' = handed + 1 .. handed + n
            BY <1>1
        <3>2. pos' \in Nat /\ pos' + Cardinality(rest') <= handed'
            BY <1>1, <1>2, <2>2, <3>1, Numbers
        <3>3. 1 .. handed \subseteq 1 .. handed' /\ handed + 1 .. handed + n \subseteq 1 .. handed'
            BY <1>2, <3>1
        <3>4. \A x \in 1 .. handed, y \in handed + 1 .. handed + n : x < y
            BY <1>2
        <3> QED
            BY <2>2, <3>1, <3>2, <3>3, <3>4, Zenon
    <2>4. \A s \in Slots : sent'[s] # None =>
              /\ s <= slot'
              /\ \A x \in sent'[s] : x <= handed' /\ \A y \in buffer' \cup rest' : x < y
        <3>1. \A s \in Slots : sent[s] # None =>
                  s <= slot /\ \A x \in sent[s] : x \in Int /\ x <= handed /\ \A y \in buffer : x < y
            BY DEF IndInv, TypeOK, ByteInv, Parts, Bytes, Old
        <3> QED
            BY <1>1, <1>2, <3>1
    <2> QED
        BY <1>1, <2>1, <2>2, <2>3, <2>4 DEF IndInv, ByteInv
<1>7. Room'
    BY <1>1, <1>2, Numbers DEF IndInv, Room
<1>8. SlotInv'
    BY <1>1, <1>3 DEF IndInv, SlotInv, S3, At
<1>9. FutureInv' /\ UnsentInv' /\ PutInv' /\ OutcomeInv'
    BY <1>1, <1>3 DEF IndInv, FutureInv, UnsentInv, PutInv, OutcomeInv, S3, Background, Last, At
<1>10. GoodInv'
    BY <1>1, <1>3 DEF IndInv, Good, GoodInv, Sent, S3, Background
<1>11. ClosedIsComplete' /\ NeverPartial' /\ FlushCovers'
    BY <1>1 DEF IndInv, ClosedIsComplete, NeverPartial, Visible, FlushCovers, S3, Background
<1> QED
    BY <1>4, <1>5, <1>6, <1>7, <1>8, <1>9, <1>10, <1>11 DEF IndInv

\* DoWrite tops the buffer up with the bytes that follow it.
LEMMA FillBufferKeeps ==
    ASSUME IndInv, FillBuffer
    PROVE  IndInv'
<1>1. /\ opened /\ ~closed /\ call.op = "write" /\ call.step = "fill"
    BY DEF FillBuffer, Idle, IndInv, CallInv, At, Closing, TypeOK
<1>2. buffer' = buffer \cup Copied /\ rest' = rest \ Copied
    BY DEF FillBuffer, Copied
<1>3. /\ pos' = pos + Cardinality(Copied) /\ (failedWrite' <=> failedWrite)
      /\ UNCHANGED <<mode, opened, closed, given, handed, parts, state, object,
                     outcome, flushed, dropped, closes, sealed, calls, failures>>
      /\ \/ /\ call' = [op |-> "none", step |-> "none"] /\ accepted' = accepted \cup given
            /\ Cardinality(buffer') < PartSize
         \/ /\ call' = [op |-> "write", step |-> "send"] /\ accepted' = accepted
            /\ ~(Cardinality(buffer') < PartSize)
    BY <1>1 DEF FillBuffer, Copied, WriteReturns, Done, Goto, IndInv, TypeOK
<1>4. /\ buffer' \in SUBSET (1 .. handed) /\ rest' \subseteq rest /\ buffer' \cup rest' = buffer \cup rest
      /\ \E lo \in 1 .. handed + 1 : rest' = lo .. handed
      /\ \A x \in buffer', y \in rest' : x < y
      /\ Cardinality(buffer') < PartSize => rest' = {}
    BY <1>2, FillFacts, Zenon
<1>5. /\ Cardinality(Copied) \in Nat /\ Cardinality(rest') \in Nat
      /\ Cardinality(buffer') = Cardinality(buffer) + Cardinality(Copied)
      /\ Cardinality(Copied) + Cardinality(rest') = Cardinality(rest)
    BY <1>2, FillFacts, Zenon
<1>6. /\ pos' \in 0 .. MaxBytes /\ pos' + Cardinality(rest') <= handed /\ Cardinality(buffer') <= pos'
      /\ pos <= pos' /\ Cardinality(buffer') \in Nat
    BY <1>3, <1>5, Numbers
<1>7. call'.op = "none" => rest' = {}
    BY <1>3, <1>4
<1> USE DEF parts, state
<1>8. (OkSoon' <=> OkSoon) /\ ~PutDone' /\ ~PutDone
    BY <1>1, <1>3 DEF OkSoon, Last, PutDone, S3, Closing
<1>9. TypeOK'
    <2>1. buffer' \in SUBSET Bytes /\ rest' \in SUBSET Bytes /\ accepted' \in SUBSET Bytes
        BY <1>3, <1>4, Numbers DEF IndInv, TypeOK, Bytes
    <2> QED
        BY <1>3, <1>6, <2>1 DEF IndInv, TypeOK
<1>10. CallInv'
    <2>1. /\ call'.op \in {"none", "write"} /\ call'.step \in {"none", "send"}
          /\ call'.op = "none" <=> call'.step = "none"
          /\ call'.step = "send" => Cardinality(buffer') >= PartSize
        BY <1>3, <1>6, Numbers
    <2> QED
        BY <1>1, <1>3, <1>7, <2>1 DEF IndInv, CallInv, S3, Idle, At, Last, Closing
<1>11. ByteInv'
    <2>1. accepted' \subseteq 1 .. handed /\ given' \subseteq 1 .. handed
        BY <1>3 DEF IndInv, ByteInv
    <2>2. \A s \in Slots : sent[s] # None =>
              s <= slot /\ \A x \in sent[s] : x <= handed /\ \A y \in buffer' \cup rest' : x < y
        BY <1>4 DEF IndInv, ByteInv
    <2> QED
        BY <1>3, <1>4, <1>6, <2>1, <2>2 DEF IndInv, ByteInv
<1>12. Room'
    BY <1>1, <1>3, <1>5, Numbers DEF IndInv, Room
<1>13. SlotInv'
    BY <1>1, <1>3, <1>6, <1>8, Numbers DEF IndInv, SlotInv, S3, At
<1>14. FutureInv' /\ PutInv' /\ OutcomeInv'
    BY <1>1, <1>3, <1>8 DEF IndInv, FutureInv, PutInv, OutcomeInv, S3, Background, Last
<1>15. UnsentInv'
    BY <1>1, <1>3, <1>6, Numbers DEF IndInv, UnsentInv, S3, At
<1>16. GoodInv'
    <2>1. Good' => Good
        BY <1>3, <1>8 DEF Good, S3, Background
    <2>2. ASSUME Good
          PROVE  /\ S3 => completed \cup tasks = 1 .. slot - 1
                 /\ \A b \in accepted : Sent(b) \/ b \in buffer'
                 /\ \A b \in given : Sent(b) \/ b \in buffer' \/ b \in rest'
        BY <1>1, <1>2, <2>2 DEF IndInv, GoodInv
    <2>3. \A b : Sent(b)' <=> Sent(b)
        BY <1>3 DEF Sent
    <2>4. Good' => /\ \A b \in accepted' : Sent(b) \/ b \in buffer'
                   /\ call'.op = "write" => \A b \in given' : Sent(b) \/ b \in buffer' \/ b \in rest'
        BY <1>3, <1>7, <2>1, <2>2
    <2> QED
        BY <1>3, <2>1, <2>2, <2>3, <2>4 DEF GoodInv, S3
<1>17. ClosedIsComplete' /\ NeverPartial' /\ FlushCovers'
    BY <1>1, <1>3 DEF IndInv, ClosedIsComplete, NeverPartial, Visible, FlushCovers, OutcomeInv, S3, Background
<1> QED
    BY <1>9, <1>10, <1>11, <1>12, <1>13, <1>14, <1>15, <1>16, <1>17 DEF IndInv

\* DoWrite leaves less than a part in the buffer.
LEMMA KeepRestKeeps ==
    ASSUME IndInv, KeepRest
    PROVE  IndInv'
<1>1. /\ opened /\ ~closed /\ call.op = "write" /\ call.step = "direct" /\ buffer = {}
    BY DEF KeepRest, Idle, IndInv, CallInv, At, Closing, TypeOK
<1>2. /\ Cardinality(rest) < PartSize /\ buffer' = rest /\ pos' = pos + Cardinality(rest) /\ rest' = {}
      /\ call' = [op |-> "none", step |-> "none"] /\ accepted' = accepted \cup given /\ (failedWrite' <=> failedWrite)
      /\ UNCHANGED <<mode, opened, closed, given, handed, parts, state, object,
                     outcome, flushed, dropped, closes, sealed, calls, failures>>
    BY <1>1 DEF KeepRest, WriteReturns, Done, IndInv, TypeOK
<1>3. /\ Cardinality(rest) \in Nat /\ Cardinality(rest') = 0 /\ Cardinality(buffer) = 0
      /\ pos' \in 0 .. MaxBytes /\ pos' <= handed
    BY <1>1, <1>2, Numbers
<1> USE DEF parts, state
<1>4. (OkSoon' <=> OkSoon) /\ ~PutDone' /\ ~PutDone
    BY <1>1, <1>2 DEF OkSoon, Last, PutDone, S3, Closing
<1>5. TypeOK'
    BY <1>2, <1>3 DEF IndInv, TypeOK
<1>6. CallInv'
    BY <1>1, <1>2 DEF IndInv, CallInv, S3, Idle, At, Last, Closing
<1>7. ByteInv'
    <2>1. \E lo \in 1 .. handed' + 1 : rest' = lo .. handed'
        BY <1>2, Numbers
    <2>2. /\ rest \subseteq 1 .. handed
          /\ accepted \cup given \subseteq 1 .. handed
        BY DEF IndInv, ByteInv
    <2>3. \A s \in Slots : sent[s] # None =>
              s <= slot /\ \A x \in sent[s] : x <= handed /\ \A y \in rest : x < y
        BY DEF IndInv, ByteInv
    <2>4. \A s \in Slots : sent'[s] # None =>
              s <= slot' /\ \A x \in sent'[s] : x <= handed' /\ \A y \in buffer' \cup rest' : x < y
        BY <1>2, <2>3
    <2>5. \A i, j \in Slots : i < j /\ sent'[i] # None /\ sent'[j] # None =>
          \A x \in sent'[i], y \in sent'[j] : x < y
        BY <1>2 DEF IndInv, ByteInv
    <2>6. Cardinality(buffer') <= pos' /\ pos' + Cardinality(rest') <= handed'
        BY <1>2, <1>3, Numbers
    <2>7. \A x \in buffer', y \in rest' : x < y
        BY <1>2
    <2> QED
        BY <1>2, <2>1, <2>2, <2>7, <2>4, <2>5, <2>6 DEF ByteInv
<1>8. Room'
    BY <1>1, <1>2, <1>3, Numbers DEF IndInv, Room
<1>9. SlotInv'
    BY <1>1, <1>2, <1>3, <1>4, Numbers DEF IndInv, SlotInv, S3, At
<1>10. FutureInv' /\ PutInv' /\ OutcomeInv'
    BY <1>1, <1>2, <1>4 DEF IndInv, FutureInv, PutInv, OutcomeInv, S3, Background, Last
<1>11. UnsentInv'
    BY <1>1, <1>2, <1>3, Numbers DEF IndInv, UnsentInv, S3, At
<1>12. GoodInv'
    BY <1>1, <1>2, <1>4 DEF IndInv, Good, GoodInv, Sent, S3, Background
<1>13. ClosedIsComplete' /\ NeverPartial' /\ FlushCovers'
    BY <1>1, <1>2 DEF IndInv, ClosedIsComplete, NeverPartial, Visible, FlushCovers, OutcomeInv, S3, Background
<1> QED
    BY <1>5, <1>6, <1>7, <1>8, <1>9, <1>10, <1>11, <1>12, <1>13 DEF IndInv

\* CreateMultipartUpload: either the upload exists, or the call has failed.
LEMMA CreateMultipartUploadKeeps ==
    ASSUME IndInv, CreateMultipartUpload
    PROVE  IndInv'
<1>1. /\ S3 /\ ~upload /\ Sending
      /\ UNCHANGED <<mode, opened, given, handed, buffer, pos, slot, tasks, puts, sent, staged, completed, state, object,
                     flushed, dropped, closes, sealed, calls>>
    BY DEF CreateMultipartUpload, stream
<1> USE DEF state
<1>2. CASE upload' /\ UNCHANGED <<stream, failedWrite, outcome>>
    <2> USE DEF stream
    <2>1. (OkSoon' <=> OkSoon) /\ ~PutDone' /\ ~PutDone
        BY <1>1, <1>2, SendingFacts DEF OkSoon, Last, PutDone, S3, Closing
    <2>2. TypeOK' /\ CallInv'
        BY <1>1, <1>2, SendingFacts DEF IndInv, TypeOK, CallInv, S3, Idle, At, Last, Closing
    <2>3. ByteInv' /\ Room' /\ OutcomeInv'
        BY <1>1, <1>2 DEF IndInv, ByteInv, Room, OutcomeInv
    <2>4. call.step # "direct" => pos >= PartSize
        BY <1>1, SendingFacts, PartFacts, Numbers DEF Counts, At
    <2>5. SlotInv'
        BY <1>1, <1>2, <2>1, <2>4, SendingFacts DEF IndInv, SlotInv, S3, At
    <2>6. FutureInv' /\ UnsentInv' /\ PutInv'
        BY <1>1, <1>2, <2>1 DEF IndInv, FutureInv, UnsentInv, PutInv, S3, Background, Last, At
    <2>7. GoodInv'
        BY <1>1, <1>2, <2>1 DEF IndInv, Good, GoodInv, Sent, S3, Background
    <2>8. ClosedIsComplete' /\ NeverPartial' /\ FlushCovers'
        BY <1>1, <1>2 DEF IndInv, ClosedIsComplete, NeverPartial, Visible, FlushCovers, S3, Background
    <2> QED
        BY <2>2, <2>3, <2>5, <2>6, <2>7, <2>8 DEF IndInv
<1>3. CASE rest' = {} /\ CallFails /\ upload' = upload
    <2>1. /\ call' = [op |-> "none", step |-> "none"] /\ accepted' = accepted
          /\ failedWrite => failedWrite'
          /\ failedWrite' \/ closed'
          /\ closed' \in BOOLEAN /\ outcome' \in {outcome, "error"}
          /\ opened /\ ~closed /\ ~PutDone
        BY <1>1, <1>3, CallFailsFacts, SendingFacts
    <2>2. (OkSoon' <=> OkSoon) /\ ~PutDone'
        BY <1>1, <2>1 DEF OkSoon, Last, PutDone, S3, Closing
    <2>3. Cardinality(rest') = 0 /\ Cardinality(rest) \in Nat /\ Cardinality(buffer) \in Nat
        BY <1>3, Numbers
    <2>4. outcome # "ok" /\ outcome # "aborted"
        BY <2>1 DEF IndInv, OutcomeInv
    <2>5. TypeOK'
        BY <1>1, <1>3, <2>1 DEF IndInv, TypeOK
    <2>6. CallInv'
        BY <1>1, <1>3, <2>1 DEF IndInv, CallInv, S3, Idle, At, Last, Closing
    <2>7. ByteInv'
        <3>1. \E lo \in 1 .. handed' + 1 : rest' = lo .. handed'
            BY <1>1, <1>3, Numbers
        <3>2. pos' + Cardinality(rest') <= handed'
            BY <1>1, <2>3, Numbers
        <3> QED
            BY <1>1, <1>3, <2>1, <3>1, <3>2 DEF IndInv, ByteInv
    <2>8. Room'
        BY <1>1, <2>1, <2>3, Numbers DEF IndInv, Room
    <2>9. SlotInv' /\ FutureInv' /\ PutInv'
        BY <1>1, <1>3, <2>1, <2>2, <2>4 DEF IndInv, SlotInv, FutureInv, PutInv, S3, Background, Last, At
    <2>10. UnsentInv' /\ OutcomeInv'
        BY <1>1, <1>3, <2>1, <2>4 DEF IndInv, UnsentInv, OutcomeInv, S3, At
    <2>11. GoodInv'
        BY <1>1, <1>3, <2>1, <2>2 DEF IndInv, Good, GoodInv, Sent, S3, Background
    <2>12. ClosedIsComplete' /\ NeverPartial' /\ FlushCovers'
        BY <1>1, <2>1, <2>4 DEF IndInv, ClosedIsComplete, NeverPartial, Visible, FlushCovers, S3, Background
    <2> QED
        BY <2>5, <2>6, <2>7, <2>8, <2>9, <2>10, <2>11, <2>12 DEF IndInv
<1> QED
    BY <1>2, <1>3 DEF CreateMultipartUpload

\* A part sent by the caller's thread, with every outcome of the request.
LEMMA SendPartKeeps ==
    ASSUME IndInv, SendPart
    PROVE  IndInv'
<1>1. /\ ~Background /\ Sending /\ (S3 => upload) /\ sent' = [sent EXCEPT ![slot] = NextPart]
      /\ UNCHANGED <<mode, opened, given, handed, upload, tasks, puts, state, object, flushed, dropped,
                     closes, sealed, calls>>
    BY DEF SendPart
<1> USE DEF state
<1>2. /\ opened /\ ~closed /\ ~PutDone /\ outcome # "ok" /\ outcome # "aborted"
      /\ status /\ tasks = {} /\ puts = {} /\ inProgress = 0 /\ future = <<"ok">> /\ finishing = {} /\ ~dropped
    BY <1>1, SendingFacts DEF IndInv, FutureInv, OutcomeInv
<1>3. /\ slot \in Slots /\ staged \in [Slots -> {None} \cup Parts] /\ NextPart \in Parts /\ NextPart # None
    <2>1. slot \in Slots /\ staged \in [Slots -> {None} \cup Parts]
        BY DEF IndInv, TypeOK
    <2> QED
        BY <1>1, <2>1, PartFacts, Zenon
<1>4. CASE /\ staged' = [staged EXCEPT ![slot] = NextPart]
           /\ slot' = slot + 1
           /\ completed' = IF S3 THEN completed \cup {slot} ELSE completed
           /\ PartIsOut
    <2>1. /\ buffer' = {} /\ rest' = Left /\ pos' = pos + Counts
          /\ call' = [op |-> call.op, step |-> IF call.op = "write" THEN "direct" ELSE "wait"]
          /\ UNCHANGED <<accepted, failedWrite, closed, outcome>>
        BY <1>1, <1>4, PartIsOutFacts
    <2>2. PartGone
        BY <1>1, <1>4, <2>1 DEF PartGone
    <2>3. /\ ByteInv' /\ Room'
          /\ slot' \in Slots /\ rest' \in SUBSET Bytes /\ buffer' \in SUBSET Bytes /\ pos' \in 0 .. MaxBytes
          /\ sent' \in [Slots -> {None} \cup Parts]
          /\ sent'[slot] = NextPart /\ \A s \in Slots : s # slot => sent'[s] = sent[s]
        BY <1>1, <2>2, PartGoneFacts
    <2>4. /\ staged' \in [Slots -> {None} \cup Parts]
          /\ staged'[slot] = NextPart /\ \A s \in Slots : s # slot => staged'[s] = staged[s]
        BY <1>3, <1>4, OnePart
    <2>5. (S3 => pos' >= PartSize) /\ ~PutDone'
        <3>1. S3 => pos + Counts >= PartSize
            BY <1>1, PartFacts
        <3>2. S3 => pos' >= PartSize
            BY <2>1, <3>1
        <3>3. pos' \in Nat /\ PartSize \in Nat /\ (S3' <=> S3)
            BY <1>1, <2>3, Numbers DEF S3
        <3> QED
            BY <3>2, <3>3 DEF PutDone
    <2>6. TypeOK'
        <3>1. completed' \in SUBSET Slots
            BY <1>3, <1>4 DEF IndInv, TypeOK
        <3>2. call' \in [op : {"none", "write", "flush", "close", "closeAsync", "abort"},
                         step : {"none", "fill", "send", "direct", "last", "put", "wait", "commit"}]
            BY <1>1, <2>1, SendingFacts
        <3> QED
            BY <1>1, <2>1, <2>3, <2>4, <3>1, <3>2 DEF IndInv, TypeOK
    <2>7. CallInv'
        <3>1. call.op # "write" => rest' = {}
            BY <1>1, <2>1, SendingFacts DEF Left, At
        <3>2. slot' > 1
            BY <1>4, Numbers
        <3> QED
            BY <1>1, <1>2, <2>1, <3>1, <3>2, SendingFacts DEF IndInv, CallInv, S3, Idle, At, Last, Closing
    <2>8. SlotInv'
        <3>1. /\ tasks' \cup completed' \cup puts' \subseteq 1 .. slot' - 1
              /\ \A s \in tasks' \cup completed' \cup puts' : sent'[s] # None
              /\ \A s \in completed' : staged'[s] = sent'[s]
            BY <1>1, <1>2, <1>3, <1>4, <2>3, <2>4, EarlierSlots DEF IndInv, SlotInv
        <3>2. ASSUME ~S3
              PROVE  /\ completed' = {} /\ puts' = {}
                     /\ \A s \in 1 .. slot' - 1 : sent'[s] # None
                     /\ \A s \in Slots : staged'[s] # None => s < slot' /\ staged'[s] = sent'[s]
            <4>1. /\ completed = {} /\ puts = {}
                  /\ \A s \in 1 .. slot - 1 : sent[s] # None
                  /\ \A s \in Slots : staged[s] # None => s < slot /\ staged[s] = sent[s]
                BY <3>2 DEF IndInv, SlotInv
            <4>2. slot' = slot + 1 /\ completed' = completed /\ puts' = puts
                BY <1>1, <1>4, <3>2
            <4>3. \A s \in Slots : s < slot => s < slot' /\ s # slot
                BY <4>2, Numbers DEF Slots
            <4>4. \A s \in 1 .. slot' - 1 : sent'[s] # None
                BY <1>3, <2>3, <4>1, <4>2, EarlierSlots
            <4>5. staged[slot] = None /\ slot < slot'
                BY <1>3, <4>1, <4>2, Numbers
            <4> QED
                BY <1>3, <2>3, <2>4, <4>1, <4>2, <4>3, <4>4, <4>5
        <3>3. flushed' <= slot' - 1
            BY <1>1, <1>4, Numbers DEF IndInv, SlotInv
        <3> QED
            BY <1>1, <1>2, <2>1, <2>5, <3>1, <3>2, <3>3 DEF SlotInv, S3
    <2>9. FutureInv' /\ PutInv' /\ OutcomeInv'
        BY <1>1, <1>2, <2>1, <2>5 DEF IndInv, FutureInv, PutInv, OutcomeInv, S3, Background, Last, OkSoon
    <2>10. UnsentInv'
        BY <1>1, <1>2, <2>1, <2>5, Numbers DEF IndInv, UnsentInv, S3, At
    <2>11. GoodInv'
        <3>1. Good' => Good
            BY <1>1, <1>2, <2>1 DEF Good, S3, Background
        <3>2. /\ \A b : Sent(b) => Sent(b)'
              /\ \A b \in NextPart : Sent(b)'
              /\ \A b \in rest : b \in NextPart \/ b \in rest'
              /\ \A b \in buffer : b \in NextPart
            BY <1>1, <1>4, <2>1, <2>2, SentFacts, PartFacts, SendingFacts DEF NextPart, At
        <3>3. S3 /\ Good => completed' \cup tasks' = 1 .. slot' - 1
            BY <1>1, <1>2, <1>4, EarlierSlots DEF IndInv, GoodInv
        <3>4. ASSUME Good
              PROVE  /\ \A b \in accepted' : Sent(b)' \/ b \in buffer'
                     /\ call'.op = "write" => \A b \in given' : Sent(b)' \/ b \in buffer' \/ b \in rest'
            BY <1>1, <2>1, <3>2, <3>4 DEF IndInv, GoodInv
        <3> QED
            BY <1>1, <3>1, <3>3, <3>4 DEF GoodInv, S3
    <2>12. ClosedIsComplete' /\ NeverPartial'
        BY <1>1, <1>2, <2>1 DEF IndInv, ClosedIsComplete, NeverPartial, Visible, S3, Background
    <2>13. FlushCovers'
        BY <1>1, <1>2, <2>1, <2>3, <2>4, EarlierSlots DEF IndInv, FlushCovers, S3, Background
    <2> QED
        BY <2>3, <2>6, <2>7, <2>8, <2>9, <2>10, <2>11, <2>12, <2>13 DEF IndInv
<1>5. CASE /\ staged' \in {staged, [staged EXCEPT ![slot] = NextPart]}
           /\ slot' = IF S3 THEN slot ELSE slot + 1
           /\ buffer' = IF At("direct") THEN buffer ELSE {}
           /\ rest' = {}
           /\ CallFails
           /\ UNCHANGED <<completed, pos>>
    <2>1. /\ call' = [op |-> "none", step |-> "none"] /\ accepted' = accepted
          /\ failedWrite => failedWrite'
          /\ S3 => failedWrite' \/ closed'
          /\ closed' \in BOOLEAN /\ outcome' \in {outcome, "error"}
          /\ buffer' = {}
        BY <1>1, <1>5, CallFailsFacts, SendingFacts DEF At
    <2>2. PartGone
        BY <1>1, <1>5, <2>1 DEF PartGone
    <2>3. /\ ByteInv' /\ Room'
          /\ slot' \in Slots /\ rest' \in SUBSET Bytes /\ buffer' \in SUBSET Bytes /\ pos' \in 0 .. MaxBytes
          /\ sent' \in [Slots -> {None} \cup Parts]
          /\ sent'[slot] = NextPart /\ \A s \in Slots : s # slot => sent'[s] = sent[s]
        BY <1>1, <2>2, PartGoneFacts
    <2>4. /\ staged' \in [Slots -> {None} \cup Parts]
          /\ staged'[slot] \in {staged[slot], NextPart} /\ \A s \in Slots : s # slot => staged'[s] = staged[s]
        BY <1>3, <1>5, OnePart
    <2>5. ~PutDone'
        BY <2>1 DEF PutDone, Closing
    <2>6. TypeOK'
        BY <1>1, <1>5, <2>1, <2>3, <2>4 DEF IndInv, TypeOK
    <2>7. CallInv'
        BY <1>1, <1>2, <1>5, <2>1 DEF IndInv, CallInv, S3, Idle, At, Last, Closing
    <2>8. SlotInv'
        <3>1. /\ tasks' \cup completed' \cup puts' \subseteq 1 .. slot' - 1
              /\ \A s \in tasks' \cup completed' \cup puts' : sent'[s] # None
              /\ \A s \in completed' : staged'[s] = sent'[s]
            BY <1>1, <1>2, <1>5, <2>3, <2>4, EarlierSlots DEF IndInv, SlotInv
        <3>2. ASSUME ~S3
              PROVE  /\ completed' = {} /\ puts' = {}
                     /\ \A s \in 1 .. slot' - 1 : sent'[s] # None
                     /\ \A s \in Slots : staged'[s] # None => s < slot' /\ staged'[s] = sent'[s]
            <4>1. /\ completed = {} /\ puts = {}
                  /\ \A s \in 1 .. slot - 1 : sent[s] # None
                  /\ \A s \in Slots : staged[s] # None => s < slot /\ staged[s] = sent[s]
                BY <3>2 DEF IndInv, SlotInv
            <4>2. slot' = slot + 1 /\ completed' = completed /\ puts' = puts
                BY <1>1, <1>5, <3>2
            <4>3. \A s \in Slots : s < slot => s < slot' /\ s # slot
                BY <4>2, Numbers DEF Slots
            <4>4. \A s \in 1 .. slot' - 1 : sent'[s] # None
                BY <1>3, <2>3, <4>1, <4>2, EarlierSlots
            <4>5. staged[slot] = None /\ slot < slot'
                BY <1>3, <4>1, <4>2, Numbers
            <4> QED
                BY <1>3, <2>3, <2>4, <4>1, <4>2, <4>3, <4>4, <4>5
        <3>3. flushed' <= slot' - 1
            BY <1>1, <1>5, Numbers DEF IndInv, SlotInv
        <3>4. S3 => /\ tasks' \cup completed' # {} => pos' >= PartSize
                    /\ ~closed' => failedWrite'
            BY <1>1, <1>5, <2>1 DEF IndInv, SlotInv
        <3>5. S3 /\ ~failedWrite' => pos' >= PartSize
            <4>1. ~failedWrite' => call.step = "last"
                BY <1>1, <1>5, CallFailsFacts, SendingFacts
            <4>2. S3 /\ call.step = "last" => pos >= PartSize
                BY DEF IndInv, CallInv, At
            <4> QED
                BY <1>5, <4>1, <4>2
        <3> QED
            BY <1>1, <1>2, <2>1, <2>5, <3>1, <3>2, <3>3, <3>4, <3>5 DEF SlotInv, S3
    <2>9. FutureInv' /\ PutInv' /\ OutcomeInv'
        BY <1>1, <1>2, <2>1, <2>5 DEF IndInv, FutureInv, PutInv, OutcomeInv, S3, Background, Last, OkSoon
    <2>10. UnsentInv'
        BY <1>1, <1>2, <1>5, <2>1, <2>5, Numbers DEF IndInv, UnsentInv, S3, At
    <2>11. GoodInv'
        <3>1. Good' => Good /\ ~S3
            BY <1>1, <1>2, <2>1 DEF Good, S3, Background
        <3>2. ASSUME ~S3
              PROVE  /\ \A b : Sent(b) => Sent(b)'
                     /\ \A b \in buffer : Sent(b)'
            <4>1. \A b \in buffer : b \in NextPart
                BY <1>1, SendingFacts DEF NextPart, At
            <4> QED
                BY <1>1, <1>5, <2>2, <3>2, <4>1, SentFacts
        <3>3. ASSUME Good, ~S3
              PROVE  \A b \in accepted' : Sent(b)'
            BY <2>1, <3>2, <3>3 DEF IndInv, GoodInv
        <3> QED
            BY <1>1, <2>1, <3>1, <3>3 DEF GoodInv, S3
    <2>12. ClosedIsComplete' /\ NeverPartial'
        BY <1>1, <1>2, <2>1 DEF IndInv, ClosedIsComplete, NeverPartial, Visible, S3, Background
    <2>13. FlushCovers'
        BY <1>1, <1>2, <2>1, <2>3, <2>4, EarlierSlots DEF IndInv, FlushCovers, S3, Background
    <2> QED
        BY <2>3, <2>6, <2>7, <2>8, <2>9, <2>10, <2>11, <2>12, <2>13 DEF IndInv
<1> QED
    BY <1>4, <1>5 DEF SendPart

\* A part counted and handed to an I/O thread, or refused.
LEMMA SubmitPartKeeps ==
    ASSUME IndInv, SubmitPart
    PROVE  IndInv'
<1>1. /\ Background /\ Sending /\ (S3 => upload) /\ Counted /\ sent' = [sent EXCEPT ![slot] = NextPart]
      /\ UNCHANGED <<mode, opened, given, handed, upload, puts, staged, completed, status, finishing,
                     object, flushed, closes, sealed, calls>>
    BY DEF SubmitPart
<1>2. /\ opened /\ ~closed /\ ~PutDone /\ outcome # "ok" /\ outcome # "aborted"
      /\ puts # {} => ~status
    BY <1>1, SendingFacts DEF IndInv, FutureInv, OutcomeInv
<1>3. /\ slot \in Slots /\ NextPart \in Parts /\ NextPart # None
    <2>1. slot \in Slots
        BY DEF IndInv, TypeOK
    <2> QED
        BY <1>1, <2>1, PartFacts, Zenon
<1>4. /\ inProgress' = inProgress + 1 /\ inProgress' \in Nat
      /\ future' \in Seq({"pending", "ok", "error"}) /\ future' # << >>
      /\ finishing' \subseteq DOMAIN future'
      /\ \A f \in DOMAIN future' : future'[f] = "error" => ~status
      /\ future'[Last'] # "ok" /\ ~OkSoon'
    BY <1>1, <1>2, CountedFacts
<1>5. CASE tasks' = tasks \cup {slot} /\ slot' = slot + 1 /\ PartIsOut /\ dropped' = dropped
    <2>1. /\ buffer' = {} /\ rest' = Left /\ pos' = pos + Counts
          /\ call' = [op |-> call.op, step |-> IF call.op = "write" THEN "direct" ELSE "wait"]
          /\ UNCHANGED <<accepted, failedWrite, closed, outcome>>
        BY <1>1, <1>5, PartIsOutFacts
    <2>2. PartGone
        BY <1>1, <1>5, <2>1 DEF PartGone
    <2>3. /\ ByteInv' /\ Room'
          /\ slot' \in Slots /\ rest' \in SUBSET Bytes /\ buffer' \in SUBSET Bytes /\ pos' \in 0 .. MaxBytes
          /\ sent' \in [Slots -> {None} \cup Parts]
          /\ sent'[slot] = NextPart /\ \A s \in Slots : s # slot => sent'[s] = sent[s]
        BY <1>1, <2>2, PartGoneFacts
    <2>4. slot \notin tasks /\ slot \notin completed
        BY EarlierSlots DEF IndInv, SlotInv
    <2>5. (S3 => pos' >= PartSize) /\ ~PutDone'
        <3>1. S3 => pos + Counts >= PartSize
            BY <1>1, PartFacts
        <3>2. S3 => pos' >= PartSize
            BY <2>1, <3>1
        <3>3. pos' \in Nat /\ PartSize \in Nat /\ (S3' <=> S3)
            BY <1>1, <2>3, Numbers DEF S3
        <3> QED
            BY <3>2, <3>3 DEF PutDone
    <2>6. TypeOK'
        <3>1. tasks' \in SUBSET Slots
            BY <1>3, <1>5 DEF IndInv, TypeOK
        <3>2. call' \in [op : {"none", "write", "flush", "close", "closeAsync", "abort"},
                         step : {"none", "fill", "send", "direct", "last", "put", "wait", "commit"}]
            BY <1>1, <2>1, SendingFacts
        <3> QED
            BY <1>1, <1>4, <2>1, <2>3, <3>1, <3>2 DEF IndInv, TypeOK
    <2>7. CallInv'
        <3>1. call.op # "write" => rest' = {}
            BY <1>1, <2>1, SendingFacts DEF Left, At
        <3>2. slot' > 1
            BY <1>5, Numbers
        <3> QED
            BY <1>1, <1>2, <2>1, <3>1, <3>2, SendingFacts DEF IndInv, CallInv, S3, Idle, At, Last, Closing
    <2>8. SlotInv'
        <3>1. /\ tasks' \cup completed' \cup puts' \subseteq 1 .. slot' - 1
              /\ \A s \in tasks' \cup completed' \cup puts' : sent'[s] # None
              /\ \A s \in completed' : staged'[s] = sent'[s]
              /\ tasks' \cap completed' = {}
            BY <1>1, <1>2, <1>3, <1>5, <2>3, <2>4, EarlierSlots DEF IndInv, SlotInv
        <3>2. ASSUME ~S3
              PROVE  /\ completed' = {} /\ puts' = {}
                     /\ \A s \in 1 .. slot' - 1 : sent'[s] # None
                     /\ \A s \in Slots : staged'[s] # None => s < slot' /\ staged'[s] = sent'[s]
            <4>1. /\ completed = {} /\ puts = {}
                  /\ \A s \in 1 .. slot - 1 : sent[s] # None
                  /\ \A s \in Slots : staged[s] # None => s < slot /\ staged[s] = sent[s]
                BY <3>2 DEF IndInv, SlotInv
            <4>2. slot' = slot + 1 /\ completed' = completed /\ puts' = puts
                BY <1>1, <1>5, <3>2
            <4>3. \A s \in Slots : s < slot => s < slot' /\ s # slot
                BY <4>2, Numbers DEF Slots
            <4>4. \A s \in 1 .. slot' - 1 : sent'[s] # None
                BY <1>3, <2>3, <4>1, <4>2, EarlierSlots
            <4>5. staged[slot] = None /\ slot < slot'
                BY <1>3, <4>1, <4>2, Numbers
            <4> QED
                BY <1>1, <1>3, <2>3, <4>1, <4>2, <4>3, <4>4, <4>5
        <3>3. flushed' <= slot' - 1
            BY <1>1, <1>5, Numbers DEF IndInv, SlotInv
        <3> QED
            BY <1>1, <1>2, <2>1, <2>5, <3>1, <3>2, <3>3 DEF SlotInv, S3
    <2>9. FutureInv'
        <3>1. Cardinality(tasks') = Cardinality(tasks) + 1
            BY <1>3, <1>5, <2>4, OneSlot DEF IndInv, TypeOK
        <3>2. Cardinality(tasks') + (IF puts' # {} \/ dropped' THEN 1 ELSE 0) <= inProgress'
            <4>1. Cardinality(tasks) + (IF puts # {} \/ dropped THEN 1 ELSE 0) <= inProgress
                BY DEF IndInv, FutureInv
            <4>2. inProgress' = inProgress + 1 /\ inProgress \in Nat /\ Cardinality(tasks) \in Nat
                BY <1>4, Numbers
            <4>3. puts' = puts /\ dropped' = dropped
                BY <1>1, <1>5
            <4> QED
                BY <3>1, <4>1, <4>2, <4>3
        <3> QED
            BY <1>1, <1>2, <1>5, <1>4, <2>1, <3>2 DEF FutureInv, S3, Background
    <2>10. UnsentInv'
        <3>1. S3 /\ ~failedWrite /\ closes <= 1 => \A s \in puts : sealed \subseteq sent'[s]
            BY <2>3, EarlierSlots DEF IndInv, UnsentInv, SlotInv
        <3> QED
            BY <1>1, <2>1, <2>5, <3>1, Numbers DEF IndInv, UnsentInv, S3, At
    <2>11. PutInv' /\ OutcomeInv'
        BY <1>1, <1>2, <2>1, <2>5 DEF PutInv, OutcomeInv
    <2>12. GoodInv'
        <3>1. Good' => Good
            BY <1>1, <1>2, <1>5, <2>1 DEF Good, S3, Background
        <3>2. /\ \A b : Sent(b) => Sent(b)'
              /\ \A b \in NextPart : Sent(b)'
              /\ \A b \in rest : b \in NextPart \/ b \in rest'
              /\ \A b \in buffer : b \in NextPart
            BY <1>1, <1>5, <2>1, <2>2, SentFacts, PartFacts, SendingFacts DEF NextPart, At
        <3>3. S3 /\ Good => completed' \cup tasks' = 1 .. slot' - 1
            BY <1>1, <1>2, <1>5, EarlierSlots DEF IndInv, GoodInv
        <3>4. ASSUME Good
              PROVE  /\ \A b \in accepted' : Sent(b)' \/ b \in buffer'
                     /\ call'.op = "write" => \A b \in given' : Sent(b)' \/ b \in buffer' \/ b \in rest'
            BY <1>1, <2>1, <3>2, <3>4 DEF IndInv, GoodInv
        <3> QED
            BY <1>1, <3>1, <3>3, <3>4 DEF GoodInv, S3
    <2>13. ClosedIsComplete' /\ NeverPartial'
        BY <1>1, <1>2, <2>1 DEF IndInv, ClosedIsComplete, NeverPartial, Visible, S3, Background
    <2>14. FlushCovers'
        BY <1>1, <1>2, <2>1, <2>3, <2>4, EarlierSlots DEF IndInv, FlushCovers, S3, Background
    <2> QED
        BY <2>3, <2>6, <2>7, <2>8, <2>9, <2>10, <2>12, <2>13, <2>14, <2>11 DEF IndInv
<1>6. CASE /\ dropped'
           /\ slot' = IF S3 THEN slot ELSE slot + 1
           /\ buffer' = IF At("direct") THEN buffer ELSE {}
           /\ rest' = {}
           /\ CallFails
           /\ UNCHANGED <<tasks, pos>>
    <2>1. /\ call' = [op |-> "none", step |-> "none"] /\ accepted' = accepted
          /\ failedWrite => failedWrite'
          /\ S3 => failedWrite' \/ closed'
          /\ closed' \in BOOLEAN /\ outcome' \in {outcome, "error"}
          /\ buffer' = {}
        BY <1>1, <1>6, CallFailsFacts, SendingFacts DEF At
    <2>2. PartGone
        BY <1>1, <1>6, <2>1 DEF PartGone
    <2>3. /\ ByteInv' /\ Room'
          /\ slot' \in Slots /\ rest' \in SUBSET Bytes /\ buffer' \in SUBSET Bytes /\ pos' \in 0 .. MaxBytes
          /\ sent' \in [Slots -> {None} \cup Parts]
          /\ sent'[slot] = NextPart /\ \A s \in Slots : s # slot => sent'[s] = sent[s]
        BY <1>1, <2>2, PartGoneFacts
    <2>4. ~PutDone'
        BY <2>1 DEF PutDone, Closing
    <2>5. TypeOK'
        BY <1>1, <1>6, <1>4, <2>1, <2>3 DEF IndInv, TypeOK
    <2>6. CallInv'
        BY <1>1, <1>2, <1>6, <2>1 DEF IndInv, CallInv, S3, Idle, At, Last, Closing
    <2>7. SlotInv'
        <3>1. /\ tasks' \cup completed' \cup puts' \subseteq 1 .. slot' - 1
              /\ \A s \in tasks' \cup completed' \cup puts' : sent'[s] # None
              /\ \A s \in completed' : staged'[s] = sent'[s]
              /\ tasks' \cap completed' = {}
            BY <1>1, <1>2, <1>6, <2>3, EarlierSlots DEF IndInv, SlotInv
        <3>2. ASSUME ~S3
              PROVE  /\ completed' = {} /\ puts' = {}
                     /\ \A s \in 1 .. slot' - 1 : sent'[s] # None
                     /\ \A s \in Slots : staged'[s] # None => s < slot' /\ staged'[s] = sent'[s]
            <4>1. /\ completed = {} /\ puts = {}
                  /\ \A s \in 1 .. slot - 1 : sent[s] # None
                  /\ \A s \in Slots : staged[s] # None => s < slot /\ staged[s] = sent[s]
                BY <3>2 DEF IndInv, SlotInv
            <4>2. slot' = slot + 1 /\ completed' = completed /\ puts' = puts
                BY <1>1, <1>6, <3>2
            <4>3. \A s \in Slots : s < slot => s < slot' /\ s # slot
                BY <4>2, Numbers DEF Slots
            <4>4. \A s \in 1 .. slot' - 1 : sent'[s] # None
                BY <1>3, <2>3, <4>1, <4>2, EarlierSlots
            <4>5. staged[slot] = None /\ slot < slot'
                BY <1>3, <4>1, <4>2, Numbers
            <4> QED
                BY <1>1, <1>3, <2>3, <4>1, <4>2, <4>3, <4>4, <4>5
        <3>3. flushed' <= slot' - 1
            BY <1>1, <1>6, Numbers DEF IndInv, SlotInv
        <3>4. S3 => /\ tasks' \cup completed' # {} => pos' >= PartSize
                    /\ ~closed' => failedWrite'
            BY <1>1, <1>6, <2>1 DEF IndInv, SlotInv
        <3>5. S3 /\ ~failedWrite' => pos' >= PartSize
            <4>1. ~failedWrite' => call.step = "last"
                BY <1>1, <1>6, CallFailsFacts, SendingFacts
            <4>2. S3 /\ call.step = "last" => pos >= PartSize
                BY DEF IndInv, CallInv, At
            <4> QED
                BY <1>6, <4>1, <4>2
        <3> QED
            BY <1>1, <1>2, <2>1, <2>4, <3>1, <3>2, <3>3, <3>4, <3>5 DEF SlotInv, S3
    <2>8. FutureInv'
        <3>1. Cardinality(tasks') + (IF puts' # {} \/ dropped' THEN 1 ELSE 0) <= inProgress'
            <4>1. Cardinality(tasks) + (IF puts # {} \/ dropped THEN 1 ELSE 0) <= inProgress
                BY DEF IndInv, FutureInv
            <4>2. inProgress' = inProgress + 1 /\ inProgress \in Nat /\ Cardinality(tasks) \in Nat
                BY <1>4, Numbers
            <4>3. puts' = puts /\ tasks' = tasks
                BY <1>1, <1>6
            <4> QED
                BY <4>1, <4>2, <4>3
        <3> QED
            BY <1>1, <1>2, <1>6, <1>4, <2>1, <3>1 DEF FutureInv, S3, Background
    <2>9. UnsentInv'
        <3>1. S3 /\ ~failedWrite /\ closes <= 1 => \A s \in puts : sealed \subseteq sent'[s]
            BY <2>3, EarlierSlots DEF IndInv, UnsentInv, SlotInv
        <3>2. ~failedWrite' => closes >= 1
            BY <1>1, <1>6, CallFailsFacts, SendingFacts DEF IndInv, CallInv, Closing
        <3> QED
            BY <1>1, <1>6, <2>1, <3>1, <3>2, Numbers DEF IndInv, UnsentInv, S3, At
    <2>10. PutInv' /\ OutcomeInv'
        BY <1>1, <1>2, <2>1, <2>4 DEF PutInv, OutcomeInv
    <2>11. GoodInv'
        <3>1. Good' => Good /\ ~S3
            BY <1>1, <1>2, <1>6, <2>1 DEF Good, S3, Background
        <3>2. ASSUME ~S3
              PROVE  /\ \A b : Sent(b) => Sent(b)'
                     /\ \A b \in buffer : Sent(b)'
            <4>1. \A b \in buffer : b \in NextPart
                BY <1>1, SendingFacts DEF NextPart, At
            <4> QED
                BY <1>1, <1>6, <2>2, <3>2, <4>1, SentFacts
        <3>3. ASSUME Good, ~S3
              PROVE  \A b \in accepted' : Sent(b)'
            BY <2>1, <3>2, <3>3 DEF IndInv, GoodInv
        <3> QED
            BY <1>1, <2>1, <3>1, <3>3 DEF GoodInv, S3
    <2>12. ClosedIsComplete' /\ NeverPartial'
        BY <1>1, <1>2, <2>1 DEF IndInv, ClosedIsComplete, NeverPartial, Visible, S3, Background
    <2>13. FlushCovers'
        BY <1>1, <1>2, <2>1, <2>3, EarlierSlots DEF IndInv, FlushCovers, S3, Background
    <2> QED
        BY <2>3, <2>5, <2>6, <2>7, <2>8, <2>9, <2>11, <2>12, <2>13, <2>10 DEF IndInv
<1> QED
    BY <1>5, <1>6 DEF SubmitPart, NextNumber

\* The handler of a background part: the last one that reports is the one
\* that finishes the future, and only then nothing is under way.
LEMMA TaskReportsKeeps ==
    ASSUME IndInv, NEW s \in Slots, TaskReports(s)
    PROVE  IndInv'
<1>1. /\ s \in tasks /\ tasks' = tasks \ {s} /\ inProgress' = inProgress - 1
      /\ finishing' = IF inProgress' = 0 THEN finishing \cup {Last} ELSE finishing
      /\ UNCHANGED <<mode, stream, upload, slot, puts, sent, future, object,
                     outcome, flushed, failedWrite, dropped, closes, sealed, calls>>
    BY DEF TaskReports, CountedDown, LastReport
<1>2. \/ /\ staged' = [staged EXCEPT ![s] = sent[s]]
         /\ completed' = IF S3 THEN completed \cup {s} ELSE completed
         /\ status' = status
      \/ /\ staged' \in {staged, [staged EXCEPT ![s] = sent[s]]}
         /\ completed' = completed
         /\ status' = FALSE
    BY DEF TaskReports, StatusAfter, IndInv, TypeOK
<1>3. /\ Background /\ ~OkSoon /\ future[Last] # "ok" /\ Last \in DOMAIN future
      /\ S3 => pos >= PartSize /\ upload
      /\ s \in 1 .. slot - 1 /\ s \notin completed /\ sent[s] # None /\ sent[s] \in Parts
    BY <1>1 DEF IndInv, TypeOK, FutureInv, SlotInv, OkSoon, Last
<1>4. /\ staged' \in [Slots -> {None} \cup Parts]
      /\ staged'[s] \in {staged[s], sent[s]} /\ \A t \in Slots : t # s => staged'[t] = staged[t]
      /\ completed' # completed => staged'[s] = sent[s]
    BY <1>2, <1>3, OnePart DEF IndInv, TypeOK
<1>5. /\ Cardinality(tasks') \in Nat /\ Cardinality(tasks') = Cardinality(tasks) - 1
    BY <1>1, OneSlot DEF IndInv, TypeOK
<1>6. /\ inProgress' \in Nat
      /\ Cardinality(tasks') + (IF puts' # {} \/ dropped' THEN 1 ELSE 0) <= inProgress'
    <2>1. Cardinality(tasks) + (IF puts # {} \/ dropped THEN 1 ELSE 0) <= inProgress
        BY DEF IndInv, FutureInv
    <2>2. /\ inProgress \in Nat /\ Cardinality(tasks) \in Nat
          /\ inProgress' = inProgress - 1 /\ puts' = puts /\ dropped' = dropped
        BY <1>1, Numbers
    <2> QED
        BY <1>5, <2>1, <2>2
<1> USE DEF stream
<1>7. (status' => status) /\ status' \in BOOLEAN /\ (PutDone' <=> PutDone)
    <2>1. (status' => status) /\ status' \in BOOLEAN
        BY Zenon DEF TaskReports, StatusAfter
    <2>2. PutDone' <=> PutDone
        BY <1>1 DEF PutDone, S3, Closing
    <2> QED
        BY <2>1, <2>2
<1>8. OkSoon' => inProgress' = 0 /\ tasks' = {} /\ puts' = {} /\ ~dropped'
    <2>1. OkSoon' => inProgress' = 0
        BY <1>1, <1>3, <1>7 DEF OkSoon, Last
    <2>2. tasks' \in SUBSET Slots
        BY <1>1 DEF IndInv, TypeOK
    <2> QED
        BY <1>5, <1>6, <2>1, <2>2, FiniteSets
<1>9. TypeOK'
    <2>1. tasks' \in SUBSET Slots /\ completed' \in SUBSET Slots /\ finishing' \subseteq DOMAIN future'
        BY <1>1, <1>2, <1>3 DEF IndInv, TypeOK
    <2> QED
        BY <1>1, <1>4, <1>6, <1>7, <2>1 DEF IndInv, TypeOK
<1>10. CallInv'
    BY <1>1, <1>2 DEF IndInv, CallInv, S3, Idle, At, Last, Closing
<1>11. ByteInv' /\ Room' /\ OutcomeInv'
    BY <1>1 DEF IndInv, ByteInv, Room, OutcomeInv
<1>12. SlotInv'
    BY <1>1, <1>2, <1>3, <1>4, <1>7, EarlierSlots DEF IndInv, SlotInv, S3, At
<1>13. FutureInv'
    <2>1. \A f \in DOMAIN future' : future'[f] = "error" => ~status'
        BY <1>1, <1>7 DEF IndInv, FutureInv
    <2>2. puts' # {} => ~status'
        BY <1>1, <1>7 DEF IndInv, FutureInv
    <2>3. future'[Last'] # "ok"
        BY <1>1, <1>3 DEF Last
    <2>4. Background' /\ (S3' => upload') /\ ~(0 > 0)
        BY <1>1, <1>3 DEF S3, Background
    <2>5. tasks' \cup puts' # {} => ~OkSoon'
        BY <1>8
    <2>6. ~(inProgress' > 0 /\ OkSoon')
        BY <1>8
    <2> QED
        BY <1>6, <2>1, <2>2, <2>3, <2>4, <2>5, <2>6 DEF FutureInv
<1>14. GoodInv'
    BY <1>1, <1>2, <1>7 DEF IndInv, Good, GoodInv, Sent, S3, Background
<1>15. UnsentInv'
    BY <1>1, <1>3, Numbers DEF IndInv, UnsentInv, S3, At
<1>16. PutInv'
    BY <1>1, <1>3, <1>7 DEF PutInv, PutDone, Background, S3, IndInv
<1>17. ClosedIsComplete' /\ NeverPartial'
    BY <1>1 DEF IndInv, ClosedIsComplete, NeverPartial, Visible, S3, Background
<1>18. FlushCovers'
    BY <1>1, <1>3, <1>4, EarlierSlots DEF IndInv, FlushCovers, S3, Background
<1> QED
    BY <1>9, <1>10, <1>11, <1>12, <1>13, <1>14, <1>15, <1>16, <1>17, <1>18 DEF IndInv

\* A task that ends without its handler leaves its upload counted for ever.
LEMMA TaskDroppedKeeps ==
    ASSUME IndInv, NEW s \in Slots, TaskDropped(s)
    PROVE  IndInv'
<1>1. /\ S3 /\ s \in tasks \cup puts /\ tasks' = tasks \ {s} /\ puts' = puts \ {s} /\ dropped'
      /\ UNCHANGED <<mode, stream, upload, slot, sent, staged, completed, state, object,
                     outcome, flushed, failedWrite, closes, sealed, calls>>
    BY DEF TaskDropped
<1> USE DEF stream, state
<1>2. (OkSoon' <=> OkSoon) /\ (PutDone' <=> PutDone)
    BY <1>1 DEF OkSoon, Last, PutDone, S3, Closing
<1>3. TypeOK' /\ CallInv'
    BY <1>1 DEF IndInv, TypeOK, CallInv, S3, Idle, At, Last, Closing
<1>4. ByteInv' /\ Room' /\ SlotInv'
    BY <1>1, <1>2 DEF IndInv, ByteInv, Room, SlotInv, S3, At
<1>5. FutureInv'
    <2>1. /\ Cardinality(tasks') \in Nat
          /\ Cardinality(tasks') = Cardinality(tasks) - (IF s \in tasks THEN 1 ELSE 0)
        BY <1>1, OneSlot DEF IndInv, TypeOK
    <2>2. Cardinality(tasks') + (IF puts' # {} \/ dropped' THEN 1 ELSE 0) <= inProgress'
        BY <1>1, <2>1, Numbers DEF IndInv, FutureInv
    <2> QED
        BY <1>1, <1>2, <2>2 DEF IndInv, SlotInv, FutureInv, S3, Background, Last
<1>6. GoodInv'
    BY <1>1, <1>2 DEF IndInv, FutureInv, Good, GoodInv, Sent, S3, Background
<1>7. UnsentInv'
    BY <1>1, Numbers DEF IndInv, SlotInv, UnsentInv, S3, At
<1>8. PutInv' /\ OutcomeInv'
    BY <1>1, <1>2 DEF IndInv, PutInv, OutcomeInv, S3, Background
<1>9. ClosedIsComplete' /\ NeverPartial' /\ FlushCovers'
    BY <1>1 DEF IndInv, ClosedIsComplete, NeverPartial, Visible, FlushCovers, S3, Background
<1> QED
    BY <1>3, <1>4, <1>5, <1>6, <1>7, <1>8, <1>9 DEF IndInv

\* Marking a future with the status of that moment.
LEMMA MarkFinishedKeeps ==
    ASSUME IndInv, NEW f \in DOMAIN future, MarkFinished(f)
    PROVE  IndInv'
<1>1. /\ future' \in Seq({"pending", "ok", "error"}) /\ future' # << >>
      /\ Len(future') = Len(future) /\ DOMAIN future' = DOMAIN future
      /\ Len(future) \in DOMAIN future
      /\ future'[Len(future)] = IF Len(future) = f THEN (IF status THEN "ok" ELSE "error") ELSE future[Len(future)]
      /\ \A g \in DOMAIN future : future'[g] = IF g = f THEN (IF status THEN "ok" ELSE "error") ELSE future[g]
    BY DEF IndInv, TypeOK, MarkFinished
<1>2. /\ f \in finishing /\ finishing' = finishing \ {f}
      /\ UNCHANGED <<mode, stream, parts, inProgress, status, object, history>>
    BY DEF MarkFinished
<1>3. Background
    BY <1>2 DEF IndInv, FutureInv
<1> USE DEF stream, parts, history
<1>4. TypeOK'
    BY <1>1, <1>2 DEF IndInv, TypeOK
<1>5. CallInv'
    BY <1>1, <1>2 DEF IndInv, CallInv, FutureInv, S3, Idle, At, Last, Closing
<1>6. ByteInv' /\ Room' /\ SlotInv'
    BY <1>2 DEF IndInv, ByteInv, Room, SlotInv, S3, At, Closing, PutDone
<1>7. (OkSoon' <=> OkSoon) /\ (PutDone' <=> PutDone)
    BY <1>1, <1>2 DEF IndInv, FutureInv, OkSoon, Last, PutDone, S3, Closing
<1>8. FutureInv'
    BY <1>1, <1>2, <1>3, <1>7 DEF IndInv, FutureInv, S3, Background, Last
<1>9. GoodInv' /\ UnsentInv' /\ PutInv' /\ OutcomeInv'
    BY <1>2, <1>7 DEF IndInv, Good, GoodInv, Sent, UnsentInv, PutInv, OutcomeInv, S3, Background, At
<1>10. ClosedIsComplete' /\ NeverPartial' /\ FlushCovers'
    BY <1>2 DEF IndInv, ClosedIsComplete, NeverPartial, Visible, FlushCovers, S3, Background
<1> QED
    BY <1>4, <1>5, <1>6, <1>8, <1>9, <1>10 DEF IndInv

\* Flush begins.
LEMMA FlushKeeps ==
    ASSUME IndInv, Flush
    PROVE  IndInv'
<1>1. /\ opened /\ ~closed /\ call.op = "none" /\ call.step = "none" /\ calls < MaxCalls /\ calls' = calls + 1
      /\ call' = [op |-> "flush", step |-> "wait"]
      /\ UNCHANGED <<mode, opened, closed, given, rest, handed, accepted, buffer, pos, parts, state, object,
                     outcome, flushed, failedWrite, dropped, failures, closes, sealed>>
    BY DEF Flush, Calls, Idle, IndInv, CallInv, At
<1> USE DEF parts, state
<1>2. (OkSoon' <=> OkSoon) /\ ~PutDone' /\ ~PutDone
    BY <1>1 DEF OkSoon, Last, PutDone, S3, Closing
<1>3. TypeOK' /\ CallInv'
    BY <1>1 DEF IndInv, TypeOK, CallInv, S3, Idle, At, Last, Closing
<1>4. Room'
    BY <1>1, Numbers DEF IndInv, Room
<1>5. ByteInv' /\ SlotInv' /\ FutureInv' /\ UnsentInv'
    BY <1>1, <1>2 DEF IndInv, ByteInv, SlotInv, FutureInv, UnsentInv, S3, Background, Last, At
<1>6. GoodInv' /\ PutInv' /\ OutcomeInv'
    BY <1>1, <1>2 DEF IndInv, Good, GoodInv, Sent, PutInv, OutcomeInv, S3, Background
<1>7. ClosedIsComplete' /\ NeverPartial' /\ FlushCovers'
    BY <1>1 DEF IndInv, ClosedIsComplete, NeverPartial, Visible, FlushCovers, S3, Background
<1> QED
    BY <1>3, <1>4, <1>5, <1>6, <1>7 DEF IndInv

\* Close or CloseAsync begins.
LEMMA CloseKeeps ==
    ASSUME IndInv, NEW op \in {"close", "closeAsync"}, Close(op)
    PROVE  IndInv'
<1>1. /\ opened /\ ~closed /\ call.op = "none" /\ calls < MaxCalls /\ calls' = calls + 1
      /\ closes' = closes + 1 /\ sealed' = accepted
      /\ UNCHANGED <<mode, opened, closed, given, rest, handed, accepted, buffer, pos, parts, state,
                     object, outcome, flushed, failedWrite, dropped, failures>>
    BY DEF Close, Calls, Idle
<1>2. /\ call' \in [op : {"close", "closeAsync"}, step : {"put", "last", "wait"}]
      /\ call'.step = "put" <=> S3 /\ pos < PartSize
      /\ call'.step = "last" => buffer # {} \/ (S3 /\ slot = 1)
      /\ call'.step = "wait" => buffer = {} /\ ~(S3 /\ slot = 1)
    BY Numbers DEF Close, Calls, ShouldBeMultipartUpload
<1> USE DEF parts, state
<1>3. (OkSoon' <=> OkSoon) /\ ~PutDone' /\ ~PutDone
    <2>1. OkSoon' <=> OkSoon
        BY <1>1 DEF OkSoon, Last
    <2>2. ~PutDone
        BY <1>1 DEF PutDone, Closing
    <2>3. call'.step # "put" /\ S3 => ~(pos < PartSize)
        BY <1>2
    <2>4. call'.step = "put" => call'.step \notin {"wait", "commit"}
        OBVIOUS
    <2>5. pos' = pos /\ (S3' <=> S3)
        BY <1>1 DEF S3
    <2> QED
        BY <2>1, <2>2, <2>3, <2>4, <2>5 DEF PutDone
<1>4. TypeOK'
    BY <1>1, <1>2 DEF IndInv, TypeOK
<1>5. CallInv'
    <2>1. rest = {} /\ pos \in Nat /\ slot \in Nat \ {0} /\ PartSize \in Nat /\ closes \in Nat
        BY <1>1, Numbers DEF IndInv, CallInv
    <2>2. /\ call'.op \in {"close", "closeAsync"} /\ call'.step \in {"put", "last", "wait"}
          /\ call'.step # "put" /\ S3 => pos >= PartSize
          /\ call'.step = "wait" /\ S3 => slot > 1
          /\ closes + 1 >= 1
        BY <1>2, <2>1
    <2>3. UNCHANGED <<opened, closed, rest, buffer, pos, slot, accepted>> /\ (S3' <=> S3)
        BY <1>1 DEF S3
    <2> QED
        BY <1>1, <1>2, <2>1, <2>2, <2>3 DEF CallInv, Idle, At, Closing
<1>6. ByteInv'
    BY <1>1 DEF IndInv, ByteInv
<1>7. Room'
    BY <1>1, Numbers DEF IndInv, CallInv, Room, Idle, At
<1>8. SlotInv' /\ FutureInv' /\ OutcomeInv'
    BY <1>1, <1>2, <1>3 DEF IndInv, SlotInv, FutureInv, OutcomeInv, S3, Background, Last, At, CallInv, Idle
<1>9. UnsentInv'
    BY <1>1, <1>2, Numbers DEF IndInv, UnsentInv, S3, At
<1>10. PutInv'
    BY <1>3 DEF PutInv
<1>11. GoodInv'
    BY <1>1, <1>2, <1>3 DEF IndInv, Good, GoodInv, Sent, S3, Background
<1>12. ClosedIsComplete' /\ NeverPartial' /\ FlushCovers'
    BY <1>1, Numbers DEF IndInv, ClosedIsComplete, NeverPartial, UnsentInv, Visible, FlushCovers, S3, Background
<1> QED
    BY <1>4, <1>5, <1>6, <1>7, <1>8, <1>9, <1>10, <1>11, <1>12 DEF IndInv

\* The whole object with one request of the caller's thread.
LEMMA PutObjectKeeps ==
    ASSUME IndInv, PutObject
    PROVE  IndInv'
<1>1. /\ ~Background /\ call.step = "put" /\ buffer' = {}
      /\ UNCHANGED <<mode, opened, given, rest, handed, accepted, pos, upload, tasks, puts, sent, staged,
                     completed, state, flushed, failedWrite, dropped, closes, sealed, calls>>
      /\ object' \in {object, <<buffer>>}
      /\ \/ /\ object' = <<buffer>> /\ slot' = slot + 1
            /\ call' = [op |-> call.op, step |-> "wait"] /\ UNCHANGED <<closed, outcome>>
         \/ /\ call' = [op |-> "none", step |-> "none"] /\ closed' = TRUE /\ outcome' = "error"
            /\ slot' = slot
    BY DEF PutObject, At, Goto, Done, IndInv, TypeOK
<1>2. /\ opened /\ ~closed /\ call.op \in {"close", "closeAsync"} /\ S3 /\ pos < PartSize /\ ~PutDone
      /\ rest = {} /\ outcome # "ok" /\ outcome # "aborted" /\ closes >= 1 /\ sealed = accepted
    BY <1>1 DEF IndInv, TypeOK, CallInv, OutcomeInv, Idle, At, Closing, PutDone
<1>3. /\ status /\ tasks = {} /\ puts = {} /\ inProgress = 0 /\ future = <<"ok">> /\ finishing = {} /\ ~dropped
      /\ completed = {}
    BY <1>1, <1>2, Numbers DEF IndInv, FutureInv, SlotInv
<1>4. ~failedWrite => slot = 1 /\ accepted \subseteq buffer
    <2>1. ~failedWrite => Good
        BY <1>2, <1>3 DEF Good
    <2>2. ~failedWrite => slot = 1
        <3>1. ~failedWrite => completed \cup tasks = 1 .. slot - 1
            BY <1>2, <2>1 DEF IndInv, GoodInv
        <3>2. slot \in Nat \ {0} /\ (1 .. slot - 1 = {} => slot = 1)
            BY Numbers
        <3> QED
            BY <1>3, <3>1, <3>2
    <2>3. slot = 1 => \A b : ~Sent(b)
        BY DEF Sent
    <2> QED
        BY <2>1, <2>2, <2>3 DEF IndInv, GoodInv
<1>5. <<buffer>> # None /\ DOMAIN <<buffer>> = {1} /\ <<buffer>>[1] = buffer
    <2>1. buffer \in SUBSET (0 .. MaxBytes)
        BY DEF IndInv, TypeOK, Bytes
    <2>2. <<buffer>> \in [1 .. 1 -> SUBSET (0 .. MaxBytes)]
        <3>1. <<buffer>> = [i \in 1 .. 1 |-> buffer]
            OBVIOUS
        <3>2. [i \in 1 .. 1 |-> buffer] \in [1 .. 1 -> SUBSET (0 .. MaxBytes)]
            BY <2>1, Zenon
        <3> QED
            BY <3>1, <3>2, Zenon
    <2>3. 1 \in 0 .. MaxBytes + MaxCalls + 2
        BY Numbers
    <2>4. <<buffer>> # None
        BY <2>2, <2>3, UploadAssumption
    <2> QED
        BY <2>4
<1> USE DEF state
<1>6. slot' \in Slots /\ slot <= slot' /\ 1 .. slot - 1 \subseteq 1 .. slot' - 1 /\ slot' \in Nat /\ Cardinality(buffer') = 0
    <2>1. slot + Cardinality(buffer) + Cardinality(rest) + 1 <= handed + calls + 2
        BY <1>1 DEF IndInv, Room
    <2>2. slot' \in {slot, slot + 1} /\ buffer' = {}
        BY <1>1
    <2> QED
        BY <2>1, <2>2, Numbers DEF Slots
<1>7. OkSoon' /\ (PutDone' <=> ~closed')
    BY <1>1, <1>2, <1>3 DEF OkSoon, Last, PutDone, S3, Closing
<1>8. TypeOK'
    <2>1. call' \in [op : {"none", "write", "flush", "close", "closeAsync", "abort"},
                     step : {"none", "fill", "send", "direct", "last", "put", "wait", "commit"}]
        BY <1>1, <1>2
    <2> QED
        BY <1>1, <1>6, <2>1 DEF IndInv, TypeOK
<1>9. CallInv'
    <2>1. \/ call'.op = "none" /\ call'.step = "none"
          \/ /\ call'.op \in {"close", "closeAsync"} /\ call'.step = "wait" /\ ~closed'
             /\ slot' = slot + 1
        BY <1>1, <1>2
    <2>2. slot' = slot + 1 => slot' > 1
        BY Numbers
    <2> QED
        BY <1>1, <1>2, <2>1, <2>2 DEF CallInv, Idle, At, Closing
<1>10. ByteInv'
    <2>1. \A t \in Slots : t <= slot => t <= slot'
        BY <1>6, Numbers DEF Slots
    <2>2. Cardinality(buffer') <= pos
        BY <1>6, Numbers
    <2>3. UNCHANGED <<given, rest, handed, accepted, pos, sent>> /\ buffer' = {}
        BY <1>1
    <2> QED
        BY <2>1, <2>2, <2>3 DEF IndInv, ByteInv
<1>11. Room'
    <2>1. slot + Cardinality(buffer) + Cardinality(rest) + 1 <= handed + calls + 2
        BY <1>1 DEF IndInv, Room
    <2> QED
        BY <1>1, <1>2, <1>6, <2>1, Numbers DEF Room
<1>12. SlotInv'
    BY <1>1, <1>2, <1>3, <1>6, <1>7, Numbers DEF IndInv, SlotInv, S3, At
<1>13. FutureInv'
    BY <1>1, <1>3, Numbers DEF FutureInv, Background, Last, OkSoon
<1>14. GoodInv' /\ OutcomeInv'
    BY <1>1, <1>2, <1>3, <1>7 DEF Good, GoodInv, OutcomeInv
<1>15. UnsentInv'
    BY <1>1, <1>2, <1>3, Numbers DEF UnsentInv, At
<1>16. PutInv'
    BY <1>1, <1>4, <1>5, <1>7 DEF PutInv, PutDone, Closing, Background
<1>17. ClosedIsComplete' /\ FlushCovers'
    BY <1>1, <1>2 DEF IndInv, ClosedIsComplete, FlushCovers, S3, Background
<1>18. NeverPartial'
    <2>1. object' = <<buffer>> => Visible' = buffer
        BY DEF Visible
    <2>2. object' = object => Visible' = Visible
        BY DEF Visible
    <2> QED
        BY <1>1, <1>2, <1>4, <2>1, <2>2 DEF IndInv, NeverPartial, S3
<1> QED
    BY <1>8, <1>9, <1>10, <1>11, <1>12, <1>13, <1>14, <1>15, <1>16, <1>17, <1>18 DEF IndInv

\* The whole object handed to an I/O thread.
LEMMA SubmitPutKeeps ==
    ASSUME IndInv, SubmitPut
    PROVE  IndInv'
<1>1. /\ Background /\ call.step = "put" /\ Counted
      /\ sent' = [sent EXCEPT ![slot] = buffer] /\ buffer' = {}
      /\ UNCHANGED <<mode, opened, given, rest, handed, accepted, pos, upload, tasks, staged,
                     completed, status, finishing, object, flushed, failedWrite, closes, sealed, calls>>
      /\ \/ /\ puts' = puts \cup {slot} /\ slot' = slot + 1 /\ call' = [op |-> call.op, step |-> "wait"]
            /\ UNCHANGED <<dropped, closed, outcome>>
         \/ /\ call' = [op |-> "none", step |-> "none"] /\ closed' = TRUE /\ outcome' = "error"
            /\ dropped' = TRUE /\ UNCHANGED <<puts, slot>>
    BY DEF SubmitPut, At, Goto, Done, IndInv, TypeOK
<1>2. /\ opened /\ ~closed /\ call.op \in {"close", "closeAsync"} /\ S3 /\ pos < PartSize /\ ~PutDone
      /\ rest = {} /\ outcome # "ok" /\ outcome # "aborted" /\ closes >= 1 /\ sealed = accepted
    BY <1>1 DEF IndInv, TypeOK, CallInv, OutcomeInv, Idle, At, Closing, PutDone
<1>3. /\ tasks = {} /\ completed = {}
      /\ status => puts = {}
      /\ puts # {} => closes >= 2
      /\ ~(dropped /\ ~upload /\ status)
    BY <1>1, <1>2, Numbers DEF IndInv, FutureInv, SlotInv, UnsentInv, At
<1>4. /\ inProgress' = inProgress + 1 /\ inProgress' \in Nat
      /\ future' \in Seq({"pending", "ok", "error"}) /\ future' # << >>
      /\ finishing' \subseteq DOMAIN future'
      /\ \A f \in DOMAIN future' : future'[f] = "error" => ~status
      /\ future'[Last'] # "ok" /\ ~OkSoon'
    BY <1>1, <1>2, CountedFacts
<1>5. slot = 1 /\ Good => accepted \subseteq buffer
    BY DEF IndInv, GoodInv, Sent
<1>6. ~upload /\ status => accepted \subseteq buffer
    <2>1. ~upload /\ status => slot = 1
        BY <1>2 DEF IndInv, SlotInv
    <2>2. ~upload /\ status => Good
        BY <1>1, <1>2, <1>3 DEF Good
    <2> QED
        BY <1>5, <2>1, <2>2
<1>7. ~failedWrite /\ closes <= 1 => accepted \subseteq buffer /\ puts = {}
    <2>1. ~failedWrite /\ closes <= 1 => status /\ ~dropped /\ slot = 1
        BY <1>1, <1>2, Numbers DEF IndInv, UnsentInv, At
    <2>2. ~failedWrite /\ closes <= 1 => Good
        BY <1>1, <1>2, <2>1 DEF Good
    <2> QED
        BY <1>3, <1>5, <2>1, <2>2
<1>8. /\ slot \in Slots /\ buffer \in Parts /\ buffer # None /\ sent' \in [Slots -> {None} \cup Parts]
      /\ sent'[slot] = buffer /\ \A s \in Slots : s # slot => sent'[s] = sent[s]
    <2>1. /\ slot \in Slots /\ buffer \in SUBSET Bytes /\ sent \in [Slots -> {None} \cup Parts]
        BY DEF IndInv, TypeOK
    <2>2. buffer \in Parts /\ buffer \in SUBSET (0 .. MaxBytes)
        BY <2>1 DEF Parts, Bytes
    <2>3. buffer # None
        BY <2>2, UploadAssumption
    <2> QED
        BY <1>1, <2>1, <2>2, <2>3, OnePart
<1>9. /\ slot' \in Slots /\ slot <= slot' /\ 1 .. slot - 1 \subseteq 1 .. slot' - 1 /\ slot' \in Nat
      /\ slot' + Cardinality(rest') <= handed + calls + 2 /\ Cardinality(buffer') = 0
    <2>1. slot + Cardinality(buffer) + Cardinality(rest) + 1 <= handed + calls + 2
        BY <1>1 DEF IndInv, Room
    <2>2. slot' \in {slot, slot + 1} /\ buffer' = {} /\ rest' = rest
        BY <1>1
    <2> QED
        BY <2>1, <2>2, Numbers DEF Slots
<1>10. \/ /\ call'.op = "none" /\ call'.step = "none" /\ closed' /\ outcome' = "error" /\ ~PutDone'
          /\ puts' = puts /\ slot' = slot
       \/ /\ call'.op \in {"close", "closeAsync"} /\ call'.step = "wait" /\ ~closed' /\ PutDone'
          /\ slot' = slot + 1 /\ slot' > 1 /\ slot' - 1 = slot /\ puts' = puts \cup {slot}
          /\ outcome' = outcome /\ (dropped' <=> dropped)
    BY <1>1, <1>2, Numbers DEF PutDone, S3, Closing
<1>11. TypeOK'
    <2>1. call' \in [op : {"none", "write", "flush", "close", "closeAsync", "abort"},
                     step : {"none", "fill", "send", "direct", "last", "put", "wait", "commit"}]
        BY <1>1, <1>2
    <2>2. puts' \in SUBSET Slots /\ closed' \in BOOLEAN /\ outcome' \in {"none", "ok", "error", "aborted"}
        BY <1>1, <1>8 DEF IndInv, TypeOK
    <2>3. buffer' \in SUBSET Bytes
        BY <1>1
    <2> QED
        BY <1>1, <1>4, <1>8, <1>9, <2>1, <2>2, <2>3 DEF IndInv, TypeOK
<1>12. CallInv'
    BY <1>1, <1>2, <1>10 DEF CallInv, Idle, At, Closing
<1>13. ByteInv'
    <2>1. /\ \E lo \in 1 .. handed + 1 : rest = lo .. handed
          /\ given \subseteq 1 .. handed /\ accepted \subseteq 1 .. handed
          /\ buffer \subseteq 1 .. handed
          /\ pos + Cardinality(rest) <= handed
        BY DEF IndInv, ByteInv
    <2>2. \A s \in Slots : sent[s] # None =>
              s <= slot /\ \A x \in sent[s] : x <= handed /\ \A y \in buffer : x < y
        BY DEF IndInv, ByteInv
    <2>3. \A s \in Slots : sent'[s] # None =>
              /\ s <= slot'
              /\ \A x \in sent'[s] : x <= handed' /\ \A y \in buffer' \cup rest' : x < y
        <3>1. \A x \in buffer : x <= handed
            BY <2>1, Numbers
        <3>2. \A s \in Slots : s <= slot => s <= slot'
            BY <1>9, Numbers DEF Slots
        <3>3. handed' = handed /\ buffer' \cup rest' = {} /\ slot <= slot
            BY <1>1, <1>2, Numbers
        <3> QED
            BY <1>8, <2>2, <3>1, <3>2, <3>3
    <2>4. \A i, j \in Slots : i < j /\ sent'[i] # None /\ sent'[j] # None =>
              \A x \in sent'[i], y \in sent'[j] : x < y
        <3>1. \A i, j \in Slots : i < j /\ sent[i] # None /\ sent[j] # None =>
                  \A x \in sent[i], y \in sent[j] : x < y
            BY DEF IndInv, ByteInv
        <3>2. \A i \in Slots : sent[i] # None => i <= slot /\ \A x \in sent[i], y \in buffer : x < y
            BY <2>2
        <3>3. /\ sent'[slot] = buffer /\ \A s \in Slots : s # slot => sent'[s] = sent[s]
              /\ \A i, j \in Slots : i < j /\ j <= slot => i # slot
            BY <1>8, Numbers DEF Slots
        <3>4. ASSUME NEW i \in Slots, NEW j \in Slots, i < j, sent'[i] # None, sent'[j] # None
              PROVE  \A x \in sent'[i], y \in sent'[j] : x < y
            <4>1. i # slot
                <5>1. j <= slot \/ j = slot
                    BY <3>2, <3>3, <3>4
                <5>2. slot \in Int /\ i \in Int /\ j \in Int
                    BY <1>8 DEF Slots
                <5> QED
                    BY <3>4, <5>1, <5>2
            <4> QED
                BY <3>1, <3>2, <3>3, <3>4, <4>1
        <3> QED
            BY <3>4
    <2>5. Cardinality(buffer') <= pos
        BY <1>9, Numbers
    <2> QED
        BY <1>1, <1>2, <2>1, <2>3, <2>4, <2>5 DEF ByteInv
<1>14. Room'
    BY <1>1, <1>9, <1>10, Numbers DEF Room
<1>15. SlotInv'
    <2>1. /\ tasks' \cup completed' \cup puts' \subseteq 1 .. slot' - 1
          /\ \A s \in tasks' \cup completed' \cup puts' : sent'[s] # None
        <3>1. puts \subseteq 1 .. slot - 1 /\ \A s \in puts : sent[s] # None
            BY DEF IndInv, SlotInv
        <3>2. tasks' = {} /\ completed' = {} /\ (slot' = slot + 1 => slot \in 1 .. slot' - 1)
            BY <1>1, <1>3, Numbers
        <3> QED
            BY <1>8, <1>9, <1>10, <3>1, <3>2, EarlierSlots
    <2>2. tasks' = {} /\ completed' = {} /\ S3'
        BY <1>1, <1>2, <1>3 DEF S3
    <2>3. ~(upload /\ ~failedWrite)
        BY <1>1, <1>2, Numbers DEF IndInv, SlotInv, At
    <2>4. flushed' <= slot' - 1
        BY <1>1, <1>9, Numbers DEF IndInv, SlotInv
    <2> QED
        BY <1>1, <1>10, <2>1, <2>2, <2>3, <2>4 DEF SlotInv
<1>16. FutureInv'
    <2>1. Background' /\ S3' /\ tasks' = {}
        BY <1>1, <1>2, <1>3 DEF S3, Background
    <2>2. Cardinality(tasks') = 0 /\ inProgress' >= 1
        BY <1>4, <2>1, Numbers
    <2>3. puts' # {} /\ status' => puts' = {slot' - 1} /\ (closed' \/ PutDone')
        BY <1>1, <1>3, <1>10
    <2>4. ~(dropped' /\ ~upload' /\ status' /\ ~closed')
        BY <1>1, <1>3, <1>10
    <2>5. Cardinality(tasks') + (IF puts' # {} \/ dropped' THEN 1 ELSE 0) <= inProgress'
        BY <1>4, <2>2
    <2>6. \A f \in DOMAIN future' : future'[f] = "error" => ~status'
        BY <1>1, <1>4
    <2> QED
        BY <1>4, <2>1, <2>3, <2>4, <2>5, <2>6 DEF FutureInv
<1>17. GoodInv' /\ OutcomeInv'
    BY <1>2, <1>10 DEF Good, GoodInv, OutcomeInv
<1>18. UnsentInv'
    <2>1. closes' >= 1 /\ closes' = closes /\ closes \in Nat /\ call'.step # "put"
        BY <1>1, <1>2, <1>10, Numbers
    <2>2. ~failedWrite' /\ closes' <= 1 => \A s \in puts' : sealed' \subseteq sent'[s]
        BY <1>1, <1>2, <1>7, <1>8, <1>10
    <2> QED
        BY <2>1, <2>2 DEF UnsentInv, At
<1>19. PutInv'
    <2>1. Background'
        BY <1>1 DEF Background
    <2>2. PutDone' => slot' - 1 = slot
        BY <1>10
    <2> QED
        BY <1>1, <1>4, <1>6, <1>8, <2>1, <2>2 DEF PutInv
<1>20. ClosedIsComplete' /\ NeverPartial'
    BY <1>1, <1>2, <1>10 DEF IndInv, ClosedIsComplete, NeverPartial, Visible, S3
<1>21. FlushCovers'
    <2>1. \A s \in 1 .. flushed : sent'[s] = sent[s]
        BY <1>8, EarlierSlots
    <2> QED
        BY <1>1, <1>2, <2>1 DEF IndInv, FlushCovers, S3, Background
<1> QED
    BY <1>11, <1>12, <1>13, <1>14, <1>15, <1>16, <1>17, <1>18, <1>19, <1>20, <1>21 DEF IndInv

\* The handler of a background PutObject marks the future without counting
\* down: OkSoon with an upload still counted, and a stream that is closing.
LEMMA PutReportsKeeps ==
    ASSUME IndInv, NEW s \in Slots, PutReports(s)
    PROVE  IndInv'
<1>1. /\ s \in puts /\ puts' = puts \ {s} /\ finishing' = finishing \cup {Last}
      /\ UNCHANGED <<mode, stream, upload, slot, tasks, sent, staged, completed, inProgress,
                     future, outcome, flushed, failedWrite, dropped, closes, sealed, calls>>
      /\ \/ object' = <<sent[s]>> /\ status' = status
         \/ status' = FALSE /\ object' \in {object, <<sent[s]>>}
    BY DEF PutReports, StatusAfter
<1>2. /\ S3 /\ Background /\ ~OkSoon /\ future[Last] # "ok" /\ Last \in DOMAIN future /\ opened
      /\ status => puts = {slot - 1} /\ tasks = {} /\ (closed \/ PutDone)
      /\ closes >= 1 /\ (At("put") => closes >= 2) /\ outcome # "ok"
      /\ S3 /\ ~failedWrite /\ closes <= 1 => sealed \subseteq sent[s]
    BY <1>1 DEF IndInv, TypeOK, CallInv, FutureInv, SlotInv, UnsentInv, OutcomeInv, OkSoon, Last
<1> USE DEF stream
<1>3. (status' => status) /\ status' \in BOOLEAN /\ (PutDone' <=> PutDone)
    <2>1. status' => status
        BY Zenon DEF PutReports, StatusAfter
    <2>2. status' \in BOOLEAN
        <3>1. status \in BOOLEAN
            BY DEF IndInv, TypeOK
        <3>2. status' = status \/ status' = FALSE
            BY <1>1, Zenon
        <3> QED
            BY <3>1, <3>2, Zenon
    <2>3. PutDone' <=> PutDone
        BY <1>1 DEF PutDone, S3, Closing
    <2> QED
        BY <2>1, <2>3, <2>2
<1>4. OkSoon' => status' /\ puts' = {} /\ tasks' = {} /\ (closed' \/ PutDone') /\ s = slot - 1
    BY <1>1, <1>2, <1>3 DEF OkSoon, Last
<1>5. TypeOK' /\ CallInv'
    BY <1>1, <1>2, <1>3 DEF IndInv, TypeOK, CallInv, S3, Idle, At, Last, Closing
<1>6. ByteInv' /\ Room' /\ OutcomeInv'
    BY <1>1 DEF IndInv, ByteInv, Room, OutcomeInv
<1>7. SlotInv'
    BY <1>1, <1>2, <1>3 DEF IndInv, SlotInv, S3, At
<1>8. FutureInv'
    <2>1. Cardinality(tasks') + (IF puts' # {} \/ dropped' THEN 1 ELSE 0) <= inProgress'
        <3>1. Cardinality(tasks) + 1 <= inProgress
            BY <1>1 DEF IndInv, FutureInv
        <3> QED
            BY <1>1, <3>1, Numbers
    <2>2. Background' /\ S3' /\ future'[Last'] # "ok"
        BY <1>1, <1>2 DEF S3, Background, Last
    <2>3. \A f \in DOMAIN future' : future'[f] = "error" => ~status'
        BY <1>1, <1>3 DEF IndInv, FutureInv
    <2>4. status' /\ ~closed' => PutDone' /\ puts' = {}
        BY <1>1, <1>2, <1>3
    <2>5. ASSUME dropped', ~upload', status', ~closed'
          PROVE  FALSE
        BY <1>1, <1>2, <1>3, <2>5 DEF IndInv, FutureInv
    <2> QED
        BY <1>1, <1>2, <1>3, <1>4, <2>1, <2>2, <2>3, <2>4, <2>5 DEF FutureInv
<1>9. GoodInv'
    BY <1>1, <1>3 DEF IndInv, Good, GoodInv, Sent, S3, Background
<1>10. UnsentInv'
    BY <1>1, <1>2, Numbers DEF IndInv, UnsentInv, S3, At
<1>11. PutInv'
    BY <1>1, <1>2, <1>3, <1>4 DEF IndInv, PutInv, S3, Background
<1>12. ClosedIsComplete' /\ FlushCovers'
    BY <1>1, <1>2 DEF IndInv, ClosedIsComplete, FlushCovers, S3, Background
<1>13. NeverPartial'
    <2>1. object' # object => object' = <<sent[s]>>
        BY <1>1
    <2>2. object' = <<sent[s]>> => Visible' = sent[s]
        BY DEF Visible
    <2>3. object' = object => Visible' = Visible
        BY DEF Visible
    <2> QED
        BY <1>1, <1>2, <2>1, <2>2, <2>3 DEF IndInv, NeverPartial, S3
<1> QED
    BY <1>5, <1>6, <1>7, <1>8, <1>9, <1>10, <1>11, <1>12, <1>13 DEF IndInv

\* The future is finished: the call returns, or goes on to commit.
LEMMA WaitedKeeps ==
    ASSUME IndInv, Waited
    PROVE  IndInv'
<1>1. /\ call.step = "wait" /\ future[Last] # "pending"
      /\ UNCHANGED <<mode, opened, given, rest, handed, accepted, buffer, pos, parts, state, object,
                     failedWrite, dropped, closes, sealed, calls, failures>>
    BY DEF Waited, UploadsFinished, At
<1>2. /\ opened /\ ~closed /\ call.op \in {"flush", "close", "closeAsync"} /\ outcome # "ok" /\ outcome # "aborted"
      /\ Closing => closes >= 1 /\ sealed = accepted /\ buffer = {} /\ (S3 => slot > 1)
      /\ rest = {} /\ (Closing <=> call.op # "flush")
      /\ call = [op |-> call.op, step |-> call.step]
    BY <1>1 DEF IndInv, TypeOK, CallInv, OutcomeInv, Idle, At, Closing
<1>3. /\ future[Last] \in {"ok", "error"}
      /\ future[Last] = "error" => ~status /\ ~OkSoon
      /\ future[Last] = "ok" => status /\ OkSoon /\ tasks = {} /\ puts = {} /\ (PutDone \/ inProgress = 0)
      /\ inProgress = 0 => ~dropped
    <2>1. future \in Seq({"pending", "ok", "error"}) /\ Last \in DOMAIN future
        BY DEF IndInv, TypeOK, Last
    <2>2. future[Last] \in {"ok", "error"}
        BY <1>1, <2>1
    <2>3. /\ future[Last] = "error" => ~status
          /\ ~status => future[Last] # "ok"
          /\ tasks \cup puts # {} => ~OkSoon
          /\ inProgress > 0 /\ OkSoon => PutDone
        BY <1>2, <2>1 DEF IndInv, FutureInv
    <2>4. inProgress = 0 => ~dropped
        BY Numbers DEF IndInv, FutureInv
    <2> QED
        BY <2>2, <2>3, <2>4, Numbers DEF OkSoon
<1> USE DEF parts, state
<1>4. \/ /\ future[Last] = "ok" /\ (S3 => Closing /\ upload)
         /\ call' = [op |-> call.op, step |-> "commit"] /\ UNCHANGED <<outcome, closed, flushed>>
      \/ /\ future[Last] = "ok" /\ S3 /\ call.op = "flush"
         /\ call' = [op |-> "none", step |-> "none"] /\ ~closed' /\ outcome' = outcome /\ flushed' = slot - 1
      \/ /\ future[Last] = "ok" /\ S3 /\ ~upload /\ Closing
         /\ call' = [op |-> "none", step |-> "none"] /\ closed' /\ outcome' = "ok" /\ flushed' = flushed
      \/ /\ future[Last] = "error"
         /\ call' = [op |-> "none", step |-> "none"]
         /\ outcome' = (IF call.op = "flush" THEN outcome ELSE "error") /\ flushed' = flushed
         /\ call.op = "flush" => ~closed'
    BY <1>2, <1>3 DEF Waited, Returns, Done, Goto
<1>5. closed' \in BOOLEAN
    BY <1>2 DEF Waited, Returns, Goto, IndInv, TypeOK
<1>6. /\ call'.op \in {"none", call.op} /\ call'.step \in {"none", "commit"}
      /\ call'.op = "none" <=> call'.step = "none"
      /\ OkSoon' <=> OkSoon
      /\ PutDone' <=> PutDone /\ call'.step = "commit"
    BY <1>1, <1>2, <1>4 DEF OkSoon, Last, PutDone, S3, Closing
<1>7. TypeOK'
    <2>1. call' \in [op : {"none", "write", "flush", "close", "closeAsync", "abort"},
                     step : {"none", "fill", "send", "direct", "last", "put", "wait", "commit"}]
        BY <1>2, <1>4
    <2>2. outcome' \in {"none", "ok", "error", "aborted"}
        BY <1>4 DEF IndInv, TypeOK
    <2>3. flushed' \in 0 .. MaxBytes + MaxCalls + 2
        <3>1. slot \in Slots /\ flushed \in 0 .. MaxBytes + MaxCalls + 2
            BY DEF IndInv, TypeOK
        <3>2. slot - 1 \in 0 .. MaxBytes + MaxCalls + 2
            BY <3>1, Numbers DEF Slots
        <3> QED
            BY <1>4, <3>1, <3>2
    <2> QED
        BY <1>1, <1>5, <2>1, <2>2, <2>3 DEF IndInv, TypeOK
<1>8. CallInv'
    <2>1. call'.step = "commit" => call'.op = call.op /\ ~closed' /\ future[Last] = "ok" /\ (S3 => Closing /\ upload)
        BY <1>2, <1>4
    <2>2. Last' = Last /\ future' = future
        BY <1>1 DEF Last
    <2> QED
        BY <1>1, <1>2, <1>6, <2>1, <2>2 DEF CallInv, Idle, At, Closing, S3
<1>9. ByteInv'
    BY <1>1 DEF IndInv, ByteInv
<1>10. Room'
    BY <1>1, <1>6 DEF IndInv, Room
<1>11. SlotInv'
    <2>1. flushed' <= slot' - 1
        BY <1>1, <1>4, Numbers DEF IndInv, SlotInv
    <2>2. ASSUME S3', ~upload', status', ~closed', ~PutDone'
          PROVE  slot' = 1
        <3>1. S3 /\ ~upload /\ status
            BY <1>1, <2>2 DEF S3
        <3>2. ~PutDone
            BY <1>3, <1>4, <1>6, <2>2, <3>1 DEF PutDone, Closing
        <3> QED
            BY <1>1, <1>2, <3>1, <3>2 DEF IndInv, SlotInv
    <2>3. outcome' # "aborted" /\ outcome # "aborted" /\ call'.step # "direct" /\ call.step # "direct"
        BY <1>1, <1>2, <1>4, <1>6
    <2> QED
        BY <1>1, <2>1, <2>2, <2>3 DEF IndInv, SlotInv, S3, At
<1>12. FutureInv'
    <2>1. inProgress' > 0 /\ OkSoon' => S3' /\ (closed' \/ PutDone')
        BY <1>1, <1>2, <1>3, <1>4, <1>6, Numbers DEF PutDone, S3, Closing
    <2>2. puts' = {} \/ ~status'
        BY <1>1, <1>3
    <2>3. ASSUME dropped', ~upload', status', ~closed', S3'
          PROVE  FALSE
        BY <1>1, <1>2, <1>3, <1>4, <2>3, Numbers DEF IndInv, FutureInv, S3, PutDone, Closing
    <2> QED
        BY <1>1, <1>6, <2>1, <2>2, <2>3 DEF IndInv, FutureInv, Background, Last
<1>13. Good' => Good
    BY <1>1, <1>2, <1>3, <1>4, <1>6 DEF Good, S3, Background, PutDone, Closing
<1>14. GoodInv'
    BY <1>1, <1>2, <1>6, <1>13 DEF IndInv, GoodInv, Sent, S3
<1>15. UnsentInv'
    BY <1>1, <1>6 DEF IndInv, UnsentInv, S3, At
<1>16. PutInv'
    BY <1>1, <1>6 DEF IndInv, PutInv, Background
<1>17. OutcomeInv'
    BY <1>1, <1>2, <1>3, <1>4 DEF OutcomeInv
<1>18. ClosedIsComplete'
    <2>1. SUFFICES ASSUME outcome' = "ok", ~Background => ~failedWrite
                   PROVE  /\ object # None /\ DOMAIN object = {1}
                          /\ accepted \subseteq object[1]
        <3>1. DOMAIN object = {1} /\ accepted \subseteq object[1] => accepted \subseteq Visible
            BY DEF Visible
        <3> QED
            BY <1>1, <1>2, <1>4, <2>1, <3>1 DEF ClosedIsComplete, Visible, S3, Background
    <2>2. future[Last] = "ok" /\ S3 /\ ~upload /\ Closing
        BY <1>2, <1>4, <2>1
    <2>3. status /\ OkSoon /\ slot > 1
        BY <1>2, <1>3, <2>2
    <2>4. PutDone
        BY <1>2, <2>2, <2>3, Numbers DEF IndInv, SlotInv
    <2>5. CASE ~Background
        BY <2>1, <2>4, <2>5 DEF IndInv, PutInv
    <2>6. CASE Background
        <3>1. /\ sent[slot - 1] # None /\ accepted \subseteq sent[slot - 1]
              /\ object = <<sent[slot - 1]>>
            BY <2>2, <2>3, <2>4, <2>6 DEF IndInv, PutInv
        <3>2. sent[slot - 1] \in SUBSET (0 .. MaxBytes)
            <4>1. slot - 1 \in Slots
                BY <2>3, Numbers, EarlierSlots DEF Slots
            <4>2. sent[slot - 1] \in Parts
                BY <3>1, <4>1 DEF IndInv, TypeOK
            <4>3. Parts \subseteq SUBSET (0 .. MaxBytes)
                <5>1. Bytes \cup {Old} \subseteq 0 .. MaxBytes
                    BY Numbers DEF Bytes, Old
                <5> QED
                    BY <5>1 DEF Parts
            <4> QED
                BY <4>2, <4>3
        <3>3. object # None
            <4>1. object \in [1 .. 1 -> SUBSET (0 .. MaxBytes)]
                <5>1. object = [i \in 1 .. 1 |-> sent[slot - 1]]
                    BY <3>1
                <5> QED
                    BY <3>2, <5>1, Zenon
            <4>2. 1 \in 0 .. MaxBytes + MaxCalls + 2
                BY Numbers
            <4> QED
                BY <4>1, <4>2, UploadAssumption
        <3> QED
            BY <3>1, <3>3
    <2> QED
        BY <2>5, <2>6
<1>19. NeverPartial'
    BY <1>1 DEF IndInv, NeverPartial, Visible, S3
<1>20. FlushCovers'
    <2>1. CASE flushed' = flushed
        BY <1>1, <1>2, <2>1 DEF IndInv, FlushCovers, S3, Background
    <2>2. CASE future[Last] = "ok" /\ S3 /\ call.op = "flush" /\ flushed' = slot - 1
        <3>1. ~PutDone /\ inProgress = 0 /\ ~dropped /\ status
            BY <1>3, <2>2 DEF PutDone, Closing
        <3>2. ASSUME ~Background => ~failedWrite
              PROVE  completed = 1 .. slot - 1
            BY <1>2, <1>3, <2>2, <3>1, <3>2 DEF IndInv, GoodInv, Good
        <3>3. \A s \in completed : sent[s] # None /\ staged[s] = sent[s]
            BY <1>2 DEF IndInv, SlotInv
        <3> QED
            BY <1>1, <2>2, <3>2, <3>3 DEF FlushCovers, S3, Background
    <2> QED
        BY <1>4, <2>1, <2>2
<1> QED
    BY <1>7, <1>8, <1>9, <1>10, <1>11, <1>12, <1>14, <1>15, <1>16, <1>17, <1>18, <1>19, <1>20 DEF IndInv

\* What the store puts together when the upload is completed or the block list
\* is committed: every part that was sent, in order.
LEMMA ContentFacts ==
    ASSUME IndInv, At("commit"), Committable, S3 /\ ~Background => ~failedWrite
    PROVE  /\ S3 => completed = 1 .. slot - 1
           /\ DOMAIN Content = 1 .. slot - 1
           /\ \A i \in 1 .. slot - 1 : Content[i] = sent[i] /\ staged[i] = sent[i] /\ sent[i] # None
           /\ Content # None
           /\ Closing => accepted \subseteq UNION {Content[i] : i \in DOMAIN Content}
           /\ \A i, j \in DOMAIN Content : i < j => \A x \in Content[i], y \in Content[j] : x < y
<1>1. /\ opened /\ ~closed /\ outcome # "aborted" /\ future[Last] = "ok"
      /\ Closing => buffer = {}
    BY DEF IndInv, TypeOK, CallInv, OutcomeInv, Idle, At
<1>2. ~PutDone
    <2>1. S3 => pos >= PartSize
        BY DEF IndInv, SlotInv, Committable
    <2> QED
        BY <2>1, Numbers DEF PutDone
<1>3. /\ status /\ OkSoon /\ tasks = {} /\ ~dropped
    <2>1. status /\ OkSoon /\ tasks = {} /\ ~(inProgress > 0)
        BY <1>1, <1>2 DEF IndInv, FutureInv, OkSoon
    <2>2. ~dropped
        BY <2>1, Numbers DEF IndInv, FutureInv
    <2> QED
        BY <2>1, <2>2
<1>4. Good
    BY <1>1, <1>2, <1>3 DEF Good
<1>5. S3 => completed = 1 .. slot - 1
    BY <1>3, <1>4 DEF IndInv, GoodInv
<1>6. S3 => Cardinality(completed) = slot - 1
    <2>1. 1 \in Int /\ slot - 1 \in Int /\ 1 <= (slot - 1) + 1 /\ (slot - 1) + 1 - 1 = slot - 1
        BY Numbers
    <2>2. Cardinality(1 .. slot - 1) = (slot - 1) + 1 - 1
        BY <2>1, SizeOfInterval, Zenon
    <2> QED
        BY <1>5, <2>1, <2>2, Zenon
<1>7. Content = [s \in 1 .. slot - 1 |-> staged[s]]
    BY <1>6, Zenon DEF Content
<1>8. \A i \in 1 .. slot - 1 : staged[i] = sent[i] /\ sent[i] # None
    <2>1. CASE S3
        BY <1>1, <1>5, <2>1 DEF IndInv, SlotInv
    <2>2. CASE ~S3
        <3>1. \A s \in 1 .. slot - 1 : s \in Slots /\ staged[s] # None
            BY <2>2, EarlierSlots DEF Committable
        <3> QED
            BY <2>2, <3>1 DEF IndInv, SlotInv
    <2> QED
        BY <2>1, <2>2
<1>9. \A i \in 1 .. slot - 1 : Content[i] = sent[i] /\ sent[i] \in SUBSET (0 .. MaxBytes)
    <2>1. \A i \in 1 .. slot - 1 : sent[i] \in Parts
        BY <1>8, EarlierSlots DEF IndInv, TypeOK
    <2>2. Bytes \cup {Old} \subseteq 0 .. MaxBytes
        BY Numbers DEF Bytes, Old
    <2> QED
        BY <1>7, <1>8, <2>1, <2>2 DEF Parts
<1>10. Content # None
    <2>1. Content \in [1 .. slot - 1 -> SUBSET (0 .. MaxBytes)]
        BY <1>7, <1>8, <1>9
    <2>2. slot - 1 \in 0 .. MaxBytes + MaxCalls + 2
        BY EarlierSlots, Numbers DEF Slots
    <2> QED
        BY <2>1, <2>2, UploadAssumption
<1>11. Closing => accepted \subseteq UNION {Content[i] : i \in DOMAIN Content}
    <2>1. Closing => \A b \in accepted : \E i \in 1 .. slot - 1 : b \in sent[i]
        BY <1>1, <1>4 DEF IndInv, GoodInv, Sent
    <2> QED
        BY <1>7, <1>9, <2>1
<1>12. \A i, j \in DOMAIN Content : i < j => \A x \in Content[i], y \in Content[j] : x < y
    <2>1. \A i, j \in Slots : i < j /\ sent[i] # None /\ sent[j] # None =>
              \A x \in sent[i], y \in sent[j] : x < y
        BY DEF IndInv, ByteInv
    <2> QED
        BY <1>7, <1>8, <1>9, <2>1, EarlierSlots
<1> QED
    BY <1>5, <1>7, <1>8, <1>9, <1>10, <1>11, <1>12

\* CompleteMultipartUpload and CommitBlockList, answered or not.
LEMMA CommitKeeps ==
    ASSUME IndInv, Commit
    PROVE  IndInv'
<1>1. /\ At("commit") /\ call' = [op |-> "none", step |-> "none"]
      /\ UNCHANGED <<mode, opened, given, rest, handed, accepted, buffer, pos, parts, state,
                     failedWrite, dropped, closes, sealed, calls>>
    BY DEF Commit, Returns, Done
<1>2. /\ opened /\ ~closed /\ call.op \in {"flush", "close", "closeAsync"} /\ outcome # "ok" /\ outcome # "aborted"
      /\ Closing => closes >= 1 /\ sealed = accepted
      /\ Closing <=> call.op # "flush"
      /\ S3 => Closing /\ upload /\ closes >= 1
      /\ rest = {}
    BY <1>1 DEF IndInv, TypeOK, CallInv, OutcomeInv, Idle, At, Closing
<1>3. /\ object' = object \/ (object' = Content /\ Committable)
      /\ \/ /\ object' = Content /\ Committable /\ (closed' <=> Closing)
            /\ outcome' = (IF call.op = "flush" THEN outcome ELSE "ok")
            /\ flushed' = (IF call.op = "flush" THEN slot - 1 ELSE flushed)
         \/ /\ closed' <=> S3
            /\ outcome' = (IF call.op = "flush" THEN outcome ELSE "error")
            /\ flushed' = flushed
    BY <1>1, <1>2 DEF Commit, Returns
<1>4. closed' \in BOOLEAN
    BY DEF Commit, Returns
<1> USE DEF parts, state
<1>5. /\ status /\ OkSoon /\ tasks = {} /\ puts = {} /\ (S3 \/ ~(inProgress > 0))
    BY <1>1, <1>2 DEF IndInv, CallInv, FutureInv, OkSoon
<1>6. /\ ~PutDone' /\ OkSoon' /\ (S3' <=> S3) /\ (Background' <=> Background)
      /\ S3 => closed'
      /\ ~S3 => ~PutDone
    BY <1>1, <1>2, <1>3, <1>5 DEF OkSoon, Last, PutDone, S3, Background, Closing
<1>7. TypeOK'
    <2>1. call' \in [op : {"none", "write", "flush", "close", "closeAsync", "abort"},
                     step : {"none", "fill", "send", "direct", "last", "put", "wait", "commit"}]
        BY <1>1
    <2>2. outcome' \in {"none", "ok", "error", "aborted"}
        BY <1>3 DEF IndInv, TypeOK
    <2>3. flushed' \in 0 .. MaxBytes + MaxCalls + 2
        <3>1. slot \in Slots /\ flushed \in 0 .. MaxBytes + MaxCalls + 2
            BY DEF IndInv, TypeOK
        <3>2. slot - 1 \in 0 .. MaxBytes + MaxCalls + 2
            BY <3>1, Numbers DEF Slots
        <3> QED
            BY <1>3, <3>1, <3>2
    <2> QED
        BY <1>1, <1>4, <2>1, <2>2, <2>3 DEF IndInv, TypeOK
<1>8. CallInv'
    BY <1>1, <1>2 DEF CallInv, Idle, At, Closing
<1>9. ByteInv'
    BY <1>1 DEF IndInv, ByteInv
<1>10. Room'
    BY <1>1 DEF IndInv, Room, At
<1>11. SlotInv'
    <2>1. flushed' <= slot' - 1
        BY <1>1, <1>3, Numbers DEF IndInv, SlotInv
    <2> QED
        BY <1>1, <1>2, <1>6, <2>1 DEF IndInv, SlotInv, S3, At
<1>12. FutureInv'
    <2>1. inProgress' > 0 /\ OkSoon' => S3' /\ (closed' \/ PutDone')
        BY <1>1, <1>5, <1>6
    <2>2. puts' = {} /\ tasks' = {} /\ (S3' => closed')
        BY <1>1, <1>5, <1>6
    <2> QED
        BY <1>1, <2>1, <2>2 DEF IndInv, FutureInv, Background, Last
<1>13. GoodInv'
    <2>1. Good' => Good /\ ~S3
        BY <1>1, <1>2, <1>5, <1>6 DEF Good
    <2>2. call'.op = "none"
        BY <1>1
    <2> QED
        BY <1>1, <1>6, <2>1, <2>2 DEF IndInv, GoodInv, Sent
<1>14. UnsentInv'
    BY <1>1, <1>2, <1>5, <1>6, Numbers DEF UnsentInv, At
<1>15. PutInv'
    BY <1>6 DEF PutInv
<1>16. OutcomeInv'
    BY <1>1, <1>2, <1>3, <1>5, <1>6 DEF OutcomeInv
<1>17. ClosedIsComplete'
    <2>1. SUFFICES ASSUME outcome' = "ok", S3 /\ ~Background => ~failedWrite
                   PROVE  /\ object' # None /\ accepted \subseteq Visible'
                          /\ \A i, j \in DOMAIN object' : i < j =>
                                \A x \in object'[i], y \in object'[j] : x < y
        BY <1>1, <1>6 DEF ClosedIsComplete
    <2>2. object' = Content /\ Committable /\ Closing
        BY <1>2, <1>3, <2>1
    <2> QED
        BY <1>1, <2>1, <2>2, ContentFacts DEF Visible
<1>18. NeverPartial'
    <2>1. object' = Content /\ Committable /\ S3 /\ ~failedWrite => sealed \subseteq Visible'
        BY <1>1, <1>2, ContentFacts DEF Visible
    <2>2. object' = object => Visible' = Visible
        BY DEF Visible
    <2> QED
        BY <1>1, <1>3, <1>6, <2>1, <2>2 DEF IndInv, NeverPartial
<1>19. FlushCovers'
    <2>1. CASE S3
        BY <1>1, <1>2, <1>3, <1>6, <2>1 DEF IndInv, FlushCovers
    <2>2. CASE ~S3 /\ object' = object /\ flushed' = flushed
        BY <1>1, <1>2, <1>6, <2>2 DEF IndInv, FlushCovers
    <2>3. CASE ~S3 /\ object' = Content /\ Committable
        <3>1. /\ DOMAIN Content = 1 .. slot - 1
              /\ \A i \in 1 .. slot - 1 : Content[i] = sent[i] /\ staged[i] = sent[i] /\ sent[i] # None
            BY <1>1, <2>3, ContentFacts
        <3>2. 1 .. flushed' \subseteq 1 .. slot - 1
            BY <1>3, EarlierSlots
        <3> QED
            BY <1>1, <2>3, <3>1, <3>2 DEF FlushCovers
    <2>4. (object' = Content /\ Committable) \/ (object' = object /\ flushed' = flushed)
        BY <1>3
    <2> QED
        BY <2>1, <2>2, <2>3, <2>4
<1> QED
    BY <1>7, <1>8, <1>9, <1>10, <1>11, <1>12, <1>13, <1>14, <1>15, <1>16, <1>17, <1>18, <1>19 DEF IndInv

\* The request to complete an upload sent once more.
LEMMA CompleteAgainKeeps ==
    ASSUME IndInv, CompleteAgain
    PROVE  IndInv'
<1>1. /\ At("commit") /\ S3 /\ Committable /\ object' \in {object, Content}
      /\ UNCHANGED <<mode, stream, parts, state, outcome, flushed, failedWrite, dropped, closes,
                     sealed, calls>>
    BY DEF CompleteAgain
<1>2. /\ opened /\ ~closed /\ outcome # "ok" /\ Closing /\ closes >= 1 /\ sealed = accepted
      /\ completed # {} /\ pos >= PartSize
    BY <1>1 DEF IndInv, CallInv, OutcomeInv, SlotInv, Committable, Idle, At
<1> USE DEF stream, parts, state
<1>3. (OkSoon' <=> OkSoon) /\ (PutDone' <=> PutDone) /\ ~PutDone
    BY <1>1, <1>2, Numbers DEF OkSoon, Last, PutDone, S3, Closing
<1>4. TypeOK' /\ ByteInv' /\ Room' /\ OutcomeInv'
    BY <1>1 DEF IndInv, TypeOK, ByteInv, Room, OutcomeInv
<1>5. CallInv'
    BY <1>1, <1>2 DEF IndInv, CallInv, S3, Idle, At, Last, Closing
<1>6. SlotInv' /\ FutureInv'
    BY <1>1, <1>3 DEF IndInv, SlotInv, FutureInv, S3, Background, Last, At
<1>7. GoodInv'
    BY <1>1, <1>3 DEF IndInv, GoodInv, Good, Sent, S3, Background
<1>8. UnsentInv'
    BY <1>1, <1>2, Numbers DEF IndInv, UnsentInv, S3, At
<1>9. PutInv'
    BY <1>3 DEF PutInv
<1>10. ClosedIsComplete' /\ FlushCovers'
    BY <1>1, <1>2 DEF IndInv, ClosedIsComplete, FlushCovers, S3, Background
<1>11. NeverPartial'
    <2>1. object' = Content /\ ~failedWrite => sealed \subseteq Visible'
        BY <1>1, <1>2, ContentFacts DEF Visible
    <2>2. object' = object => Visible' = Visible
        BY DEF Visible
    <2> QED
        BY <1>1, <2>1, <2>2 DEF IndInv, NeverPartial, S3
<1> QED
    BY <1>4, <1>5, <1>6, <1>7, <1>8, <1>9, <1>10, <1>11 DEF IndInv

\* Abort.
LEMMA AbortKeeps ==
    ASSUME IndInv, Abort
    PROVE  IndInv'
<1>1. /\ opened /\ ~closed /\ Idle /\ calls < MaxCalls /\ calls' = calls + 1
      /\ UNCHANGED <<mode, opened, call, given, rest, handed, accepted, pos, upload, slot, tasks, puts,
                     sent, completed, state, object, flushed, failedWrite, dropped, closes, sealed>>
      /\ \/ /\ closed' /\ outcome' = "aborted" /\ buffer' = {}
            /\ staged' = IF S3 /\ upload THEN [s \in Slots |-> None] ELSE staged
         \/ UNCHANGED <<closed, outcome, buffer, staged>>
    BY DEF Abort
<1> USE DEF state
<1>2. buffer' \subseteq buffer /\ Cardinality(buffer') \in Nat /\ Cardinality(buffer') <= Cardinality(buffer)
    BY <1>1, Numbers
<1>3. staged' \in [Slots -> {None} \cup Parts] /\ (~S3 => staged' = staged)
    BY <1>1 DEF IndInv, TypeOK
<1>4. (OkSoon' <=> OkSoon) /\ (PutDone' <=> PutDone) /\ ~PutDone /\ closed' \in BOOLEAN
    BY <1>1 DEF OkSoon, Last, PutDone, S3, Closing, Idle, IndInv, TypeOK
<1>5. TypeOK'
    BY <1>1, <1>2, <1>3, <1>4 DEF IndInv, TypeOK
<1>6. CallInv'
    BY <1>1 DEF IndInv, CallInv, S3, Idle, At, Last, Closing
<1>7. ByteInv'
    <2>1. UNCHANGED <<given, rest, handed, accepted, pos, slot, sent>>
        BY <1>1
    <2>2. Cardinality(buffer') <= pos
        BY <1>2, Numbers DEF IndInv, ByteInv
    <2> QED
        BY <1>2, <2>1, <2>2 DEF IndInv, ByteInv
<1>8. Room'
    BY <1>1, <1>2, Numbers DEF IndInv, Room
<1>9. SlotInv'
    BY <1>1, <1>3, <1>4 DEF IndInv, SlotInv, S3, At
<1>10. FutureInv' /\ UnsentInv' /\ PutInv' /\ OutcomeInv'
    BY <1>1, <1>4 DEF IndInv, FutureInv, UnsentInv, PutInv, OutcomeInv, S3, Background, Last, At
<1>11. GoodInv'
    BY <1>1, <1>4 DEF IndInv, Good, GoodInv, Sent, S3, Background
<1>12. ClosedIsComplete' /\ NeverPartial' /\ FlushCovers'
    BY <1>1, <1>3 DEF IndInv, ClosedIsComplete, NeverPartial, Visible, FlushCovers, S3, Background
<1> QED
    BY <1>5, <1>6, <1>7, <1>8, <1>9, <1>10, <1>11, <1>12 DEF IndInv

----------------------------------------------------------------------------
(* The stream.                                                             *)

\* A stream that has not been opened yet.
LEMMA InitHolds == Init => IndInv
<1> SUFFICES ASSUME Init PROVE IndInv
    OBVIOUS
<1>1. /\ call = [op |-> "none", step |-> "none"] /\ opened = FALSE /\ closed = FALSE /\ upload = FALSE
      /\ mode \in [store : {"S3", "Azure"}, background : BOOLEAN]
      /\ given = {} /\ rest = {} /\ handed = 0 /\ accepted = {} /\ buffer = {} /\ pos = 0
      /\ slot = 1 /\ tasks = {} /\ puts = {} /\ completed = {}
      /\ inProgress = 0 /\ status = TRUE /\ future = <<"ok">> /\ finishing = {}
      /\ outcome = "none" /\ flushed = 0 /\ failedWrite = FALSE /\ dropped = FALSE
      /\ closes = 0 /\ calls = 0
    BY DEF Init
<1>2. /\ sent \in [Slots -> {None} \cup Parts] /\ staged \in [Slots -> {None} \cup Parts]
      /\ \A s \in Slots : sent[s] = None /\ staged[s] = None
    BY DEF Init
<1>3. object \in {None, <<{Old}>>} /\ (S3 => object = None)
    BY DEF Init, S3
<1>4. Len(future) = 1 /\ DOMAIN future = {1} /\ future[1] = "ok" /\ future # << >>
    BY <1>1
<1>5. ~PutDone /\ OkSoon
    BY <1>1, <1>4 DEF PutDone, Closing, OkSoon, Last
<1>6. /\ MaxBytes \in Nat /\ MaxCalls \in Nat /\ PartSize \in Nat \ {0} /\ Cardinality({}) = 0
      /\ slot \in Slots
    BY <1>1, UploadAssumption, FS_EmptySet DEF Slots
<1>7. TypeOK
    <2>1. /\ handed \in 0 .. MaxBytes /\ pos \in 0 .. MaxBytes /\ flushed \in 0 .. MaxBytes + MaxCalls + 2
          /\ inProgress \in Nat
        BY <1>1, <1>6
    <2>2. future \in Seq({"pending", "ok", "error"}) /\ finishing \subseteq DOMAIN future
        BY <1>1
    <2> QED
        BY <1>1, <1>2, <1>4, <1>6, <2>1, <2>2 DEF TypeOK
<1>8. CallInv
    BY <1>1, <1>3 DEF CallInv, Idle, At, Closing
<1>9. ByteInv
    <2>1. rest = 1 .. handed /\ 1 \in 1 .. handed + 1
        BY <1>1
    <2>2. Cardinality(buffer) <= pos /\ pos + Cardinality(rest) <= handed
        BY <1>1, <1>6
    <2> QED
        BY <1>1, <1>2, <2>1, <2>2 DEF ByteInv
<1>10. Room
    BY <1>1, <1>6 DEF Room
<1>11. SlotInv
    BY <1>1, <1>2, <1>6 DEF SlotInv
<1>12. FutureInv
    BY <1>1, <1>4, <1>6 DEF FutureInv, Last
<1>13. GoodInv /\ UnsentInv /\ PutInv /\ OutcomeInv
    BY <1>1, <1>3, <1>5 DEF GoodInv, UnsentInv, PutInv, OutcomeInv, At
<1>14. ClosedIsComplete /\ NeverPartial /\ FlushCovers
    BY <1>1, <1>3, <1>6 DEF ClosedIsComplete, NeverPartial, FlushCovers
<1> QED
    BY <1>7, <1>8, <1>9, <1>10, <1>11, <1>12, <1>13, <1>14 DEF IndInv

\* One step of the stream, of its caller or of an I/O thread.
LEMMA StepKeeps == IndInv /\ [Next]_vars => IndInv'
<1> SUFFICES ASSUME IndInv, [Next]_vars PROVE IndInv'
    OBVIOUS
<1>1. CASE OpenTruncate
    BY <1>1, OpenTruncateKeeps
<1>2. CASE OpenAppend
    BY <1>2, OpenAppendKeeps
<1>3. CASE \E n \in 1 .. PartSize + 1 : Write(n)
    <2>1. PICK n \in 1 .. PartSize + 1 : Write(n)
        BY <1>3
    <2> QED
        BY <2>1, WriteKeeps
<1>4. CASE Flush
    BY <1>4, FlushKeeps
<1>5. CASE Close("close") \/ Close("closeAsync")
    BY <1>5, CloseKeeps
<1>6. CASE Abort
    BY <1>6, AbortKeeps
<1>7. CASE Steps
    BY <1>7, FillBufferKeeps, KeepRestKeeps, CreateMultipartUploadKeeps, SendPartKeeps, SubmitPartKeeps,
       PutObjectKeeps, SubmitPutKeeps, WaitedKeeps, CommitKeeps, CompleteAgainKeeps DEF Steps
<1>8. CASE Threads
    <2>1. CASE \E s \in Slots : TaskReports(s) \/ PutReports(s)
        BY <2>1, TaskReportsKeeps, PutReportsKeeps
    <2>2. CASE \E f \in DOMAIN future : MarkFinished(f)
        BY <2>2, MarkFinishedKeeps
    <2> QED
        BY <1>8, <2>1, <2>2 DEF Threads
<1>9. CASE \E s \in Slots : TaskDropped(s)
    BY <1>9, TaskDroppedKeeps
<1>10. CASE UNCHANGED vars
    <2>1. UNCHANGED <<mode, opened, closed, call, given, rest, handed, accepted, buffer, pos>>
        BY <1>10 DEF vars, stream
    <2>2. UNCHANGED <<upload, slot, tasks, puts, sent, staged, completed, inProgress, status, future, finishing>>
        BY <1>10 DEF vars, parts, state
    <2>3. UNCHANGED <<object, outcome, flushed, failedWrite, dropped, closes, sealed, calls>>
        BY <1>10 DEF vars, history
    <2>4. (OkSoon' <=> OkSoon) /\ (PutDone' <=> PutDone)
        BY <2>1, <2>2 DEF OkSoon, Last, PutDone, S3, Closing
    <2>5. TypeOK' /\ ByteInv' /\ Room' /\ OutcomeInv'
        BY <2>1, <2>2, <2>3 DEF IndInv, TypeOK, ByteInv, Room, OutcomeInv
    <2>6. CallInv'
        BY <2>1, <2>2, <2>3 DEF IndInv, CallInv, S3, Idle, At, Last, Closing
    <2>7. SlotInv' /\ FutureInv'
        BY <2>1, <2>2, <2>3, <2>4 DEF IndInv, SlotInv, FutureInv, S3, Background, Last, At
    <2>8. GoodInv' /\ UnsentInv' /\ PutInv'
        BY <2>1, <2>2, <2>3, <2>4 DEF IndInv, GoodInv, Good, Sent, UnsentInv, PutInv, S3, Background, At
    <2>9. ClosedIsComplete' /\ NeverPartial' /\ FlushCovers'
        BY <2>1, <2>2, <2>3 DEF IndInv, ClosedIsComplete, NeverPartial, Visible, FlushCovers, S3, Background
    <2> QED
        BY <2>5, <2>6, <2>7, <2>8, <2>9 DEF IndInv
<1> QED
    BY <1>1, <1>2, <1>3, <1>4, <1>5, <1>6, <1>7, <1>8, <1>9, <1>10 DEF Next

\* The assertions of the code follow: at "commit" the future was "ok", so no
\* part is under way, and every slot before the current one is completed.
LEMMA AssertionsHold == IndInv => UploadAssertions
<1> SUFFICES ASSUME IndInv, S3, ~failedWrite
             PROVE  /\ At("commit") => tasks = {} /\ slot > 1 /\ completed = 1 .. slot - 1
                    /\ tasks \cap completed = {}
    BY DEF UploadAssertions
<1>1. tasks \cap completed = {}
    BY DEF IndInv, SlotInv
<1>2. ASSUME At("commit") PROVE tasks = {} /\ slot > 1 /\ completed = 1 .. slot - 1
    <2>1. ~closed /\ future[Last] = "ok" /\ upload /\ slot > 1
        BY <1>2 DEF IndInv, CallInv, Idle, At
    <2>2. pos >= PartSize
        BY <1>2, <2>1 DEF IndInv, SlotInv, At
    <2>3. ~PutDone
        BY <2>2, Numbers DEF PutDone
    <2>4. status /\ tasks = {} /\ ~(inProgress > 0)
        BY <2>1, <2>3 DEF IndInv, FutureInv, OkSoon
    <2>5. ~dropped
        BY <2>4, Numbers DEF IndInv, FutureInv
    <2>6. Good
        BY <2>1, <2>3, <2>4, <2>5 DEF Good
    <2> QED
        BY <2>1, <2>4, <2>6 DEF IndInv, GoodInv
<1> QED
    BY <1>1, <1>2

\* A stream keeps its promises whatever fails and in whatever order the
\* background parts end: a Close that returned OK made all accepted bytes
\* visible in order, S3 readers never see a partial object, a successful Flush
\* covers every part sent before it, and the assertions of
\* FinishPartUploadAfterFlush and AddCompletedPart hold.
THEOREM StreamIsConsistent == Spec => []StreamConsistent
<1>1. Init => IndInv
    BY InitHolds
<1>2. IndInv /\ [Next]_vars => IndInv'
    BY StepKeeps
<1>3. IndInv => StreamConsistent
    BY AssertionsHold DEF IndInv, StreamConsistent
<1> QED
    BY <1>1, <1>2, <1>3, PTL DEF Spec

=============================================================================

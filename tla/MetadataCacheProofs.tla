------------------------ MODULE MetadataCacheProofs ------------------------
(***************************************************************************)
(* Proofs about MetadataCache, for any number of callers of any kind and   *)
(* an executor of any size: the invariants that the run checks, and that a *)
(* flight is completed once.                                               *)
(***************************************************************************)
EXTENDS MetadataCache, TLAPS

Calling == {"idle", "called", "lead", "bypass", "wait", "subscribed", "publish"}

\* What a caller has at each step of its call.
CallerInv(c) ==
    /\ pc[c] \in Calling => returned[c] = None
    /\ waitsFor[c] # None => loaded[c] = None /\ pc[c] \in {"wait", "subscribed", "returned"}
    /\ pc[c] \in {"idle", "called", "wait", "subscribed"} => loaded[c] = None
    /\ pc[c] \in {"wait", "subscribed"} => waitsFor[c] # None
    /\ c \in done <=> result[c] # None
    /\ c \in done => pc[c] \in {"publish", "returned"}
    /\ pc[c] = "publish" => c \in done
    /\ Kind[c] = "add" => pc[c] \in {"idle", "returned"} /\ c \notin done

\* A flight that is done has the result of its leader's load, and everyone
\* who was in it and has returned got that.
FlightInv(c) ==
    /\ result[c] = "error" => loaded[c] = "error"
    /\ c \in done /\ pc[c] = "returned" => returned[c] = result[c]
    /\ waitsFor[c] # None => waitsFor[c] = flight \/ waitsFor[c] \in done
    /\ waitsFor[c] # None /\ returned[c] # None =>
           waitsFor[c] \in done /\ returned[c] = result[waitsFor[c]]
    /\ returned[c] = "error" /\ waitsFor[c] = None => loaded[c] = "error"

NobodyAdded == \A c \in Callers : Kind[c] = "add" => pc[c] = "idle"

\* Results that are published, and not only those returned, are what is cached.
PublishedIsCached ==
    NobodyAdded => \A c \in Callers : /\ returned[c] \in Callers => returned[c] = entry
                                      /\ result[c] \in Callers => result[c] = entry

IndInv ==
    /\ TypeOK
    /\ \A c \in Callers : pc[c] = "lead" <=> flight = c
    /\ \A c \in Callers : CallerInv(c)
    /\ \A c \in Callers : FlightInv(c)
    /\ PublishedIsCached

LEMMA IndInit == Init => IndInv
  BY CallerAssumption DEF Init, IndInv, TypeOK, CallerInv, FlightInv, PublishedIsCached,
     Calling, Results

LEMMA IndStep == IndInv /\ [Next]_vars => IndInv'
  <1> SUFFICES ASSUME IndInv, [Next]_vars PROVE IndInv'
    OBVIOUS
  <1> USE CallerAssumption DEF IndInv, TypeOK, Results, Calling
  <1>1. ASSUME NEW c \in Callers, Call(c) PROVE IndInv'
    <2> USE <1>1 DEF Call, Goto
    <2>1. TypeOK'
      OBVIOUS
    <2>2. \A b \in Callers : pc'[b] = "lead" <=> flight' = b
      OBVIOUS
    <2>3. \A b \in Callers : CallerInv(b)'
      BY DEF CallerInv
    <2>4. \A b \in Callers : FlightInv(b)'
      BY DEF CallerInv, FlightInv
    <2>5. PublishedIsCached'
      BY DEF CallerInv, PublishedIsCached, NobodyAdded
    <2> QED
      BY <2>1, <2>2, <2>3, <2>4, <2>5
  <1>2. ASSUME NEW c \in Callers, Hit(c) PROVE IndInv'
    <2> USE <1>2 DEF Hit, Return, Goto
    <2>1. TypeOK'
      OBVIOUS
    <2>2. \A b \in Callers : pc'[b] = "lead" <=> flight' = b
      OBVIOUS
    <2>3. \A b \in Callers : CallerInv(b)'
      BY DEF CallerInv
    <2>4. \A b \in Callers : FlightInv(b)'
      BY DEF CallerInv, FlightInv
    <2>5. PublishedIsCached'
      BY DEF CallerInv, PublishedIsCached, NobodyAdded
    <2> QED
      BY <2>1, <2>2, <2>3, <2>4, <2>5
  <1>3. ASSUME NEW c \in Callers, Lead(c) PROVE IndInv'
    <2> USE <1>3 DEF Lead, Goto
    <2>1. TypeOK'
      OBVIOUS
    <2>2. \A b \in Callers : pc'[b] = "lead" <=> flight' = b
      OBVIOUS
    <2>3. \A b \in Callers : CallerInv(b)'
      BY DEF CallerInv
    <2>4. \A b \in Callers : FlightInv(b)'
      BY DEF CallerInv, FlightInv
    <2>5. PublishedIsCached'
      BY DEF CallerInv, PublishedIsCached, NobodyAdded
    <2> QED
      BY <2>1, <2>2, <2>3, <2>4, <2>5
  <1>4. ASSUME NEW c \in Callers, Follow(c) PROVE IndInv'
    <2> USE <1>4 DEF Follow, Goto
    <2>1. TypeOK'
      OBVIOUS
    <2>2. \A b \in Callers : pc'[b] = "lead" <=> flight' = b
      OBVIOUS
    <2>3. \A b \in Callers : CallerInv(b)'
      BY DEF CallerInv
    <2>4. \A b \in Callers : FlightInv(b)'
      BY DEF CallerInv, FlightInv
    <2>5. PublishedIsCached'
      BY DEF CallerInv, PublishedIsCached, NobodyAdded
    <2> QED
      BY <2>1, <2>2, <2>3, <2>4, <2>5
  <1>5. ASSUME NEW c \in Callers, Load(c) PROVE IndInv'
    <2> USE <1>5 DEF Load
    <2>1. TypeOK'
      OBVIOUS
    <2>2. \A b \in Callers : pc'[b] = "lead" <=> flight' = b
      OBVIOUS
    <2>3. \A b \in Callers : CallerInv(b)'
      BY DEF CallerInv
    <2>4. \A b \in Callers : FlightInv(b)'
      BY DEF CallerInv, FlightInv
    <2>5. PublishedIsCached'
      BY DEF CallerInv, PublishedIsCached, NobodyAdded
    <2> QED
      BY <2>1, <2>2, <2>3, <2>4, <2>5
  <1>6. ASSUME NEW c \in Callers, CompleteLoad(c) PROVE IndInv'
    <2> USE <1>6 DEF CompleteLoad, Adopted, Goto
    <2>1. TypeOK'
      OBVIOUS
    <2>2. \A b \in Callers : pc'[b] = "lead" <=> flight' = b
      OBVIOUS
    <2>3. \A b \in Callers : CallerInv(b)'
      BY DEF CallerInv
    <2>4. \A b \in Callers : FlightInv(b)'
      BY DEF CallerInv, FlightInv
    <2>5. PublishedIsCached'
      BY DEF CallerInv, PublishedIsCached, NobodyAdded
    <2> QED
      BY <2>1, <2>2, <2>3, <2>4, <2>5
  <1>7. ASSUME NEW c \in Callers, Publish(c) PROVE IndInv'
    <2> USE <1>7 DEF Publish, Return, Goto
    <2>1. TypeOK'
      BY DEF CallerInv
    <2>2. \A b \in Callers : pc'[b] = "lead" <=> flight' = b
      OBVIOUS
    <2>3. \A b \in Callers : CallerInv(b)'
      BY DEF CallerInv
    <2>4. \A b \in Callers : FlightInv(b)'
      BY DEF CallerInv, FlightInv
    <2>5. PublishedIsCached'
      BY DEF CallerInv, PublishedIsCached, NobodyAdded
    <2> QED
      BY <2>1, <2>2, <2>3, <2>4, <2>5
  <1>8. ASSUME NEW c \in Callers, FinishBypass(c) PROVE IndInv'
    <2> USE <1>8 DEF FinishBypass, Adopted, Return, Goto
    <2>1. TypeOK'
      OBVIOUS
    <2>2. \A b \in Callers : pc'[b] = "lead" <=> flight' = b
      OBVIOUS
    <2>3. \A b \in Callers : CallerInv(b)'
      BY DEF CallerInv
    <2>4. \A b \in Callers : FlightInv(b)'
      BY DEF CallerInv, FlightInv
    <2>5. PublishedIsCached'
      BY DEF CallerInv, PublishedIsCached, NobodyAdded
    <2> QED
      BY <2>1, <2>2, <2>3, <2>4, <2>5
  <1>9. ASSUME NEW c \in Callers, Wake(c) PROVE IndInv'
    <2> USE <1>9 DEF Wake, Return, Goto
    <2>1. TypeOK'
      OBVIOUS
    <2>2. \A b \in Callers : pc'[b] = "lead" <=> flight' = b
      OBVIOUS
    <2>3. \A b \in Callers : CallerInv(b)'
      BY DEF CallerInv
    <2>4. \A b \in Callers : FlightInv(b)'
      BY DEF CallerInv, FlightInv
    <2>5. PublishedIsCached'
      BY DEF CallerInv, PublishedIsCached, NobodyAdded
    <2> QED
      BY <2>1, <2>2, <2>3, <2>4, <2>5
  <1>10. ASSUME NEW c \in Callers, Receive(c) PROVE IndInv'
    <2> USE <1>10 DEF Receive, Return, Goto
    <2>1. TypeOK'
      OBVIOUS
    <2>2. \A b \in Callers : pc'[b] = "lead" <=> flight' = b
      OBVIOUS
    <2>3. \A b \in Callers : CallerInv(b)'
      BY DEF CallerInv
    <2>4. \A b \in Callers : FlightInv(b)'
      BY DEF CallerInv, FlightInv
    <2>5. PublishedIsCached'
      BY DEF CallerInv, PublishedIsCached, NobodyAdded
    <2> QED
      BY <2>1, <2>2, <2>3, <2>4, <2>5
  <1>11. ASSUME NEW c \in Callers, Add(c) PROVE IndInv'
    <2> USE <1>11 DEF Add, Goto
    <2>1. TypeOK'
      OBVIOUS
    <2>2. \A b \in Callers : pc'[b] = "lead" <=> flight' = b
      OBVIOUS
    <2>3. \A b \in Callers : CallerInv(b)'
      BY DEF CallerInv
    <2>4. \A b \in Callers : FlightInv(b)'
      BY DEF CallerInv, FlightInv
    <2>5. PublishedIsCached'
      BY DEF CallerInv, PublishedIsCached, NobodyAdded
    <2> QED
      BY <2>1, <2>2, <2>3, <2>4, <2>5
  <1>12. CASE UNCHANGED vars
    BY <1>12 DEF vars, CallerInv, FlightInv, PublishedIsCached, NobodyAdded
  <1> QED
    BY <1>1, <1>2, <1>3, <1>4, <1>5, <1>6, <1>7, <1>8, <1>9, <1>10, <1>11, <1>12
       DEF Next, Progress

LEMMA IndInvAlways == Spec => []IndInv
  BY IndInit, IndStep, PTL DEF Spec

LEMMA IndInvImplies == IndInv => FlightsConsistent
  <1> SUFFICES ASSUME IndInv PROVE FlightsConsistent
    OBVIOUS
  <1>1. SingleFlight
    BY CallerAssumption DEF IndInv, SingleFlight, CallerInv, FlightInv
  <1>2. Converge
    BY DEF IndInv, Converge, PublishedIsCached, NobodyAdded
  <1>3. ErrorsAreOwn
    BY CallerAssumption DEF IndInv, ErrorsAreOwn, FlightInv, TypeOK, Results
  <1>4. FollowersAgree
    <2> SUFFICES ASSUME NEW c \in Callers, NEW l \in Callers,
                        waitsFor[c] = l, returned[c] # None, returned[l] # None
                 PROVE  returned[c] = returned[l]
      BY DEF FollowersAgree
    <2>1. l \in done /\ returned[c] = result[l]
      BY CallerAssumption DEF IndInv, FlightInv
    <2>2. pc[l] = "returned"
      BY <2>1 DEF IndInv, CallerInv, Calling, TypeOK
    <2> QED
      BY <2>1, <2>2 DEF IndInv, FlightInv
  <1> QED
    BY <1>1, <1>2, <1>3, <1>4 DEF IndInv, FlightsConsistent

\* However many callers of get_or_open, get_or_open_async and add meet in one
\* key, and in whatever order the threads of the executor run them: there is
\* one flight at a time, all who succeed get the object that is cached, all
\* who were in a flight get what its leader published, and a failure reaches
\* only those whose own load, or whose leader's, failed.
THEOREM FlightsAreConsistent == Spec => []FlightsConsistent
  BY IndInvAlways, IndInvImplies, PTL

\* complete_load is reached once per flight, so the result that a woken
\* follower reads outside of the mutex cannot change under it.
THEOREM FlightsCompleteOnce == Spec => CompletedOnce
  <1> DEFINE Kept == \A c \in Callers : c \in done => result'[c] = result[c] /\ c \in done'
  <1>1. IndInv /\ [Next]_vars => [Kept]_vars
    <2> SUFFICES ASSUME IndInv, Next PROVE Kept
      BY DEF vars
    <2>1. PICK b \in Callers : Call(b) \/ Add(b) \/ Wake(b) \/ Progress(b)
      BY DEF Next
    <2>2. CASE CompleteLoad(b)
      <3>1. b \notin done
        BY <2>2 DEF CompleteLoad, IndInv, CallerInv
      <3> QED
        BY <2>2, <3>1 DEF CompleteLoad, IndInv, TypeOK
    <2>3. CASE ~CompleteLoad(b)
      BY <2>1, <2>3 DEF Call, Add, Wake, Progress, Hit, Lead, Follow, Load, Publish,
         FinishBypass, Receive
    <2> QED
      BY <2>2, <2>3
  <1> QED
    BY IndInvAlways, <1>1, PTL DEF Spec, CompletedOnce

=============================================================================

--------------------------- MODULE MetadataCache ---------------------------
(***************************************************************************)
(* FormatReaderMetadataCache: the metadata of a data file is loaded once   *)
(* and shared.  Callers of the same key meet in a "single flight": the     *)
(* first one loads, the others wait for it - synchronous callers block on  *)
(* a condition variable, asynchronous ones subscribe to a promise.  A      *)
(* synchronous caller never blocks behind an asynchronous leader, because  *)
(* it may occupy the executor thread which that leader needs; it loads on  *)
(* its own instead.                                                        *)
(*                                                                         *)
(* Keys share nothing but the mutex, so the model has one key.  Each       *)
(* caller makes one call; a retry after a failure is a call by another.    *)
(* What is done under mutex_ is one step.                                  *)
(***************************************************************************)
EXTENDS Integers, FiniteSets

CONSTANTS
    Callers,
    Kind,       \* "sync": get_or_open, "async": get_or_open_async, "add": add
    OnPool,     \* the synchronous callers that run on the executor's threads
    PoolSize,   \* threads of the executor
    None        \* no metadata, no flight, no result yet

ASSUME CallerAssumption ==
    /\ Kind \in [Callers -> {"sync", "async", "add"}]
    /\ OnPool \subseteq {c \in Callers : Kind[c] = "sync"}
    /\ PoolSize \in Nat \ {0}
    /\ "error" \notin Callers
    /\ None \notin Callers \cup {"error"}

\* A metadata object is named by the caller that loaded or added it, an
\* InFlightLoad by its leader.
Results == Callers \cup {"error"}

VARIABLES
    entry,      \* entries_[key]
    flight,     \* in_flight_loads_[key]
    done,       \* the flights that are done
    result,     \* the status or metadata of every flight that is done
    fulfilled,  \* the flights that notified cv and fulfilled async_result
    pc,
    waitsFor,   \* the flight a caller waits for
    loaded,     \* what the loader of a caller returned
    returned    \* what the call of a caller returned

vars == <<entry, flight, done, result, fulfilled, pc, waitsFor, loaded, returned>>

TypeOK ==
    /\ entry \in Callers \cup {None}
    /\ flight \in Callers \cup {None}
    /\ done \subseteq Callers
    /\ result \in [Callers -> Results \cup {None}]
    /\ fulfilled \subseteq done
    /\ pc \in [Callers -> {"idle", "called", "lead", "bypass", "wait", "subscribed",
                           "publish", "returned"}]
    /\ waitsFor \in [Callers -> Callers \cup {None}]
    /\ loaded \in [Callers -> Results \cup {None}]
    /\ returned \in [Callers -> Results \cup {None}]

Init ==
    /\ entry = None
    /\ flight = None
    /\ done = {}
    /\ result = [c \in Callers |-> None]
    /\ fulfilled = {}
    /\ pc = [c \in Callers |-> "idle"]
    /\ waitsFor = [c \in Callers |-> None]
    /\ loaded = [c \in Callers |-> None]
    /\ returned = [c \in Callers |-> None]

----------------------------------------------------------------------------
(* The executor.                                                           *)

\* The callers that occupy a thread of the executor: synchronous calls on the
\* pool, and continuations in the middle of complete_load.
Busy ==
    {c \in OnPool : pc[c] \notin {"idle", "returned"}}
        \cup {c \in Callers : Kind[c] = "async" /\ pc[c] = "publish"}

\* Continuations of asynchronous callers, and synchronous callers on the pool
\* before their call starts, need a free thread.
HasThread(c) ==
    (Kind[c] = "async" /\ pc[c] # "idle") \/ (c \in OnPool /\ pc[c] = "idle")
        => Cardinality(Busy) < PoolSize

Goto(c, l) == pc' = [pc EXCEPT ![c] = l]

Return(c, r) ==
    /\ Goto(c, "returned")
    /\ returned' = [returned EXCEPT ![c] = r]

----------------------------------------------------------------------------
(* get_or_open and get_or_open_async.                                      *)

\* The call.  get_or_open_async only returns a deferred future; what follows
\* runs when that future is consumed.
Call(c) ==
    /\ pc[c] = "idle"
    /\ Kind[c] # "add"
    /\ HasThread(c)
    /\ Goto(c, "called")
    /\ UNCHANGED <<entry, flight, done, result, fulfilled, waitsFor, loaded, returned>>

\* The first critical section: the metadata is cached, ...
Hit(c) ==
    /\ pc[c] = "called"
    /\ HasThread(c)
    /\ entry # None
    /\ Return(c, entry)
    /\ UNCHANGED <<entry, flight, done, result, fulfilled, waitsFor, loaded>>

\* ... or nobody is loading it, and the caller becomes the leader of a flight,
Lead(c) ==
    /\ pc[c] = "called"
    /\ HasThread(c)
    /\ entry = None
    /\ flight = None
    /\ flight' = c
    /\ Goto(c, "lead")
    /\ UNCHANGED <<entry, done, result, fulfilled, waitsFor, loaded, returned>>

\* Mutant: a synchronous caller blocks behind every leader.
Follow_AlwaysWaits(c) ==
    /\ pc[c] = "called"
    /\ HasThread(c)
    /\ entry = None
    /\ flight # None
    /\ Goto(c, IF Kind[c] = "async" THEN "subscribed" ELSE "wait")
    /\ waitsFor' = [waitsFor EXCEPT ![c] = flight]
    /\ UNCHANGED <<entry, flight, done, result, fulfilled, loaded, returned>>

\* ... or someone is.
Follow(c) ==
    /\ pc[c] = "called"
    /\ HasThread(c)
    /\ entry = None
    /\ flight # None
    /\ IF Kind[c] = "async"
       THEN Goto(c, "subscribed") /\ waitsFor' = [waitsFor EXCEPT ![c] = flight]
       ELSE IF Kind[flight] = "sync"
       THEN Goto(c, "wait") /\ waitsFor' = [waitsFor EXCEPT ![c] = flight]
       ELSE Goto(c, "bypass") /\ UNCHANGED waitsFor
    /\ UNCHANGED <<entry, flight, done, result, fulfilled, loaded, returned>>

\* The loader runs outside the mutex.  It returns an error, no metadata or
\* throws - all of which become an error - or a new metadata object.
Load(c) ==
    /\ pc[c] \in {"lead", "bypass"}
    /\ loaded[c] = None
    /\ \E r \in {c, "error"} : loaded' = [loaded EXCEPT ![c] = r]
    /\ UNCHANGED <<entry, flight, done, result, fulfilled, pc, waitsFor, returned>>

\* What c's completion publishes: the metadata cached in the meantime rather
\* than its own.
Adopted(c) ==
    IF loaded[c] # "error" /\ entry # None THEN entry ELSE loaded[c]

\* Mutant: failures are cached.
CompleteLoad_CachesErrors(c) ==
    /\ pc[c] = "lead"
    /\ loaded[c] # None
    /\ HasThread(c)
    /\ entry' = Adopted(c)
    /\ result' = [result EXCEPT ![c] = Adopted(c)]
    /\ done' = done \cup {c}
    /\ flight' = IF flight = c THEN None ELSE flight
    /\ Goto(c, "publish")
    /\ UNCHANGED <<fulfilled, waitsFor, loaded, returned>>

\* complete_load of a leader, under the mutex: cache the metadata, finish the
\* flight and take it off the map; failures are not cached.
CompleteLoad(c) ==
    /\ pc[c] = "lead"
    /\ loaded[c] # None
    /\ HasThread(c)
    /\ entry' = IF Adopted(c) = "error" THEN entry ELSE Adopted(c)
    /\ result' = [result EXCEPT ![c] = Adopted(c)]
    /\ done' = done \cup {c}
    /\ flight' = IF flight = c THEN None ELSE flight
    /\ Goto(c, "publish")
    /\ UNCHANGED <<fulfilled, waitsFor, loaded, returned>>

\* complete_load after the mutex is released: wake the threads that wait, and
\* fulfil the promise.
Publish(c) ==
    /\ pc[c] = "publish"
    /\ fulfilled' = fulfilled \cup {c}
    /\ Return(c, result[c])
    /\ UNCHANGED <<entry, flight, done, result, waitsFor, loaded>>

\* Mutant: it overwrites what was cached in the meantime.
FinishBypass_Overwrites(c) ==
    /\ pc[c] = "bypass"
    /\ loaded[c] # None
    /\ entry' = IF loaded[c] = "error" THEN entry ELSE loaded[c]
    /\ Return(c, loaded[c])
    /\ UNCHANGED <<flight, done, result, fulfilled, waitsFor, loaded>>

\* Mutant: it completes the flight of the asynchronous leader.
FinishBypass_CompletesFlight(c) ==
    /\ pc[c] = "bypass"
    /\ loaded[c] # None
    /\ entry' = IF Adopted(c) = "error" THEN entry ELSE Adopted(c)
    /\ done' = IF flight = None THEN done ELSE done \cup {flight}
    /\ result' = IF flight = None THEN result
                 ELSE [result EXCEPT ![flight] = Adopted(c)]
    /\ Return(c, Adopted(c))
    /\ UNCHANGED <<flight, fulfilled, waitsFor, loaded>>

\* A synchronous caller that loaded on its own leaves the flight alone.
FinishBypass(c) ==
    /\ pc[c] = "bypass"
    /\ loaded[c] # None
    /\ entry' = IF Adopted(c) = "error" THEN entry ELSE Adopted(c)
    /\ Return(c, Adopted(c))
    /\ UNCHANGED <<flight, done, result, fulfilled, waitsFor, loaded>>

\* A blocked thread wakes up, sees that the flight is done and returns its
\* result.  It may wake up before it is notified.
Wake(c) ==
    /\ pc[c] = "wait"
    /\ waitsFor[c] \in done
    /\ Return(c, result[waitsFor[c]])
    /\ UNCHANGED <<entry, flight, done, result, fulfilled, waitsFor, loaded>>

\* The future of a subscriber completes.
Receive(c) ==
    /\ pc[c] = "subscribed"
    /\ waitsFor[c] \in fulfilled
    /\ HasThread(c)
    /\ Return(c, result[waitsFor[c]])
    /\ UNCHANGED <<entry, flight, done, result, fulfilled, waitsFor, loaded>>

\* add puts metadata into the cache, replacing what is there.
Add(c) ==
    /\ pc[c] = "idle"
    /\ Kind[c] = "add"
    /\ entry' = c
    /\ Goto(c, "returned")
    /\ UNCHANGED <<flight, done, result, fulfilled, waitsFor, loaded, returned>>

Progress(c) ==
    \/ Hit(c) \/ Lead(c) \/ Follow(c) \/ Load(c) \/ CompleteLoad(c) \/ Publish(c)
    \/ FinishBypass(c) \/ Receive(c)

Next == \E c \in Callers : Call(c) \/ Add(c) \/ Wake(c) \/ Progress(c)

Spec == Init /\ [][Next]_vars

(***************************************************************************)
(* Threads and the executor keep running, loaders end, and a blocked       *)
(* thread is sure to wake up only when it has been notified.  Nobody has   *)
(* to call.                                                                *)
(***************************************************************************)
NotifiedWake(c) == waitsFor[c] \in fulfilled /\ Wake(c)

Fairness ==
    \A c \in Callers : WF_vars(Progress(c)) /\ WF_vars(NotifiedWake(c))

FairSpec == Spec /\ Fairness

----------------------------------------------------------------------------
(* What the cache promises.                                                *)

\* "Both paths converge on one immutable metadata instance": all calls that
\* succeed return the same object, whether they led, followed, bypassed an
\* asynchronous leader or hit the cache, and it stays in the cache, as long as
\* nobody calls add, which replaces the object by definition.
Converge ==
    (\A c \in Callers : Kind[c] = "add" => pc[c] = "idle") =>
        \A c \in Callers : returned[c] \in Callers => returned[c] = entry

\* A single flight: the leader that is loading owns the flight in the map, so
\* there is never a second one, and every follower waits for a flight that is
\* under way or over.
SingleFlight ==
    /\ \A c \in Callers : pc[c] = "lead" <=> flight = c
    /\ \A c \in Callers : pc[c] \in {"wait", "subscribed"} =>
           waitsFor[c] = flight \/ waitsFor[c] \in done

\* "Failures are published but not cached": a call fails only if its own load
\* failed or the load of the leader it waited for did.
ErrorsAreOwn ==
    \A c \in Callers : returned[c] = "error" =>
        \/ loaded[c] = "error"
        \/ waitsFor[c] # None /\ loaded[waitsFor[c]] = "error"

\* A leader and everyone who waited for it return the same result.
FollowersAgree ==
    \A c, l \in Callers :
        /\ waitsFor[c] = l
        /\ returned[c] # None
        /\ returned[l] # None
        => returned[c] = returned[l]

\* A flight is completed once: what a follower may already have read never
\* changes ("otherwise that leader could complete them twice").
CompletedOnce ==
    [][\A c \in Callers : c \in done => result'[c] = result[c] /\ c \in done']_vars

\* No caller waits for ever, however few threads the executor has and however
\* many of them synchronous callers occupy.
EveryCallReturns ==
    \A c \in Callers : pc[c] # "idle" ~> pc[c] = "returned"

\* The types, one flight at a time, and what its callers get: one metadata
\* object for everyone, its followers what it published, and an error only
\* who waited for the load that failed.
FlightsConsistent == TypeOK /\ SingleFlight /\ Converge /\ ErrorsAreOwn /\ FollowersAgree

=============================================================================

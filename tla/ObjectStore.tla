---------------------------- MODULE ObjectStore -----------------------------
(***************************************************************************)
(* What S3FileSystem and AzureFileSystem share: an object store, the       *)
(* clients that call a file system on top of it, and the history that the  *)
(* properties need.                                                        *)
(*                                                                         *)
(* A store with a flat namespace (S3, Azure "Flat") has no directories: it *)
(* maps keys to objects, and a directory is implied by the keys below it   *)
(* or by a marker, an empty object whose key ends in a slash.  An Azure    *)
(* account with a hierarchical namespace ("HNS") has real directories.     *)
(* Every call is a sequence of requests, and other clients (other          *)
(* processes: nothing is shared but the store) make their requests in      *)
(* between.  One request is one step, except that the up to three requests *)
(* of one GetFileInfo are one step.                                        *)
(*                                                                         *)
(* Names are abstract: a path knows its parent and its last component, and *)
(* what matters of its characters is the byte order of the keys and which  *)
(* names begin with which other name ("d" and "d.x").                      *)
(***************************************************************************)
EXTENDS Naturals, Sequences, SequencesExt

CONSTANTS
    Clients,
    Containers,   \* buckets, containers
    Paths,        \* the paths inside of a container
    Root,         \* the empty path: the container itself
    Parent,       \* Paths -> Paths and Root
    Name,         \* the last component of a path
    Lengthens,    \* <<p, q>>: siblings, and the string q begins with the string p
    KeyOrder,     \* all keys in the byte order of their strings
    PageSize,     \* keys in one answer to a listing
    Stores,       \* for every kind of store, what may be stored at first
    Options,      \* for every kind of store, the S3Options it may run with
    Calls,        \* for every kind of store, the calls the clients make
    MaxCalls,     \* bound: calls
    MaxFaults,    \* bound: failed requests
    None          \* no such container, no call

\* A key: of an object, or (with a slash at its end) of a directory marker.
\* On a hierarchical namespace the latter is a directory.
Key == [path : Paths, dir : BOOLEAN]
File(p) == [path |-> p, dir |-> FALSE]
Marker(p) == [path |-> p, dir |-> TRUE]

ASSUME StoreAssumption ==
    /\ Root \notin Paths
    /\ Parent \in [Paths -> Paths \cup {Root}]
    /\ DOMAIN Name = Paths
    /\ \A pair \in Lengthens : pair \in Paths \X Paths /\ Parent[pair[1]] = Parent[pair[2]]
    /\ ToSet(KeyOrder) = Key /\ IsInjective(KeyOrder)
    /\ PageSize \in Nat \ {0}
    /\ MaxCalls \in Nat /\ MaxFaults \in Nat

VARIABLES
    kind,       \* "S3", "Flat" or "HNS"
    options,    \* S3Options: check_directory_existence_before_creation, allow_bucket_*
    store,      \* for every container its objects: a function from keys, or None
    leases,     \* Azure: leases on blobs, directories and containers
    op,         \* for every client its call, and how far it got
    calls,      \* calls made so far
    faults,     \* requests failed so far
    watch       \* history: what was there ever since a client's call began

vars == <<kind, options, store, leases, op, calls, faults, watch>>

-----------------------------------------------------------------------------
(* Paths, keys and listings.                                               *)

Chain[p \in Paths] == IF Parent[p] = Root THEN <<p>> ELSE <<p>> \o Chain[Parent[p]]

Above(p) == IF p = Root THEN {} ELSE ToSet(Tail(Chain[p]))

Depth(p) == IF p = Root THEN 0 ELSE Len(Chain[p])

\* The string of k begins with the string of p and a slash.
InDir(k, p) == p = Root \/ k = Marker(p) \/ p \in Above(k.path)

Nil == 0    \* an empty object: of a marker, or not written yet

NoObjects == [k \in {} |-> Nil]

Keys(c) == IF store[c] = None THEN {} ELSE DOMAIN store[c]

Pos(k) == SelectInSeq(KeyOrder, LAMBDA x : x = k)

\* What is left of a listing of the keys K after position i, in order.
Rest(K, i) == SelectSeq(KeyOrder, LAMBDA k : k \in K /\ Pos(k) > i)

\* One answer to it, and whether there is a next page.
Page(K, i) == SubSeq(Rest(K, i), 1, Min({PageSize, Len(Rest(K, i))}))
More(K, i) == Len(Rest(K, i)) > PageSize

\* What a listing of p with the delimiter "/" gives: objects and, for all
\* that lies deeper, the next directory on the way.
Entries(c, p) ==
    {k \in Keys(c) : k = Marker(p) \/ (Parent[k.path] = p /\ ~k.dir)}
    \cup {Marker(q) : q \in {q \in Paths : Parent[q] = p /\ \E k \in Keys(c) : InDir(k, q)}}

\* How deep k lies below p: 0 for a child.
Recursion(k, p) == Depth(k.path) - Depth(p) - 1

NoLimit == Cardinality(Paths)    \* FileSelector::max_recursion by default

-----------------------------------------------------------------------------
(* What the services do with a request.                                    *)

\* Something is at the path, or the container is there.
Exists(st, at) ==
    /\ st[at.c] # None
    /\ \/ at.p = Root
       \/ File(at.p) \in DOMAIN st[at.c]
       \/ Marker(at.p) \in DOMAIN st[at.c] /\ kind = "HNS"

Holds(me, at) == [at |-> at, by |-> me] \in leases

LeasedToOthers(me, at) == \E l \in leases : l.at = at /\ l.by # me

\* On a hierarchical namespace the directories above come into being too.
Put(c, k, object) ==
    LET parents == IF kind = "HNS" THEN {Marker(q) : q \in Above(k.path)} ELSE {}
    IN  [store EXCEPT ![c] = (k :> object) @@ @ @@ [m \in parents |-> Nil]]

Take(c, K) == [store EXCEPT ![c] = Restrict(@, DOMAIN @ \ K)]

\* A hierarchical namespace knows files from directories.
CanPut(me, c, k) ==
    /\ store[c] # None
    /\ ~LeasedToOthers(me, [c |-> c, p |-> k.path])
    /\ kind = "HNS" => /\ \A q \in Above(k.path) : File(q) \notin Keys(c)
                       /\ [k EXCEPT !.dir = ~@] \notin Keys(c)

-----------------------------------------------------------------------------
(* A call and its steps.                                                   *)

Idle == [n |-> 0, call |-> None, pc |-> "idle", knows |-> FALSE, todo |-> <<>>, after |-> 0,
         more |-> FALSE, found |-> <<>>, pending |-> {}, flag |-> FALSE, retried |-> FALSE, result |-> "ok"]

Init ==
    /\ kind \in {"S3", "Flat", "HNS"}
    /\ options \in Options[kind]
    /\ store \in Stores[kind]
    /\ leases = {}
    /\ op = [me \in Clients |-> Idle]
    /\ calls = 0
    /\ faults = 0
    /\ watch = [me \in Clients |-> [objects |-> {}, dirs |-> {}]]

In(me, pc) == op[me].pc = pc

\* The call goes on, with st stored; a lease goes with what it is on.
Then(me, st, r) ==
    /\ store' = st
    /\ leases' = {l \in leases : Exists(st, l.at)}
    /\ op' = [op EXCEPT ![me] = r @@ @]

\* The call returns, and its LeaseGuards release their leases.
Returns(me, st, result) ==
    /\ store' = st
    /\ leases' = {l \in leases : Exists(st, l.at) /\ l.by # me}
    /\ op' = [op EXCEPT ![me] = [call |-> @.call, knows |-> @.knows, result |-> result] @@ Idle]

\* A listing returns what it found.
Lists(me, found) ==
    /\ UNCHANGED <<store, leases>>
    /\ op' = [op EXCEPT ![me] = [call |-> @.call, knows |-> @.knows, found |-> found] @@ Idle]

Goes(me, r) == Then(me, store, r)

Answers(me, result) == Returns(me, store, result)

\* S3 and a flat namespace: PUT the markers of todo, one after the other.
CreateDirs(me, st, todo) ==
    IF todo = <<>> THEN Returns(me, st, "ok") ELSE Then(me, st, [pc |-> "mkdir", todo |-> todo])

Begin(me, call) ==
    /\ In(me, "idle") /\ op[me].result # "abort"
    /\ calls < MaxCalls
    /\ calls' = calls + 1
    /\ op' = [op EXCEPT ![me] = [n |-> calls + 1, call |-> call, pc |-> call.op, knows |-> @.knows] @@ Idle]
    /\ UNCHANGED <<store, leases, faults>>

\* loon_filesystem_delete_file looks before it calls DeleteFile.
loon_filesystem_delete_file(me, info) ==
    /\ In(me, "loon_delete_file")
    /\ IF info = "File" THEN Goes(me, [pc |-> "DeleteFile"]) ELSE Answers(me, "error")

\* The process ends in the middle of a call, and its leases are not released.
Aborts(me) ==
    /\ op' = [op EXCEPT ![me] = [call |-> @.call, result |-> "abort"] @@ Idle]
    /\ UNCHANGED <<store, leases>>

\* A request fails for good (the SDK has retried it).  BreakBeforeDeletion
\* takes no error for an answer.
Fail(me) ==
    /\ ~In(me, "idle")
    /\ faults < MaxFaults
    /\ faults' = faults + 1
    /\ IF In(me, "break") THEN Aborts(me) ELSE Answers(me, "error")
    /\ UNCHANGED calls

\* A lease runs out while its holder is still at work.
Expire(l) ==
    /\ leases' = leases \ {l}
    /\ UNCHANGED <<store, op, calls, faults>>

-----------------------------------------------------------------------------
(* History.                                                                *)

Objects == {<<c, k, store[c][k]>> : <<c, k>> \in {x \in Containers \X Key : x[2] \in Keys(x[1]) /\ ~x[2].dir}}

Dirs == {<<c, p>> \in Containers \X Paths : \E k \in Keys(c) : InDir(k, p)}

\* The call is meant to make the directory d disappear.  On a flat namespace
\* of Azure, DeleteDir also takes the directories above that only it implied.
Removes(call, d) ==
    LET at == call.at
    IN  /\ d[1] = at.c
        /\ \/ at.p = Root \/ at.p \in Above(d[2])
           \/ at.p = d[2] /\ call.op \in {"DeleteDir", "Move"}
           \/ d[2] \in Above(at.p) /\ kind = "Flat" /\ call.op = "DeleteDir"
        /\ call.op \in {"DeleteDir", "DeleteDirContents"} \/ (call.op = "Move" /\ (kind = "HNS" \/ at.p = Root))

\* A step of me: what others keep watching is what it leaves alone.
Watch(me) ==
    watch' = [w \in Clients |->
        IF w = me
        THEN IF op'[me].pc = "idle" THEN [objects |-> {}, dirs |-> {}]
             ELSE IF In(me, "idle") THEN [objects |-> Objects, dirs |-> Dirs]
             ELSE [watch[me] EXCEPT !.objects = @ \cap Objects']
        ELSE [objects |-> watch[w].objects \cap Objects',
              dirs |-> {d \in watch[w].dirs \cap Dirs' : In(me, "idle") \/ ~Removes(op[me].call, d)}]]

=============================================================================

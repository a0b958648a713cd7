-------------------------------- MODULE Scan --------------------------------
(***************************************************************************)
(* Reading a table from its first to its last row: the opening and         *)
(* ReadNext of the two PackedRecordBatchReaders, "v3" of reader.cpp over   *)
(* the column groups of a manifest and "v2" of packed/reader.cpp over      *)
(* packed Parquet files.                                                   *)
(* Both load row groups of the column groups, whose bounds differ, into    *)
(* one queue per group, the group that lags behind first and as many as    *)
(* the memory limit allows, and hand out batches of rows cut where some    *)
(* group's front ends.                                                     *)
(*                                                                         *)
(* A row is its number, counted from 1, in every column group alike.  The  *)
(* memory of a row group is its number of rows.  Positions count from 1.   *)
(***************************************************************************)
EXTENDS Integers, Sequences, SequencesExt, FiniteSets, FiniteSetsExt

CONSTANTS
    Tables,      \* sequences of column groups, each the rows at which its row groups end
    Orders,      \* sequences of paths: the files that v2 opens, in its order
    Limits,      \* memory limits
    RowCaps,     \* largest batches
    Filters,     \* the rows that a pushed-down predicate keeps, in their order
    MaxFailures  \* bound: failing reads

Increasing(s) == \A i, j \in DOMAIN s : i < j => s[i] < s[j]

\* The column groups of a table have the same rows.
SameRows(t) ==
    \A g, h \in DOMAIN t : t[g] # <<>> => t[h] # <<>> /\ Last(t[g]) = Last(t[h])

\* No row group is empty, but a column group may have none, or other rows than
\* the next one.
ASSUME ScanAssumption ==
    /\ Limits \subseteq Nat \ {0} /\ RowCaps \subseteq Nat \ {0} /\ MaxFailures \in Nat
    /\ \A table \in Tables :
         /\ table \in Seq(Seq(Nat \ {0})) /\ table # <<>>
         /\ \A g \in DOMAIN table : Increasing(table[g])
    /\ \A order \in Orders : /\ order \in Seq(Nat) /\ order # <<>>
                             /\ Cardinality(ToSet(order)) = Len(order)
    /\ \A rows \in Filters : rows \in Seq(Nat \ {0}) /\ Increasing(rows)

None == [rows |-> <<>>]

VARIABLES
    reader,    \* "v2" or "v3"
    table,     \* where the row groups of every column group end
    order,     \* the column groups that are read
    limit,     \* memory_usage_limit_ or memory_limit_
    cap,       \* number_of_row_limit_ or DEFAULT_READ_BATCH_SIZE
    filter,    \* All, or a predicate that is pushed down, and the rows that it keeps
    sized,     \* the format knows the memory of a row group
    phase,     \* where open or ReadNext is
    next,      \* row groups planned so far: current_cg_chunk_indices_, row_group_offset
    offset,    \* rows planned so far: current_cg_offsets_, row_offset
    plan,      \* loaded_chunk_indices_, rgs_to_read
    planned,   \* plan_buffer_size
    queue,     \* current_rbs_: batches; tables_: tables, each a sequence of chunks
    at,        \* chunk_states_
    held,      \* memory_size of a column group's state
    used,      \* memory_used_
    unknown,   \* memory_size_unavailable
    rowLimit,  \* row_limit_
    pos,       \* current_offset_, absolute_row_position_: rows handed out
    batch,     \* what ReadNext has just returned
    failures   \* requests that failed, in opening and reading

inputs == <<reader, table, order, limit, cap, filter, sized>>
planning == <<next, offset, plan, planned, held, unknown>>
vars == <<inputs, phase, planning, queue, at, used, rowLimit, pos, batch, failures>>

SumSeq(s) == FoldLeft(LAMBDA a, b : a + b, 0, s)
Paths == ToSet(order)
End(p, k) == IF k = 0 THEN 0 ELSE table[p][k]
Size(p, k) == End(p, k) - End(p, k - 1)
Remaining(p) == next[p] < Len(table[p])
TotalRows == End(order[1], Len(table[order[1]]))
All == [pushed |-> FALSE, keep |-> [r \in 1 .. TotalRows |-> r]]

\* The rows of a row group.
RowsOf(p, k) == [r \in 1 .. Size(p, k) |-> End(p, k - 1) + r]

\* The groups that have planned the fewest rows of those given: the top of a
\* RowOffsetMinHeap, which orders equal offsets as it likes.
Lowest(S) == {p \in S : \A q \in S : offset[p] <= offset[q]}

Start ==
    [p \in 1 .. Len(table) |-> [chunk |-> 1, off |-> 0]]

\* The manifest that v3 reads may name any column groups (applyUpdates does not
\* compare all of them); the files of v2 come from one packed writer.
Init ==
    /\ reader \in {"v2", "v3"}
    /\ table \in {t \in Tables : reader = "v2" => SameRows(t)}
    /\ order \in IF reader = "v2" THEN {o \in Orders : ToSet(o) \subseteq 1 .. Len(table)}
                 ELSE {[g \in 1 .. Len(table) |-> g]}
    /\ limit \in Limits /\ cap \in RowCaps
    /\ filter \in {All} \cup IF reader # "v3" \/ Len(table) > 1 THEN {}
                             ELSE [pushed : {TRUE}, keep : {f \in Filters : ToSet(f) \subseteq 1 .. TotalRows}]
    /\ sized \in IF reader = "v3" THEN BOOLEAN ELSE {TRUE}
    /\ phase = "opening"
    /\ next = [p \in 1 .. Len(table) |-> 0] /\ offset = next /\ held = next
    /\ plan = [p \in 1 .. Len(table) |-> <<>>] /\ queue = plan
    /\ at = Start
    /\ planned = 0 /\ used = 0 /\ unknown = FALSE /\ rowLimit = 0 /\ pos = 0
    /\ batch = None /\ failures = 0

\* Mutant: the row counts of the column groups are not compared.
Readable_Unchecked == \A g \in DOMAIN table : table[g] # <<>>

\* open refuses a column group without chunks, and column groups that have
\* different numbers of rows.
Readable == (\A g \in DOMAIN table : table[g] # <<>>) /\ SameRows(table)

\* What every way to open a reader has in common: a file that cannot be opened,
\* metadata that cannot be parsed or a column that nobody knows is an error.
Opening(accepted) ==
    /\ phase = "opening"
    /\ \/ /\ phase' = IF accepted THEN "idle" ELSE "refused"
          /\ UNCHANGED failures
       \/ /\ failures < MaxFailures
          /\ failures' = failures + 1
          /\ phase' = "refused"
    /\ UNCHANGED <<inputs, planning, queue, at, used, rowLimit, pos, batch>>

\* open of reader.cpp, a chunk reader for every column group.
Open == reader = "v3" /\ Opening(Readable)

\* init of packed/reader.cpp, which does not compare the files.
OpenV2 == reader = "v2" /\ Opening(TRUE)

----------------------------------------------------------------------------
(* v3.                                                                     *)

\* load_internal: load when a queue is empty and its group has more chunks.
NeedLoad == \E p \in Paths : queue[p] = <<>> /\ Remaining(p)

\* ReadNext begins, or goes round again after a load that found no rows.
ReadNext ==
    /\ reader = "v3"
    /\ phase = "idle"
    /\ IF NeedLoad THEN phase' = "plan" /\ used' = 0 /\ unknown' = FALSE
       ELSE phase' = "emit" /\ UNCHANGED <<used, unknown>>
    /\ batch' = None
    /\ UNCHANGED <<inputs, next, offset, plan, planned, held, queue, at, rowLimit, pos, failures>>

\* Mutant: one column group with data is enough.
AllHaveData_Any == \E p \in Paths : queue[p] # <<>> \/ plan[p] # <<>> \/ ~Remaining(p)

\* all_cgs_have_data
AllHaveData == \A p \in Paths : queue[p] # <<>> \/ plan[p] # <<>> \/ ~Remaining(p)

\* The loop of load_internal goes on.
LoadMore ==
    /\ \E p \in Paths : Remaining(p)
    /\ (~unknown /\ used < limit) \/ ~AllHaveData

\* preload_column_group
Preload(p) ==
    /\ reader = "v3"
    /\ phase = "plan"
    /\ LoadMore
    /\ p \in Lowest({q \in Paths : Remaining(q)})
    /\ IF sized THEN used' = used + Size(p, next[p] + 1) /\ UNCHANGED unknown
       ELSE unknown' = TRUE /\ UNCHANGED used
    /\ offset' = [offset EXCEPT ![p] = @ + Size(p, next[p] + 1)]
    /\ next' = [next EXCEPT ![p] = @ + 1]
    /\ plan' = [plan EXCEPT ![p] = Append(@, next[p] + 1)]
    /\ UNCHANGED <<inputs, phase, planned, held, queue, at, rowLimit, pos, batch, failures>>

Preloaded ==
    /\ reader = "v3"
    /\ phase = "plan"
    /\ ~LoadMore
    /\ phase' = "io"
    /\ UNCHANGED <<inputs, planning, queue, at, used, rowLimit, pos, batch, failures>>

\* How many of the rows 1 .. e the predicate keeps.
Kept(e) == Cardinality({i \in DOMAIN filter.keep : filter.keep[i] <= e})

\* What get_chunks, or get_chunk with a predicate, returns for a chunk.
ChunkRows(p, k) == SubSeq(filter.keep, Kept(End(p, k - 1)) + 1, Kept(End(p, k)))

\* The row groups of the plan are read, for v2 as one table; with a predicate
\* chunk by chunk, and a chunk of which it keeps no row is left out.
Loaded(p) ==
    IF reader = "v2" THEN << [i \in 1 .. Len(plan[p]) |-> RowsOf(p, plan[p][i])] >>
    ELSE IF ~filter.pushed THEN [i \in 1 .. Len(plan[p]) |-> ChunkRows(p, plan[p][i])]
    ELSE IF ChunkRows(p, Head(plan[p])) = <<>> THEN <<>>
    ELSE <<ChunkRows(p, Head(plan[p]))>>

\* The rows to return, cut to the shortest front.
MinRows == Min({cap} \cup {Len(Head(queue[p])) : p \in Paths})

\* No rows are left, neither in a queue nor to be loaded.
Exhausted == \A p \in Paths : queue[p] = <<>> /\ ~Remaining(p)
\* Mutant: the queue keeps the front until it is used up.
Popped_Whole(q, n) == IF Len(Head(q)) = n THEN Tail(q) ELSE q

\* A front is popped or sliced.
Popped(q, n) == IF Len(Head(q)) = n THEN Tail(q)
                ELSE <<SubSeq(Head(q), n + 1, Len(Head(q)))>> \o Tail(q)

\* The end of ReadNext: no more rows, another round, or a batch.
Emit ==
    /\ reader = "v3"
    /\ phase = "emit"
    /\ IF (~filter.pushed /\ pos = TotalRows) \/ Exhausted
       THEN phase' = "eof" /\ UNCHANGED <<queue, pos, batch>>
       ELSE /\ phase' = "idle"
            /\ IF \A p \in Paths : queue[p] = <<>> THEN UNCHANGED <<queue, pos, batch>>
               ELSE /\ batch' = [rows |-> [p \in Paths |-> SubSeq(Head(queue[p]), 1, MinRows)]]
                    /\ queue' = [p \in DOMAIN queue |-> Popped(queue[p], MinRows)]
                    /\ pos' = pos + MinRows
    /\ UNCHANGED <<inputs, planning, at, used, rowLimit, failures>>

----------------------------------------------------------------------------
(* v2.                                                                     *)

\* advanceBuffer is called when all rows up to row_limit_ are handed out.
ReadNextV2 ==
    /\ reader = "v2"
    /\ phase = "idle"
    /\ phase' = IF pos >= rowLimit THEN "fill" ELSE "slice"
    /\ batch' = None
    /\ UNCHANGED <<inputs, planning, queue, at, used, rowLimit, pos, failures>>

\* ResetChunkState is called with the number of the reader and compares it
\* with the number of the path.  Readers are numbered in the order of the set
\* needed_paths_ and paths as the caller gave them: the numbers differ when a
\* projection leaves out an earlier file, and when the paths are not sorted
\* ("10" comes before "2").
ResetChunkState(S) == [p \in DOMAIN at |-> IF p \in S THEN Start[p] ELSE at[p]]

Reset(p) == 0

\* The files whose rows are all handed out advance by one row group, up to
\* the first that has none left.
Fill ==
    LET drained == {i \in DOMAIN order : offset[order[i]] <= rowLimit}
        ended == {i \in drained : ~Remaining(order[i])}
        advancing == {i \in drained : \A e \in ended : i < e}
        touched == {order[i] : i \in advancing \cup IF ended = {} THEN {} ELSE {Min(ended)}}
        filled == {order[i] : i \in advancing}
        size(p) == Size(p, next[p] + 1)
    IN  /\ reader = "v2"
        /\ phase = "fill"
        /\ used' = used - SumSeq([p \in DOMAIN held |-> IF p \in touched THEN held[p] ELSE 0])
        /\ held' = [p \in DOMAIN held |-> IF p \in filled THEN Reset(p) + size(p)
                                         ELSE IF p \in touched THEN Reset(p) ELSE held[p]]
        /\ planned' = SumSeq([p \in DOMAIN held |-> IF p \in filled THEN size(p) ELSE 0])
        /\ plan' = [p \in DOMAIN plan |-> IF p \in filled THEN <<next[p] + 1>> ELSE <<>>]
        /\ offset' = [p \in DOMAIN offset |-> IF p \in filled THEN offset[p] + size(p) ELSE offset[p]]
        /\ next' = [p \in DOMAIN next |-> IF p \in filled THEN next[p] + 1 ELSE next[p]]
        /\ at' = ResetChunkState(advancing)
        /\ phase' = IF ended = {} THEN "plan" ELSE IF advancing = {} THEN "check" ELSE "error"
        /\ UNCHANGED <<inputs, unknown, queue, rowLimit, pos, batch, failures>>

\* Mutant: a file that cannot advance is tried again.
AtEnd_Continue == "plan"

\* A file that cannot advance ends the planning.
AtEnd == "io"

\* The lowest file advances while the limit allows.
Advance(p) ==
    /\ reader = "v2"
    /\ phase = "plan"
    /\ planned + used < limit
    /\ p \in Lowest(Paths)
    /\ IF Remaining(p) /\ planned + used + Size(p, next[p] + 1) <= limit
       THEN /\ plan' = [plan EXCEPT ![p] = Append(@, next[p] + 1)]
            /\ planned' = planned + Size(p, next[p] + 1)
            /\ held' = [held EXCEPT ![p] = @ + Size(p, next[p] + 1)]
            /\ offset' = [offset EXCEPT ![p] = @ + Size(p, next[p] + 1)]
            /\ next' = [next EXCEPT ![p] = @ + 1]
            /\ UNCHANGED phase
       ELSE phase' = AtEnd /\ UNCHANGED <<plan, planned, held, offset, next>>
    /\ UNCHANGED <<inputs, unknown, queue, at, used, rowLimit, pos, batch, failures>>

LimitReached ==
    /\ reader = "v2"
    /\ phase = "plan"
    /\ planned + used >= limit
    /\ phase' = "io"
    /\ UNCHANGED <<inputs, planning, queue, at, used, rowLimit, pos, batch, failures>>

\* The planned row groups of one column group after the other.
Read(p) ==
    /\ phase = "io"
    /\ plan[p] # <<>>
    /\ \A i, k \in DOMAIN order : k < i /\ order[i] = p => plan[order[k]] = <<>>
    /\ \/ /\ queue' = [queue EXCEPT ![p] = @ \o Loaded(p)]
          /\ plan' = [plan EXCEPT ![p] = IF filter.pushed THEN Tail(@) ELSE <<>>]
          /\ UNCHANGED <<phase, failures>>
       \/ /\ failures < MaxFailures
          /\ failures' = failures + 1
          /\ phase' = "error"
          /\ UNCHANGED <<queue, plan>>
    /\ UNCHANGED <<inputs, next, offset, planned, held, unknown, at, used, rowLimit, pos, batch>>

UsedAfter == used + planned

AllRead ==
    /\ phase = "io"
    /\ \A p \in Paths : plan[p] = <<>>
    /\ IF reader = "v3" THEN phase' = "emit" /\ UNCHANGED <<used, rowLimit>>
       ELSE /\ phase' = "check"
            /\ used' = UsedAfter
            /\ rowLimit' = offset[CHOOSE p \in Lowest(Paths) : TRUE]
    /\ UNCHANGED <<inputs, planning, queue, at, pos, batch, failures>>

\* ReadNext looks again whether there are rows.
Check ==
    /\ phase = "check"
    /\ phase' = IF pos >= rowLimit THEN "eof" ELSE "slice"
    /\ UNCHANGED <<inputs, planning, queue, at, used, rowLimit, pos, batch, failures>>

\* SliceChunksByMaxContiguousSlice
Slice ==
    LET chunk(p) == Head(queue[p])[at[p].chunk]
        left(p) == Len(chunk(p)) - at[p].off
        n == Min({cap, rowLimit - pos} \cup {left(p) : p \in Paths})
        last(p) == left(p) = n /\ at[p].chunk = Len(Head(queue[p]))
    IN  /\ reader = "v2"
        /\ phase = "slice"
        /\ IF \E p \in Paths : queue[p] = <<>>
           THEN phase' = "error" /\ UNCHANGED <<batch, at, queue, pos>>
           ELSE /\ batch' = [rows |-> [p \in Paths |-> SubSeq(chunk(p), at[p].off + 1, at[p].off + n)]]
                /\ at' = [p \in DOMAIN at |->
                             IF p \notin Paths THEN at[p]
                             ELSE IF last(p) THEN Start[p]
                             ELSE IF left(p) = n THEN [chunk |-> at[p].chunk + 1, off |-> 0]
                             ELSE [at[p] EXCEPT !.off = @ + n]]
                /\ queue' = [p \in DOMAIN queue |-> IF p \in Paths /\ last(p) THEN Tail(queue[p]) ELSE queue[p]]
                /\ pos' = pos + n
                /\ phase' = "idle"
        /\ UNCHANGED <<inputs, planning, used, rowLimit, failures>>

\* Close of v2 drops what is buffered.
Close ==
    /\ reader = "v2"
    /\ phase \in {"idle", "eof", "error"}
    /\ phase' = "closed"
    /\ queue' = [p \in DOMAIN queue |-> <<>>]
    /\ used' = 0
    /\ batch' = None
    /\ UNCHANGED <<inputs, planning, at, rowLimit, pos, failures>>

\* A caller that has seen the end or an error stops.
Stopped == phase \in {"refused", "eof", "error", "closed"}
Done == Stopped /\ UNCHANGED vars

Next ==
    \/ Open \/ OpenV2
    \/ ReadNext \/ Preloaded \/ Emit \/ AllRead
    \/ \E p \in DOMAIN table : Preload(p) \/ Advance(p) \/ Read(p)
    \/ ReadNextV2 \/ Fill \/ LimitReached \/ Check \/ Slice \/ Close
    \/ Done

Spec == Init /\ [][Next]_vars

\* The caller asks for the next batch until there is none.
FairSpec == Spec /\ WF_vars(Next)

----------------------------------------------------------------------------
(* Properties.                                                             *)

Expected == filter.keep

\* Every variable has its type.
TypeOK ==
    /\ phase \in {"opening", "refused", "idle", "fill", "plan", "io", "emit", "check", "slice",
                  "eof", "error", "closed"}
    /\ \A p \in DOMAIN table : /\ next[p] \in 0 .. Len(table[p])
                               /\ offset[p] \in 0 .. End(p, Len(table[p]))
                               /\ held[p] \in Nat
    /\ used \in Nat /\ planned \in Nat /\ rowLimit \in Nat /\ pos \in Nat
    /\ unknown \in BOOLEAN
    /\ failures \in 0 .. MaxFailures

\* No other reader of v2 has the number of path p: ResetChunkState never sets p
\* back in place of another file.
OwnNumber(p) == reader = "v2" /\ p \in DOMAIN order => order[p] = p

\* The rows of a batch are consecutive rows of the table that were not handed
\* out too early, and they are the next ones, the same in every column group,
\* however their row groups are cut and loaded.  The exception are the files
\* that v2 sets back in place of others (OwnNumber): these may repeat earlier
\* rows, so that the columns of a batch do not match, and they do not disturb the
\* rest.  chunk_manager.cpp:105 says that ResetChunkState "resets the chunk states
\* for columns in a specific file", the one that advances.
RowsAligned ==
    \A p \in DOMAIN batch.rows :
        LET rows == batch.rows[p]
        IN  \E e \in Len(rows) .. Len(Expected) :
                /\ rows = SubSeq(Expected, e - Len(rows) + 1, e)
                /\ e <= pos
                /\ OwnNumber(p) => e = pos

\* A scan ends without an error only when all rows of every column group that
\* is read, or all that the predicate keeps, have been handed out.  It fails
\* only when a request failed, and it is refused, before any row is handed out,
\* only then or because column groups have no or not the same number of rows.
Complete ==
    /\ phase = "eof" => /\ pos = Len(Expected)
                        /\ \A p \in Paths : ~filter.pushed => pos = End(p, Len(table[p]))
    /\ phase = "error" => failures > 0
    /\ phase = "refused" => \/ failures > 0
                            \/ \E p, q \in Paths : LET rows(g) == End(g, Len(table[g]))
                                                  IN  rows(p) = 0 \/ rows(p) # rows(q)

\* When rows are handed out every column group has some in its queue.
NoGroupStarves ==
    /\ phase = "slice" => \A p \in Paths : queue[p] # <<>>
    /\ phase = "emit" => \A p, q \in Paths : queue[p] = <<>> => queue[q] = <<>>

\* v2 accounts for all the rows that it holds, and it never holds more than
\* the limit and one row group of every column group.
MemoryBounded ==
    (reader = "v2" /\ phase = "idle") =>
        /\ used >= SumSeq([i \in DOMAIN order |-> offset[order[i]] - pos])
        /\ used <= limit + SumSeq([i \in DOMAIN order |-> Max({0} \cup {Size(order[i], k) : k \in DOMAIN table[order[i]]})])

\* The scan ends: also a predicate that keeps no row of many chunks, and a
\* limit below the size of a row group, let every call return.
Ends == <>Stopped

\* No rows are left out at the end, and no column group is without rows while
\* others hand theirs out: also where v2 sets back another file.
NothingMissed == Complete /\ NoGroupStarves


=============================================================================

------------------------------ MODULE ReadTasks ------------------------------
(***************************************************************************)
(* Reading chunks and taking rows: ChunkReader::get_chunks, get_chunk_     *)
(* indices, Reader::take and their asynchronous forms.  A request is cut   *)
(* into tasks along files, adjacent chunks and the wanted parallelism; the *)
(* tasks end in any order, each may fail, and the fan-in puts the pieces   *)
(* together in the order of the request.                                   *)
(*                                                                         *)
(* One request of one caller, or one get_chunk after the other on the      *)
(* readers that a chunk reader keeps.  A row is <<column group, file,      *)
(* physical row of the file>>; a column group lists files (FormatReaders)  *)
(* with the range of their live rows that the manifest exposes.  Indices   *)
(* of rows and chunks count from 0 as in the code, files, row groups and   *)
(* positions in a sequence from 1.                                         *)
(***************************************************************************)
EXTENDS MemoryEstimates

CONSTANTS
    Layouts,     \* sequences of column groups
    MaxRequest,  \* bound: length of a request
    Degrees,     \* parallelism, or threads of the pool
    MaxFailures  \* bound: failing file reads

ASSUME ReadAssumption ==
    /\ MaxRequest \in Nat /\ MaxFailures \in Nat /\ Degrees \subseteq Nat
    /\ \A layout \in Layouts : \A g \in 1 .. Len(layout) : \A f \in 1 .. Len(layout[g]) :
          layout[g][f].start < layout[g][f].end

Kinds == {"lookup", "sizes", "chunk", "chunks", "chunksAsync", "take", "takeAsync"}
Strategies == {"none", "parallelism", "all"}

VARIABLES
    kind,      \* the call
    layout,    \* the column groups that it needs
    request,   \* chunk_indices or row_indices
    degree,    \* parallelism
    strategy,  \* PROPERTY_READER_ASYNC_TASK_SPLIT_STRATEGY
    coalesced, \* Arrow returns a range as one batch, or one per row group
    phase,     \* where the call is
    opened,    \* files that are open
    cursors,   \* data_split_cursor_ of the readers, -1 for none
    chunks,    \* chunk_infos_
    tasks,     \* what is read by whom
    ended,     \* how every task has ended, and what it read
    result,    \* what the call returned
    failures

inputs == <<kind, layout, request, degree, strategy, coalesced>>
vars == <<inputs, phase, opened, cursors, chunks, tasks, ended, result, failures>>

Async == kind \in {"chunksAsync", "takeAsync"}
Chunked == kind \in {"lookup", "sizes", "chunk", "chunks", "chunksAsync"}
Error == [ok |-> FALSE, value |-> <<>>]
Ok(v) == [ok |-> TRUE, value |-> v]
Pending == [how |-> "no", read |-> <<>>]
Failed == [how |-> "failed", read |-> <<>>]
Sorted(s) == SetToSortSeq(ToSet(s), <)

----------------------------------------------------------------------------
(* Files, row groups and chunks.                                           *)

Lower(file, j) == StartOffset(RowGroupSizes(file), j)
Upper(file, j) == EndOffset(RowGroupSizes(file), j)
\* overlap_end
OverlapEnd(file, j) == Min({file.end, Upper(file, j)})

\* append_file_metadata: the row groups of a file, cut to the exposed range.
FileChunks(f) ==
    LET file == layout[1][f]
        Cut(j) == LET from == Max({file.start, Lower(file, j)})
                  IN  [file |-> f, row_group |-> j, offset |-> from, in_group |-> from - Lower(file, j),
                       rows |-> OverlapEnd(file, j) - from]
    IN  SelectSeq([j \in 1 .. Len(RowGroupSizes(file)) |-> Cut(j)], LAMBDA c : c.rows > 0)

\* The chunks of all files, and the rows up to the end of one.
Chunks == FlattenSeq([f \in 1 .. Len(layout[1]) |-> FileChunks(f)])
Chunk(i) == chunks[i + 1]
GlobalRowEnd(i) == SumSeq([k \in 1 .. i + 1 |-> chunks[k].rows])

\* get_index_and_offset_of_file: the file of a logical row, and the row in it
FileOf(g, row) ==
    LET preceding(f) == SumSeq([k \in 1 .. f - 1 |-> layout[g][k].end - layout[g][k].start])
        f == CHOOSE f \in 1 .. Len(layout[g]) : preceding(f) <= row /\ row < preceding(f + 1)
    IN  [file |-> f, row |-> layout[g][f].start + row - preceding(f)]

RowCount(g) == SumSeq([k \in 1 .. Len(layout[g]) |-> layout[g][k].end - layout[g][k].start])

\* The rows of a file with the names of its column group.
Named(g, f, rows) == [k \in 1 .. Len(rows) |-> <<g, f, rows[k]>>]
NamedBatches(f, read) == [read EXCEPT !.out = [k \in 1 .. Len(@) |-> Named(1, f, @[k])]]

\* The batches that were read are cut into one for every wanted chunk, from
\* one batch to the next when all of its rows are used; a chunk that crosses
\* the end of a batch is refused.
Slices(batches, wanted) ==
    LET Add(acc, c) ==
            LET left == IF acc.batch > Len(batches) THEN <<>>
                        ELSE SubSeq(batches[acc.batch], acc.offset + 1, Len(batches[acc.batch]))
                used == Chunk(c).rows = Len(left)
            IN  IF Len(left) < Chunk(c).rows THEN [acc EXCEPT !.ok = FALSE]
                ELSE [acc EXCEPT !.out = Append(@, SubSeq(left, 1, Chunk(c).rows)),
                                 !.batch = IF used THEN @ + 1 ELSE @,
                                 !.offset = IF used THEN 0 ELSE @ + Chunk(c).rows]
    IN  FoldLeft(Add, [ok |-> TRUE, out |-> <<>>, batch |-> 1, offset |-> 0], wanted)

Sliced(read, wanted) == IF read.ok THEN Slices(read.out, wanted) ELSE Refused

\* A sequence cut before the given positions.
Cut(s, starts) ==
    LET at == SetToSortSeq(starts, <)
    IN  [i \in 1 .. Len(at) |-> SubSeq(s, at[i], IF i = Len(at) THEN Len(s) ELSE at[i + 1] - 1)]

\* Chunks that follow each other in a file form one range.
Ranges(sorted) ==
    Cut(sorted, {k \in 1 .. Len(sorted) :
        k > 1 => LET last == Chunk(sorted[k - 1])
                     this == Chunk(sorted[k])
                 IN  last.file # this.file \/ last.offset + last.rows # this.offset})
From(range) == Chunk(range[1]).offset
To(range) == Chunk(Last(range)).offset + Chunk(Last(range)).rows

----------------------------------------------------------------------------
(* Planning: synchronous calls.                                            *)

\* create_continuous_blocks: consecutive numbers, at most size of them
ContinuousBlocks(sorted, size) ==
    LET runs == {k \in 1 .. Len(sorted) : k > 1 => sorted[k] # sorted[k - 1] + 1}
        start(k) == Max({r \in runs : r <= k})
    IN  Cut(sorted, {k \in 1 .. Len(sorted) : (k - start(k)) % size = 0})

\* split_chunks
SplitChunks(sorted, parallel) ==
    LET actual == Max({1, Min({parallel, Len(sorted)})})
    IN  ContinuousBlocks(sorted, IF Len(sorted) <= actual THEN Len(sorted)
                                 ELSE (Len(sorted) + actual - 1) \div actual)

Unsplit(s, n) == n = 0 \/ Len(s) < n

\* split_row_indices
SplitRowIndices(s, n) ==
    IF Unsplit(s, n) THEN <<s>>
    ELSE LET avg == Len(s) \div n
         IN  [i \in 1 .. n |-> SubSeq(s, (i - 1) * avg + 1, IF i = n THEN Len(s) ELSE i * avg)]

----------------------------------------------------------------------------
(* Planning: asynchronous calls.                                           *)

\* ChunkTask::Build: chunks that are adjacent in a file are read at once.
ChunkTasks(sorted) ==
    [i \in 1 .. Len(Ranges(sorted)) |->
        LET range == Ranges(sorted)[i]
        IN  [file |-> Chunk(range[1]).file, items |-> range, from |-> From(range), to |-> To(range)]]

\* ChunkTask::SplitTraits::split: the first chunk of the right half is the
\* boundary of both ranges.
SplitChunkTask(t) ==
    LET mid == Len(t.items) \div 2
        edge == Chunk(t.items[mid + 1]).offset
    IN  <<[t EXCEPT !.items = SubSeq(@, 1, mid), !.to = edge],
          [t EXCEPT !.items = SubSeq(@, mid + 1, Len(@)), !.from = edge]>>

\* TakeTask::Build: the rows of every column group by file, with the place
\* that each has in the request.
TakeTasks ==
    LET positions(g, f) == SelectSeq([p \in 1 .. Len(request) |-> p],
                                     LAMBDA p : FileOf(g, request[p]).file = f)
        task(g, f) == [reader |-> g, file |-> f, positions |-> positions(g, f),
                       items |-> [k \in 1 .. Len(positions(g, f)) |-> request[positions(g, f)[k]]]]
        ofGroup(g) == SelectSeq([f \in 1 .. Len(layout[g]) |-> task(g, f)], LAMBDA t : t.items # <<>>)
    IN  FlattenSeq([g \in 1 .. Len(layout) |-> ofGroup(g)])
\* Mutant: the positions of the right half start at the first one.
RightPositions_FromStart(positions, mid) == SubSeq(positions, 1, Len(positions) - mid)

RightPositions(positions, mid) == SubSeq(positions, mid + 1, Len(positions))

\* TakeTask::SplitTraits::split
SplitTakeTask(t) ==
    LET mid == Len(t.items) \div 2
    IN  <<[t EXCEPT !.items = SubSeq(@, 1, mid), !.positions = SubSeq(@, 1, mid)],
          [t EXCEPT !.items = SubSeq(@, mid + 1, Len(@)), !.positions = RightPositions(@, mid)]>>

Split(t) == IF kind = "chunksAsync" THEN SplitChunkTask(t) ELSE SplitTakeTask(t)

\* split_largest of SplittableTaskMaxHeap: the first of the largest tasks
\* shrinks to its left half, the right half goes to the end.
SplitLargest(ts) ==
    LET i == CHOOSE i \in 1 .. Len(ts) :
                 \A k \in 1 .. Len(ts) : \/ Len(ts[k].items) < Len(ts[i].items)
                                         \/ Len(ts[k].items) = Len(ts[i].items) /\ i <= k
    IN  Append([ts EXCEPT ![i] = Split(ts[i])[1]], Split(ts[i])[2])

\* SplitToParallelismPolicy ends when there are as many tasks as asked for.
TargetReached(ts) == Len(ts) >= Max({degree, 1})

\* NoSplitPolicy, SplitToParallelismPolicy, SplitAllPolicy: one task more?
MustSplit(ts) ==
    /\ strategy # "none"
    /\ \E i \in 1 .. Len(ts) : Len(ts[i].items) > 1
    /\ strategy = "parallelism" => ~TargetReached(ts)

----------------------------------------------------------------------------
(* The call.                                                               *)

Init ==
    /\ layout \in Layouts
    /\ kind \in Kinds
    /\ request \in UNION {[1 .. n -> -1 .. IF kind \in {"chunk", "chunks", "chunksAsync"} THEN Len(Chunks)
                                           ELSE RowCount(1)] : n \in IF kind = "sizes" THEN {0} ELSE 0 .. MaxRequest}
    /\ degree \in IF kind \in {"lookup", "sizes", "chunk"} THEN {1} ELSE Degrees
    /\ strategy \in IF Async THEN Strategies ELSE {"none"}
    /\ coalesced \in IF kind \in {"chunks", "chunksAsync"} /\ \E f \in 1 .. Len(layout[1]) :
                            layout[1][f].format \in {"parquet", "iceberg", "paimon_parquet"}
                    THEN BOOLEAN ELSE {TRUE}
    /\ phase = IF Chunked THEN "open" ELSE "plan"
    /\ opened = {} /\ cursors = [f \in 1 .. Len(layout[1]) |-> -1] /\ chunks = <<>> /\ tasks = <<>> /\ ended = <<>> /\ failures = 0
    /\ result = Error

Fails == failures < MaxFailures /\ failures' = failures + 1

Returns(r) == phase' = "done" /\ result' = r

\* open, one file after the other, or open_async, all at once: a file that is
\* open tells its row groups.
OpenFile(f) ==
    /\ phase = "open"
    /\ f \in 1 .. Len(layout[1]) \ opened
    /\ Async \/ \A e \in 1 .. f - 1 : e \in opened
    /\ \/ /\ Loads(layout[1][f])
          /\ opened' = opened \cup {f}
          /\ phase' = IF opened' = 1 .. Len(layout[1]) THEN "plan" ELSE phase
          /\ chunks' = IF phase' = "plan" THEN Chunks ELSE chunks
          /\ UNCHANGED <<failures, result>>
       \/ Fails /\ Returns(Error) /\ UNCHANGED <<opened, chunks>>
       \/ ~Loads(layout[1][f]) /\ Returns(Error) /\ UNCHANGED <<opened, chunks, failures>>
    /\ UNCHANGED <<inputs, cursors, tasks, ended>>

\* get_chunk_indices
GetChunkIndices ==
    LET ChunkOf(row) == Cardinality({i \in 0 .. Len(chunks) - 1 : GlobalRowEnd(i) <= row})
        Add(acc, row) == IF Contains(acc, ChunkOf(row)) THEN acc ELSE Append(acc, ChunkOf(row))
    IN  IF \E k \in 1 .. Len(request) : ChunkOf(request[k]) >= Len(chunks) THEN Error
        ELSE Ok(FoldLeft(Add, <<>>, request))

\* get_chunk_estimated_size and get_chunk_column_estimated_size: all chunks, or
\* none when one has no estimate
ChunkEstimates ==
    LET file(i) == layout[1][chunks[i].file]
        size(i) == OkIfAvailable(ChunkEstimate(file(i), chunks[i].row_group, chunks[i].rows))
        columns(i) == ChunkColumns(file(i), chunks[i].row_group, chunks[i].rows)
    IN  [sizes |-> AllOrNone([i \in 1 .. Len(chunks) |-> size(i)]),
         columns |-> AllOrNone([i \in 1 .. Len(chunks) |-> columns(i)])]

\* Chunk indices are checked by read_chunks_from_files and get_chunks_async.
ValidChunks == \A k \in 1 .. Len(request) : request[k] \in 0 .. Len(chunks) - 1

\* validate_sorted_unique_row_indices, validate_row_indices, TakeTask::Build
ValidRows ==
    /\ \A k \in 1 .. Len(request) : /\ request[k] >= 0
                                    /\ k > 1 => request[k - 1] < request[k]
    /\ \A g \in 1 .. Len(layout) : \A k \in 1 .. Len(request) : request[k] < RowCount(g)

\* The tasks of a valid request.
Plan ==
    LET take(g) == LET parts == IF degree <= 1 THEN <<request>> ELSE SplitRowIndices(request, degree)
                   IN  [i \in 1 .. Len(parts) |-> [reader |-> g, items |-> parts[i]]]
        blocks == IF degree <= 1 THEN <<Sorted(request)>> ELSE SplitChunks(Sorted(request), degree)
    IN  CASE kind = "chunk" -> [p \in 1 .. Len(request) |-> [items |-> <<request[p]>>]]
          [] kind = "chunks" -> [i \in 1 .. Len(blocks) |-> [items |-> blocks[i]]]
          [] kind = "chunksAsync" -> ChunkTasks(Sorted(request))
          [] kind = "take" -> FlattenSeq([g \in 1 .. Len(layout) |-> take(g)])
          [] kind = "takeAsync" -> TakeTasks

Start ==
    /\ phase = "plan"
    /\ IF kind = "lookup" THEN Returns(GetChunkIndices) /\ UNCHANGED <<tasks, ended>>
       ELSE IF kind = "sizes" THEN Returns(Ok(ChunkEstimates)) /\ UNCHANGED <<tasks, ended>>
       ELSE IF request = <<>> THEN Returns(Ok(IF Chunked THEN <<>> ELSE [g \in 1 .. Len(layout) |-> <<>>]))
                                   /\ UNCHANGED <<tasks, ended>>
       ELSE IF ~(IF kind = "chunk" THEN TRUE ELSE IF Chunked THEN ValidChunks ELSE ValidRows) THEN Returns(Error) /\ UNCHANGED <<tasks, ended>>
       ELSE /\ tasks' = Plan
            /\ ended' = [i \in 1 .. Len(tasks') |-> Pending]
            /\ phase' = IF Async THEN "split" ELSE "run"
            /\ UNCHANGED result
    /\ UNCHANGED <<inputs, opened, cursors, chunks, failures>>

\* SplitAsyncTasks
SplitAsyncTasks ==
    /\ phase = "split"
    /\ IF MustSplit(tasks) THEN /\ tasks' = SplitLargest(tasks)
                                /\ ended' = Append(ended, Pending)
                                /\ UNCHANGED phase
       ELSE phase' = "run" /\ UNCHANGED <<tasks, ended>>
    /\ UNCHANGED <<inputs, opened, cursors, chunks, result, failures>>

\* read_chunks_from_files: the chunks of a block by file, adjacent ones in
\* one range, and the batches of all ranges of a file cut into chunks.
ReadChunksFromFiles(items) ==
    LET inFile(f) == SelectSeq(items, LAMBDA c : Chunk(c).file = f)
        read(f, range) == NamedBatches(f, ReadWithRange(layout[1][f], From(range), To(range), coalesced))
        ranges(f) == [k \in 1 .. Len(Ranges(inFile(f))) |-> read(f, Ranges(inFile(f))[k])]
        files == SetToSortSeq({Chunk(items[k]).file : k \in 1 .. Len(items)}, <)
    IN  Flattened(AllOrNone([k \in 1 .. Len(files) |->
                                 Sliced(Flattened(AllOrNone(ranges(files[k]))), inFile(files[k]))]))

\* get_chunks_async of the column group reader: one range, cut into chunks
ReadChunkTask(t) ==
    Sliced(NamedBatches(t.file, ReadWithRangeAsync(layout[1][t.file], t.from, t.to, coalesced)), t.items)

\* get_chunk of the column group reader: the row group, cut to the chunk
CutToChunk(info, read) ==
    IF ~read.ok THEN Refused
    ELSE Answer(<<Named(1, info.file, SubSeq(read.out, info.in_group + 1, info.in_group + info.rows))>>)
ReadOneChunk(info) ==
    CutToChunk(info, GetChunk(layout[1][info.file], info.row_group, cursors[info.file]))

\* take_rows_from_files: the rows by file, every file opened and read once
TakeRows(g, rows) ==
    LET place == [k \in 1 .. Len(rows) |-> FileOf(g, rows[k])]
        inFile(f) == SelectSeq(place, LAMBDA p : p.file = f)
        files == SetToSortSeq({place[k].file : k \in 1 .. Len(rows)}, <)
        read(f) == LET locals == [k \in 1 .. Len(inFile(f)) |-> inFile(f)[k].row]
                   IN  IF ~Loads(layout[g][f]) THEN Refused
                       ELSE IF Async THEN TakeAsync(layout[g][f], locals) ELSE Take(layout[g][f], locals)
    IN  Flattened(AllOrNone([k \in 1 .. Len(files) |-> [read(files[k]) EXCEPT !.out = Named(g, files[k], @)]]))

Read(t) == CASE kind = "chunk" -> IF t.items[1] \in 0 .. Len(chunks) - 1 THEN ReadOneChunk(Chunk(t.items[1])) ELSE Refused
             [] kind = "chunks" -> ReadChunksFromFiles(t.items)
             [] kind = "chunksAsync" -> ReadChunkTask(t)
             [] OTHER -> TakeRows(t.reader, t.items)

\* Where the cursor of a data split stands after get_chunk: at the end of the
\* row group, or it is dropped because the read failed.
MoveCursor(c, ok) ==
    cursors' = IF kind = "chunk" /\ c \in 0 .. Len(chunks) - 1 /\ layout[1][Chunk(c).file].format = "paimon_split"
               THEN [cursors EXCEPT ![Chunk(c).file] =
                        IF ok THEN Upper(layout[1][Chunk(c).file], Chunk(c).row_group) ELSE -1]
               ELSE cursors

\* open_reader_for_file, the opening of a stream or the read that follows fails.
TaskFails(i) ==
    /\ kind = "chunk" => tasks[i].items[1] \in 0 .. Len(chunks) - 1
    /\ Fails
    /\ ended' = [ended EXCEPT ![i] = Failed]
    /\ MoveCursor(tasks[i].items[1], FALSE) \/ UNCHANGED cursors

\* A task reads its files in a thread of the pool or of the format.  The
\* synchronous take goes through the column groups one after the other, and
\* one get_chunk follows the other.
TaskEnds(i) ==
    /\ phase = "run"
    /\ ended[i].how = "no"
    /\ kind = "take" => \A k \in 1 .. Len(tasks) : tasks[k].reader < tasks[i].reader => ended[k].how = "ok"
    /\ kind = "chunk" => \A k \in 1 .. i - 1 : ended[k].how # "no"
    /\ \/ \E piece \in {Read(tasks[i])} :
              /\ ended' = [ended EXCEPT ![i] = IF piece.ok THEN [how |-> "ok", read |-> piece.out] ELSE Failed]
              /\ MoveCursor(tasks[i].items[1], piece.ok)
              /\ UNCHANGED failures
       \/ TaskFails(i)
    /\ UNCHANGED <<inputs, phase, opened, chunks, tasks, result>>

----------------------------------------------------------------------------
(* Fan-in.                                                                 *)

\* The batches of all tasks by chunk, and then in the order of the request.
GatherChunks ==
    LET of(c) == LET i == CHOOSE i \in 1 .. Len(tasks) : Contains(tasks[i].items, c)
                     k == CHOOSE k \in 1 .. Len(tasks[i].items) : tasks[i].items[k] = c
                 IN  ended[i].read[k]
    IN  Ok([p \in 1 .. Len(request) |-> of(request[p])])

\* The tasks of a column group, and what they read one after the other.
Parts(g) == SelectSeq([i \in 1 .. Len(tasks) |-> i], LAMBDA i : tasks[i].reader = g)
Table(g) == FlattenSeq([k \in 1 .. Len(Parts(g)) |-> ended[Parts(g)[k]].read])

\* take: the tables of a column group's tasks one after the other
GatherTake == Ok([g \in 1 .. Len(layout) |-> Table(g)])

\* take_tables_async: the same, and then every row is put in its place
GatherTakeAsync ==
    LET positions(g) == FlattenSeq([k \in 1 .. Len(Parts(g)) |-> tasks[Parts(g)[k]].positions])
        reorder(g, p) == CHOOSE i \in 1 .. Len(positions(g)) : positions(g)[i] = p
    IN  IF \E g \in 1 .. Len(layout) : Len(positions(g)) # Len(request) THEN Error
        ELSE Ok([g \in 1 .. Len(layout) |-> [p \in 1 .. Len(request) |-> Table(g)[reorder(g, p)]]])

\* build_take_table refuses column groups with different row counts.
SameRowCounts(r) ==
    IF r.ok /\ \E g, h \in 1 .. Len(layout) : Len(r.value[g]) # Len(r.value[h]) THEN Error ELSE r

Gathered ==
    CASE kind = "chunk" -> Ok(ended)
      [] Chunked -> GatherChunks
      [] kind = "take" -> SameRowCounts(GatherTake)
      [] kind = "takeAsync" -> SameRowCounts(GatherTakeAsync)

\* collectAll waits for every task; the synchronous take for the tasks of the
\* column groups up to the one that failed.
AllEnded ==
    \A i \in 1 .. Len(tasks) :
        \/ ended[i].how # "no"
        \/ kind = "take" /\ \E k \in 1 .. Len(tasks) : ended[k].how = "failed" /\ tasks[k].reader < tasks[i].reader
AnyFailed == \E i \in 1 .. Len(tasks) : ended[i].how = "failed"

FanIn ==
    /\ phase = "run"
    /\ AllEnded
    /\ Returns(IF AnyFailed /\ kind # "chunk" THEN Error ELSE Gathered)
    /\ UNCHANGED <<inputs, opened, cursors, chunks, tasks, ended, failures>>

\* Only a call that has returned stays as it is.
Done == phase = "done" /\ UNCHANGED vars

Next ==
    \/ \E f \in 1 .. Len(layout[1]) : OpenFile(f)
    \/ Start
    \/ SplitAsyncTasks
    \/ \E i \in 1 .. Len(tasks) : TaskEnds(i)
    \/ FanIn
    \/ Done

Spec == Init /\ [][Next]_vars

----------------------------------------------------------------------------
(* Properties.                                                             *)

\* The live rows of a file that the manifest exposes, those of a column group,
\* and those of the first one by chunk: a row group of Parquet, a logical chunk
\* of a Vortex split, or a logical chunk of all live rows.
ExposedOf(file) == SubSeq(Live(file), file.start + 1, file.end)
Exposed(l, g) == FlattenSeq([f \in 1 .. Len(l[g]) |-> Named(g, f, ExposedOf(l[g][f]))])
ChunkKey(file, k) ==
    LET row == ExposedOf(file)[k]
        split == CHOOSE j \in 1 .. Len(file.groups) : InRowGroup(file.groups, j, row)
    IN  CASE file.format \in {"parquet", "iceberg", "paimon_parquet"} -> <<split>>
          [] file.format \in {"vortex", "paimon_vortex"} ->
                 <<split, (row - StartOffset(file.groups, split)) \div file.chunkRows>>
          [] OTHER -> <<(file.start + k - 1) \div file.chunkRows>>
ByChunk(l) ==
    LET file(f) == l[1][f]
        starts(f) == {k \in 1 .. Len(ExposedOf(file(f))) : k > 1 => ChunkKey(file(f), k) # ChunkKey(file(f), k - 1)}
    IN  FlattenSeq([f \in 1 .. Len(l[1]) |-> Cut(Named(1, f, ExposedOf(file(f))), starts(f))])
Reference == [l \in Layouts |-> [rows |-> [g \in 1 .. Len(l) |-> Exposed(l, g)], chunks |-> ByChunk(l)]]

RowsOf(g) == Reference[layout].rows[g]
RowGroups == Reference[layout].chunks
InRange(bound) == \A k \in 1 .. Len(request) : request[k] \in 0 .. bound - 1

\* Every file is what its metadata says.
Sound ==
    \A g \in 1 .. Len(layout) : \A f \in 1 .. Len(layout[g]) :
        /\ Loads(layout[g][f])
        /\ layout[g][f].format = "paimon_split" => Len(Live(layout[g][f])) = layout[g][f].record_count

Acceptable ==
    CASE kind \in {"chunk", "sizes"} -> TRUE
      [] kind \in {"chunks", "chunksAsync"} -> InRange(Len(RowGroups))
      [] kind = "lookup" -> \A k \in 1 .. Len(request) : request[k] < Len(RowsOf(1))
      [] OTHER -> /\ \A g \in 1 .. Len(layout) : InRange(Len(RowsOf(g)))
                  /\ \A j, k \in 1 .. Len(request) : j < k => request[j] < request[k]

\* Every variable has its type.
TypeOK ==
    /\ phase \in {"open", "plan", "split", "run", "done"}
    /\ opened \subseteq 1 .. Len(layout[1])
    /\ \A f \in 1 .. Len(layout[1]) : cursors[f] \in -1 .. SumSeq(layout[1][f].groups)
    /\ Len(tasks) = Len(ended)
    /\ \A i \in 1 .. Len(tasks) : tasks[i].items # <<>> /\ ended[i].how \in {"no", "ok", "failed"}
    /\ result.ok \in BOOLEAN
    /\ failures \in 0 .. MaxFailures

\* A call that succeeds returns, in the order of its request and whatever the
\* tasks and the order in which they ended, for every chunk index exactly the
\* exposed rows of that row group, for every row index that row of every
\* column group, and for get_chunk_indices the chunks that hold the rows.
RightRows ==
    (phase = "done" /\ result.ok) =>
        CASE kind = "chunk" ->
               \A p \in 1 .. Len(request) :
                   result.value[p].how = "ok" => result.value[p].read = <<RowGroups[request[p] + 1]>>
          [] kind \in {"chunks", "chunksAsync"} ->
               result.value = [p \in 1 .. Len(request) |-> RowGroups[request[p] + 1]]
          [] kind \in {"take", "takeAsync"} ->
               result.value = [g \in 1 .. Len(layout) |-> [p \in 1 .. Len(request) |-> RowsOf(g)[request[p] + 1]]]
          [] kind = "lookup" ->
               InRange(Len(RowsOf(1))) =>
                   ToSet(result.value) = {i \in 0 .. Len(RowGroups) - 1 :
                       \E p \in 1 .. Len(request) : Contains(RowGroups[i + 1], RowsOf(1)[request[p] + 1])}
          [] kind = "sizes" -> TRUE

\* A call fails exactly when its request is not acceptable, a read failed or a
\* file contradicts its metadata: no task's error is lost in the fan-in, and
\* neither the cutting into batches nor the reordering refuses rows that were
\* read.  A get_chunk that fails leaves no trace in the ones that follow.
ErrorsSurface ==
    LET failed == {p \in 1 .. Len(request) : result.value[p].how = "failed"}
    IN  phase = "done" =>
            /\ (result.ok /\ kind # "chunk") => (Acceptable /\ failures = 0)
            /\ (Sound /\ Acceptable /\ failures = 0) => result.ok
            /\ (Sound /\ kind = "chunk" /\ result.ok) =>
                  Cardinality(failed) = failures
                      + Cardinality({p \in 1 .. Len(request) : request[p] \notin 0 .. Len(RowGroups) - 1})

\* The tasks read every wanted chunk, or row of every column group, once, and
\* the range of an asynchronous task holds its chunks and nothing else, also
\* after it was split.
TasksPartition ==
    LET wanted(g) == {t \in DOMAIN tasks : Chunked \/ tasks[t].reader = g}
    IN  (phase = "run" /\ kind # "chunk") =>
            /\ \A g \in IF Chunked THEN {1} ELSE 1 .. Len(layout) :
                  /\ UNION {ToSet(tasks[t].items) : t \in wanted(g)} = ToSet(request)
                  /\ SumSeq([t \in DOMAIN tasks |-> IF t \in wanted(g) THEN Len(tasks[t].items) ELSE 0])
                        = Cardinality(ToSet(request))
            /\ kind = "chunksAsync" => \A t \in DOMAIN tasks :
                  tasks[t].to - tasks[t].from = SumSeq([k \in DOMAIN tasks[t].items |-> Chunk(tasks[t].items[k]).rows])
            /\ kind = "takeAsync" => \A t \in DOMAIN tasks : \A k \in DOMAIN tasks[t].items :
                  /\ request[tasks[t].positions[k]] = tasks[t].items[k]
                  /\ FileOf(tasks[t].reader, tasks[t].items[k]).file = tasks[t].file

\* The split strategies give what they are named for: as many tasks as the
\* parallelism or, when there are fewer, one for every chunk or row.
EnoughTasks ==
    LET items == SumSeq([t \in DOMAIN tasks |-> Len(tasks[t].items)])
    IN  (phase = "run" /\ Async) =>
            /\ strategy = "all" => Len(tasks) = items
            /\ strategy = "parallelism" => Len(tasks) >= Min({degree, items})

\* What is known of the memory of a file.
OfParquet(file) == file.format \in {"parquet", "iceberg", "paimon_parquet"}
TotalMemory(file) == SumSeq(IF OfParquet(file) THEN file.memory ELSE file.weights)
Estimable(file) == \/ OfParquet(file)
                   \/ file.format # "paimon_split" /\ file.estimated /\ TotalMemory(file) <= MaxUint

\* The estimates of the chunks of a file add up to its size, up to rounding and
\* less what is not exposed or deleted; those of the columns add up to that of
\* the chunk, columns without data take nothing, and estimates are refused only
\* for files without statistics, with sizes that overflow, are all zero, or
\* with two columns of one name.
EstimatesAddUp ==
    LET all == 1 .. Len(chunks)
        files == 1 .. Len(layout[1])
        file(f) == layout[1][f]
        sizes == result.value.sizes
        columns == result.value.columns
        ofFile(f) == SumSeq([i \in all |-> IF chunks[i].file = f THEN sizes.out[i] ELSE 0])
        weightless(f, c) == \A k \in 1 .. Len(file(f).fields) : file(f).fields[k] = GroupColumns[c] => file(f).weights[k] = 0
    IN  (phase = "done" /\ kind = "sizes" /\ result.ok) =>
            /\ sizes.ok <=> \A f \in files : Estimable(file(f))
            /\ sizes.ok => \A f \in files :
                  /\ ofFile(f) <= TotalMemory(file(f))
                  /\ (file(f).deleted = {} /\ file(f).end - file(f).start = SumSeq(file(f).groups)) =>
                        TotalMemory(file(f)) - ofFile(f) < Cardinality({i \in all : chunks[i].file = f})
            /\ columns.ok <=> /\ sizes.ok
                              /\ \A f \in files : /\ SumSeq(file(f).weights) \in 1 .. MaxUint
                                                    /\ Cardinality(ToSet(file(f).fields)) = Len(file(f).fields)
            /\ columns.ok => \A i \in all :
                  /\ SumSeq(columns.out[i]) = sizes.out[i]
                  /\ \A c \in 1 .. Len(GroupColumns) : weightless(chunks[i].file, c) => columns.out[i][c] = 0

\* The types, what the plan owes to the request (every part of it in one task,
\* no task without work, and as many tasks as were asked for), and estimates
\* that add up.
TasksConsistent == TypeOK /\ TasksPartition /\ EnoughTasks /\ EstimatesAddUp

=============================================================================

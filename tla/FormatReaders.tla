---------------------------- MODULE FormatReaders ----------------------------
(***************************************************************************)
(* The format readers: what the readers of Parquet, Vortex, Lance, Iceberg *)
(* and Paimon files make of a file's row groups and deleted rows, and what *)
(* they return for a range of rows, a list of rows and a row group.        *)
(*                                                                         *)
(* A file is a record: its format, the sizes of its physical row groups    *)
(* (splits of Vortex, batches of a Paimon data split), the sizes in the    *)
(* private metadata of Parquet (kv), what names its deleted rows (deletes: *)
(* delete files of Iceberg, positions of the others), the rows that they   *)
(* delete (deleted), the row count in the descriptor of Paimon             *)
(* (record_count) and PROPERTY_READER_LOGICAL_CHUNK_ROWS (chunkRows).      *)
(* Rows of a file are physical and count from 0; callers name logical      *)
(* rows, that is live ones; row groups count from 1.  A result is refused, *)
(* or a sequence of rows or of batches.                                    *)
(***************************************************************************)
EXTENDS Integers, Sequences, SequencesExt, FiniteSetsExt

SumSeq(s) == FoldLeft(LAMBDA a, b : a + b, 0, s)
Refused == [ok |-> FALSE, out |-> <<>>]
Answer(out) == [ok |-> TRUE, out |-> out]

\* The results of several calls, the first error of which is the answer, and
\* what they return as one sequence.
AllOrNone(results) ==
    IF \A i \in 1 .. Len(results) : results[i].ok
    THEN Answer([i \in 1 .. Len(results) |-> results[i].out]) ELSE Refused
Flattened(result) == [result EXCEPT !.out = FlattenSeq(@)]

\* start_offset and end_offset of the j-th of row groups with these sizes.
StartOffset(sizes, j) == SumSeq(SubSeq(sizes, 1, j - 1))
EndOffset(sizes, j) == SumSeq(SubSeq(sizes, 1, j))
RowsBetween(a, b) == [k \in 1 .. b - a |-> a + k - 1]
RowGroupRows(sizes, j) == RowsBetween(StartOffset(sizes, j), EndOffset(sizes, j))
InRowGroup(sizes, j, row) == StartOffset(sizes, j) <= row /\ row < EndOffset(sizes, j)

\* Rows, cut where a row group ends.
ByRowGroup(sizes, rows) ==
    SelectSeq([j \in 1 .. Len(sizes) |-> SelectSeq(rows, LAMBDA r : InRowGroup(sizes, j, r))],
              LAMBDA batch : batch # <<>>)

Without(rows, deleted) == SelectSeq(rows, LAMBDA r : r \notin deleted)
Live(file) == Without(RowsBetween(0, SumSeq(file.groups)), file.deleted)

----------------------------------------------------------------------------
(* Parquet.                                                                *)

\* try_build_row_group_infos, or the footer when there is no private metadata
ParquetRowGroups(file) == IF file.kv = <<>> THEN file.groups ELSE file.kv

\* create_row_group_infos_from_metadata
ParquetLoads(file) == Len(ParquetRowGroups(file)) = Len(file.groups)

\* ReadRowGroups of Arrow
ReadRowGroups(sizes, indices) == [k \in 1 .. Len(indices) |-> RowGroupRows(sizes, indices[k])]

\* get_chunk
ParquetGetChunk(sizes, j) ==
    IF j > Len(sizes) THEN Refused ELSE Answer(ReadRowGroups(sizes, <<j>>)[1])

\* get_chunk_indices: the last row group that starts at or before the row, or
\* 0 if the row is not in it
ChunkIndexOf(sizes, row) ==
    LET preceding == {j \in 1 .. Len(sizes) : StartOffset(sizes, j) <= row}
    IN  IF preceding = {} \/ row >= EndOffset(sizes, Max(preceding)) THEN 0 ELSE Max(preceding)

\* Equal neighbours once.
Unique(s) ==
    LET first == SetToSortSeq({k \in 1 .. Len(s) : k > 1 => s[k] # s[k - 1]}, <)
    IN  [i \in 1 .. Len(first) |-> s[first[i]]]

\* The rows in the table that holds some row groups one after the other.
CopySelectedRows(table, sizes, chunkIndices, rows) ==
    LET unique == Unique(chunkIndices)
        base(j) == SumSeq([i \in 1 .. SelectInSeq(unique, LAMBDA u : u = j) - 1 |-> sizes[unique[i]]])
    IN  [k \in 1 .. Len(rows) |-> table[base(chunkIndices[k]) + rows[k] - StartOffset(sizes, chunkIndices[k]) + 1]]

\* take: every row group that is needed is read once
ParquetTake(sizes, rows) ==
    LET chunkIndices == [k \in 1 .. Len(rows) |-> ChunkIndexOf(sizes, rows[k])]
        table == FlattenSeq(ReadRowGroups(sizes, Unique(chunkIndices)))
    IN  IF Contains(chunkIndices, 0) THEN Refused
        ELSE Answer(CopySelectedRows(table, sizes, chunkIndices, rows))

\* take_async: the same from the batches of Arrow's generator
ParquetTakeAsync(sizes, rows) ==
    LET chunkIndices == [k \in 1 .. Len(rows) |-> ChunkIndexOf(sizes, rows[k])]
        batches == SelectSeq(ReadRowGroups(sizes, Unique(chunkIndices)), LAMBDA b : b # <<>>)
    IN  IF Contains(chunkIndices, 0) THEN Refused
        ELSE Answer(CopySelectedRows(FlattenSeq(batches), sizes, chunkIndices, rows))

ValidRange(sizes, from, to) == sizes # <<>> /\ from < to /\ to <= SumSeq(sizes)
Overlapping(sizes, from, to) ==
    SelectSeq([j \in 1 .. Len(sizes) |-> j], LAMBDA j : EndOffset(sizes, j) > from /\ StartOffset(sizes, j) < to)

\* LoadData of RangeRecordBatchReader: the row groups as one table, cut to the
\* range; Arrow gives it back in one batch or in one for every row group.
LoadData(sizes, indices, skip, total, coalesced) ==
    LET table == FlattenSeq(ReadRowGroups(sizes, indices))
        rows == IF skip > 0 \/ Len(table) > total + skip THEN SubSeq(table, skip + 1, skip + total) ELSE table
    IN  IF coalesced THEN <<rows>> ELSE ByRowGroup(sizes, rows)

\* read_with_range
ParquetReadWithRange(sizes, from, to, coalesced) ==
    LET indices == Overlapping(sizes, from, to)
    IN  IF ~ValidRange(sizes, from, to) THEN Refused
        ELSE Answer(LoadData(sizes, indices, from - StartOffset(sizes, indices[1]), to - from, coalesced))

\* read_with_range_async: one batch for every row group; the first is cut at
\* its front and the last at its end
ParquetReadWithRangeAsync(sizes, from, to) ==
    LET indices == Overlapping(sizes, from, to)
        batches == SelectSeq(ReadRowGroups(sizes, indices), LAMBDA b : b # <<>>)
        skip == from - StartOffset(sizes, indices[1])
        sliced == [batches EXCEPT ![1] = SubSeq(@, skip + 1, Len(@))]
        excess == Len(FlattenSeq(sliced)) - (to - from)
    IN  IF ~ValidRange(sizes, from, to) THEN Refused
        ELSE Answer([sliced EXCEPT ![Len(sliced)] = SubSeq(@, 1, Len(@) - Max({0, excess}))])

----------------------------------------------------------------------------
(* Vortex.                                                                 *)

\* recalc_row_ranges: every split is cut into logical chunks
RecalcRowRanges(splits, n) ==
    FlattenSeq([i \in 1 .. Len(splits) |->
        [k \in 1 .. (splits[i] + n - 1) \div n |-> Min({n, splits[i] - (k - 1) * n})]])

\* A scan of Vortex returns one batch for every split with selected rows.
Scan(splits, rows) == ByRowGroup(splits, rows)

\* open, open_async
VortexRowGroups(file) == RecalcRowRanges(file.groups, file.chunkRows)

\* read, streaming_read, blocking_read, read_with_range
VortexReadWithRange(file, from, to) ==
    Answer(Scan(file.groups, RowsBetween(from, to)))

\* read_with_range_async: the same scan in a task of the Rust runtime, which
\* has collected it when the callback fulfils the promise
VortexReadWithRangeAsync(file, from, to) == VortexReadWithRange(file, from, to)

\* get_chunk: the first chunk of what was read
VortexGetChunk(file, j) ==
    LET sizes == VortexRowGroups(file)
        batches == VortexReadWithRange(file, StartOffset(sizes, j), EndOffset(sizes, j)).out
    IN  IF j > Len(sizes) THEN Refused ELSE Answer(IF batches = <<>> THEN <<>> ELSE batches[1])

\* validate_and_cast_row_indices
ValidRowIndices(file, rows) == \A k \in 1 .. Len(rows) : rows[k] \in 0 .. SumSeq(file.groups) - 1

\* take: nothing read is an error
VortexTake(file, rows) ==
    LET include == SetToSortSeq(ToSet(rows), <)
    IN  IF rows = <<>> \/ ~ValidRowIndices(file, rows) THEN Refused
        ELSE Answer(FlattenSeq(Scan(file.groups, include)))

\* take_async: the same in a task of the Rust runtime
VortexTakeAsync(file, rows) == VortexTake(file, rows)

----------------------------------------------------------------------------
(* Deleted rows of Lance and Iceberg.                                      *)

\* Mutant: a deleted row at the place itself is not counted.
DeletionsUpTo_Before(deleted, row) == Cardinality({d \in deleted : d < row})

\* upper_bound, partition_point
DeletionsUpTo(deleted, row) == Cardinality({d \in deleted : d <= row})

\* logical_to_physical: the loop counts the deletions up to the place that it
\* has reached until none is added
LogicalToPhysical(deleted, logical) ==
    Min({row \in logical .. logical + Cardinality(deleted) : row = logical + DeletionsUpTo(deleted, row)})

\* build_logical_row_group_infos, MakeDirectLogicalRowGroups
LogicalRowGroups(sizes, deleted) ==
    [j \in 1 .. Len(sizes) |-> sizes[j] - Cardinality({d \in deleted : InRowGroup(sizes, j, d)})]

\* filter_batch: a batch whose first row is taken to be the one at start
FilterBatch(rows, start, deleted) ==
    LET kept == SelectSeq([k \in 1 .. Len(rows) |-> k], LAMBDA k : start + k - 1 \notin deleted)
    IN  [i \in 1 .. Len(kept) |-> rows[kept[i]]]

----------------------------------------------------------------------------
(* Lance.                                                                  *)

\* create_row_group_infos of Lance, MakeLogicalRowGroups of Paimon
LogicalChunks(count, n) == [k \in 1 .. (count + n - 1) \div n |-> Min({n, count - (k - 1) * n})]

\* read_range applies the batch size to the physical range, hence num_deletions_.
LanceBatchSize(file, from, to) == to - from + Cardinality(ToSet(file.deletes))

\* read_range of Lance: logical rows, in batches of the physical range
ReadRange(file, from, to, batchSize) ==
    LET deleted == ToSet(file.deletes)
        rows == RowsBetween(LogicalToPhysical(deleted, from), LogicalToPhysical(deleted, to - 1) + 1)
        batch(k) == SubSeq(rows, (k - 1) * batchSize + 1, Min({k * batchSize, Len(rows)}))
    IN  [k \in 1 .. (Len(rows) + batchSize - 1) \div batchSize |-> Without(batch(k), deleted)]

\* open: the logical rows, whatever the pages are
LanceRowGroups(file) == LogicalChunks(Len(Live(file)), file.chunkRows)

\* read_with_range
LanceReadWithRange(file, from, to) ==
    Answer(ReadRange(file, from, to, LanceBatchSize(file, from, to)))

\* get_chunk: the first chunk of what was read
LanceGetChunk(file, j) ==
    LET sizes == LanceRowGroups(file)
        from == StartOffset(sizes, j)
        to == EndOffset(sizes, j)
    IN  Answer(ReadRange(file, from, to, LanceBatchSize(file, from, to))[1])

\* take of the reader, take_as_stream and map_logical_indices of the bridge
LanceTake(file, rows) ==
    IF rows = <<>> THEN Refused
    ELSE Answer([k \in 1 .. Len(rows) |-> LogicalToPhysical(ToSet(file.deletes), rows[k])])

----------------------------------------------------------------------------
(* Iceberg: a Parquet file and its delete files.                           *)

\* ReadPositionalDeleteFile: the rows of this data file
PositionsIn(entry) == {r[2] : r \in {s \in entry.rows : s[1] = "this"}}

\* LoadPositionalDeletes: equality deletes are refused, unknown types skipped
IcebergLoads(file) ==
    ParquetLoads(file) /\ \A k \in 1 .. Len(file.deletes) : file.deletes[k].type # "equality"
DeletedPositions(file) ==
    UNION {PositionsIn(file.deletes[k]) : k \in {i \in 1 .. Len(file.deletes) : file.deletes[i].type = "position"}}

IcebergRowGroups(file) == LogicalRowGroups(ParquetRowGroups(file), DeletedPositions(file))

\* read_with_range: the physical range as one batch without the deleted rows
IcebergReadWithRange(file, from, to, coalesced) ==
    LET deleted == DeletedPositions(file)
        start == LogicalToPhysical(deleted, from)
        inner == ParquetReadWithRange(ParquetRowGroups(file), start, LogicalToPhysical(deleted, to - 1) + 1, coalesced)
    IN  IF from >= to THEN Answer(<< <<>> >>)
        ELSE IF deleted = {} \/ ~inner.ok THEN inner
        ELSE Answer(<<FilterBatch(FlattenSeq(inner.out), start, deleted)>>)

IcebergTake(file, rows) ==
    IF rows = <<>> THEN Answer(<<>>)
    ELSE ParquetTake(ParquetRowGroups(file),
                     [k \in 1 .. Len(rows) |-> LogicalToPhysical(DeletedPositions(file), rows[k])])

IcebergGetChunk(file, j) ==
    LET inner == ParquetGetChunk(ParquetRowGroups(file), j)
    IN  IF j <= Len(file.groups) /\ IcebergRowGroups(file)[j] = 0 THEN Answer(<<>>)
        ELSE IF ~inner.ok THEN inner
        ELSE Answer(FilterBatch(inner.out, StartOffset(ParquetRowGroups(file), j), DeletedPositions(file)))

----------------------------------------------------------------------------
(* Paimon, direct file: a Parquet or Vortex file and a deletion vector.    *)

InnerIsVortex(file) == file.format = "paimon_vortex"
InnerRowGroups(file) ==
    IF InnerIsVortex(file) THEN VortexRowGroups(file) ELSE ParquetRowGroups(file)

\* ParseMetadata
ParseMetadata(file) == file.record_count >= IF file.format = "paimon_split" THEN 1 ELSE 0

\* load_metadata: the positions are in the file and distinct, and what is left
\* is what the descriptor says
DirectFileLoads(file) ==
    /\ ParseMetadata(file)
    /\ ~InnerIsVortex(file) => ParquetLoads(file)
    /\ \A k \in 1 .. Len(file.deletes) : file.deletes[k] < SumSeq(InnerRowGroups(file))
    /\ Cardinality(ToSet(file.deletes)) = Len(file.deletes)
    /\ SumSeq(LogicalRowGroups(InnerRowGroups(file), ToSet(file.deletes))) = file.record_count

\* The deletions passed when a row is reached, from the ones passed before.
SkipDeletions(deletions, row, index) ==
    Min({i \in index .. Len(deletions) : i = Len(deletions) \/ deletions[i + 1] > row + i})

\* logical_to_physical: the rows are sorted, and the deletions before one row
\* are before the next
PaimonLogicalToPhysical(file, rows) ==
    LET deletions == SetToSortSeq(ToSet(file.deletes), <)
        Add(acc, row) == LET index == SkipDeletions(deletions, row, acc.index)
                         IN  [index |-> index, out |-> Append(acc.out, row + index)]
    IN  IF \E k \in 1 .. Len(rows) : rows[k] \notin 0 .. file.record_count - 1 THEN Refused
        ELSE Answer(FoldLeft(Add, [index |-> 0, out |-> <<>>], rows).out)

\* take
DirectFileTake(file, rows) ==
    LET physical == PaimonLogicalToPhysical(file, rows)
    IN  IF rows = <<>> \/ ~physical.ok THEN physical
        ELSE IF InnerIsVortex(file) THEN VortexTake(file, physical.out)
        ELSE ParquetTake(InnerRowGroups(file), physical.out)

\* FilterBatch of Paimon, filter_direct_batch
FilterDirectBatch(rows, start, deleted) == FilterBatch(rows, start, deleted)

\* DirectDeletionReader: the position moves on with every batch, and batches
\* without a live row are left out.
DirectDeletions(batches, start, deleted) ==
    LET position(k) == start + Len(FlattenSeq(SubSeq(batches, 1, k - 1)))
    IN  SelectSeq([k \in 1 .. Len(batches) |-> FilterDirectBatch(batches[k], position(k), deleted)],
                  LAMBDA b : b # <<>>)

\* read_with_range
DirectFileReadWithRange(file, from, to, coalesced) ==
    LET physical == PaimonLogicalToPhysical(file, <<from, to - 1>>)
        inner == IF InnerIsVortex(file) THEN VortexReadWithRange(file, physical.out[1], physical.out[2] + 1)
                 ELSE ParquetReadWithRange(InnerRowGroups(file), physical.out[1], physical.out[2] + 1, coalesced)
    IN  IF to < from \/ to > file.record_count THEN Refused
        ELSE IF from = to THEN Answer(<< <<>> >>)
        ELSE IF ~physical.ok \/ ~inner.ok THEN Refused
        ELSE Answer(DirectDeletions(inner.out, physical.out[1], ToSet(file.deletes)))

\* get_chunk
DirectFileGetChunk(file, j) ==
    LET inner == IF InnerIsVortex(file) THEN VortexGetChunk(file, j) ELSE ParquetGetChunk(InnerRowGroups(file), j)
    IN  IF LogicalRowGroups(InnerRowGroups(file), ToSet(file.deletes))[j] = 0 THEN Answer(<<>>)
        ELSE IF ~inner.ok THEN Refused
        ELSE Answer(FilterDirectBatch(inner.out, StartOffset(InnerRowGroups(file), j), ToSet(file.deletes)))

----------------------------------------------------------------------------
(* Paimon, data split: a stream of batches that is read forwards.          *)

\* The rows that the stream gives from a position on.
StreamBatches(file) ==
    SelectSeq([j \in 1 .. Len(file.groups) |-> Without(RowGroupRows(file.groups, j), file.deleted)],
              LAMBDA b : b # <<>>)
Stream(file) == FlattenSeq(StreamBatches(file))

DataSplitRowGroups(file) == LogicalChunks(file.record_count, file.chunkRows)

\* ValidateExhausted: nothing follows the declared rows.
Exhausted(file) == Len(Stream(file)) <= file.record_count

\* ReadRange of the cursor, which stands at position
CursorReadRange(file, position, from, to) ==
    IF \/ to < from \/ to > file.record_count
       \/ from < position
       \/ to > Len(Stream(file))
       \/ to = file.record_count /\ ~Exhausted(file)
    THEN Refused ELSE Answer(SubSeq(Stream(file), from + 1, to))

\* read_with_range and DataSplitRangeReader: one batch for every logical chunk
DataSplitReadWithRange(file, from, to) ==
    LET sizes == DataSplitRowGroups(file)
        chunks == Overlapping(sizes, from, to)
        start(k) == Max({from, StartOffset(sizes, chunks[k])})
        read(k) == CursorReadRange(file, IF k = 1 THEN 0 ELSE start(k), start(k),
                                   Min({to, EndOffset(sizes, chunks[k])}))
    IN  IF to < from \/ to > file.record_count THEN Refused
        ELSE IF from = to THEN Answer(<< <<>> >>)
        ELSE IF chunks = <<>> \/ \E k \in 1 .. Len(chunks) : ~read(k).ok THEN Refused
        ELSE Answer([k \in 1 .. Len(chunks) |-> read(k).out])

\* TakeRows: batch after batch up to the last row, none past the declared rows
DataSplitTake(file, rows) ==
    LET batches == StreamBatches(file)
        bound(b) == Len(FlattenSeq(SubSeq(batches, 1, b)))
        visited == {b \in 1 .. Len(batches) : bound(b - 1) <= Last(rows)}
    IN  IF rows = <<>> THEN Answer(<<>>)
        ELSE IF \/ \E k \in 1 .. Len(rows) : rows[k] \notin 0 .. file.record_count - 1
                \/ \E k \in 2 .. Len(rows) : rows[k] <= rows[k - 1]
                \/ \E b \in visited : bound(b) > file.record_count
                \/ Last(rows) >= Len(Stream(file))
                \/ Last(rows) + 1 = file.record_count /\ ~Exhausted(file)
        THEN Refused
        ELSE Answer([k \in 1 .. Len(rows) |-> Stream(file)[rows[k] + 1]])

\* Mutant: the cursor is used wherever it stands.
CursorFor_Kept(cursor, start) == IF cursor = -1 THEN 0 ELSE cursor

\* get_chunk keeps a cursor; it opens a new one when there is none (-1) or it
\* is past the row group.
CursorFor(cursor, start) == IF cursor = -1 \/ start < cursor THEN 0 ELSE cursor

DataSplitGetChunk(file, j, cursor) ==
    LET sizes == DataSplitRowGroups(file)
        start == StartOffset(sizes, j)
    IN  CursorReadRange(file, CursorFor(cursor, start), start, EndOffset(sizes, j))

----------------------------------------------------------------------------
(* The interface.                                                          *)

Formats == {"parquet", "vortex", "lance", "iceberg", "paimon_parquet", "paimon_vortex", "paimon_split"}
IsDirectFile(file) == file.format \in {"paimon_parquet", "paimon_vortex"}

\* create, or load_metadata and create_from_metadata: is the file accepted?
Loads(file) ==
    CASE file.format = "parquet" -> ParquetLoads(file)
      [] file.format = "iceberg" -> IcebergLoads(file)
      [] IsDirectFile(file) -> DirectFileLoads(file)
      [] file.format = "paimon_split" -> ParseMetadata(file)
      [] OTHER -> TRUE

\* get_row_group_infos
RowGroupSizes(file) ==
    CASE file.format = "parquet" -> ParquetRowGroups(file)
      [] file.format = "vortex" -> VortexRowGroups(file)
      [] file.format = "lance" -> LanceRowGroups(file)
      [] file.format = "iceberg" -> IcebergRowGroups(file)
      [] IsDirectFile(file) -> LogicalRowGroups(InnerRowGroups(file), ToSet(file.deletes))
      [] file.format = "paimon_split" -> DataSplitRowGroups(file)

ReadWithRange(file, from, to, coalesced) ==
    CASE file.format = "parquet" -> ParquetReadWithRange(ParquetRowGroups(file), from, to, coalesced)
      [] file.format = "vortex" -> VortexReadWithRange(file, from, to)
      [] file.format = "lance" -> LanceReadWithRange(file, from, to)
      [] file.format = "iceberg" -> IcebergReadWithRange(file, from, to, coalesced)
      [] IsDirectFile(file) -> DirectFileReadWithRange(file, from, to, coalesced)
      [] file.format = "paimon_split" -> DataSplitReadWithRange(file, from, to)

\* The formats without an asynchronous form of their own use the synchronous one.
ReadWithRangeAsync(file, from, to, coalesced) ==
    CASE file.format = "parquet" -> ParquetReadWithRangeAsync(ParquetRowGroups(file), from, to)
      [] file.format = "vortex" -> VortexReadWithRangeAsync(file, from, to)
      [] OTHER -> ReadWithRange(file, from, to, coalesced)

Take(file, rows) ==
    CASE file.format = "parquet" -> ParquetTake(ParquetRowGroups(file), rows)
      [] file.format = "vortex" -> VortexTake(file, rows)
      [] file.format = "lance" -> LanceTake(file, rows)
      [] file.format = "iceberg" -> IcebergTake(file, rows)
      [] IsDirectFile(file) -> DirectFileTake(file, rows)
      [] file.format = "paimon_split" -> DataSplitTake(file, rows)

TakeAsync(file, rows) ==
    CASE file.format = "parquet" -> ParquetTakeAsync(ParquetRowGroups(file), rows)
      [] file.format = "vortex" -> VortexTakeAsync(file, rows)
      [] OTHER -> Take(file, rows)

GetChunk(file, j, cursor) ==
    CASE file.format = "parquet" -> ParquetGetChunk(ParquetRowGroups(file), j)
      [] file.format = "vortex" -> VortexGetChunk(file, j)
      [] file.format = "lance" -> LanceGetChunk(file, j)
      [] file.format = "iceberg" -> IcebergGetChunk(file, j)
      [] IsDirectFile(file) -> DirectFileGetChunk(file, j)
      [] file.format = "paimon_split" -> DataSplitGetChunk(file, j, cursor)

=============================================================================

--------------------------- MODULE MemoryEstimates ---------------------------
(***************************************************************************)
(* The estimates of the memory that chunks and their columns take: by row  *)
(* group for every format, for the chunks that a column group exposes, and *)
(* by column.                                                              *)
(*                                                                         *)
(* A file has, besides what FormatReaders names, the sizes of its row      *)
(* groups (memory, Parquet), the names and the sizes of its columns        *)
(* (fields and weights), and whether its statistics can be read            *)
(* (estimated, Vortex and Lance).                                          *)
(***************************************************************************)
EXTENDS FormatReaders

CONSTANTS
    MaxUint,     \* the largest uint64_t
    GroupColumns \* the columns of the column group

ASSUME MemoryAssumption == MaxUint \in Nat

Unavailable == [size |-> 0, available |-> FALSE]
Estimate(n) == [size |-> n, available |-> TRUE]
OkIfAvailable(e) == IF e.available THEN Answer(e.size) ELSE Refused

\* The last weight that is not zero.
RemainderIndex(weights) == Max({1} \cup {i \in 1 .. Len(weights) : weights[i] # 0})

\* DistributeMemorySizes
DistributeMemorySizes(total, weights) ==
    LET parts == [i \in 1 .. Len(weights) |-> (total * weights[i]) \div SumSeq(weights)]
    IN  IF weights = <<>> THEN Answer(<<>>)
        ELSE IF total = 0 THEN Answer([i \in 1 .. Len(weights) |-> 0])
        ELSE IF SumSeq(weights) > MaxUint \/ SumSeq(weights) = 0 THEN Refused
        ELSE Answer([parts EXCEPT ![RemainderIndex(weights)] = @ + total - SumSeq(parts)])

\* get_column_uncompressed_sizes and compute_total_mem_usage of Vortex,
\* estimate_fragment_column_memory_sizes of Lance: a file without statistics
\* or with ones that overflow has no estimate.
FileEstimate(file) == IF file.estimated /\ SumSeq(file.weights) <= MaxUint
                      THEN Estimate(SumSeq(file.weights)) ELSE Unavailable

\* A share of an estimate.
Share(e, rows, of) == IF e.available /\ of # 0 THEN Estimate((e.size * rows) \div of) ELSE [e EXCEPT !.size = 0]

\* create_row_group_infos of Vortex: the total by rows, each rounded down
VortexEstimates(file) ==
    LET sizes == VortexRowGroups(file)
    IN  [j \in 1 .. Len(sizes) |-> Share(FileEstimate(file), sizes[j], SumSeq(sizes))]

\* create_row_group_infos of Lance: what is up to the end of a row group, less
\* what is up to its start
LanceEstimates(file) ==
    LET sizes == LanceRowGroups(file)
        upTo(offset) == Share(FileEstimate(file), offset, SumSeq(sizes))
    IN  [j \in 1 .. Len(sizes) |->
            [upTo(0) EXCEPT !.size = upTo(EndOffset(sizes, j)).size - upTo(StartOffset(sizes, j)).size]]

\* create_row_group_infos_from_metadata of Parquet
ParquetEstimates(file) == [j \in 1 .. Len(file.memory) |-> Estimate(file.memory[j])]

\* build_logical_row_group_infos, MakeDirectLogicalRowGroups: a deleted row
\* takes as much as any other of its row group
LogicalEstimates(physical, sizes, deleted) ==
    IF deleted = {} THEN physical
    ELSE [j \in 1 .. Len(sizes) |-> Share(physical[j], LogicalRowGroups(sizes, deleted)[j], sizes[j])]

\* What the reader below a Paimon file says.
InnerEstimates(file) == IF InnerIsVortex(file) THEN VortexEstimates(file) ELSE ParquetEstimates(file)

\* memory_size and memory_size_available of the row groups
RowGroupEstimates(file) ==
    CASE file.format = "parquet" -> ParquetEstimates(file)
      [] file.format = "vortex" -> VortexEstimates(file)
      [] file.format = "lance" -> LanceEstimates(file)
      [] file.format = "iceberg" -> LogicalEstimates(ParquetEstimates(file), ParquetRowGroups(file), DeletedPositions(file))
      [] IsDirectFile(file) -> LogicalEstimates(InnerEstimates(file), InnerRowGroups(file), ToSet(file.deletes))
      [] file.format = "paimon_split" -> [j \in 1 .. Len(DataSplitRowGroups(file)) |-> Unavailable]

\* get_rg_column_memsz of Parquet
ParquetColumnMemory(file, j) == DistributeMemorySizes(file.memory[j], file.weights)

\* get_rg_column_memsz of Vortex and Lance
StatisticsColumnMemory(estimates, file, j) ==
    IF ~estimates[j].available THEN Refused ELSE DistributeMemorySizes(estimates[j].size, file.weights)

\* get_rg_column_memsz of Iceberg and of Paimon: the columns of the physical
\* row group are the weights
LogicalColumnMemory(estimate, physical) ==
    IF ~estimate.available \/ ~physical.ok THEN Refused
    ELSE DistributeMemorySizes(estimate.size, physical.out)

\* get_rg_column_memsz
ColumnMemory(file, j) ==
    CASE file.format = "parquet" -> ParquetColumnMemory(file, j)
      [] file.format = "iceberg" \/ IsDirectFile(file) ->
             LogicalColumnMemory(RowGroupEstimates(file)[j],
                                 IF InnerIsVortex(file) THEN StatisticsColumnMemory(VortexEstimates(file), file, j)
                                 ELSE ParquetColumnMemory(file, j))
      [] OTHER -> StatisticsColumnMemory(RowGroupEstimates(file), file, j)

\* avg_memory_size of a chunk with these rows of the row group
ChunkEstimate(file, j, rows) == Share(RowGroupEstimates(file)[j], rows, RowGroupSizes(file)[j])

\* get_chunk_column_estimated_sizes: the estimate of the chunk by the columns
\* of its row group, for every column of the column group; one that the file
\* does not have takes nothing
ColumnsOf(fields, chunk, ofGroup) ==
    LET sizes == DistributeMemorySizes(chunk.size, ofGroup.out)
        field(c) == SelectInSeq(fields, LAMBDA name : name = GroupColumns[c])
    IN  IF \/ ~chunk.available
           \/ ~ofGroup.ok
           \/ Cardinality(ToSet(fields)) # Len(fields)
           \/ ~sizes.ok
        THEN Refused
        ELSE Answer([c \in 1 .. Len(GroupColumns) |-> IF field(c) = 0 THEN 0 ELSE sizes.out[field(c)]])
ChunkColumns(file, j, rows) == ColumnsOf(file.fields, ChunkEstimate(file, j, rows), ColumnMemory(file, j))

=============================================================================

------------------------------ MODULE WritePath ------------------------------
(***************************************************************************)
(* Writing a segment: SegmentWriter ("segment", and "rewrite" when its     *)
(* input is the references of an older segment), the api::Writer below it  *)
(* ("writer" when it is used alone) and the writer of the packed files of  *)
(* storage V2 ("packed").  A batch of rows is split into column groups;    *)
(* each group is buffered by a format writer, flushed when the memory that *)
(* the writer has counted reaches its limit, and rolled over to a new file *)
(* when its file is large enough.  Large values of the LOB column go to    *)
(* LOB files; its group holds references.                                  *)
(*                                                                         *)
(* The writers are sequential objects.  A call is the sequence `todo' of   *)
(* the steps that it has left, each one with at most one I/O that may      *)
(* fail; an error ends the call there and leaves everything as it is, and  *)
(* the caller may go on with any other call.  A row is its number.         *)
(***************************************************************************)
EXTENDS ColumnGroupPolicies, FiniteSets, FiniteSetsExt

CONSTANTS
    Apis,         \* a subset of {"segment", "rewrite", "writer", "packed"}
    Policies(_),  \* the policies to try with the given one of the Apis
    LobColumn,    \* the LOB column of a segment
    Indices,      \* the columns of every group of the packed writer
    Batches,      \* batches: for every row "small" (inline, or null) or "large"
    BufferSize,   \* buffer_size_
    RollBytes,    \* max_bytes_limit_, of a file of a column group
    RowGroupBytes,\* DEFAULT_MAX_ROW_GROUP_SIZE
    LobFlush,     \* flush_threshold_bytes; a large value is one byte
    LobRoll,      \* max_lob_file_bytes
    MaxRows,      \* bound: rows given to the writer
    MaxFailures   \* bound: failing I/O

ASSUME WritePathAssumption ==
    /\ LobColumn \in DOMAIN ColumnBytes
    /\ \A g \in DOMAIN Indices : ToSet(Indices[g]) \subseteq DOMAIN ColumnBytes
    /\ {BufferSize, RollBytes, RowGroupBytes, LobFlush, LobRoll} \subseteq Nat \ {0}
    /\ {MaxRows, MaxFailures} \subseteq Nat

None == [groups |-> <<>>, lobs |-> <<>>, rows |-> <<>>, clean |-> FALSE, some |-> FALSE]

VARIABLES
    api,       \* the writer that the caller uses
    policy,    \* column_group_policy_
    plan,      \* column_groups_, group_indices_
    call,      \* the public call that is running, or "idle"
    todo,      \* its remaining steps
    batch,     \* the batch of a Write, with the references made so far
    next,      \* rows given to the writer so far
    lob,       \* LobColumnWriterImpl
    lobFiles,  \* the LOB files in the store
    closed,    \* closed_ of the outermost writer
    inited,    \* initialized_
    mem,       \* current_memory_usage_
    heap,      \* memory_heap_, max_heap_: pairs of a group and its memory
    cgw,       \* column_group_writers_, group_writers_
    given,     \* history: the rows of the Writes that returned OK
    clean,     \* history: no call has failed yet
    out,       \* what the closing call returned
    failures

lobVars == <<lob, lobFiles>>
memVars == <<mem, heap>>
history == <<given, clean, out>>
vars == <<api, policy, plan, call, todo, batch, next, lobVars, closed, inited, memVars, cgw, history, failures>>

SumOver(s) == FoldLeft(LAMBDA a, b : a + b, 0, s)

Groups == DOMAIN plan
Width(group) == SumOver([i \in DOMAIN group.columns |-> ColumnBytes[group.columns[i]]])

\* The groups that get cells: distribute_batch passes over one without columns.
Filled == SelectSeq([g \in Groups |-> g], LAMBDA g : plan[g].columns # <<>>)

Op(op, g) == [op |-> op, g |-> g]
At(op) == todo # <<>> /\ Head(todo).op = op
Now == Head(todo).g
HasLob == api \in {"segment", "rewrite"}

\* A format writer over a new file, and the column group writer around it;
\* `width' is the size of the rows it gets.  A file is a sequence of row groups;
\* `counted' are those in row_group_metadata_, and `rows' is written_rows_.
NewFile == [cached |-> <<>>, cut |-> 0, file |-> <<>>, counted |-> 0, rows |-> 0, closed |-> FALSE]
NewGroup(format) ==
    [format |-> format, width |-> 0, fw |-> NewFile, bytes |-> 0, files |-> <<>>]

Init ==
    /\ api \in Apis
    /\ policy \in {p \in Policies(api) : create_column_group_policy(p)}
    /\ plan = IF api = "packed" THEN [g \in DOMAIN Indices |-> Group(Indices[g], "parquet")] ELSE <<>>
    /\ call = "idle" /\ todo = <<>> /\ next = 0
    /\ batch = [rows |-> <<>>, sizes |-> <<>>, refs |-> <<>>]
    /\ lob = [id |-> 1, open |-> FALSE, broken |-> FALSE, rows |-> 0, bytes |-> 0,
              pending |-> <<>>, pendingBytes |-> 0, created |-> <<>>, closed |-> FALSE]
    /\ lobFiles = <<>>
    /\ closed = FALSE /\ mem = 0 /\ heap = <<>>
    /\ inited = (api = "packed")
    /\ cgw = [g \in Groups |-> NewGroup(plan[g].format)]
    /\ given = <<>> /\ clean = TRUE /\ out = None
    /\ failures = 0

\* The call goes on with the given steps.
Continue(steps) == todo' = steps /\ UNCHANGED <<api, policy, plan, call, next, closed, history>>
Proceed == Continue(Tail(todo)) /\ UNCHANGED failures

\* The call returns an error.
Error ==
    /\ call' = "idle" /\ todo' = <<>> /\ clean' = FALSE
    /\ UNCHANGED <<api, policy, plan, next, closed, given, out>>

\* An I/O fails, and the call with it.
Fails == failures < MaxFailures /\ failures' = failures + 1 /\ Error

\* The call is refused for a reason other than I/O.
Refused == Error /\ UNCHANGED failures

----------------------------------------------------------------------------
(* The public calls.                                                       *)

\* ParquetFileWriter::Close, VortexFileWriter::Close
CloseFormat(g) ==
    IF cgw[g].format = "parquet" THEN <<Op("open?", g), Op("cut", g), Op("rest", g), Op("end", g)>>
    ELSE <<Op("open?", g), Op("end", g)>>

ForWriters(before, after) ==
    FlattenSeq([g \in 1 .. Len(cgw) |-> <<Op(before, g), Op(after, g)>>])

\* initialize_column_group_writers
InitializeColumnGroupWriters(n) == [g \in 1 .. n |-> Op("create", g)] \o <<Op("inited", 0)>>

\* SegmentWriterImpl::Write, WriterImpl::write, PackedRecordBatchWriter::Write.
\* Only the packed writer takes a batch after it has been closed.
Write(sizes) ==
    /\ call = "idle"
    /\ ~closed \/ api = "packed"
    /\ next + Len(sizes) <= MaxRows
    /\ sizes = <<>> => clean  \* bound: every refused batch leaves its entry in the heap
    /\ call' = "write"
    /\ next' = next + Len(sizes)
    /\ batch' = [rows |-> [i \in 1 .. Len(sizes) |-> next + i], sizes |-> sizes, refs |-> <<>>]
    /\ todo' = IF HasLob /\ sizes = <<>> THEN <<>>
               ELSE (IF api = "rewrite" THEN <<Op("decode", 0)>> ELSE <<>>)
                    \o (IF HasLob THEN [i \in 1 .. Len(sizes) |-> Op("lob", i)] ELSE <<>>)
                    \o (IF inited THEN <<>> ELSE <<Op("plan", 0)>>)
                    \o <<Op("room", 0), Op("balance", 0)>>
    /\ UNCHANGED <<api, policy, plan, lobVars, closed, inited, memVars, cgw, history, failures>>

LobSteps(last) == IF HasLob THEN <<Op("lobflush", 0), Op(last, 0)>> ELSE <<>>
FlushSteps == LobSteps("lobroll") \o ForWriters("cut", "roll") \o <<Op("cleared", 0)>>

\* SegmentWriterImpl::Flush, WriterImpl::flush
Flush ==
    /\ call = "idle"
    /\ ~closed
    /\ api # "packed"
    /\ call' = "flush"
    /\ todo' = FlushSteps
    /\ UNCHANGED <<api, policy, plan, batch, next, lobVars, closed, inited, memVars, cgw, history, failures>>

\* SegmentWriterImpl::Close flushes, closes the LOB writer and then the
\* api::Writer; WriterImpl::close leaves the flush to the format writers;
\* PackedRecordBatchWriter::Close flushes what its heap names.
Close ==
    /\ call = "idle"
    /\ ~closed
    /\ call' = "close"
    /\ todo' = (IF HasLob THEN FlushSteps \o LobSteps("lobclose")
                ELSE IF api = "packed" THEN <<Op("drain", 0)>> ELSE <<>>)
               \o <<Op("close", 0)>>
    /\ UNCHANGED <<api, policy, plan, batch, next, lobVars, closed, inited, memVars, cgw, history, failures>>

\* Mutant: the file that is still open is forgotten.
ToDelete_Closed(id) == lobFiles[id].state = "closed"

\* Abort deletes all of created_files_.
ToDelete(id) == \E f \in ToSet(lob.created) : f.id = id

\* SegmentWriterImpl::Abort, also called by the destructors: the LOB writer
\* deletes the files it has created, unless it has been closed already.
Abort ==
    /\ call = "idle"
    /\ HasLob
    /\ ~closed
    /\ closed' = TRUE
    /\ IF lob.closed THEN UNCHANGED lobVars
       ELSE /\ lobFiles' = [id \in DOMAIN lobFiles |->
                               IF ToDelete(id) THEN [lobFiles[id] EXCEPT !.state = "deleted"]
                               ELSE lobFiles[id]]
            /\ lob' = [lob EXCEPT !.pending = <<>>, !.open = FALSE, !.created = <<>>, !.closed = TRUE]
    /\ UNCHANGED <<api, policy, plan, call, todo, batch, next, inited, memVars, cgw, history, failures>>

\* A call that has done its last step.
Return ==
    /\ call # "idle"
    /\ todo = <<>>
    /\ call' = "idle"
    /\ given' = IF call = "write" THEN given \o batch.rows ELSE given
    /\ UNCHANGED <<api, policy, plan, todo, batch, next, lobVars, closed, inited, memVars, cgw, clean, out, failures>>

----------------------------------------------------------------------------
(* The LOB column.  lobFiles[id].rows are the values in the file.          *)

\* Rewriting reads the values that the references in the batch name.
Decode ==
    /\ At("decode")
    /\ Proceed \/ Fails
    /\ UNCHANGED <<batch, lobVars, inited, memVars, cgw>>

Inline == <<>>

\* EnsureVortexWriter, for a value at least as large as the inline threshold
EnsureVortexWriter ==
    /\ At("lob")
    /\ batch.sizes[Now] = "large"
    /\ ~lob.open /\ ~lob.closed
    /\ \/ /\ Continue(todo) /\ UNCHANGED failures
          /\ lobFiles' = Append(lobFiles, [rows |-> <<>>, state |-> "open"])
          /\ lob' = [lob EXCEPT !.open = TRUE, !.created = Append(@, [id |-> lob.id, rows |-> 0])]
       \/ Fails /\ UNCHANGED lobVars
    /\ UNCHANGED <<batch, inited, memVars, cgw>>

\* WriteData: the value and its reference, and a flush once enough is pending
WriteData ==
    /\ At("lob")
    /\ ~lob.closed
    /\ \/ /\ batch.sizes[Now] = "small"
          /\ batch' = [batch EXCEPT !.refs = Append(@, Inline)]
          /\ Proceed
          /\ UNCHANGED lob
       \/ /\ batch.sizes[Now] = "large" /\ lob.open
          /\ batch' = [batch EXCEPT !.refs = Append(@, <<lob.id, lob.rows>>)]
          /\ lob' = [lob EXCEPT !.pending = Append(@, batch.rows[Now]), !.pendingBytes = @ + 1, !.rows = @ + 1]
          /\ Continue((IF lob'.pendingBytes >= LobFlush THEN LobSteps("lobroll") ELSE <<>>) \o Tail(todo))
          /\ UNCHANGED failures
    /\ UNCHANGED <<lobFiles, inited, memVars, cgw>>

\* The LOB writer has been closed by a Close that failed later on.
LobIsClosed ==
    /\ At("lob") \/ At("lobflush")
    /\ lob.closed
    /\ Refused
    /\ UNCHANGED <<batch, lobVars, inited, memVars, cgw>>

\* FlushPending empties the builder before it writes; a Vortex writer that
\* failed once refuses everything else.
FlushPending ==
    /\ At("lobflush")
    /\ ~lob.closed
    /\ \/ /\ lob.pending = <<>>
          /\ Proceed
          /\ UNCHANGED lobVars
       \/ /\ lob.pending # <<>> /\ ~lob.broken
          /\ Proceed
          /\ lobFiles' = [lobFiles EXCEPT ![lob.id].rows = @ \o lob.pending]
          /\ lob' = [lob EXCEPT !.pending = <<>>, !.bytes = @ + lob.pendingBytes, !.pendingBytes = 0]
       \/ /\ lob.pending # <<>>
          /\ IF lob.broken THEN Refused ELSE Fails
          /\ lob' = [lob EXCEPT !.pending = <<>>, !.broken = TRUE]
          /\ UNCHANGED lobFiles
    /\ UNCHANGED <<batch, inited, memVars, cgw>>

\* CloseCurrentFile
FileClosed == [lobFiles EXCEPT ![lob.id].state = "closed"]
CloseCurrentFile == [lob EXCEPT !.open = FALSE, !.created[Len(lob.created)].rows = lob.rows]
CloseFails == (IF lob.broken THEN Refused ELSE Fails) /\ UNCHANGED lobFiles /\ lob' = [lob EXCEPT !.broken = TRUE]

\* Mutant: the count of rows goes on in the next file.
NextFile_KeepsRows(l) == [l EXCEPT !.id = @ + 1, !.bytes = 0]

\* MaybeRollFile begins a new file.
NextFile(l) == [l EXCEPT !.id = @ + 1, !.rows = 0, !.bytes = 0]

MaybeRollFile ==
    /\ At("lobroll")
    /\ \/ lob.bytes < LobRoll /\ Proceed /\ UNCHANGED lobVars
       \/ /\ lob.bytes >= LobRoll /\ ~lob.broken
          /\ Proceed
          /\ lobFiles' = FileClosed
          /\ lob' = NextFile(CloseCurrentFile)
       \/ lob.bytes >= LobRoll /\ CloseFails
    /\ UNCHANGED <<batch, inited, memVars, cgw>>

\* The end of LobColumnWriterImpl::Close
CloseLob ==
    /\ At("lobclose")
    /\ \/ ~lob.open /\ Proceed /\ UNCHANGED lobFiles /\ lob' = [lob EXCEPT !.closed = TRUE]
       \/ /\ lob.open /\ ~lob.broken
          /\ Proceed
          /\ lobFiles' = FileClosed
          /\ lob' = [CloseCurrentFile EXCEPT !.closed = TRUE]
       \/ lob.open /\ CloseFails
    /\ UNCHANGED <<batch, inited, memVars, cgw>>

----------------------------------------------------------------------------
(* The column groups.                                                      *)

\* The policy makes the column groups; one that samples needs a row.
Plan ==
    /\ At("plan")
    /\ \/ /\ requires_sample(policy) => batch.rows # <<>>
          /\ plan' = get_column_groups(policy)
          /\ todo' = InitializeColumnGroupWriters(Len(plan')) \o Tail(todo)
          /\ UNCHANGED <<api, policy, call, next, closed, history, failures>>
       \/ requires_sample(policy) /\ batch.rows = <<>> /\ Refused
    /\ UNCHANGED <<batch, lobVars, inited, memVars, cgw>>

\* ColumnGroupWriter::create, one group after the other.  Writers of an
\* attempt that failed stay.
Create ==
    /\ At("create")
    /\ \/ Proceed /\ cgw' = Append(cgw, NewGroup(plan[Now].format))
       \/ Fails /\ UNCHANGED cgw
    /\ UNCHANGED <<batch, lobVars, inited, memVars>>

Initialized ==
    /\ At("inited")
    /\ inited' = TRUE
    /\ Proceed
    /\ UNCHANGED <<batch, lobVars, memVars, cgw>>

BatchBytes(g) == Len(batch.rows) * Width(plan[g])
NextBatchSize == SumOver([g \in Groups |-> BatchBytes(g)])

\* The heap of an api::Writer is ordered by the group, that of the packed
\* writer by the memory; the packed one leaves ties open.
Tops ==
    {i \in DOMAIN heap : \A j \in DOMAIN heap :
        IF api = "packed" THEN heap[i].mem >= heap[j].mem
        ELSE heap[i].g > heap[j].g \/ (heap[i].g = heap[j].g /\ heap[i].mem >= heap[j].mem)}

\* The new batch does not fit.
TooFull == mem + NextBatchSize >= BufferSize

\* Flushes of column groups until there is room for the batch.
MakeRoom ==
    /\ At("room")
    /\ \/ /\ ~(TooFull /\ heap # <<>>)
          /\ Continue([i \in DOMAIN Filled |-> Op("put", Filled[i])] \o Tail(todo))
          /\ UNCHANGED memVars
       \/ /\ TooFull
          /\ \E i \in Tops :
                /\ heap' = RemoveAt(heap, i)
                /\ mem' = mem - heap[i].mem
                /\ Continue(<<Op("cut", heap[i].g)>>
                            \o (IF api = "packed" THEN <<>> ELSE <<Op("roll", heap[i].g)>>) \o todo)
    /\ UNCHANGED <<batch, lobVars, inited, cgw, failures>>

\* The cells of the batch in a column group; `first' marks where a batch begins.
Cells(g) ==
    [i \in 1 .. Len(batch.rows) |->
        [row |-> batch.rows[i], first |-> i = 1,
         ref |-> IF HasLob /\ LobColumn \in ToSet(plan[g].columns) THEN batch.refs[i] ELSE Inline]]

\* A row group is in the file and counted; a batch of Vortex with rows is taken
\* as one.
RowGroupWritten(fw, cells) ==
    IF cells = <<>> THEN fw
    ELSE [fw EXCEPT !.file = Append(@, cells), !.counted = @ + 1, !.rows = @ + Len(cells)]

\* ColumnGroupWriterImpl::Write, and Write of the format: Parquet keeps the
\* batch, Vortex writes it.
Put ==
    /\ At("put")
    /\ mem' = mem + BatchBytes(Now)
    /\ heap' = Append(heap, [g |-> Now, mem |-> BatchBytes(Now)])
    /\ LET w == [cgw[Now] EXCEPT !.bytes = @ + BatchBytes(Now), !.width = Width(plan[Now])] IN
       \/ /\ w.format = "parquet"
          /\ cgw' = [cgw EXCEPT ![Now] = [w EXCEPT !.fw.cached = @ \o Cells(Now)]]
          /\ Proceed
       \/ /\ w.format = "vortex" /\ ~w.fw.closed
          /\ cgw' = [cgw EXCEPT ![Now] = [w EXCEPT !.fw = RowGroupWritten(@, Cells(Now))]]
          /\ Proceed
       \/ /\ w.format = "vortex"
          /\ cgw' = [cgw EXCEPT ![Now] = [w EXCEPT !.fw.closed = TRUE]]
          /\ IF w.fw.closed THEN Refused ELSE Fails
    /\ UNCHANGED <<batch, lobVars, inited>>

\* balanceMemoryHeap, balanceMaxHeap
Balance ==
    /\ At("balance")
    /\ heap' = LET of(g) == SumOver([i \in DOMAIN heap |-> IF heap[i].g = g THEN heap[i].mem ELSE 0]) IN
               [i \in DOMAIN Filled |-> [g |-> Filled[i], mem |-> of(Filled[i])]]
    /\ Proceed
    /\ UNCHANGED <<batch, lobVars, inited, mem, cgw>>

----------------------------------------------------------------------------
(* The files of a column group.                                            *)

\* Flush cuts a row group once the cells before a row fill it.
RowGroupRows(g) ==
    IF cgw[g].fw.cached = <<>> THEN 0 ELSE (RowGroupBytes + cgw[g].width - 1) \div cgw[g].width

\* Mutant: the cached batches are dropped.
AfterFailure_Dropped(fw) == [fw EXCEPT !.cut = 0, !.cached = <<>>]

\* Flush and Close keep cached_batches_ when a row group fails.
AfterFailure(fw) == [fw EXCEPT !.cut = 0]

\* write_row_group: the row group does not begin, or it does and an error leaves
\* the batches before the one that failed in the file, uncounted.
RowGroupFails(fw, cells) ==
    /\ IF fw.closed THEN Refused ELSE Fails
    /\ \E begun \in {<<>>} \cup {<<SubSeq(cells, 1, i - 1)>> : i \in {j \in DOMAIN cells : j = 1 \/ cells[j].first}} :
          cgw' = [cgw EXCEPT ![Now].fw = [AfterFailure(fw) EXCEPT !.file = IF fw.closed THEN @ ELSE @ \o begun]]

\* The cells that fill no row group wait for the next Flush.
Remainder(fw) == SubSeq(fw.cached, fw.cut + 1, Len(fw.cached))

\* Flush of ParquetFileWriter, a row group at a time.
CutParquet ==
    /\ At("cut")
    /\ cgw[Now].format = "parquet"
    /\ LET fw == cgw[Now].fw
           k == RowGroupRows(Now)
           cells == SubSeq(fw.cached, fw.cut + 1, fw.cut + k) IN
       \/ /\ Len(fw.cached) - fw.cut <= k
          /\ cgw' = [cgw EXCEPT ![Now].fw = [fw EXCEPT !.cached = Remainder(fw), !.cut = 0]]
          /\ Proceed
       \/ /\ Len(fw.cached) - fw.cut > k /\ ~fw.closed
          /\ cgw' = [cgw EXCEPT ![Now].fw = [RowGroupWritten(fw, cells) EXCEPT !.cut = @ + k]]
          /\ Continue(todo) /\ UNCHANGED failures
       \/ Len(fw.cached) - fw.cut > k /\ RowGroupFails(fw, cells)
    /\ UNCHANGED <<batch, lobVars, inited, memVars>>

VortexFails == (IF cgw[Now].fw.closed THEN Refused ELSE Fails) /\ cgw' = [cgw EXCEPT ![Now].fw.closed = TRUE]

\* Flush of VortexFileWriter
FlushVortex ==
    /\ At("cut")
    /\ cgw[Now].format = "vortex"
    /\ \/ ~cgw[Now].fw.closed /\ Proceed /\ UNCHANGED cgw
       \/ VortexFails
    /\ UNCHANGED <<batch, lobVars, inited, memVars>>

\* The rest of ColumnGroupWriterImpl::Flush: a file that is large enough is
\* closed and a new one begun.
Roll ==
    /\ At("roll")
    /\ Continue((IF cgw[Now].bytes < RollBytes THEN <<>> ELSE CloseFormat(Now) \o <<Op("reopen", Now)>>) \o Tail(todo))
    /\ UNCHANGED <<batch, lobVars, inited, memVars, cgw, failures>>

\* A closed format writer refuses to be closed again.
CheckOpen ==
    /\ At("open?")
    /\ IF cgw[Now].fw.closed THEN Refused ELSE Proceed
    /\ UNCHANGED <<batch, lobVars, inited, memVars, cgw>>

\* Close of ParquetFileWriter writes the cells that are left.
WriteRest ==
    /\ At("rest")
    /\ LET fw == cgw[Now].fw IN
       \/ fw.cached = <<>> /\ Proceed /\ UNCHANGED cgw
       \/ /\ fw.cached # <<>>
          /\ cgw' = [cgw EXCEPT ![Now].fw = [RowGroupWritten(fw, fw.cached) EXCEPT !.cached = <<>>]]
          /\ Proceed
       \/ fw.cached # <<>> /\ RowGroupFails(fw, fw.cached)
    /\ UNCHANGED <<batch, lobVars, inited, memVars>>

\* The footer is written and the sink closed.
EndFile ==
    /\ At("end")
    /\ \/ cgw' = [cgw EXCEPT ![Now].fw.closed = TRUE] /\ Proceed
       \/ cgw[Now].format = "parquet" /\ Fails /\ UNCHANGED cgw
       \/ cgw[Now].format = "vortex" /\ VortexFails
    /\ UNCHANGED <<batch, lobVars, inited, memVars>>

\* The ColumnGroupFile that Close returns, with what the file holds: its row
\* groups and, under ROW_GROUP_META_KEY, how many of them there should be.
ColumnGroupFile(fw) == [file |-> fw.file, counted |-> fw.counted, end |-> fw.rows]

Rolled(w) == [w EXCEPT !.files = Append(@, ColumnGroupFile(w.fw)), !.bytes = 0]

Reopen ==
    /\ At("reopen")
    /\ \/ cgw' = [cgw EXCEPT ![Now] = [Rolled(@) EXCEPT !.fw = NewFile]] /\ Proceed
       \/ cgw' = [cgw EXCEPT ![Now] = Rolled(@)] /\ Fails
    /\ UNCHANGED <<batch, lobVars, inited, memVars>>

\* The end of WriterImpl::flush
Cleared ==
    /\ At("cleared")
    /\ mem' = 0 /\ heap' = <<>>
    /\ Proceed
    /\ UNCHANGED <<batch, lobVars, inited, cgw>>

\* flushRemainingBuffer
Drain ==
    /\ At("drain")
    /\ \/ /\ heap = <<>>
          /\ Proceed
          /\ UNCHANGED memVars
       \/ \E i \in Tops :
             /\ heap' = RemoveAt(heap, i)
             /\ mem' = mem - heap[i].mem
             /\ Continue(<<Op("cut", heap[i].g)>> \o todo) /\ UNCHANGED failures
    /\ UNCHANGED <<batch, lobVars, inited, cgw>>

\* WriterImpl::close and the loop of flushRemainingBuffer
CloseWriters ==
    /\ At("close")
    /\ IF Len(cgw) > Len(plan) THEN Refused
       ELSE /\ Continue(FlattenSeq([g \in 1 .. Len(cgw) |-> CloseFormat(g) \o <<Op("collect", g)>>]) \o <<Op("done", 0)>>)
            /\ UNCHANGED failures
    /\ UNCHANGED <<batch, lobVars, inited, memVars, cgw>>

\* Mutant: a file has data while cells wait for their row group.
Listed_Cached(w) == w.fw.cached # <<>>

\* ColumnGroupWriterImpl::Close leaves out a file without data.
Listed(w) == w.bytes # 0

Collect ==
    /\ At("collect")
    /\ cgw' = [cgw EXCEPT ![Now].files = IF Listed(cgw[Now]) THEN Append(@, ColumnGroupFile(cgw[Now].fw)) ELSE @]
    /\ Proceed
    /\ UNCHANGED <<batch, lobVars, inited, memVars>>

\* The writer is closed and its column groups and LOB files are returned;
\* an api::Writer whose initialization failed returns no column groups.
Closed ==
    /\ At("done")
    /\ closed' = TRUE
    /\ out' = [groups |-> IF Len(cgw) < Len(plan) THEN <<>> ELSE [g \in Groups |-> cgw[g].files],
               lobs |-> lob.created, rows |-> given, clean |-> clean, some |-> TRUE]
    /\ todo' = Tail(todo)
    /\ UNCHANGED <<api, policy, plan, call, batch, next, lobVars, inited, memVars, cgw, given, clean, failures>>

Done == closed /\ call = "idle" /\ UNCHANGED vars

Call == (\E sizes \in Batches : Write(sizes)) \/ Flush \/ Close \/ Abort \/ Return
LobStep == Decode \/ EnsureVortexWriter \/ WriteData \/ LobIsClosed \/ FlushPending \/ MaybeRollFile \/ CloseLob
GroupStep == Plan \/ Create \/ Initialized \/ MakeRoom \/ Put \/ Balance \/ Cleared \/ Drain \/ CloseWriters \/ Collect \/ Closed
FileStep == CutParquet \/ FlushVortex \/ Roll \/ CheckOpen \/ WriteRest \/ EndFile \/ Reopen

Next == Call \/ LobStep \/ GroupStep \/ FileStep \/ Done
Spec == Init /\ [][Next]_vars

----------------------------------------------------------------------------

\* The variables have their types: among them the LOB writer's file number
\* never runs ahead of the files and the counted memory never below zero.
TypeOK ==
    /\ api \in Apis /\ call \in {"idle", "write", "flush", "close"}
    /\ next \in 0 .. MaxRows /\ failures \in 0 .. MaxFailures
    /\ mem \in Nat /\ mem >= SumOver([i \in DOMAIN heap |-> heap[i].mem])
    /\ lob.id \in {Len(lobFiles), Len(lobFiles) + 1} /\ lob.rows \in Nat
    /\ \A g \in DOMAIN cgw : cgw[g].fw.cut <= Len(cgw[g].fw.cached) /\ cgw[g].fw.counted <= Len(cgw[g].fw.file)
    /\ closed \in BOOLEAN /\ inited \in BOOLEAN /\ clean \in BOOLEAN

\* A row group of the file failed: it is there and was not counted.
Spoiled(f) == Len(f.file) # f.counted

\* What a reader sees of a file.  create_row_group_infos_from_metadata refuses a
\* file whose row groups are not as many as were counted, and
\* append_file_metadata cuts one at its end_index; the packed reader takes as
\* many row groups as were counted.
Visible(f) ==
    IF api = "packed" THEN FlattenSeq(SubSeq(f.file, 1, f.counted))
    ELSE IF Spoiled(f) THEN <<>> ELSE SubSeq(FlattenSeq(f.file), 1, f.end)

\* The rows that a reader gets out of a column group, file by file, as take opens
\* them; a scan opens all files first, and fails when one of them is refused.
RowsIn(g) == FlattenSeq([i \in DOMAIN out.groups[g] |-> Visible(out.groups[g][i])])

\* The rows of the Writes that returned OK that no reader of the group sees.
Missing(g) == ToSet(out.rows) \ {cell.row : cell \in ToSet(RowsIn(g))}

\* ReadArrowArray of LobColumnReaderImpl: the references into one file in the
\* order of their offsets, ...
SortedOffsets(cells, id) ==
    SortSeq(SelectSeq([i \in DOMAIN cells |-> i], LAMBDA i : cells[i].ref # Inline /\ cells[i].ref[1] = id),
            LAMBDA i, j : cells[i].ref[2] < cells[j].ref[2] \/ (cells[i].ref[2] = cells[j].ref[2] /\ i < j))

\* ... one take of the values at those offsets, as many as the file has, ...
Taken(cells, id) ==
    LET inside == SelectSeq(SortedOffsets(cells, id), LAMBDA i : cells[i].ref[2] < Len(lobFiles[id].rows)) IN
    [k \in DOMAIN inside |-> lobFiles[id].rows[cells[inside[k]].ref[2] + 1]]

\* ... and every value back where its reference was.
ResolveLobColumns(cells) ==
    [i \in DOMAIN cells |->
        IF cells[i].ref = Inline THEN cells[i].row
        ELSE LET id == cells[i].ref[1]
                 k == CHOOSE n \in DOMAIN SortedOffsets(cells, id) : SortedOffsets(cells, id)[n] = i IN
             IF k \in DOMAIN Taken(cells, id) THEN Taken(cells, id)[k] ELSE 0]

Columns == FlattenSeq([g \in Groups |-> plan[g].columns])

\* When no call has failed, the column groups that Close returns have every
\* column of the schema once, and those with columns all hold exactly the rows
\* that were written, in their order, and every file has the number of rows
\* that its entry says: whatever the policy, and however the batches were
\* flushed, cut into row groups and rolled over to new files.
ClosedIsComplete ==
    (out.some /\ out.clean) =>
        /\ out.groups = <<>> => out.rows = <<>>
        /\ out.groups # <<>> => Len(Columns) = Len(Schema) /\ ToSet(Columns) = ToSet(Schema)
        /\ \A g \in ToSet(Filled) \cap DOMAIN out.groups :
              /\ [i \in DOMAIN RowsIn(g) |-> RowsIn(g)[i].row] = out.rows
              /\ \A f \in ToSet(out.groups[g]) : f.end = Len(FlattenSeq(f.file)) /\ ~Spoiled(f)

\* When Close succeeds after calls that failed, no row of a Write that
\* returned OK was dropped by a failed flush, roll or initialization: readers of
\* every column group see it, unless it is in a file with a row group that
\* failed half-way, which they refuse or whose end the packed reader does not
\* see, although Close has returned OK.  That file has the row.
AcceptedRowsKept ==
    out.some =>
        /\ out.groups = <<>> => out.rows = <<>>
        /\ \A g \in ToSet(Filled) \cap DOMAIN out.groups : \A row \in Missing(g) :
              \E f \in ToSet(out.groups[g]) :
                  Spoiled(f) /\ row \in {cell.row : cell \in ToSet(FlattenSeq(f.file))}

\* BuildSchemasForExtraction: the columns that a SegmentReader extracts, in
\* the order of the schema; no name stands for all of them.
Extracted(columns) == SelectSeq(Schema, LAMBDA c : columns = {} \/ c \in columns)

\* Mutant: the index of the LOB column in the whole schema.
LobColumnIndices_Schema(extracted) == {i \in DOMAIN extracted : HasLob /\ i = LobColumn}

\* lob_column_indices: where the LOB column is among the extracted ones.
LobColumnIndices(extracted) == {i \in DOMAIN extracted : HasLob /\ extracted[i] = LobColumn}

\* The cells of column c at the given rows, as they are stored.
Stored(c, rows) ==
    LET cells == RowsIn(CHOOSE g \in Groups : c \in ToSet(plan[g].columns)) IN
    [k \in DOMAIN rows |-> cells[rows[k]]]

\* ReadNext, Take and the stream of GetStream: of every extracted column the
\* rows that were asked for, the references resolved; 0 is no row's value.
ReadSegment(columns, rows) ==
    LET extracted == Extracted(columns) IN
    [i \in DOMAIN extracted |->
        LET cells == Stored(extracted[i], rows) IN
        IF i \in LobColumnIndices(extracted) THEN ResolveLobColumns(cells)
        ELSE [k \in DOMAIN cells |-> IF HasLob /\ extracted[i] = LobColumn THEN 0 ELSE cells[k].row]]

\* Reading any of the columns that Close has returned, from either end, gives
\* every row its own value, the LOB column's out of files that are finished
\* and that Close has reported with their numbers of values, from then on.
\* After calls that failed a file may have rows twice, and only the LOB
\* column is read by itself.
ReferencesResolve ==
    (out.some /\ out.groups # <<>> /\ HasLob) =>
        LET lobs == RowsIn(CHOOSE g \in Groups : LobColumn \in ToSet(plan[g].columns))
            all == [k \in DOMAIN lobs |-> k] IN
        /\ \A columns \in IF out.clean THEN SUBSET ToSet(Schema) ELSE {{LobColumn}},
              rows \in {all, Reverse(all)} :
              \A values \in ToSet(ReadSegment(columns, rows)) :
                  values = [k \in DOMAIN rows |-> lobs[rows[k]].row]
        /\ \A i \in DOMAIN lobs :
              lobs[i].ref # Inline =>
                  /\ lobFiles[lobs[i].ref[1]].state = "closed"
                  /\ \E f \in ToSet(out.lobs) : f.id = lobs[i].ref[1] /\ f.rows = Len(lobFiles[f.id].rows)

\* A LOB file that is still in the store when the writer is closed or aborted
\* is one that Close has reported, unless a Close failed after it had closed
\* the LOB writer, whose files Abort then leaves behind.
NoOrphanLob ==
    (closed /\ HasLob) =>
        \A id \in DOMAIN lobFiles :
            \/ lobFiles[id].state = "deleted"
            \/ \E f \in ToSet(lob.created) : f.id = id

\* Between calls that have not failed, what the format writers hold back is
\* less than the buffer size, or the last batch, and in each group less than
\* a row group and a row more: a flush keeps the cells that fill no row group
\* although the writer no longer counts them.
MemoryBounded ==
    (call = "idle" /\ clean) =>
        SumOver([g \in 1 .. Len(cgw) |-> Len(cgw[g].fw.cached) * cgw[g].width])
            < Max({BufferSize, NextBatchSize + 1})
              + SumOver([g \in Groups |-> RowGroupBytes + Width(plan[g]) - 1])

\* The types, LOB references that resolve to their rows' values, no LOB file
\* that nobody knows of, and buffers within their size.
WriterConsistent == TypeOK /\ ReferencesResolve /\ NoOrphanLob /\ MemoryBounded

============================================================================

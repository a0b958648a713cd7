------------------------------ MODULE Bindings ------------------------------
(***************************************************************************)
(* A program that uses the C interface or the Java classes: it calls the   *)
(* functions in any order for which it holds the objects they need, gives  *)
(* objects back in any order, and goes on after errors.  A call is one     *)
(* step, except the asynchronous read of a file, whose callback runs on    *)
(* another thread.  The program holds at most one object of each kind.     *)
(***************************************************************************)
EXTENDS JavaBindings, AsyncReads

VARIABLES
    session,    \* which functions the program uses
    held,       \* the objects the program owns
    borrows,    \* pairs <<x, h>>: the object x uses the handle h
    lost,       \* pairs <<f, x>>: the last call was of f, and nobody owns x
    misused     \* pairs <<f, x>>: it was of f, which freed x without having it

program == <<session, held, borrows, lost, misused>>
vars == <<program, readVars>>

(***************************************************************************)
(* The functions a program uses together.                                  *)
(***************************************************************************)
CommonFunctions ==
    {loon_properties_create, loon_properties_get, loon_properties_free,
     loon_ffi_free_result}

GroupFunctions ==
    {loon_column_groups_create, loon_column_groups_destroy}
    \cup CommonFunctions

ReaderFunctions ==
    {loon_reader_new, loon_get_chunk_reader, loon_reader_destroy,
     loon_chunk_reader_destroy, loon_free_chunk_arrays}
    \cup GroupFunctions

Scanning ==
    {loon_reader_set_keyretriever, loon_get_record_batch_reader, loon_take}
    \cup ReaderFunctions

Chunks ==
    {loon_get_chunk_indices, loon_free_chunk_indices,
     loon_get_number_of_chunks, loon_get_chunk, loon_get_chunk_metadatas,
     loon_free_chunk_metadatas, loon_get_chunks}
    \cup ReaderFunctions

Transactions ==
    {loon_transaction_begin, loon_transaction_commit,
     loon_transaction_destroy, loon_transaction_get_manifest,
     loon_transaction_get_read_version, loon_transaction_drop_column,
     loon_transaction_add_column_group, loon_transaction_append_files,
     loon_transaction_add_delta_log, loon_transaction_update_stat,
     loon_transaction_add_index_info, loon_transaction_drop_index,
     loon_transaction_add_lob_file, loon_manifest_destroy,
     loon_manifest_debug_string, loon_column_groups_debug_string,
     loon_exttable_explore, loon_exttable_get_file_info,
     loon_exttable_read_manifest, loon_free_cstr}
    \cup GroupFunctions

Writing ==
    {loon_writer_new, loon_writer_write, loon_writer_flush, loon_writer_close,
     loon_writer_destroy, loon_packed_writer_new, loon_packed_writer_write,
     loon_packed_writer_close, loon_packed_writer_destroy}
    \cup GroupFunctions

SegmentWriting ==
    {loon_segment_writer_new, loon_segment_writer_write,
     loon_segment_writer_flush, loon_segment_writer_close,
     loon_segment_write_output_free, loon_segment_writer_destroy,
     loon_column_groups_destroy}
    \cup CommonFunctions

SegmentReading ==
    {loon_segment_reader_open, loon_segment_reader_get_stream,
     loon_segment_reader_take, loon_segment_reader_get_filtered_stream,
     loon_segment_reader_get_chunk_reader, loon_segment_reader_destroy,
     loon_chunk_reader_destroy}
    \cup CommonFunctions

FileSystemFunctions ==
    {loon_filesystem_get, loon_filesystem_destroy,
     loon_filesystem_open_reader, loon_filesystem_reader_readat,
     loon_filesystem_reader_supports_async, loon_filesystem_reader_close,
     loon_filesystem_reader_destroy, loon_close_filesystems}
    \cup CommonFunctions

Files ==
    {loon_filesystem_open_writer, loon_filesystem_writer_write,
     loon_filesystem_writer_flush, loon_filesystem_writer_close,
     loon_filesystem_writer_destroy, loon_filesystem_get_file_info,
     loon_filesystem_read_file, loon_filesystem_get_file_stats,
     loon_filesystem_free_meta_array, loon_filesystem_read_file_all,
     loon_filesystem_write_file, loon_filesystem_delete_file,
     loon_filesystem_get_path_info, loon_filesystem_create_dir,
     loon_filesystem_list_dir, loon_filesystem_free_file_info_list,
     loon_filesystem_get_metrics, loon_filesystem_reset_metrics,
     loon_thread_pool_singleton,
     loon_thread_pool_singleton_release, loon_configure_storage_runtime}
    \cup FileSystemFunctions

JavaCommonFunctions ==
    {allocateProperties, createProperties, freeProperties, createFromGroups,
     destroyColumnGroups, releaseArrowSchema}

JavaReaderFunctions ==
    {readerNew, getChunkReader, readerDestroy, chunkReaderDestroy,
     releaseArrowArrayAt(1), releaseArrowArrayAt(2)}
    \cup JavaCommonFunctions

JavaScanning ==
    {recordBatchReaderNew, recordBatchReaderReadNext,
     recordBatchReaderDestroy, take}
    \cup JavaReaderFunctions

JavaChunks ==
    {getChunkIndices, getChunk, getChunks, releaseArrowArray}
    \cup JavaReaderFunctions

JavaTransactions ==
    {getLatestColumnGroups, getColumnGroupsWithVersion, transactionBegin,
     transactionGetColumnGroups, transactionAppendFiles,
     transactionAddColumnGroups, transactionCommit, transactionDropColumn,
     transactionAbort, transactionDestroy}
    \cup JavaCommonFunctions

JavaWriting ==
    {writerNew, writerWrite, writerFlush, writerClose, writerDestroy,
     packedWriterNew, packedWriterWrite, packedWriterClose,
     packedWriterDestroy}
    \cup JavaCommonFunctions

JavaSegmentWriting ==
    {segmentWriterNew, segmentWriterWrite, segmentWriterFlush,
     segmentWriterClose, segmentWriterDestroy}
    \cup JavaCommonFunctions

JavaSegmentReading ==
    {segmentReaderOpen, segmentReaderGetStream, segmentReaderTake,
     segmentReaderGetFilteredStream, segmentReaderGetChunkReader,
     segmentReaderDestroy, chunkReaderDestroy, readNextBatch("stream"),
     readNextBatch("segment stream"),
     releaseArrowStream, releaseArrowArray}
    \cup JavaCommonFunctions

Sessions ==
    [scanning |-> Scanning, chunks |-> Chunks, transactions |-> Transactions,
     writing |-> Writing, segmentWriting |-> SegmentWriting,
     segmentReading |-> SegmentReading, files |-> Files,
     asyncReads |-> FileSystemFunctions \ {loon_properties_create}, javaScanning |-> JavaScanning,
     javaChunks |-> JavaChunks, javaTransactions |-> JavaTransactions,
     javaWriting |-> JavaWriting, javaSegmentWriting |-> JavaSegmentWriting,
     javaSegmentReading |-> JavaSegmentReading]

JavaSessions ==
    {"javaScanning", "javaChunks", "javaTransactions", "javaWriting", "javaSegmentWriting",
     "javaSegmentReading"}

Interface == UNION Range(Sessions)

(***************************************************************************)
(* Structures of the interface (ffi_c.h, ffi_filesystem_c.h): the parts    *)
(* are reached through the whole.                                          *)
(***************************************************************************)
StructureParts ==
    (Range(ArrayAt) \X {"arrays"})
    \cup ({"sizes", "rows"} \X {"chunk_metadatas"})
    \cup (Range(Published(GroupParts)) \X {"column_groups"})
    \cup ((Range(ManifestParts) \ {"manifest"}) \X {"manifest"})
    \cup (Range(EntriesFrom(1)) \X {"properties"})
    \cup ({"output paths"} \X {"output files"})
    \cup (Range(MetaAt) \X {"metas"})
    \cup (Range(PathAt) \X {"entries"})

(***************************************************************************)
(* Calls.  A function runs with the objects the program holds at the time. *)
(***************************************************************************)
OutcomeTable == [s \in DOMAIN Sessions |-> [f \in Sessions[s] |-> Outcomes(f)]]

OutcomesHere(f) ==
    IF f.uses \subseteq held THEN OutcomeTable[session][f]
                             ELSE Outcomes([f EXCEPT !.uses = @ \cap held])

Callable(f) ==
    /\ f.needs \subseteq held
    /\ f.uses = {} \/ f.uses \cap held # {}
    /\ f.gives \cap held = {}
    /\ f.reports => Message \notin held

\* What the calls of the session of asynchronous reads do to the clients.
OnClients(f) ==
    IF session # "asyncReads" THEN UNCHANGED <<sdk, client, owners>>
    ELSE CASE f = loon_filesystem_get ->
                IF "filesystem" \in held' THEN GetFilesystem ELSE GetFilesystemFails
           [] f = loon_filesystem_destroy -> DestroyFilesystem
           [] f = loon_close_filesystems -> CleanCache
           [] f = loon_filesystem_open_reader /\ "file_reader" \in held' -> OpenInputFile
           [] f = loon_filesystem_reader_close /\ Message \notin held' -> CloseFile
           [] f = loon_filesystem_reader_destroy -> DestroyFile
           [] OTHER -> UNCHANGED <<sdk, client, owners>>

Call(f) ==
    /\ Callable(f)
    /\ \E o \in OutcomesHere(f) :
         LET now == (held \ o.took) \cup o.given
         IN  /\ held' = now
             /\ borrows' = { b \in borrows : b[1] \in now }
                           \cup { b \in f.within : b[1] \in o.given }
             /\ lost' = {f} \X o.lost
             /\ misused' = {f} \X o.bad
    /\ UNCHANGED <<session, reads>>
    /\ OnClients(f)

Quiet == lost' = {} /\ misused' = {}

\* The program's own Arrow library: it exports what it hands in, and calls
\* the release callbacks of what it got.
Exported == {"array", "schema"}
Releasable == Exported \cup {"stream", "segment stream", "data"} \cup Range(ArrayAt)

Export(x) ==
    /\ x \notin held
    /\ \E f \in Sessions[session] : x \in f.uses
    /\ held' = held \cup {x}
    /\ Quiet /\ UNCHANGED <<session, borrows, readVars>>

Release(x) ==
    /\ x \in held
    /\ held' = held \ {x}
    /\ borrows' = { b \in borrows : b[1] # x }
    /\ Quiet /\ UNCHANGED <<session, readVars>>

(***************************************************************************)
(* The session of asynchronous reads (AsyncReads).                         *)
(***************************************************************************)
\* A rejected call returns its error and never calls back.
RefuseRead ==
    /\ session = "asyncReads" /\ "file_reader" \in held /\ Message \notin held
    /\ held' = held \cup {Message}
    /\ Quiet /\ UNCHANGED <<session, borrows, readVars>>

Init ==
    /\ session \in DOMAIN Sessions
    /\ held = IF session = "asyncReads" THEN loon_properties_create.gives ELSE {}
    /\ borrows = {} /\ lost = {} /\ misused = {}
    /\ ReadsInit

Next ==
    \/ \E f \in Sessions[session] : Call(f)
    \/ \E x \in Exported : Export(x)
    \/ \E x \in Releasable : Release(x)
    \/ RefuseRead
    \/ (ExitStep \/ \E r \in Reads : ReadStep(r)) /\ UNCHANGED program

\* A call that was made goes on, a request ends, the thread that ends it runs
\* the callback, and the thread that exits goes on.
Fairness == (\A r \in Reads : WF_readVars(ReadGoesOn(r))) /\ WF_readVars(ExitGoesOn)

Spec == Init /\ [][Next]_vars /\ Fairness

(***************************************************************************)
(* Properties.                                                             *)
(***************************************************************************)

\* Known: the exports of column groups lose what an exception finds half
\* made, and two functions forget their result when their last call fails.
KnownLosses ==
    (Interface \X {"unfilled columns", "column names", "unfilled files", "file strings"})
    \cup ({loon_get_chunk_metadatas} \X {"chunk_metadatas", "sizes", "rows"})
    \cup ({loon_filesystem_get_file_stats} \X ({"metas"} \cup Range(MetaAt)))

\* Whatever step of a call fails, everything the call allocated, borrowed
\* from the JVM or took from the program is released or in the program's
\* hands when the call is over.
NothingLost == lost \subseteq KnownLosses

\* Known: a failed import calls the release callback of the array it moved,
\* and a rejected property frees the entries that were not filled in yet.
KnownMisuse ==
    ({loon_writer_write, loon_segment_writer_write, writerWrite, segmentWriterWrite} \X {"array"})
    \cup ({loon_properties_create, createProperties} \X Range(Entry[2]))

\* No call releases an object twice, or one that was never made, whatever
\* has been given back before and whatever step fails.
NothingTwice == misused \subseteq KnownMisuse

\* Every object a call makes, borrows or is handed is released exactly once:
\* no step of a call that fails leaves one behind or releases one again.
ReleasedOnce == NothingLost /\ NothingTwice

\* Known: the plain stream of a segment reader borrows the reader.
KnownBorrowers == {"segment stream"}

\* Known: no Java class frees these.
NeverFreedByJava == {"properties struct", "arrays"} \cup Range(ManifestParts)

\* What a call of f releases however it ends.
ReleaseTable ==
    [s \in DOMAIN Sessions |->
       [f \in Sessions[s] |-> { x \in f.uses : \A o \in OutcomeTable[s][f] : x \in o.took }]]

ReleasedOtherwise ==
    Releasable \cup (IF session \in JavaSessions THEN NeverFreedByJava ELSE {})

\* In whatever order the program gives things back: nothing it holds needs
\* something that is gone, and for everything it holds there is a function
\* that takes it with what the program still has.
HeldUsable ==
    /\ \A b \in borrows \cup StructureParts :
         b[1] \in held \ KnownBorrowers => b[2] \in held
    /\ \A x \in held \ ReleasedOtherwise :
         \E f \in Sessions[session] : x \in ReleaseTable[session][f] /\ f.needs \subseteq held

\* Known: a client that Lock copied just before it was finalized dies when
\* Lock finds the finalizer finalized, which may be after the shutdown.
CopiedInLock(c) == \E r \in Reads : reads[r].call = "locking" /\ reads[r].client = c

\* A read in flight has its file and its client although the program closes
\* and destroys everything, the SDK is not shut down while a request or a
\* client is alive, and a callback runs at most once, after the read ended.
ReadsProtected ==
    /\ \A r \in Reads :
         /\ reads[r].refs # {} => reads[r].client # NoClient /\ sdk # "shut"
         /\ reads[r].io = "pending" => reads[r].file \in FileIds /\ "handler" \in reads[r].refs
         /\ reads[r].refs # {} \/ reads[r].keeps => reads[r].file \in FileIds
         /\ reads[r].calls <= (IF reads[r].io = "finished" THEN 1 ELSE 0)
    /\ sdk = "shut" => \A c \in Clients : ClientAlive(c) => CopiedInLock(c)

\* An asynchronous read that was started calls back, and the finalization at
\* exit ends.
CallbackRuns ==
    []<>(/\ \A r \in Reads : reads[r].call # "idle" => reads[r].calls = 1
         /\ sdk # "finalizing")
=============================================================================

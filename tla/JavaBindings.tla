---------------------------- MODULE JavaBindings ----------------------------
(***************************************************************************)
(* The JNI entry points (cpp/src/jni): each is a call of functions of the  *)
(* C interface between the acquisition and the release of what the Java    *)
(* virtual machine lent it.  An entry point reports by a Java exception,   *)
(* so the message of a failed result has to be freed by the entry point    *)
(* itself.  What the caller gets is an address: an Arrow structure behind  *)
(* it is an object of its own ("array struct") next to the data it holds.  *)
(***************************************************************************)
EXTENDS CBindings

MakeAll(objs) == [i \in DOMAIN objs |-> Sure(Make(objs[i]))]
Frees(objs) == [i \in DOMAIN objs |-> Sure(Free(objs[i]))]

\* ThrowJavaExceptionFromFFIResult copies the message, loon_ffi_free_result
\* frees it.
ThrowJavaExceptionFromFFIResult == <<Free(Message)>>

JavaFunction(uses, steps, gives) ==
    [Function(uses, steps, gives) EXCEPT !.reports = FALSE]

\* A call of f with the borrowed strings and the structures it is to fill:
\* the strings go back either way, the structures when the call fails.
JavaCallInto(f, borrowed, structs, undo) ==
    [f EXCEPT
       !.reports = FALSE,
       !.steps = MakeAll(borrowed \o structs)
                 \o Calling(f, FreeAll(borrowed) \o undo \o ThrowJavaExceptionFromFFIResult)
                 \o Frees(borrowed),
       !.gives = @ \cup Range(structs)]

JavaCall(f, borrowed) == JavaCallInto(f, borrowed, << >>, << >>)

\* What is borrowed: the characters of a string, an array of copied strings
\* (ConvertFromJavaStringArray, FreeStringArray), the elements of an array.
Chars == "chars"
ConvertFromJavaStringArray == "strings"
Elements == "elements"

\* out_schema is a null pointer: no schema is exported.
WithoutSchema(f) == [f EXCEPT !.steps = Front(@), !.gives = @ \ {"schema"}]

(***************************************************************************)
(* Arrow structures (arrow_utils_jni.cpp), with free_ptr set for those the *)
(* entry points allocated and not for those the JVM did.                   *)
(***************************************************************************)
\* get_next is a C callback: it fails with an error code.
readNextBatch(stream) ==
    JavaFunction({stream},
                 <<Args(<< >>), Alloc("array struct", << >>),
                   Args(<<Drop("array"), Free("array struct")>>),
                   Done(<<Free("array struct")>>), Sure(Make("array"))>>,
                 {"array", "array struct"})

releaseArrowStream ==
    Procedure({"stream", "segment stream", "stream struct"},
              <<Sure(Drop("stream")), Sure(Drop("segment stream")), Sure(Free("stream struct"))>>)

releaseArrowArray ==
    Procedure({"array", "array struct"},
              <<Sure(Drop("array")), Sure(Free("array struct"))>>)

releaseArrowSchema == Procedure({"schema"}, <<Sure(Drop("schema"))>>)

\* An element of a block of arrays is released and never freed.
releaseArrowArrayAt(i) == Procedure({ArrayAt[i]}, <<Sure(Drop(ArrayAt[i]))>>)

(***************************************************************************)
(* Chunk readers (chunk_reader_jni.cpp).                                   *)
(***************************************************************************)
getChunkIndices ==
    JavaFunction({"chunk_reader"},
                 JavaCall(loon_get_chunk_indices, <<Elements>>).steps
                 \o Frees(<<"chunk_indices">>), {})

getChunk ==
    JavaCallInto(WithoutSchema(loon_get_chunk), << >>, <<"array struct">>,
                 <<Drop("array"), Free("array struct")>>)

getChunks == JavaCall(WithoutSchema(loon_get_chunks), <<Elements>>)

chunkReaderDestroy == JavaCall(loon_chunk_reader_destroy, << >>)

(***************************************************************************)
(* Readers (reader_jni.cpp), with the C functions that only these use.     *)
(***************************************************************************)
loon_record_batch_reader_new ==
    Function({"reader"}, <<Checked, New("batch reader")>>, {"batch reader"})

\* At the end of the stream both release fields are null.
loon_record_batch_reader_read_next ==
    Function({"batch reader"},
             <<Checked, Done(<< >>), Alloc("array", << >>), Sure(Make("schema"))>>,
             {"array", "schema"})

loon_record_batch_reader_destroy ==
    Procedure({"batch reader"}, <<Sure(Free("batch reader"))>>)

readerNew == JavaCall(loon_reader_new, <<ConvertFromJavaStringArray>>)

recordBatchReaderNew == JavaCall(loon_record_batch_reader_new, <<Chars>>)

\* The structures are the caller's.
recordBatchReaderReadNext == JavaCall(loon_record_batch_reader_read_next, << >>)

recordBatchReaderDestroy == JavaCall(loon_record_batch_reader_destroy, << >>)

getChunkReader == JavaCall(loon_get_chunk_reader, <<ConvertFromJavaStringArray>>)

take == JavaCall(WithoutSchema(loon_take), <<Elements, ConvertFromJavaStringArray>>)

readerDestroy == JavaCall(loon_reader_destroy, << >>)

(***************************************************************************)
(* Manifests and transactions (manifest_jni.cpp).                          *)
(***************************************************************************)
ManifestOfNewTransaction ==
    JavaFunction({"properties"},
        <<Sure(Make(Chars))>>
        \o Calling(loon_transaction_begin,
                   <<Free(Chars)>> \o ThrowJavaExceptionFromFFIResult)
        \o Calling(loon_transaction_get_read_version,
                   <<Free("transaction"), Free(Chars)>> \o ThrowJavaExceptionFromFFIResult)
        \o Calling(loon_transaction_get_manifest,
                   <<Free(Chars), Free("transaction")>> \o ThrowJavaExceptionFromFFIResult)
        \o Frees(<<Chars, "transaction">>),
        Range(ManifestParts))

getLatestColumnGroups == ManifestOfNewTransaction

getColumnGroupsWithVersion == ManifestOfNewTransaction

transactionBegin == JavaCall(loon_transaction_begin, <<Chars>>)

transactionGetColumnGroups == JavaCall(loon_transaction_get_manifest, << >>)

transactionAppendFiles == JavaCall(loon_transaction_append_files, << >>)

\* One group after the other; the groups added before one that fails stay.
transactionAddColumnGroups ==
    JavaFunction({"transaction", "column_groups"},
        <<Args(<< >>)>>
        \o Calling(loon_transaction_add_column_group, ThrowJavaExceptionFromFFIResult)
        \o Calling(loon_transaction_add_column_group, ThrowJavaExceptionFromFFIResult), {})

transactionCommit == JavaCall(loon_transaction_commit, << >>)

transactionDropColumn == JavaCall(loon_transaction_drop_column, <<Chars>>)

transactionAbort == JavaCall(loon_transaction_destroy, << >>)

transactionDestroy == JavaCall(loon_transaction_destroy, << >>)

(***************************************************************************)
(* Properties (properties_jni.cpp).  The structure is allocated on its own *)
(* and freeProperties frees what is in it.                                 *)
(***************************************************************************)
allocateProperties ==
    JavaFunction({}, <<Alloc("properties struct", << >>)>>, {"properties struct"})

createProperties ==
    [JavaCall(loon_properties_create, << >>) EXCEPT
       !.uses = {"properties struct"}, !.needs = {"properties struct"}]

freeProperties == JavaCall(loon_properties_free, << >>)

(***************************************************************************)
(* Writers (writer_jni.cpp) and packed writers (v2_packed_writer_jni.cpp,  *)
(* v2_column_groups_jni.cpp).                                              *)
(***************************************************************************)
writerNew == JavaCall(loon_writer_new, <<Chars>>)

writerWrite == JavaCall(loon_writer_write, << >>)

writerFlush == JavaCall(loon_writer_flush, << >>)

writerClose == JavaCall(loon_writer_close, << >>)

writerDestroy == JavaCall(loon_writer_destroy, << >>)

\* Each path is copied and given back before the next one is looked at.
ReadJString == <<Sure(Make(Chars)), Sure(Free(Chars)), Args(<< >>)>>

packedWriterNew ==
    LET call == JavaCall(loon_packed_writer_new, <<Elements>>)
    IN  [call EXCEPT !.steps = <<Args(<< >>)>> \o ReadJString \o @]

packedWriterWrite == JavaCall(loon_packed_writer_write, << >>)

packedWriterClose == JavaCall(loon_packed_writer_close, << >>)

packedWriterDestroy == JavaCall(loon_packed_writer_destroy, << >>)

createFromGroups ==
    JavaFunction({}, <<Args(<< >>)>> \o ReadJString \o BuildLoonColumnGroups,
                 ColumnGroupsObjects)

destroyColumnGroups == JavaCall(loon_column_groups_destroy, << >>)

(***************************************************************************)
(* Segment writers and readers (segment_writer_jni.cpp,                    *)
(* segment_reader_jni.cpp).  "lob paths": one string per LOB column.       *)
(***************************************************************************)
BuildLobConfigs == "lob paths"

segmentWriterNew == JavaCall(loon_segment_writer_new, <<Chars, BuildLobConfigs>>)

segmentWriterWrite == JavaCall(loon_segment_writer_write, << >>)

segmentWriterFlush == JavaCall(loon_segment_writer_flush, << >>)

\* The LOB files are copied into the arrays of the caller and freed.
segmentWriterClose ==
    JavaFunction({"segment_writer"},
        JavaCall(loon_segment_writer_close, << >>).steps
        \o loon_segment_write_output_free.steps,
        ColumnGroupsObjects)

segmentWriterDestroy == JavaCall(loon_segment_writer_destroy, << >>)

segmentReaderOpen ==
    JavaCall(loon_segment_reader_open, <<Chars, ConvertFromJavaStringArray, BuildLobConfigs>>)

StreamCall(f, borrowed) ==
    JavaCallInto(f, borrowed, <<"stream struct">>, <<Free("stream struct")>>)

segmentReaderGetStream == StreamCall(loon_segment_reader_get_stream, << >>)

segmentReaderTake ==
    LET call == StreamCall(loon_segment_reader_take, <<Elements>>)
    IN  [call EXCEPT !.steps = <<Args(<< >>)>> \o @]

segmentReaderGetFilteredStream == StreamCall(loon_segment_reader_get_filtered_stream, <<Chars>>)

segmentReaderGetChunkReader ==
    JavaCall(loon_segment_reader_get_chunk_reader, <<ConvertFromJavaStringArray>>)

segmentReaderDestroy == JavaCall(loon_segment_reader_destroy, << >>)
=============================================================================

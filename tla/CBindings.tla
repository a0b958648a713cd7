------------------------------ MODULE CBindings ------------------------------
(***************************************************************************)
(* The functions of the C interface (cpp/src/ffi), each with the steps at  *)
(* which it can fail, the clean-up of each, and the objects it takes from  *)
(* the caller and gives to it.  Steps in a row that fail alike are one     *)
(* step.  Loops run over two elements, so that one can fail after another  *)
(* has succeeded.  Null checks of a destroy function are left out: callers *)
(* pass what they hold.                                                    *)
(***************************************************************************)
EXTENDS Ownership

Checked == Check(<< >>)

\* Column groups are copied into C++ objects (bridge.cpp): a null string in
\* one of them throws, a null group is an error.
import_column_group == Throws
column_groups_import == [import_column_group EXCEPT !.fails = @ \cup {"error"}]

(***************************************************************************)
(* Arrays of Arrow arrays (reader_c.cpp): one block and, in it, structures *)
(* with a release callback each.                                           *)
(***************************************************************************)
ArrayAt == <<"array 1", "array 2">>

FreeChunkArrays(n) == DropAll(SubSeq(ArrayAt, 1, n)) \o <<Free("arrays")>>

\* Mutant: the block is freed without releasing the arrays in it.
loon_free_chunk_arrays_BlockOnly ==
    Procedure({"arrays"}, <<Sure(Free("arrays"))>>)

loon_free_chunk_arrays ==
    Procedure({"arrays", "array 1", "array 2"},
              [i \in 1..3 |-> Sure(FreeChunkArrays(2)[i])])

\* Mutant: a failed export frees the block and not the arrays in it.
ExportArrays_BlockOnly ==
    <<Alloc("arrays", << >>)>>
    \o [i \in 1..2 |-> Alloc(ArrayAt[i], <<Free("arrays")>>)]

\* The batches are exported one by one; the i-th failure frees the others.
ExportArrays ==
    <<Alloc("arrays", << >>)>>
    \o [i \in 1..2 |-> Alloc(ArrayAt[i], FreeChunkArrays(i - 1))]

(***************************************************************************)
(* Readers of chunks (reader_c.cpp).                                       *)
(***************************************************************************)
loon_get_chunk_indices ==
    Function({"chunk_reader"}, <<Checked, Alloc("chunk_indices", << >>)>>,
             {"chunk_indices"})

loon_get_number_of_chunks == Function({"chunk_reader"}, <<Checked>>, {})

loon_get_chunk ==
    Function({"chunk_reader"},
             <<Checked, Alloc("array", << >>), Alloc("schema", <<Drop("array")>>)>>,
             {"array", "schema"})

FreeChunkMetadatas ==
    <<Drop("sizes"), Drop("rows"), Free("chunk_metadatas")>>

loon_free_chunk_metadatas ==
    Procedure({"chunk_metadatas", "sizes", "rows"},
              [i \in 1..3 |-> Sure(FreeChunkMetadatas[i])])

\* Every error frees the structure; the catch block does not.
loon_get_chunk_metadatas ==
    Function({"chunk_reader"},
             <<Checked, Alloc("chunk_metadatas", << >>),
               Check(FreeChunkMetadatas), Alloc("sizes", FreeChunkMetadatas),
               Check(FreeChunkMetadatas), Alloc("rows", FreeChunkMetadatas)>>,
             {"chunk_metadatas", "sizes", "rows"})

loon_get_chunks ==
    Function({"chunk_reader"},
             <<Checked>> \o ExportArrays \o <<Alloc("schema", FreeChunkArrays(2))>>,
             {"arrays", "array 1", "array 2", "schema"})

loon_chunk_reader_destroy == Procedure({"chunk_reader"}, <<Sure(Free("chunk_reader"))>>)

(***************************************************************************)
(* Readers (reader_c.cpp).  A structure that has been imported is gone     *)
(* whatever happens next; the checks before leave it with the caller.      *)
(***************************************************************************)
loon_reader_new ==
    Function({"column_groups", "schema", "properties"},
             <<Checked, Import("schema", << >>), column_groups_import, Sure(Make("reader"))>>,
             {"reader"})

loon_reader_set_keyretriever == Procedure({"reader"}, << >>)

loon_get_record_batch_reader ==
    Function({"reader"}, <<Checked, Alloc("stream", << >>)>>, {"stream"})

loon_get_chunk_reader ==
    Function({"reader"}, <<Checked, Sure(Make("chunk_reader"))>>, {"chunk_reader"})

loon_take ==
    Function({"reader"},
             <<Checked>> \o ExportArrays \o <<Alloc("schema", FreeChunkArrays(2))>>,
             {"arrays", "array 1", "array 2", "schema"})

loon_reader_destroy == Procedure({"reader"}, <<Sure(Free("reader"))>>)

(***************************************************************************)
(* Column groups (bridge.cpp, column_groups_c.cpp).  `p' names the parts:  *)
(* those of a LoonColumnGroups of its own, or of the one inside a          *)
(* manifest.  The arrays of columns and of files are filled before the     *)
(* structure points to them, so an exception in between misses them.       *)
(***************************************************************************)
GroupParts ==
    [array |-> "group array", columns |-> "columns", format |-> "format",
     files |-> "files"]

ManifestGroupParts ==
    [array |-> "manifest group array", columns |-> "manifest columns",
     format |-> "manifest format", files |-> "manifest files"]

Published(p) == <<p.columns, p.format, p.files, p.array>>

destroy_column_groups_contents(p) == DropAll(Published(p))

export_column_group_file == New("file strings")

export_column_group(p) ==
    <<New("unfilled columns"), New("column names"),
      Sure(Free("unfilled columns")), Sure(Free("column names")), Sure(Make(p.columns)),
      New(p.format),
      New("unfilled files"), export_column_group_file,
      Sure(Free("unfilled files")), Sure(Free("file strings")), Sure(Make(p.files))>>

column_groups_export_internal(p) == <<New(p.array)>> \o export_column_group(p)

ColumnGroupsObjects == {"column_groups"} \cup Range(Published(GroupParts))

FreeColumnGroups == destroy_column_groups_contents(GroupParts) \o <<Drop("column_groups")>>

column_groups_export ==
    Catching(<<New("column_groups")>> \o column_groups_export_internal(GroupParts),
             FreeColumnGroups)

loon_column_groups_destroy ==
    Procedure(ColumnGroupsObjects, [i \in DOMAIN FreeColumnGroups |-> Sure(FreeColumnGroups[i])])

loon_column_groups_create ==
    Function({}, <<Checked>> \o column_groups_export, ColumnGroupsObjects)

loon_column_groups_debug_string ==
    [Function({"column_groups"}, <<Sure(Make("text"))>>, {"text"}) EXCEPT !.reports = FALSE]

\* The packed writer's column groups: everything is published as it is made.
BuildLoonColumnGroups ==
    <<Throws, New("column_groups")>>
    \o Catching(<<New(GroupParts.array), Throws, New(GroupParts.columns),
                  New(GroupParts.format), New(GroupParts.files), Throws>>,
                FreeColumnGroups)

(***************************************************************************)
(* Manifests (bridge.cpp, manifest_c.cpp).                                 *)
(***************************************************************************)
ManifestParts ==
    Published(ManifestGroupParts) \o <<"delta_logs", "stats", "lob_files", "indexes", "manifest">>

FreeManifest == DropAll(ManifestParts)

\* These arrays are assigned before they are filled.
ExportedLogs == <<New("delta_logs"), New("stats"), New("lob_files"), New("indexes")>>

manifest_export ==
    Catching(<<New("manifest")>> \o column_groups_export_internal(ManifestGroupParts)
             \o ExportedLogs,
             FreeManifest)

loon_manifest_destroy ==
    Procedure(Range(ManifestParts), [i \in DOMAIN FreeManifest |-> Sure(FreeManifest[i])])

loon_manifest_debug_string ==
    [Function({"manifest"}, <<Sure(Make("text"))>>, {"text"}) EXCEPT !.reports = FALSE]

loon_transaction_begin ==
    Function({"properties"}, <<Checked, Sure(Make("transaction"))>>, {"transaction"})

\* A commit leaves the handle with the caller, whether or not it succeeds.
loon_transaction_commit == Function({"transaction"}, <<Checked>>, {})

loon_transaction_destroy == Procedure({"transaction"}, <<Sure(Free("transaction"))>>)

loon_transaction_get_manifest ==
    Function({"transaction"}, <<Checked>> \o manifest_export, Range(ManifestParts))

loon_transaction_get_read_version == Function({"transaction"}, <<Checked>>, {})

\* The updates copy what they are given.
loon_transaction_drop_column == Function({"transaction"}, <<Checked>>, {})

loon_transaction_add_column_group ==
    Function({"transaction", "column_groups"}, <<Args(<< >>), column_groups_import>>, {})

loon_transaction_append_files ==
    Function({"transaction", "column_groups"}, <<Args(<< >>), column_groups_import>>, {})

loon_transaction_add_delta_log == Function({"transaction"}, <<Checked>>, {})

loon_transaction_update_stat == Function({"transaction"}, <<Checked>>, {})

loon_transaction_add_index_info == Function({"transaction"}, <<Checked>>, {})

loon_transaction_drop_index == Function({"transaction"}, <<Checked>>, {})

loon_transaction_add_lob_file == Function({"transaction"}, <<Checked>>, {})

(***************************************************************************)
(* External tables (exttable_c.cpp).  The path is duplicated after the     *)
(* commit and unchecked.                                                   *)
(***************************************************************************)
loon_exttable_explore ==
    Function({"properties"}, <<Checked, Sure(Make("text"))>>, {"text"})

loon_exttable_get_file_info == Function({"properties"}, <<Checked>>, {})

loon_exttable_read_manifest ==
    Function({"properties"}, <<Checked>> \o manifest_export, Range(ManifestParts))

(***************************************************************************)
(* Results and strings (result_c.cpp, writer_c.cpp).                       *)
(***************************************************************************)
loon_ffi_free_result == Procedure({Message}, <<Sure(Free(Message))>>)

loon_free_cstr == Procedure({"text"}, <<Sure(Free("text"))>>)

loon_free_chunk_indices == Procedure({"chunk_indices"}, <<Sure(Free("chunk_indices"))>>)

(***************************************************************************)
(* Properties (properties_c.cpp).  The number of entries is set before the *)
(* entries are, and an entry is initialised when the loop comes to it: a   *)
(* rejected entry frees the entries behind it too.                         *)
(***************************************************************************)
Entry == <<<<"key 1", "value 1">>, <<"key 2", "value 2">>>>

EntriesFrom(i) == IF i = 1 THEN Entry[1] \o Entry[2] ELSE IF i = 2 THEN Entry[2] ELSE << >>

FreeProperties == DropAll(EntriesFrom(1)) \o <<Free("properties")>>

\* The entries behind the i-th hold whatever malloc left there.
FreeUnfilled(i) == FreeAll(EntriesFrom(i + 1)) \o FreeProperties

loon_properties_create ==
    Function({},
             <<Checked, Alloc("properties", << >>),
               Args(FreeUnfilled(1)), Sure(Make("key 1")),
               Args(FreeUnfilled(1)), Sure(Make("value 1")),
               Args(FreeUnfilled(2)), Sure(Make("key 2")),
               Args(FreeUnfilled(2)), Sure(Make("value 2"))>>,
             {"properties"} \cup Range(EntriesFrom(1)))

loon_properties_get == Procedure({"properties"}, << >>)

loon_properties_free ==
    Procedure({"properties"} \cup Range(EntriesFrom(1)),
              [i \in 1..5 |-> Sure(FreeProperties[i])])

(***************************************************************************)
(* Writers (writer_c.cpp).  A failed import calls the release callback of  *)
(* the array it has already moved.                                         *)
(***************************************************************************)
loon_writer_new ==
    Function({"schema", "properties"},
             <<Checked, Import("schema", << >>), Checked, Sure(Make("writer"))>>, {"writer"})

loon_writer_write ==
    Function({"writer", "array"},
             <<Checked, Import("array", <<Free("array")>>), Checked>>, {})

loon_writer_flush == Function({"writer"}, <<Checked>>, {})

loon_writer_close ==
    Function({"writer"}, <<Checked>> \o column_groups_export, ColumnGroupsObjects)

loon_writer_destroy == Procedure({"writer"}, <<Sure(Free("writer"))>>)

(***************************************************************************)
(* Packed writers (v2_packed_writer_c.cpp): the same, with the test.       *)
(***************************************************************************)
loon_packed_writer_new ==
    Function({"schema", "properties"},
             <<Checked, Import("schema", << >>), Checked, Sure(Make("packed_writer"))>>,
             {"packed_writer"})

\* Mutant: the release callback is called without a look at it.
loon_packed_writer_write_Untested ==
    Function({"packed_writer", "array"},
             <<Args(<< >>), Import("array", <<Free("array")>>)>>
             \o Catching(<<Check(<<Drop("array")>>)>>, <<Drop("array")>>), {})

loon_packed_writer_write ==
    Function({"packed_writer", "array"},
             <<Args(<< >>), Import("array", <<Drop("array")>>)>>
             \o Catching(<<Check(<<Drop("array")>>)>>, <<Drop("array")>>), {})

loon_packed_writer_close == Function({"packed_writer"}, <<Checked>>, {})

loon_packed_writer_destroy ==
    Procedure({"packed_writer"}, <<Sure(Free("packed_writer"))>>)

(***************************************************************************)
(* Segment writers (segment_writer_c.cpp).  What loon_segment_writer_close *)
(* gives has two owners to be: the column groups and the LOB files.        *)
(***************************************************************************)
loon_segment_writer_new ==
    Function({"schema", "properties"},
             <<Checked, Import("schema", << >>), Checked, Sure(Make("segment_writer"))>>,
             {"segment_writer"})

loon_segment_writer_write ==
    Function({"segment_writer", "array"},
             <<Checked, Import("array", <<Free("array")>>), Checked>>, {})

loon_segment_writer_flush == Function({"segment_writer"}, <<Checked>>, {})

loon_segment_writer_close ==
    Function({"segment_writer"},
             <<Checked>> \o column_groups_export
             \o <<Sure(Make("output files")), Sure(Make("output paths"))>>,
             ColumnGroupsObjects \cup {"output files", "output paths"})

loon_segment_write_output_free ==
    Procedure({"output files", "output paths"},
              <<Sure(Free("output paths")), Sure(Free("output files"))>>)

loon_segment_writer_destroy ==
    Procedure({"segment_writer"}, <<Sure(Free("segment_writer"))>>)

(***************************************************************************)
(* Segment readers (segment_reader_c.cpp).  The plain stream does not own  *)
(* the reader it reads with; the other objects own what they need.         *)
(***************************************************************************)
loon_segment_reader_open ==
    Function({"schema", "properties"},
             <<Checked, Import("schema", << >>), Checked, Sure(Make("segment_reader"))>>,
             {"segment_reader"})

loon_segment_reader_get_stream ==
    Within(Function({"segment_reader"}, <<Checked, Alloc("segment stream", << >>)>>,
                    {"segment stream"}),
           "segment stream", "segment_reader")

loon_segment_reader_take ==
    Function({"segment_reader"}, <<Checked, Alloc("stream", << >>)>>, {"stream"})

loon_segment_reader_get_filtered_stream ==
    Function({"segment_reader"}, <<Checked, Alloc("stream", << >>)>>, {"stream"})

loon_segment_reader_get_chunk_reader ==
    Function({"segment_reader"}, <<Checked, Sure(Make("chunk_reader"))>>, {"chunk_reader"})

loon_segment_reader_destroy ==
    Procedure({"segment_reader"}, <<Sure(Free("segment_reader"))>>)

(***************************************************************************)
(* The pools of the process (threadpool_c.cpp).  Users of the thread pool  *)
(* share it, so it may be released under them.                             *)
(***************************************************************************)
loon_thread_pool_singleton ==
    Function({}, <<Checked, Sure(Make("thread pool"))>>, {"thread pool"})

loon_thread_pool_singleton_release ==
    Procedure({"thread pool"}, <<Sure(Drop("thread pool"))>>)

loon_configure_storage_runtime == Function({}, <<Checked>>, {})

(***************************************************************************)
(* File systems (filesystem_c.cpp, filesystem_metrics_c.cpp).  A handle    *)
(* shares its object with the handles opened from it.                      *)
(***************************************************************************)
loon_filesystem_get ==
    Function({"properties"}, <<Checked, Sure(Make("filesystem"))>>, {"filesystem"})

\* The cache of the process forgets its file systems; handles keep theirs.
loon_close_filesystems == Procedure({}, << >>)

loon_filesystem_destroy == Procedure({"filesystem"}, <<Sure(Free("filesystem"))>>)

loon_filesystem_open_writer ==
    Function({"filesystem"}, <<Checked, Sure(Make("file_writer"))>>, {"file_writer"})

loon_filesystem_writer_write == Function({"file_writer"}, <<Checked>>, {})

loon_filesystem_writer_flush == Function({"file_writer"}, <<Checked>>, {})

loon_filesystem_writer_close == Function({"file_writer"}, <<Checked>>, {})

loon_filesystem_writer_destroy == Procedure({"file_writer"}, <<Sure(Free("file_writer"))>>)

loon_filesystem_get_file_info == Function({"filesystem"}, <<Checked>>, {})

loon_filesystem_read_file == Function({"filesystem"}, <<Checked>>, {})

loon_filesystem_open_reader ==
    Function({"filesystem"}, <<Checked, Sure(Make("file_reader"))>>, {"file_reader"})

loon_filesystem_reader_readat == Function({"file_reader"}, <<Checked>>, {})

loon_filesystem_reader_supports_async == Function({"file_reader"}, <<Checked>>, {})

loon_filesystem_reader_close == Function({"file_reader"}, <<Checked>>, {})

loon_filesystem_reader_destroy == Procedure({"file_reader"}, <<Sure(Free("file_reader"))>>)

\* Two pairs of metadata; the count is set when both are there.
MetaAt == <<"meta 1", "meta 2">>

FreeMeta(n) == DropAll(SubSeq(MetaAt, 1, n)) \o <<Free("metas")>>

\* Closing the file comes last: an error then keeps the copied metadata, an
\* exception frees it.
loon_filesystem_get_file_stats ==
    Function({"filesystem"},
             <<Checked, Alloc("metas", << >>), Alloc("meta 1", FreeMeta(1)),
               Alloc("meta 2", FreeMeta(2))>>
             \o Catching(<<Check(<< >>)>>, FreeMeta(2)),
             {"metas", "meta 1", "meta 2"})

loon_filesystem_free_meta_array ==
    Procedure({"metas", "meta 1", "meta 2"}, [i \in 1..3 |-> Sure(FreeMeta(2)[i])])

loon_filesystem_read_file_all ==
    Function({"filesystem"},
             <<Checked, Alloc("data", << >>)>>
             \o Catching(<<Check(<<Free("data")>>)>>, <<Drop("data")>>),
             {"data"})

loon_filesystem_write_file == Function({"filesystem"}, <<Checked>>, {})

loon_filesystem_delete_file == Function({"filesystem"}, <<Checked>>, {})

loon_filesystem_get_path_info == Function({"filesystem"}, <<Checked>>, {})

loon_filesystem_create_dir == Function({"filesystem"}, <<Checked>>, {})

\* The entries up to the one that fails are freed, whose own path is null.
PathAt == <<"path 1", "path 2">>

FreeFileInfoList(n) == DropAll(SubSeq(PathAt, 1, n)) \o <<Free("entries")>>

loon_filesystem_free_file_info_list ==
    Procedure({"entries", "path 1", "path 2"}, [i \in 1..3 |-> Sure(FreeFileInfoList(2)[i])])

loon_filesystem_list_dir ==
    Function({"filesystem"},
             <<Checked, Done(<< >>), Alloc("entries", << >>)>>
             \o [i \in 1..2 |-> Alloc(PathAt[i], FreeFileInfoList(i - 1))],
             {"entries", "path 1", "path 2"})

loon_filesystem_get_metrics == Function({"filesystem"}, <<Checked>>, {})

loon_filesystem_reset_metrics == Function({"filesystem"}, <<Checked>>, {})
=============================================================================

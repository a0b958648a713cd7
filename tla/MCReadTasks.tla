---------------------------- MODULE MCReadTasks ----------------------------
(* Small tables: one or two files of every format, whole or cut to a range, *)
(* row groups of different sizes, empty ones and ones without a live row,   *)
(* one or two column groups, and files that contradict their metadata.      *)
EXTENDS ReadTasks

File(format, groups, start, end) ==
    [format |-> format, groups |-> groups, kv |-> <<>>, deletes |-> <<>>, deleted |-> {},
     record_count |-> SumSeq(groups), chunkRows |-> 2, start |-> start, end |-> end,
     memory |-> [j \in 1 .. Len(groups) |-> 3 * groups[j] + 2], fields |-> <<"b", "a", "z">>, weights |-> <<3, 4, 0>>,
     estimated |-> TRUE]

\* A file whose statistics do not allow estimates.
Weighing(file, fields, weights) == [file EXCEPT !.fields = fields, !.weights = weights]
MCGroupColumns == <<"a", "b", "c">>

\* A file of Lance or Paimon with deleted rows.
Deleting(format, groups, deletes, start, end) ==
    [File(format, groups, start, end) EXCEPT !.deletes = deletes, !.deleted = ToSet(deletes),
                                             !.record_count = @ - Len(deletes)]

\* A data file of Iceberg whose delete files also delete rows of another one.
DeleteFile(type, rows) == [type |-> type, rows |-> rows]
Iceberg(groups, positions, start, end) ==
    [File("iceberg", groups, start, end) EXCEPT
        !.deleted = positions,
        !.deletes = <<DeleteFile("position", {<<"this", p>> : p \in positions} \cup {<<"that", 0>>}),
                      DeleteFile("puffin", {<<"this", 1>>})>>]

MCLayouts == {
    << <<File("parquet", <<1, 2>>, 0, 3), File("parquet", <<1>>, 0, 1)>> >>,
    << <<File("parquet", <<2, 1, 2>>, 1, 4)>> >>,
    << <<Weighing(File("parquet", <<1, 1, 1, 1>>, 0, 4), <<"a", "b">>, <<0, 0>>)>> >>,
    << <<File("parquet", <<1, 0, 1, 1>>, 0, 3)>>, <<File("vortex", <<2>>, 1, 2), File("vortex", <<1, 2>>, 1, 3)>> >>,
    << <<File("vortex", <<3, 2>>, 0, 5)>> >>,
    << <<File("vortex", <<3, 1>>, 1, 4), File("vortex", <<2, 1>>, 0, 1)>>,
       <<Deleting("lance", <<7>>, <<0, 2>>, 1, 5)>> >>,
    << <<[Deleting("lance", <<6>>, <<1, 2>>, 0, 4) EXCEPT !.estimated = FALSE]>> >>,
    << <<Deleting("lance", <<5>>, <<>>, 0, 5), Weighing(Deleting("lance", <<1>>, <<>>, 0, 1), <<"b">>, <<1>>)>> >>,
    << <<Weighing(File("vortex", <<2>>, 0, 2), <<"a", "b">>, <<9, 9>>)>> >>,
    << <<Weighing(File("parquet", <<1>>, 0, 1), <<"a", "a">>, <<1, 1>>)>> >>,
    << <<Iceberg(<<2, 2, 1, 2>>, {1, 2, 3}, 0, 4)>> >>,
    << <<Deleting("paimon_parquet", <<2, 2, 1>>, <<2, 3>>, 0, 3)>>, <<Iceberg(<<3>>, {1}, 0, 2), Iceberg(<<1>>, {}, 0, 1)>> >>,
    << <<Deleting("paimon_vortex", <<3, 2, 1>>, <<0, 3>>, 1, 4)>> >>,
    << <<Deleting("paimon_split", <<2, 3, 1>>, <<1>>, 0, 5)>> >>,
    << <<[Deleting("paimon_split", <<2, 2>>, <<>>, 0, 3) EXCEPT !.record_count = 3]>> >>,
    << <<[Deleting("paimon_split", <<2, 1>>, <<>>, 0, 3) EXCEPT !.record_count = 4]>> >>,
    << <<[File("parquet", <<2, 1>>, 0, 3) EXCEPT !.kv = <<3>>]>>, <<[File("parquet", <<3>>, 0, 3) EXCEPT !.kv = <<3>>]>> >>,
    << <<File("iceberg", <<1>>, 0, 1), [File("iceberg", <<2>>, 0, 2) EXCEPT !.deletes = <<DeleteFile("equality", {})>>]>> >>,
    << <<[Deleting("paimon_parquet", <<2, 1>>, <<1>>, 0, 2) EXCEPT !.record_count = 3]>> >> }

=============================================================================

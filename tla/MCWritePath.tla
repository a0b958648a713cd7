----------------------------- MODULE MCWritePath -----------------------------
(* Three columns, the first one large and, in a segment, the last one LOB; a *)
(* segment in a Parquet and a Vortex column group, an api::Writer with all  *)
(* policies, and batches of up to three rows.  The pattern of the second    *)
(* policy overlaps the one before it; the third one begins with a group     *)
(* that has no column.                                                      *)
EXTENDS WritePath

MCColumnBytes == <<2, 1, 1>>

MCPolicies(a) ==
    {SchemaBasedColumnGroupPolicy("vortex", <<{1, 3}, {3}>>, <<"parquet", "vortex">>)}
    \cup IF a # "writer" THEN {}
         ELSE {SingleColumnGroupPolicy("parquet"),
               SizeBasedColumnGroupPolicy("parquet", 2, 2),
               SchemaBasedColumnGroupPolicy("vortex", <<{1}, {2}>>, <<"parquet">>)}

MCIndices == <<<<1>>, <<2, 3>>>>
MCBatches == {<<>>, <<"small">>, <<"large">>, <<"large", "small">>, <<"large", "large", "large">>}

==============================================================================

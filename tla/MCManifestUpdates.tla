------------------------- MODULE MCManifestUpdates -------------------------
(***************************************************************************)
(* Two columns, a and b, in one group or in two; files of one or two rows. *)
(***************************************************************************)
EXTENDS ManifestUpdates

CONSTANTS a, b,           \* columns
          f1, f2          \* data files

G(cols, files) == [columns |-> cols, format |-> "parquet", files |-> files]
X(id, c, type) == [id |-> id, column |-> c, type |-> type]

MCFileRows == (f1 :> 1) @@ (f2 :> 2)
MCGroups   == {G({b}, <<f1>>), G({b}, <<f2>>)}
MCBatches  == {<<G({a}, <<f1>>)>>, <<G({a}, <<f2>>)>>,
               <<G({a}, <<f1>>), G({b}, <<f1>>)>>,
               <<G({a}, << >>), G({b}, <<f2>>)>>,
               <<G({a, b}, <<f1>>)>>, <<G({a, b}, << >>)>>, << >>}
MCIndexes  == {X(0, a, "hnsw"), X(1, a, "hnsw"), X(1, b, "hnsw")}
MCOthers   == {[kind |-> "delta", key |-> "d", value |-> 0],
               [kind |-> "lob", key |-> "l", value |-> 0],
               [kind |-> "stat", key |-> "s", value |-> 1]}
=============================================================================

------------------------------- MODULE MCScan -------------------------------
(* Every way to cut five rows into row groups in one or two column groups,  *)
(* three rows in three, and no rows; and column groups that do not have the *)
(* same rows.                                                               *)
EXTENDS Scan

\* Where the row groups end when n rows are cut.
Cuts(n) == {SetToSortSeq(S \cup ({n} \ {0}), <) : S \in SUBSET (1 .. n - 1)}

MCTables == [1 .. 1 -> Cuts(5)] \cup [1 .. 2 -> Cuts(5)] \cup [1 .. 3 -> Cuts(3)]
            \cup [1 .. 2 -> Cuts(0)] \cup [1 .. 2 -> Cuts(0) \cup Cuts(2) \cup Cuts(3)]

\* The files that a projection needs, by the number of their path, in the order
\* of their names.
MCOrders == {<<1>>, <<2>>, <<1, 2>>, <<2, 1>>, <<1, 2, 3>>, <<2, 3>>, <<1, 3>>, <<3, 1, 2>>}

MCFilters == {<<>>, <<3>>, <<1, 2, 5>>}

=============================================================================

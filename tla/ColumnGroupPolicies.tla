------------------------- MODULE ColumnGroupPolicies -------------------------
(***************************************************************************)
(* How a ColumnGroupPolicy (writer.cpp) splits the columns of a schema     *)
(* into column groups.  A column is its position in the schema; a pattern  *)
(* of the schema-based policy is the set of the columns whose name it      *)
(* matches.  A group is the sequence of its columns and its format.        *)
(***************************************************************************)
EXTENDS Integers, Sequences, SequencesExt

CONSTANT ColumnBytes  \* the bytes of a row in every column of the schema

ASSUME ColumnBytesAssumption ==
    ColumnBytes # <<>> /\ \A c \in DOMAIN ColumnBytes : ColumnBytes[c] \in Nat \ {0}

Schema == [c \in DOMAIN ColumnBytes |-> c]

Group(columns, format) == [columns |-> columns, format |-> format]

\* The policies and what their classes keep.
SingleColumnGroupPolicy(format) == [policy |-> "single", default |-> format]

SchemaBasedColumnGroupPolicy(format, patterns, formats) ==
    [policy |-> "schema_based", default |-> format, patterns |-> patterns, formats |-> formats]

SizeBasedColumnGroupPolicy(format, maxAvg, maxColumns) ==
    [policy |-> "size_based", default |-> format, maxAvg |-> maxAvg, maxColumns |-> maxColumns]

\* A schema-based policy has a format for every pattern, or none at all.
create_column_group_policy(p) ==
    p.policy = "schema_based" => p.formats = <<>> \/ Len(p.formats) = Len(p.patterns)

requires_sample(p) == p.policy = "size_based"

\* SingleColumnGroupPolicy::get_column_groups
SingleGroups(p) == <<Group(Schema, p.default)>>

\* Mutant: a column goes on to the patterns behind the first that matches.
Matches_All(p, c, j) ==
    IF j \in DOMAIN p.patterns THEN c \in p.patterns[j]
    ELSE \A i \in DOMAIN p.patterns : c \notin p.patterns[i]

\* Column c belongs to the j-th pattern: the first one that matches it, or
\* the group behind all patterns.
Matches(p, c, j) ==
    /\ \A i \in 1 .. j - 1 : c \notin p.patterns[i]
    /\ j \in DOMAIN p.patterns => c \in p.patterns[j]

FormatOf(p, j) ==
    IF p.formats = <<>> \/ j \notin DOMAIN p.patterns THEN p.default ELSE p.formats[j]

\* SchemaBasedColumnGroupPolicy::get_column_groups, without the patterns
\* that got no column.
SchemaBasedGroups(p) ==
    SelectSeq([j \in 1 .. Len(p.patterns) + 1 |->
                  Group(SelectSeq(Schema, LAMBDA c : Matches(p, c, j)), FormatOf(p, j))],
              LAMBDA group : group.columns # <<>>)

\* SizeBasedColumnGroupPolicy::sample: the average size of a row in a column.
\* All rows of a column have the same size here.
Sampled(c) == ColumnBytes[c]

\* SizeBasedColumnGroupPolicy::get_column_groups.  A column that is too large,
\* or too many, ends the group before it, even one that has no column yet.
SizeBasedGroups(p) ==
    LET add(split, c) ==
            IF Sampled(c) < p.maxAvg /\ Len(split.current) < p.maxColumns
            THEN [split EXCEPT !.current = Append(@, c)]
            ELSE [groups |-> Append(split.groups, Group(split.current, p.default)),
                  current |-> <<c>>]
        last == FoldLeft(add, [groups |-> <<>>, current |-> <<>>], Schema)
    IN  last.groups \o (IF last.current = <<>> THEN <<>> ELSE <<Group(last.current, p.default)>>)

get_column_groups(p) ==
    CASE p.policy = "single" -> SingleGroups(p)
      [] p.policy = "schema_based" -> SchemaBasedGroups(p)
      [] p.policy = "size_based" -> SizeBasedGroups(p)

=============================================================================

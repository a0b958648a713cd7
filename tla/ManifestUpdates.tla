-------------------------- MODULE ManifestUpdates --------------------------
(***************************************************************************)
(* What a transaction does to the content of a manifest: the updates it    *)
(* records, and applyUpdates, which a commit runs once per attempt.        *)
(*                                                                         *)
(* Commits of one writer follow each other here; races between writers are *)
(* module Transaction.  An attempt whose manifest could not be written is  *)
(* followed by another attempt on the same manifest with the same updates  *)
(* (OverwriteResolver after a conflict, or a second call of Commit).       *)
(*                                                                         *)
(* A Manifest copies its column groups, but the groups in the updates are  *)
(* objects shared with the caller (shared_ptr).  When the manifest has no  *)
(* groups, applyUpdates takes over those of the first batch of AppendFiles *)
(* and appends the files of later batches to them - in the updates too.    *)
(***************************************************************************)
EXTENDS Integers, Sequences, FiniteSets, TLC, FiniteSetsExt, SequencesExt

CONSTANTS
    Columns,      \* column names
    FileRows,     \* the rows (end_index - start_index) of every data file
    Groups,       \* column groups a caller may pass to AddColumnGroup
    Batches,      \* sequences of column groups it may pass to AppendFiles
    Indexes,      \* index entries it may pass to AddIndexInfo
    Others,       \* delta logs, statistics and LOB files, each [kind, key, value]
    MaxUpdates,   \* BOUND: updates recorded in one transaction
    MaxAttempts,  \* BOUND: attempts of one transaction
    MaxPublished  \* BOUND: manifests published

\* A column group is [columns, format, files].  Column lists hold no column
\* twice, so they are sets here.  An index is [id, column, type].
Ids == {x.id : x \in Indexes}

ASSUME InputAssumption ==
    /\ \A g \in Groups : g.columns \in SUBSET Columns \ {{}} /\ g.files \in Seq(DOMAIN FileRows)
    /\ \A b \in Batches : \A i \in DOMAIN b : b[i].columns \in SUBSET Columns \ {{}}
    /\ \A x \in Indexes : x.column \in Columns /\ x.id \in Nat
    /\ \A x \in Others : x.kind \in {"delta", "stat", "lob"}

VARIABLES
    manifest,   \* read_manifest_: the manifest published last
    recorded,   \* the updates as the caller passed them in
    updates,    \* updates_ as it is now
    resolved,   \* << >>, or <<m>> when an attempt has produced the manifest m
    attempts,   \* attempts so far
    published   \* manifests published so far

vars == <<manifest, recorded, updates, resolved, attempts, published>>

EmptyManifest ==
    [groups |-> << >>, indexes |-> << >>, deltaLogs |-> << >>, lobFiles |-> << >>,
     stats |-> << >>]

NoUpdates ==
    [droppedColumns |-> {}, groups |-> << >>, appended |-> << >>, indexes |-> << >>,
     droppedIndexes |-> {}, deltaLogs |-> << >>, lobFiles |-> << >>, stats |-> << >>]

Size(u) ==
    Len(u.groups) + Len(u.appended) + Len(u.indexes) + Len(u.deltaLogs)
        + Len(u.lobFiles) + Cardinality(u.droppedColumns)
        + Cardinality(u.droppedIndexes) + Cardinality(DOMAIN u.stats)

Init ==
    /\ manifest = EmptyManifest
    /\ recorded = NoUpdates
    /\ updates = NoUpdates
    /\ resolved = << >>
    /\ attempts = 0
    /\ published = 0

----------------------------------------------------------------------------
(* applyUpdates.                                                           *)

ColumnsOf(cgs) == UNION {cgs[i].columns : i \in DOMAIN cgs}

RowsOf(cg) == FoldLeft(LAMBDA n, f : n + FileRows[f], 0, cg.files)

\* Take the columns D out of every group and drop the groups left empty.
DropColumns(cgs, D) ==
    SelectSeq([i \in DOMAIN cgs |-> [cgs[i] EXCEPT !.columns = @ \ D]],
              LAMBDA cg : cg.columns # {})

\* AddColumnGroup is checked against the groups left by DropColumns, and not
\* against the other updates of the transaction.
MayAdd(cgs, cg) ==
    /\ cg.columns \cap ColumnsOf(cgs) = {}
    /\ cgs # << >> => RowsOf(cg) = RowsOf(cgs[1])

\* So is AppendFiles; a manifest without groups takes any batch.
MayAppend(cgs, batch) ==
    cgs # << >> =>
        /\ Len(batch) = Len(cgs)
        /\ \A i \in DOMAIN cgs : /\ batch[i].columns = cgs[i].columns
                                 /\ batch[i].format = cgs[i].format

Accepts(m, u) ==
    LET cgs == DropColumns(m.groups, u.droppedColumns)
    IN  /\ \A i \in DOMAIN u.groups : MayAdd(cgs, u.groups[i])
        /\ \A i \in DOMAIN u.appended : MayAppend(cgs, u.appended[i])

\* Mutant: only the first group of a batch is looked at.
AffectedColumns_FirstGroup(u) ==
    UNION {ColumnsOf(SelectSeq(SubSeq(u.appended[i], 1, Min({1, Len(u.appended[i])})),
                               LAMBDA cg : cg.files # << >>)) : i \in DOMAIN u.appended}

\* The columns that get new files, whose indexes are out of date.
AffectedColumns(u) ==
    UNION {ColumnsOf(SelectSeq(u.appended[i], LAMBDA cg : cg.files # << >>)) :
             i \in DOMAIN u.appended}

\* An index replaces the one with its id; an index without id (0) replaces
\* the one without id on the same column with the same type.
Replaces(new, old) ==
    IF new.id # 0 THEN old.id = new.id
    ELSE old.id = 0 /\ old.column = new.column /\ old.type = new.type

AddIndex(indexes, new) ==
    Append(SelectSeq(indexes, LAMBDA old : ~ Replaces(new, old)), new)

\* Indexes on dropped columns, on columns that get files and on the list of
\* DropIndex go before those of AddIndexInfo come.
ResolveIndexes(indexes, u) ==
    LET gone == u.droppedColumns \cup AffectedColumns(u)
    IN  FoldLeft(AddIndex,
                 SelectSeq(indexes, LAMBDA x : /\ x.column \notin gone
                                               /\ x.id \notin u.droppedIndexes),
                 u.indexes)

\* Mutant: the files of a batch take the place of those that are there.
AppendBatch_Replaces(cgs, batch) ==
    IF cgs = << >> THEN batch
    ELSE [i \in DOMAIN cgs |->
            IF i \in DOMAIN batch THEN [cgs[i] EXCEPT !.files = batch[i].files]
            ELSE cgs[i]]

\* Append the files of one batch, group by group.
AppendBatch(cgs, batch) ==
    IF cgs = << >> THEN batch
    ELSE [i \in DOMAIN cgs |->
            IF i \in DOMAIN batch THEN [cgs[i] EXCEPT !.files = @ \o batch[i].files]
            ELSE cgs[i]]

AppendBatches(cgs, u) == FoldLeft(AppendBatch, cgs, u.appended)

applyUpdates(m, u) ==
    [groups    |-> AppendBatches(DropColumns(m.groups, u.droppedColumns), u) \o u.groups,
     indexes   |-> ResolveIndexes(m.indexes, u),
     deltaLogs |-> m.deltaLogs \o u.deltaLogs,
     lobFiles  |-> m.lobFiles \o u.lobFiles,
     stats     |-> u.stats @@ m.stats]

\* No group of the manifest is left once the updates' columns are dropped:
\* no group has a column that stays (groups have columns).
NoGroupsLeft(m, u) ==
    \A i \in DOMAIN m.groups : m.groups[i].columns \subseteq u.droppedColumns

\* The batches that have groups.
NonEmpty(appended) == {i \in DOMAIN appended : appended[i] # << >>}


\* The updates after applyUpdates: if the manifest had no groups to append to,
\* the groups it was given are those of the first batch that has any.
UpdatesAfter(m, u) ==
    LET full == NonEmpty(u.appended)
    IN  IF NoGroupsLeft(m, u) /\ full # {}
        THEN [u EXCEPT !.appended[Min(full)] = AppendBatches(<< >>, u)]
        ELSE u

\* The index on a column with a type that a reader of the manifest finds: the
\* first entry there is (as a sequence of at most one).
getIndex(m, column, type) ==
    LET found == SelectSeq(m.indexes, LAMBDA x : x.column = column /\ x.type = type)
    IN  SubSeq(found, 1, Min({1, Len(found)}))

----------------------------------------------------------------------------
(* The builder methods, with what the caller passed to them.               *)

AddColumnGroup(u, cg)   == [u EXCEPT !.groups = Append(@, cg)]
AppendFiles(u, batch)   == [u EXCEPT !.appended = Append(@, batch)]
DropColumn(u, c)        == [u EXCEPT !.droppedColumns = @ \cup {c}]
AddIndexInfo(u, x)      == [u EXCEPT !.indexes = Append(@, x)]
DropIndex(u, id)        == [u EXCEPT !.droppedIndexes = @ \cup {id}]
AddOther(u, x) ==
    IF x.kind = "delta" THEN [u EXCEPT !.deltaLogs = Append(@, x.key)]
    ELSE IF x.kind = "lob" THEN [u EXCEPT !.lobFiles = Append(@, x.key)]
    ELSE [u EXCEPT !.stats = (x.key :> x.value) @@ @]

\* A call of a builder method, which gives the updates r and u; it can be made
\* until the commit succeeds, after failed attempts too.
Record(r, u) ==
    /\ Size(recorded) < MaxUpdates
    /\ published < MaxPublished
    /\ recorded' = r
    /\ updates' = u
    /\ resolved' = << >>
    /\ UNCHANGED <<manifest, attempts, published>>

----------------------------------------------------------------------------
(* Attempts to commit.                                                     *)

\* One attempt: the resolver calls applyUpdates on the manifest it read.
Attempt ==
    /\ updates # NoUpdates
    /\ attempts < MaxAttempts
    /\ attempts' = attempts + 1
    /\ IF Accepts(manifest, updates)
       THEN /\ resolved' = <<applyUpdates(manifest, updates)>>
            /\ updates' = UpdatesAfter(manifest, updates)
       ELSE /\ resolved' = << >>
            /\ UNCHANGED updates
    /\ UNCHANGED <<manifest, recorded, published>>

Reset ==
    /\ recorded' = NoUpdates
    /\ updates' = NoUpdates
    /\ resolved' = << >>
    /\ attempts' = 0

\* The manifest was written; the next transaction opens it.
Publish ==
    /\ resolved # << >>
    /\ manifest' = resolved[1]
    /\ published' = published + 1
    /\ Reset

\* The caller gives up; the next transaction opens the same manifest.
GiveUp ==
    /\ recorded # NoUpdates
    /\ Reset
    /\ UNCHANGED <<manifest, published>>

Next ==
    \/ \E cg \in Groups : Record(AddColumnGroup(recorded, cg), AddColumnGroup(updates, cg))
    \/ \E b \in Batches : Record(AppendFiles(recorded, b), AppendFiles(updates, b))
    \/ \E c \in Columns : Record(DropColumn(recorded, c), DropColumn(updates, c))
    \/ \E x \in Indexes : Record(AddIndexInfo(recorded, x), AddIndexInfo(updates, x))
    \/ \E id \in Ids : Record(DropIndex(recorded, id), DropIndex(updates, id))
    \/ \E x \in Others : Record(AddOther(recorded, x), AddOther(updates, x))
    \/ Attempt
    \/ Publish
    \/ GiveUp

Spec == Init /\ [][Next]_vars

----------------------------------------------------------------------------
(* What applyUpdates promises.                                             *)

TypeOK ==
    /\ \A m \in {manifest} \cup Range(resolved) :
         /\ m.indexes \in Seq(Indexes)
         /\ \A i \in DOMAIN m.groups :
              /\ m.groups[i].columns \in SUBSET Columns \ {{}}
              /\ m.groups[i].files \in Seq(DOMAIN FileRows)
    /\ Len(resolved) \in 0..1
    /\ attempts \in 0..MaxAttempts
    /\ published \in 0..MaxPublished

\* The data files of column c.
FilesOf(cgs, c) ==
    FoldLeft(LAMBDA files, cg : IF c \in cg.columns THEN files \o cg.files ELSE files,
             << >>, cgs)

\* The groups of the first batch become those of the manifest, and others are
\* to be appended to them: applyUpdates changes the updates.
Shared == NoGroupsLeft(manifest, recorded) /\ Cardinality(NonEmpty(recorded.appended)) > 1


\* No manifest has two indexes with the same id, or two without id on the same
\* column with the same type, after any sequence of commits: the identity that
\* AddIndexInfo replaces by and DropIndex removes by is an identity.  Indexes
\* with different ids on one column with one type may coexist.
IndexesUnique ==
    \A i, j \in DOMAIN manifest.indexes :
        Replaces(manifest.indexes[i], manifest.indexes[j]) => i = j

\* An index that a commit adds is found: getIndex returns, for its column and
\* type, this index or one with another identity, never one that it replaced.
\* It may be such an older one, which a later AddIndexInfo with another id leaves
\* in place (docs/manifest-index-artifacts-design.md:151 says that it "replaces
\* the matching (column_name, index_type) metadata entry").
AddedIndexFound ==
    \A m \in Range(resolved) : \A i \in DOMAIN recorded.indexes :
        LET x == recorded.indexes[i]
            found == getIndex(m, x.column, x.type)
        IN  (\A j \in (i + 1)..Len(recorded.indexes) : ~ Replaces(recorded.indexes[j], x))
            => /\ found # << >>
               /\ found[1] = x \/ ~ Replaces(x, found[1])

\* An index never outlives the data it was built on: when a commit changes the
\* files of a column that was there before, the indexes on this column in the
\* new manifest are the ones this commit added.
NoStaleIndex ==
    \A c \in ColumnsOf(manifest.groups) :
        FilesOf(manifest'.groups, c) # FilesOf(manifest.groups, c) =>
            \A x \in Range(manifest'.indexes) :
                x.column = c => x \in Range(recorded.indexes)

\* A commit never loses data: the files of a column that it does not drop are
\* still there, in their order and before any new ones.
DataKept ==
    \A c \in ColumnsOf(manifest.groups) \ recorded.droppedColumns :
        IsPrefix(FilesOf(manifest.groups, c), FilesOf(manifest'.groups, c))

\* What AppendFiles appends to: the groups the manifest keeps or, when it keeps
\* none, those of the first batch that has any.
AppendedTo ==
    LET cgs  == DropColumns(manifest.groups, recorded.droppedColumns)
        full == NonEmpty(recorded.appended)
    IN  IF cgs # << >> \/ full = {} THEN cgs ELSE recorded.appended[Min(full)]

\* applyUpdates "applies all updates (appended files, added column groups, ...)"
\* (transaction.h): every file of every AppendFiles batch that fits what it is
\* appended to is, in every attempt, in the manifest for its columns.  Without
\* groups a batch that does not fit the first is accepted too; applyUpdates
\* then goes by the position of its groups and drops those behind the last.
AppendedFilesPresent ==
    \A m \in Range(resolved) : \A i \in DOMAIN recorded.appended :
        MayAppend(AppendedTo, recorded.appended[i]) =>
            \A j \in DOMAIN recorded.appended[i] :
                LET cg == recorded.appended[i][j]
                IN  \A c \in cg.columns :
                        Range(cg.files) \subseteq Range(FilesOf(m.groups, c))

\* Every manifest that applyUpdates makes is well formed: no empty column
\* group, every index identity once, added indexes found, and every appended
\* file where it belongs.
ManifestConsistent == TypeOK /\ IndexesUnique /\ AddedIndexFound /\ AppendedFilesPresent

\* What a commit does to the data: it loses no file of a column it does not
\* drop, and it keeps no old index of a column whose files it changes
\* (applyUpdates).
CommitsKeepData == [][DataKept /\ NoStaleIndex]_vars

=============================================================================

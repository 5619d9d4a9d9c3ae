----------------------------- MODULE Migrations -----------------------------
(* The shipped data migrations of the node_results table and the runner that a rollout calls   *)
(* (tools/deploy/run_migrations.py): persons get stable ids and rows keyed by a person's name   *)
(* are keyed by the id (scripts/backfill_person_ids.py); each row's one blob is split into      *)
(* columns (scripts/split_node_results.py); a separate program checks each.  A process may be   *)
(* killed between any two commits and the whole list is then run again.                         *)
EXTENDS Naturals, Sequences, FiniteSets
LOCAL INSTANCE SequencesExt
LOCAL INSTANCE FiniteSetsExt

CONSTANTS
    OldTables,     \* tables as the previous artifact left them: sequences of rows with a blob
    NewRows,       \* what the new artifact may append before the migration runs
    Manifests,     \* sequences of "persons" and "split"
    SlugOf,        \* the slug of a name
    Ids,       \* the numeric ids, in order
    NoOne,         \* the person segment of a node id that has none
    Null,          \* an empty column
    Unreadable,    \* what a damaged blob decodes to
    Now,           \* the time of the migration, later than every stamp
    BatchRows,     \* COMMIT_BATCH_SIZE and CHUNK_ROWS
    MaxStarts, MaxSaves

\* A row: node and dep are node ids [who, label]; blob and cols hold what the row says and its
\* provenance tree; a row of label "persons" says a sequence of [name, id], one of label "works"
\* a sequence of <<key, money>>.
VARIABLES
    table,     \* [rows, split: the columns exist, legacy: the blob column exists]
    manifest,
    before,    \* the table when the first run started (Null until then)
    proc,      \* [pc, step, at, mapping] of the running migration
    verdict,   \* of the last run
    starts
migrationVars == <<table, manifest, before, proc, verdict, starts>>

NotRunning == [pc |-> "idle", step |-> 0, at |-> 0, mapping |-> <<>>]
NoTable == [rows |-> <<>>, split |-> FALSE, legacy |-> TRUE]

-----------------------------------------------------------------------------
\* The storage shape.
ReadRecord(row) == IF row.cols.says = Null /\ row.blob # Null THEN row.blob.says ELSE row.cols.says
ReadTree(row) ==
    IF row.cols.tree # Null THEN row.cols.tree ELSE IF row.blob # Null THEN row.blob.tree ELSE Null

\* What a writer stores: the columns there are, and a mirror without the tree while there is a blob.
Columns(says, tree, t) == IF t.split THEN [says |-> says, tree |-> tree] ELSE [says |-> Null, tree |-> Null]
Mirror(says, t) == IF t.legacy THEN [says |-> says, tree |-> Null] ELSE Null
\* Mutant: The rewritten record goes to the columns only.
WriteColumnsOnly(row, says, t) == [row EXCEPT !.cols = Columns(says, Null, t)]
WriteRecord(row, says, t) == [row EXCEPT !.cols = Columns(says, Null, t), !.blob = Mirror(says, t)]
SavedRow(new, t) ==
    [node |-> new.node, dep |-> new.dep, stamp |-> new.stamp,
     cols |-> Columns(new.says, new.tree, t), blob |-> Mirror(new.says, t)]

\* Mutant: Every column is written, also those that the mirror has nothing for.
EveryColumn(row) == [says |-> row.blob.says, tree |-> row.blob.tree]
\* A conversion fills only the columns that the blob's record has.
FilledColumns(row) == [says |-> row.blob.says, tree |-> IF row.blob.tree # Null THEN row.blob.tree ELSE row.cols.tree]
ConvertRow(row) == [row EXCEPT !.cols = FilledColumns(row)]

\* The latest row: by its stamp, then by its place in the table.
LatestRow(t, label) ==
    LET of == {i \in DOMAIN t.rows : t.rows[i].node.label = label}
    IN  IF of = {} THEN 0
        ELSE CHOOSE i \in of : \A j \in of : t.rows[j].stamp < t.rows[i].stamp \/ (t.rows[j].stamp = t.rows[i].stamp /\ j <= i)
PeopleOf(t) == IF LatestRow(t, "persons") = 0 THEN <<>> ELSE ReadRecord(t.rows[LatestRow(t, "persons")])

-----------------------------------------------------------------------------
\* Stable ids: those there are stay, the others follow the largest number, in list order.
Numeric(people) == {n \in DOMAIN Ids : \E i \in DOMAIN people : people[i].id = Ids[n]}
CollectMapping(people) ==
    LET first == Max(Numeric(people) \cup {0}) + 1
        MissingBefore(i) == Cardinality({j \in 1..(i - 1) : people[j].id = ""})
    IN  [i \in DOMAIN people |->
            [name |-> people[i].name,
             id |-> IF people[i].id # "" THEN people[i].id ELSE Ids[first + MissingBefore(i)]]]

\* A name or its slug stands for the person's id; anything else stays.
IdFor(key, mapping) ==
    LET named == {i \in DOMAIN mapping : mapping[i].name = key}
        slugged == {i \in DOMAIN mapping : SlugOf[mapping[i].name] = key}
    IN  IF named # {} THEN mapping[Min(named)].id
        ELSE IF slugged # {} THEN mapping[Min(slugged)].id ELSE key
RekeyNode(node, mapping) == [node EXCEPT !.who = IdFor(node.who, mapping)]
WorksKeys(pairs, mapping) ==
    LET keyed == [i \in DOMAIN pairs |-> <<IdFor(pairs[i][1], mapping), pairs[i][2]>>]
        last == SelectSeq([i \in DOMAIN keyed |-> i],
                          LAMBDA i : \A j \in (i + 1)..Len(keyed) : keyed[j][1] # keyed[i][1])
    IN  [i \in DOMAIN last |-> keyed[last[i]]]

RemapRow(row, mapping, t) ==
    LET moved == [row EXCEPT !.node = RekeyNode(@, mapping), !.dep = RekeyNode(@, mapping)]
        says == ReadRecord(row)
    IN  IF row.node.label = "works" /\ says # Unreadable /\ WorksKeys(says, mapping) # says
        THEN WriteRecord(moved, WorksKeys(says, mapping), t) ELSE moved
RowsToRemap(t, mapping, after) ==
    SelectSeq([i \in DOMAIN t.rows |-> i], LAMBDA i : i > after /\ RemapRow(t.rows[i], mapping, t) # t.rows[i])
Remapped(t, mapping, chosen) ==
    [t EXCEPT !.rows = [i \in DOMAIN @ |-> IF i \in chosen THEN RemapRow(@[i], mapping, t) ELSE @[i]]]
WorksUnreadable(t) == \E i \in DOMAIN t.rows : t.rows[i].node.label = "works" /\ ReadRecord(t.rows[i]) = Unreadable

\* The rows whose content the migration rewrites are stamped, so that their readers notice.
MarkChangedSources(t) ==
    [t EXCEPT !.rows = [i \in DOMAIN @ |->
        IF i = LatestRow(t, "persons") \/ (@[i].node.label = "works" /\ ReadRecord(@[i]) \notin {<<>>, Unreadable})
        THEN [@[i] EXCEPT !.stamp = Now] ELSE @[i]]]
BackfillPersons(t, at, mapping) == [t EXCEPT !.rows[at] = WriteRecord(@, mapping, t)]

\* The independent check of the ids.
NameKeys(people) == UNION {{people[i].name, SlugOf[people[i].name]} : i \in DOMAIN people}
PersonsComplete(t) ==
    LET people == PeopleOf(t)
        keys == NameKeys(people)
    IN  /\ LatestRow(t, "persons") # 0
        /\ \A i \in DOMAIN people : people[i].id # ""
        /\ \A i \in DOMAIN t.rows :
              /\ t.rows[i].node.who \notin keys /\ t.rows[i].dep.who \notin keys
              /\ t.rows[i].node.label = "works" =>
                    /\ ReadRecord(t.rows[i]) # Unreadable
                    /\ \A k \in DOMAIN ReadRecord(t.rows[i]) : ReadRecord(t.rows[i])[k][1] \notin keys
SplitComplete(t) == t.split /\ ~t.legacy /\ \A i \in DOMAIN t.rows : t.rows[i].cols.says # Null
CheckPasses(name, t) == IF name = "persons" THEN PersonsComplete(t) ELSE SplitComplete(t)

-----------------------------------------------------------------------------
MigrationInit ==
    /\ \E rows \in OldTables : table = [rows |-> rows, split |-> FALSE, legacy |-> TRUE]
    /\ manifest \in Manifests
    /\ before = Null /\ proc = NotRunning /\ verdict = "none" /\ starts = 0

\* The new artifact runs on the old table before the migration: it adds the columns and saves rows.
AppStarts ==
    /\ starts = 0 /\ ~table.split
    /\ table' = [table EXCEPT !.split = TRUE]
    /\ UNCHANGED <<manifest, before, proc, verdict, starts>>
AppSaves ==
    /\ starts = 0 /\ table.split
    /\ Cardinality({i \in DOMAIN table.rows : table.rows[i].cols.says # Null}) < MaxSaves
    /\ \E new \in NewRows : table' = [table EXCEPT !.rows = Append(@, SavedRow(new, table))]
    /\ UNCHANGED <<manifest, before, proc, verdict, starts>>

Running(pc) == proc.pc = pc
On(name) == manifest[proc.step] = name
Fail == verdict' = "failed" /\ proc' = NotRunning
Goto(pc) == proc' = [proc EXCEPT !.pc = pc] /\ UNCHANGED verdict

\* Everything that must hold before the table is touched: a list with migrations, none of them
\* twice, and room beside the database.
AcceptableManifest(list) == list # <<>> /\ \A i, j \in DOMAIN list : list[i] = list[j] => i = j
StartRun ==
    /\ Running("idle") /\ starts < MaxStarts /\ starts' = starts + 1
    /\ before' = IF before = Null THEN table ELSE before
    /\ \E room \in BOOLEAN :
         IF ~AcceptableManifest(manifest) \/ ~room THEN verdict' = "refused" /\ UNCHANGED proc
         ELSE verdict' = "running" /\ proc' = [NotRunning EXCEPT !.pc = "dry", !.step = 1]
    /\ UNCHANGED <<table, manifest>>

\* The apply script's own report, read only; a script that fails here writes nothing.
DryRun ==
    /\ Running("dry")
    /\ IF On("persons") /\ (PeopleOf(table) = <<>> \/ WorksUnreadable(table)) THEN Fail ELSE Goto("apply")
    /\ UNCHANGED <<table, manifest, before, starts>>

\* The apply begins: a table that is split already is left alone and says so.
BeginApply ==
    /\ Running("apply")
    /\ CASE On("persons") ->
              /\ proc' = [proc EXCEPT !.pc = "remap", !.at = 0, !.mapping = CollectMapping(PeopleOf(table))]
              /\ UNCHANGED <<table, verdict>>
         [] On("split") /\ ~table.legacy -> Goto("check") /\ UNCHANGED table
         [] OTHER -> /\ proc' = [proc EXCEPT !.pc = "convert", !.at = 0]
                     /\ table' = [table EXCEPT !.split = TRUE] /\ UNCHANGED verdict
    /\ UNCHANGED <<manifest, before, starts>>

\* One committed batch of re-keyed rows.
RemapBatch ==
    /\ Running("remap")
    /\ LET todo == RowsToRemap(table, proc.mapping, proc.at)
       IN  /\ Len(todo) >= BatchRows
           /\ table' = Remapped(table, proc.mapping, {todo[i] : i \in 1..BatchRows})
           /\ proc' = [proc EXCEPT !.at = todo[BatchRows]]
    /\ UNCHANGED <<manifest, before, verdict, starts>>

\* The last batch is committed with the stamps and the ids of the persons; then the apply verifies.
FinishRemap ==
    /\ Running("remap")
    /\ LET todo == RowsToRemap(table, proc.mapping, proc.at)
           persons == LatestRow(table, "persons")
           remapped == Remapped(table, proc.mapping, {todo[i] : i \in DOMAIN todo})
           written == BackfillPersons(MarkChangedSources(remapped), persons, proc.mapping)
       IN  /\ Len(todo) < BatchRows
           /\ table' = written
           /\ IF RowsToRemap(written, CollectMapping(proc.mapping), 0) # <<>> THEN Fail ELSE Goto("check")
    /\ UNCHANGED <<manifest, before, starts>>

\* One committed chunk of converted rows; a row that cannot be read ends the run there.
ConvertChunk ==
    /\ Running("convert")
    /\ LET pending == SelectSeq([i \in DOMAIN table.rows |-> i], LAMBDA i : i > proc.at /\ table.rows[i].blob # Null)
           chunk == SubSeq(pending, 1, Min({Len(pending), BatchRows}))
           bad == {i \in ToSet(chunk) : table.rows[i].blob.says = Unreadable}
           good == {i \in ToSet(chunk) : \A b \in bad : i < b}
       IN  /\ table' = [table EXCEPT !.rows = [i \in DOMAIN @ |-> IF i \in good THEN ConvertRow(@[i]) ELSE @[i]]]
           /\ IF bad # {} THEN Fail
              ELSE IF chunk = <<>> THEN Goto("drop")
              ELSE proc' = [proc EXCEPT !.at = Last(chunk)] /\ UNCHANGED verdict
    /\ UNCHANGED <<manifest, before, starts>>
DropLegacyColumn ==
    /\ Running("drop")
    /\ table' = [table EXCEPT !.legacy = FALSE, !.rows = [i \in DOMAIN @ |-> [@[i] EXCEPT !.blob = Null]]]
    /\ Goto("check")
    /\ UNCHANGED <<manifest, before, starts>>

\* The separate check ends one migration; a failure leaves the later ones unattempted.
CheckMigration ==
    /\ Running("check")
    /\ IF ~CheckPasses(manifest[proc.step], table) THEN Fail
       ELSE IF proc.step < Len(manifest)
       THEN proc' = [NotRunning EXCEPT !.pc = "dry", !.step = proc.step + 1] /\ UNCHANGED verdict
       ELSE verdict' = "migrated" /\ proc' = NotRunning
    /\ UNCHANGED <<table, manifest, before, starts>>

\* The process dies between two commits.
KillMigration ==
    /\ ~Running("idle")
    /\ proc' = NotRunning /\ verdict' = "killed"
    /\ UNCHANGED <<table, manifest, before, starts>>

MigrationNext ==
    AppStarts \/ AppSaves \/ StartRun \/ DryRun \/ BeginApply \/ RemapBatch \/ FinishRemap
      \/ ConvertChunk \/ DropLegacyColumn \/ CheckMigration \/ KillMigration

-----------------------------------------------------------------------------
\* Whose a key is: the person with that name, that slug or, once assigned, that id.
Belongs(key, person) == key \in {person.name, SlugOf[person.name], person.id}
MoneyFor(person, pairs) ==
    LET own == {i \in DOMAIN pairs : Belongs(pairs[i][1], person)} IN IF own = {} THEN Null ELSE pairs[Max(own)][2]

\* At every commit each row still says what it said: values and provenance trees stay, the names
\* of the persons stay, and each person's estimate stays that person's.
RowKeeps(was, is, people) ==
    /\ ReadTree(is) = ReadTree(was)
    /\ is.node.label = was.node.label /\ is.dep.label = was.dep.label
    /\ CASE was.node.label = "persons" ->
              /\ DOMAIN ReadRecord(is) = DOMAIN ReadRecord(was)
              /\ \A i \in DOMAIN ReadRecord(was) :
                    /\ ReadRecord(is)[i].name = ReadRecord(was)[i].name
                    /\ ReadRecord(was)[i].id # "" => ReadRecord(is)[i].id = ReadRecord(was)[i].id
         [] was.node.label = "works" /\ ReadRecord(was) # Unreadable ->
              /\ ReadRecord(is) # Unreadable
              /\ \A i \in DOMAIN people : MoneyFor(people[i], ReadRecord(is)) = MoneyFor(people[i], ReadRecord(was))
         [] OTHER -> ReadRecord(is) = ReadRecord(was)
NothingIsLost ==
    before # Null =>
        /\ Len(table.rows) = Len(before.rows)
        /\ \A i \in DOMAIN table.rows : RowKeeps(before.rows[i], table.rows[i], CollectMapping(PeopleOf(table)))

\* A run that reports success, after however many failed and killed ones, leaves every person with
\* an id of their own, every row keyed by the id of the person it named, every rewritten source
\* stamped, every record in its columns and no blob.
SameNode(was, is, people) ==
    IF \E i \in DOMAIN people : was.who \in {people[i].name, SlugOf[people[i].name]}
    THEN \E i \in DOMAIN people : is.who = people[i].id /\ was.who \in {people[i].name, SlugOf[people[i].name]}
    ELSE is.who = was.who
IdsAreInPlace ==
    LET people == PeopleOf(table)
    IN  /\ \A i, j \in DOMAIN people : people[i].id # "" /\ (people[i].id = people[j].id => i = j)
        /\ \A i \in DOMAIN table.rows :
              /\ SameNode(before.rows[i].node, table.rows[i].node, people)
              /\ SameNode(before.rows[i].dep, table.rows[i].dep, people)
              /\ ReadRecord(table.rows[i]) # ReadRecord(before.rows[i]) => table.rows[i].stamp = Now
SuccessIsComplete ==
    verdict = "migrated" =>
        /\ "persons" \in ToSet(manifest) => IdsAreInPlace
        /\ "split" \in ToSet(manifest) => ~table.legacy /\ \A i \in DOMAIN table.rows : table.rows[i].blob = Null

\* A run that reports that it refused has written nothing.
RefusalIsClean == (verdict = "refused" /\ starts = 1) => table = before

MigrationHolds == NothingIsLost /\ SuccessIsComplete /\ RefusalIsClean
=============================================================================

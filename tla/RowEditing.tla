----------------------------- MODULE RowEditing -----------------------------
(***************************************************************************)
(* Editing the rows of a table (commands/data.rs, db/batch_update.rs and   *)
(* the row commands of each engine): a batch of updates that are located   *)
(* by key, grouped, split into statements, validated and then written in   *)
(* one transaction, while single inserts, updates and deletes run through  *)
(* other sessions; and the deferred large fields of db/mysql_deferred_     *)
(* fields.rs.  A table has a locator column k and a column v.  Two         *)
(* spellings of a key may be equal to the database.                        *)
(***************************************************************************)
EXTENDS Naturals, Sequences, SequencesExt, FiniteSets, FiniteSetsExt

CONSTANTS
    Engines,      \* the engines a behaviour may be about
    Shapes,       \* the definitions of the table, see ShapesOK
    RowIds,       \* physical rows
    Class,        \* [spellings of keys -> the key they are to the database]
    Null,
    None,         \* no row
    Values,       \* values of v
    Large,        \* the values of v that are larger than 4096 bytes
    Batches,      \* what the user submits: sequences of [key, set]
    Tables,       \* the tables to begin with
    Inserts,      \* the rows the single commands insert
    EditKeys,     \* the keys they update and delete by
    ChunkRows,    \* 128, the rows of a statement
    ParameterLimit,
    MaxResultRows,\* MAX_RESULT_ROWS
    MaxOther      \* bound: single commands while a batch is open

Spellings == DOMAIN Class
Keys == Spellings \cup {Null}

\* What the constants must be; the instances assume it.
EditingConstantsOK ==
    /\ Engines \subseteq {"MySql", "Postgres", "Sqlite", "SqlServer", "ClickHouse"}
    /\ \A s \in Shapes : /\ s.index \in {"primary", "unique", "none"}
                         /\ s.lossless \in BOOLEAN /\ s.reliable \in BOOLEAN
                         /\ s.hidden \in BOOLEAN
    /\ Null \notin Spellings
    /\ Large \subseteq Values
    /\ Tables \subseteq [RowIds -> {None} \cup [k : Keys, v : Values]]
    /\ \A b \in Batches : \A i \in DOMAIN b : b[i].key \in Keys \cup {None}
    /\ ChunkRows \in Nat \ {0} /\ ParameterLimit \in Nat /\ MaxOther \in Nat

VARIABLES
    engine, shape,
    table,        \* [RowIds -> row or None], what is committed
    edit,         \* the batch in progress
    session,      \* its pooled session: "pooled", "lent" or "discarded"
    openTx,       \* whether the session has a transaction open
    others        \* single commands so far

vars == <<engine, shape, table, edit, session, openTx, others>>

Row(k, v) == [k |-> k, v |-> v]
Idle == [at |-> "idle"]

TypeOK ==
    /\ engine \in Engines /\ shape \in Shapes
    /\ table \in [RowIds -> {None} \cup [k : Keys, v : Values]]
    /\ edit.at \in {"idle", "validate", "write", "commit", "failing", "done"}
    /\ session \in {"pooled", "lent", "discarded"}
    /\ openTx \in BOOLEAN
    /\ others \in 0..MaxOther

-----------------------------------------------------------------------------
(* Locating rows. *)

\* predicate: equality as the database sees it, IS NULL for a null.
Locates(key, row) ==
    /\ row # None /\ key # None
    /\ IF key = Null THEN row.k = Null ELSE row.k # Null /\ Class[row.k] = Class[key]

\* The locator rows are found by: the primary key, for SQL Server a unique
\* index where there is none.
PrimaryKey == shape.index = "primary"
HasLocator == PrimaryKey \/ (engine = "SqlServer" /\ shape.index = "unique")

\* The single commands of MySQL, PostgreSQL and SQLite compare with = also
\* where the value is null, and find nothing; SQL Server's use IS NULL.
LocatesNull(key, row) == engine = "SqlServer" /\ key = Null /\ Locates(key, row)
LocatesSingle(key, row) == (key # Null /\ Locates(key, row)) \/ LocatesNull(key, row)

\* The database keeps the key unique; nulls may repeat in SQLite.
Unique(t) ==
    \A r, s \in RowIds : r # s /\ t[r] # None /\ t[s] # None =>
        /\ t[r].k # Null /\ t[s].k # Null => Class[t[r].k] # Class[t[s].k]
        /\ engine = "SqlServer" => ~(t[r].k = Null /\ t[s].k = Null)
NullsAllowed(t) ==
    \A r \in RowIds : t[r] # None /\ t[r].k = Null =>
        engine = "Sqlite" \/ shape.index # "primary"
Valid(t) ==
    shape.index # "none" /\ engine # "ClickHouse" => Unique(t) /\ NullsAllowed(t)

Init ==
    /\ engine \in Engines
    /\ shape \in Shapes
    /\ table \in {t \in Tables : Valid(t)}
    /\ edit = Idle
    /\ session = "pooled"
    /\ openTx = FALSE
    /\ others = 0

-----------------------------------------------------------------------------
(* build_batch_update_statements. *)

KeyAfter(u) == IF "k" \in DOMAIN u.set THEN u.set.k ELSE u.key
Moves(u) == KeyAfter(u) # u.key
ChangesLocator(batch) == \E i \in DOMAIN batch : "k" \in DOMAIN batch[i].set

\* Rows that are named twice, or moves onto a key the batch names or moves to
\* twice, are refused; keys are compared as they are spelled.
Conflicting(batch) ==
    \E i, j \in DOMAIN batch :
        \/ i # j /\ batch[i].key = batch[j].key
        \/ Moves(batch[i]) /\ KeyAfter(batch[i]) = batch[j].key
        \/ i # j /\ KeyAfter(batch[i]) = KeyAfter(batch[j])

\* The parameters an update costs in the UPDATE and in the validation.
Bound(key) == IF key = Null THEN 0 ELSE 1
Cost(u) == Cardinality(DOMAIN u.set) * (Bound(u.key) + 1) + Bound(u.key)
ValidationCost(u) == IF Moves(u) THEN 3 * Bound(u.key) + 2 * Bound(KeyAfter(u))
                     ELSE 2 * Bound(u.key)
Total(cost(_), chunk) == FoldSeq(LAMBDA u, n : n + cost(u), 0, chunk)

\* Groups by the columns they set, in the order of the column names.
Groups == <<{"k"}, {"k", "v"}, {"v"}>>
GroupOf(batch, columns) == SelectSeq(batch, LAMBDA u : DOMAIN u.set = columns)

\* A group is split where a statement would have too many rows or parameters.
Split(group) ==
    FoldLeft(LAMBDA chunks, u :
                LET full == chunks = <<>>
                            \/ Len(Last(chunks)) >= ChunkRows
                            \/ Total(Cost, Last(chunks)) + Cost(u) > ParameterLimit
                            \/ Total(ValidationCost, Last(chunks)) + ValidationCost(u)
                               > ParameterLimit
                IN IF full THEN Append(chunks, <<u>>)
                   ELSE [chunks EXCEPT ![Len(chunks)] = Append(@, u)],
             <<>>, group)

\* Faulty: a batch that moves rows does not insist that all of them exist.
ExpectsNothing(batch, chunk) == [rows |-> chunk, expected |-> 0]

\* One statement; when the batch moves any row, all the rows it names must be
\* there.
Statement(batch, chunk) ==
    [rows |-> chunk, expected |-> IF ChangesLocator(batch) THEN Len(chunk) ELSE 0]

Statements(batch) ==
    LET chunks == FoldLeft(LAMBDA all, columns : all \o Split(GroupOf(batch, columns)),
                           <<>>, Groups)
    IN [i \in DOMAIN chunks |-> Statement(batch, chunks[i])]

\* Every row must come with its key.
Complete(keys) == None \notin keys

Refused(batch) ==
    \/ batch = <<>>
    \/ ~Complete({batch[i].key : i \in DOMAIN batch})
    \/ \E i \in DOMAIN batch : DOMAIN batch[i].set = {}
    \/ engine = "ClickHouse"
    \/ ~HasLocator
    \/ Conflicting(batch)
    \/ \E i \in DOMAIN batch : Cost(batch[i]) > ParameterLimit
                               \/ ValidationCost(batch[i]) > ParameterLimit

-----------------------------------------------------------------------------
(* What the transaction sees and holds. *)

\* PostgreSQL and SQLite read one snapshot; MySQL and SQL Server read what is
\* committed and lock what they read.
Snapshots == engine \in {"Postgres", "Sqlite"}
Base == IF Snapshots THEN edit.snapshot ELSE table
View == [r \in RowIds |-> IF r \in DOMAIN edit.pending THEN edit.pending[r] ELSE Base[r]]

\* The keys a statement reads: where its rows are and where they go.
KeysRead(s) == {s.rows[i].key : i \in DOMAIN s.rows}
               \cup {KeyAfter(s.rows[i]) : i \in DOMAIN s.rows}
\* A row is told from others by its key as it is stored.
Identity(row) == row.k

TargetRows(s, view) == {r \in RowIds : \E key \in KeysRead(s) : Locates(key, view[r])}

\* The score of a row: 1 for every update that names it, 2 for every update
\* of another row that moves onto it.
Score(s, row) ==
    FoldSeq(LAMBDA u, n : n + (IF Locates(u.key, row) THEN 1
                               ELSE IF Moves(u) /\ Locates(KeyAfter(u), row) THEN 2 ELSE 0),
            0, s.rows)

\* Whether two sessions are in each other's way over a row with this key:
\* locks on the keys that were read (MySQL with gaps, HOLDLOCK), on the rows
\* that were read (PostgreSQL), on everything once SQLite has written; and on
\* what is written but not committed.
Held(r, key) ==
    /\ edit.at \in {"validate", "write", "commit", "failing"}
    /\ \/ \E q \in DOMAIN edit.pending : q = r \/ Locates(key, edit.pending[q])
       \/ engine \in {"MySql", "SqlServer"}
          /\ \E other \in edit.read : Locates(other, Row(key, None))
       \/ engine = "Postgres" /\ r \in edit.locked
       \/ engine = "Sqlite" /\ edit.pending # <<>>

-----------------------------------------------------------------------------
(* The batch. *)

Answered(answer) == edit' = [at |-> "done", answer |-> answer]

\* batch_update_rows up to the start of the transaction.
Start(batch) ==
    /\ edit = Idle
    /\ UNCHANGED <<engine, shape, table, others>>
    /\ \/ Refused(batch) /\ Answered("refused") /\ UNCHANGED <<session, openTx>>
       \/ /\ ~Refused(batch)
          /\ edit' = [at |-> "validate", batch |-> batch, todo |-> Statements(batch),
                      left |-> Statements(batch), seen |-> {}, read |-> {}, locked |-> {},
                      snapshot |-> table, pending |-> <<>>]
          /\ session' = "lent"
          /\ openTx' = TRUE

\* A row that is named or reached twice within a statement or by two of them,
\* and rows that are missing, end the batch.
Acceptable(s, targets) ==
    /\ \A r \in targets : Score(s, View[r]) <= 1 /\ Identity(View[r]) \notin edit.seen
    /\ \A q, r \in targets : Identity(View[q]) = Identity(View[r]) => q = r
    /\ s.expected > 0 => Cardinality(targets) = s.expected

\* The validation of the next statement.  Rows that changed after the
\* snapshot cannot be locked.
Validate ==
    LET s == Head(edit.left)
        targets == TargetRows(s, View) IN
    /\ edit.at = "validate"
    /\ edit.left # <<>>
    /\ IF Acceptable(s, targets) /\ (engine = "Postgres" => \A r \in targets : table[r] = View[r])
       THEN edit' = [edit EXCEPT !.left = Tail(@),
                                 !.seen = @ \cup {Identity(View[r]) : r \in targets},
                                 !.read = @ \cup KeysRead(s),
                                 !.locked = @ \cup targets]
       ELSE edit' = [edit EXCEPT !.at = "failing"]
    /\ UNCHANGED <<engine, shape, table, session, openTx, others>>

\* Every statement has been validated: the writes begin.
Validated ==
    /\ edit.at = "validate"
    /\ edit.left = <<>>
    /\ edit' = [edit EXCEPT !.at = "write", !.left = edit.todo]
    /\ UNCHANGED <<engine, shape, table, session, openTx, others>>

\* The row as the first update that names it leaves it (CASE WHEN ...).
Updated(s, row) ==
    LET i == Min({j \in DOMAIN s.rows : Locates(s.rows[j].key, row)})
    IN [c \in {"k", "v"} |-> IF c \in DOMAIN s.rows[i].set THEN s.rows[i].set[c] ELSE row[c]]

\* build_statement: one UPDATE for the rows of a statement.  It fails where
\* keys would collide, and where PostgreSQL or SQLite find that somebody else
\* wrote after the snapshot.
Write ==
    LET s == Head(edit.left)
        named == {r \in RowIds : \E i \in DOMAIN s.rows : Locates(s.rows[i].key, View[r])}
        after == [r \in RowIds |-> IF r \in named THEN Updated(s, View[r]) ELSE View[r]]
        collides == ~Valid(after)
                    \/ ~Valid([r \in RowIds |-> IF r \in named \cup DOMAIN edit.pending
                                                THEN after[r] ELSE table[r]])
        conflict == \/ engine = "Postgres" /\ \E r \in named : table[r] # Base[r]
                    \/ engine = "Sqlite" /\ table # edit.snapshot IN
    /\ edit.at = "write"
    /\ edit.left # <<>>
    /\ IF collides \/ conflict
       THEN edit' = [edit EXCEPT !.at = "failing"]
       ELSE edit' = [edit EXCEPT !.left = Tail(@),
                                 !.at = IF Len(edit.left) = 1 THEN "commit" ELSE "write",
                                 !.pending = [r \in named \cup DOMAIN @ |-> after[r]]]
    /\ UNCHANGED <<engine, shape, table, session, openTx, others>>

\* A statement is refused, times out or loses its connection.
Break ==
    /\ edit.at \in {"validate", "write"}
    /\ edit' = [edit EXCEPT !.at = "failing"]
    /\ UNCHANGED <<engine, shape, table, session, openTx, others>>

\* What the server makes of a commit.
Committed == [r \in RowIds |-> IF r \in DOMAIN edit.pending THEN edit.pending[r] ELSE table[r]]

Commit ==
    /\ edit.at = "commit"
    /\ table' = Committed
    /\ Answered("ok")
    /\ session' = "pooled"
    /\ openTx' = FALSE
    /\ UNCHANGED <<engine, shape, others>>

\* Faulty: a failed commit is reported like a failed statement.
CommitFailureIsRollback ==
    /\ edit.at = "commit"
    /\ table' \in {table, Committed}
    /\ Answered("rolled back")
    /\ session' = IF engine = "SqlServer" THEN "discarded" ELSE "pooled"
    /\ openTx' = FALSE
    /\ UNCHANGED <<engine, shape, others>>

\* The answer to the commit is an error: the server may have committed.  SQL
\* Server's session is closed; the other drivers give theirs back only after
\* they ended the transaction.
CommitFails ==
    /\ edit.at = "commit"
    /\ table' \in {table, Committed}
    /\ Answered("commit failed")
    /\ session' = IF engine = "SqlServer" THEN "discarded" ELSE "pooled"
    /\ openTx' = FALSE
    /\ UNCHANGED <<engine, shape, others>>

\* SQL Server's ROLLBACK is a statement of its own that may fail; the session
\* is closed then and the server ends its transaction.
RollbackFails == session' = "discarded" /\ openTx' = FALSE

Rollback ==
    /\ edit.at = "failing"
    /\ Answered("rolled back")
    /\ \/ session' = "pooled" /\ openTx' = FALSE
       \/ engine = "SqlServer" /\ RollbackFails
    /\ UNCHANGED <<engine, shape, table, others>>

\* The user submits the next batch.
Again ==
    /\ edit.at = "done"
    /\ others < MaxOther
    /\ others' = others + 1
    /\ edit' = Idle
    /\ session' = "pooled"
    /\ UNCHANGED <<engine, shape, table, openTx>>

-----------------------------------------------------------------------------
(* The single commands, each one statement in a session of its own; the      *)
(* deletes of SQLite are one transaction that writes first.                  *)

Single == others < MaxOther /\ others' = others + 1
Unheard == UNCHANGED <<engine, shape, edit, session, openTx>>

\* SQLite and SQL Server look for the locator before every command; the
\* others trust the keys they are given.  ClickHouse only inserts.
SqliteCommand == engine = "Sqlite" => PrimaryKey
SqlServerCommand == engine = "SqlServer" => HasLocator
MayWrite == SqliteCommand /\ SqlServerCommand
MayChange == MayWrite /\ engine # "ClickHouse"

\* The statements as the server carries them out.
Inserted(r, row) == [table EXCEPT ![r] = row]
ValueSet(rows, v) == [r \in RowIds |-> IF r \in rows THEN Row(table[r].k, v) ELSE table[r]]
Removed(rows) == [r \in RowIds |-> IF r \in rows THEN None ELSE table[r]]

InsertRow(r, row) ==
    /\ Single /\ MayWrite
    /\ table[r] = None
    /\ ~Held(r, row.k)
    /\ table' = Inserted(r, row)
    /\ Valid(table')
    /\ Unheard

UpdateRow(key, v) ==
    LET named == {r \in RowIds : LocatesSingle(key, table[r])} IN
    /\ Single /\ MayChange /\ Complete({key})
    /\ \A r \in named : ~Held(r, key)
    /\ table' = ValueSet(named, v)
    /\ Unheard

DeleteRows(keys) ==
    LET named == {r \in RowIds : \E key \in keys : LocatesSingle(key, table[r])} IN
    /\ Single /\ MayChange /\ Complete(keys)
    /\ \A r \in named : ~Held(r, table[r].k)
    /\ table' = Removed(named)
    /\ Unheard

Next ==
    \/ \E batch \in Batches : Start(batch)
    \/ Validate \/ Validated \/ Write \/ Break
    \/ Commit \/ CommitFails \/ Rollback \/ Again
    \/ \E r \in RowIds, row \in Inserts : InsertRow(r, row)
    \/ \E key \in EditKeys, v \in Values : UpdateRow(key, v)
    \/ \E keys \in SUBSET EditKeys : keys # {} /\ DeleteRows(keys)

Spec == Init /\ [][Next]_vars

-----------------------------------------------------------------------------
(* Large fields. *)

\* What a page shows of a key: types that do not survive the conversion to
\* JSON come back as another value.
ShownKey(k) == IF shape.lossless THEN k ELSE Null

\* Projection::new of MySQL cuts large fields only when the whole key is
\* known, shown and survives the way to the client and back.
Cuts ==
    /\ engine = "MySql"
    /\ shape.reliable /\ PrimaryKey /\ shape.lossless /\ ~shape.hidden

\* prepare_rows puts a preview where the field was too large.
Preview == "preview"
ShownValue(row) == IF Cuts /\ row.v \in Large THEN Preview ELSE row.v

\* The locators an engine takes for reading whole rows.
MysqlLegal(keys) == PrimaryKey /\ shape.reliable /\ shape.lossless /\ Null \notin keys
SqliteLegal(keys) == keys # {} /\ PrimaryKey
SqlServerLegal(keys) == keys # {} /\ HasLocator
PostgresLegal(keys) == keys # {}
ClickHouseLegal(keys) == keys # {}
Legal(keys) ==
    /\ engine = "MySql" => MysqlLegal(keys)
    /\ engine = "Sqlite" => SqliteLegal(keys)
    /\ engine = "SqlServer" => SqlServerLegal(keys)
    /\ engine = "Postgres" => PostgresLegal(keys)
    /\ engine = "ClickHouse" => ClickHouseLegal(keys)

\* ResultBudget: a result that is too large is an error, never cut.
WithinBudget(rows) == Cardinality(rows) <= MaxResultRows

\* query_full_rows: the rows the locators name, or an error.
FullRows(keys) ==
    LET rows == {r \in RowIds : \E key \in keys : LocatesSingle(key, table[r])}
    IN IF Legal(keys) /\ WithinBudget(rows) THEN rows ELSE {}

-----------------------------------------------------------------------------
(* Properties. *)

\* A committed batch has changed exactly the rows it names, each by the one
\* update that names it, whatever the grouping, the splitting, the spelling of
\* the keys and the other sessions did; when it moves rows, all of its rows
\* were there; and it overwrote nothing committed after it looked.
BatchExact ==
    [][edit.at = "commit" /\ edit'.at = "done" /\ table' # table =>
          LET named(r) == {i \in DOMAIN edit.batch : Locates(edit.batch[i].key, Base[r])}
              rows == {r \in RowIds : named(r) # {}}
          IN /\ \A r \in rows : /\ Cardinality(named(r)) = 1
                                /\ Base[r] = table[r]
                                /\ table'[r] = Updated([rows |-> edit.batch], Base[r])
             /\ \A r \in RowIds \ rows : table'[r] = table[r]
             /\ ChangesLocator(edit.batch) => Cardinality(rows) = Len(edit.batch)]_vars

\* The rows a batch reports as rolled back were not changed by it, and a
\* session goes back to the pool only without a transaction.
RollbackHonest ==
    [][/\ edit.at # "done" /\ edit'.at = "done" /\ edit'.answer = "rolled back" =>
             table' = table
       /\ session' = "pooled" => ~openTx']_vars

\* Every field a page cuts can be fetched in full with the key the same page
\* shows, and the fetch returns that row.
CutFieldsReachable ==
    \A r \in RowIds : table[r] # None /\ ShownValue(table[r]) # table[r].v =>
        FullRows({ShownKey(table[r].k)}) = {r}
=============================================================================

------------------------------ MODULE SqlFile ------------------------------
(***************************************************************************)
(* Exporting a database to an SQL file and importing such a file           *)
(* (commands/sql_file.rs, the export part of db/sqlite.rs).  An export     *)
(* reads the catalogue by several queries while other clients may change   *)
(* it, reads the rows, and writes the statements in the order of its       *)
(* engine; MySQL's is written while it is read.  An import cuts the file   *)
(* into statements and runs them, one after the other, whatever fails.     *)
(*                                                                         *)
(* An object is [kind, name, on, link, rows, body]: the objects the server *)
(* wants to find when it is created; a foreign key's <<table, referenced>> *)
(* or the <<source, target>> of what a trigger, body or materialized view  *)
(* copies; and the statements of a BEGIN ... END in no quotes, behind the  *)
(* first semicolon: "inner" ones that run nowhere else, an "insert" of a   *)
(* row into the target, which runs anywhere, and the "end".                *)
(***************************************************************************)
EXTENDS FiniteSets, SequencesExt, Sums

CONSTANTS
    Catalogues,    \* possible starts: <<engine, catalogue>>
    MaxRows,       \* max_rows_per_table
    MaxRecorded,   \* MAX_RECORDED_IMPORT_FAILURES
    MaxChanges,    \* bound on changes by other clients (model checking only)
    MaxBroken      \* bound on failing calls (model checking only)

VARIABLES
    dbtype, cat, include_data,
    exporting,  \* where the export is
    nth,        \* the next query, table or object of that stage
    meta,       \* objects read so far
    columned,   \* tables whose columns were read
    rowsRead,   \* rows read of each table
    file,       \* statements in the file
    result,     \* of the export
    token,      \* "none", "registered" or "cancelled"
    early,      \* a cancel was accepted before the script was built
    doing,      \* where the import is
    statements, \* what the file was cut into
    line,       \* the next statement
    ok, failed, failures,
    wrong,      \* statements that failed
    dest,       \* the database that is imported into
    session,    \* state of the pooled connection that runs the import
    changes, broken

export == <<exporting, nth, meta, columned, rowsRead, file, result, token, early>>
import == <<doing, statements, line, ok, failed, failures, wrong, dest, session>>
fileVars == <<dbtype, cat, include_data, export, import, changes, broken>>

ObjectKinds == {"table", "view", "mview", "index", "fk", "trigger", "routine", "event"}
BodyParts == {"inner", "insert", "end"}
Objects ==
    [kind : ObjectKinds, name : Nat, on : SUBSET Nat, link : Seq(Nat), rows : Nat,
     body : Seq(BodyParts)]
Clean == [tx |-> FALSE, unchecked |-> FALSE]
NoResult == [kind |-> "none"]
ExportError == [kind |-> "err"]

\* A catalogue is a finite set of objects with different names.  Every trigger of SQLite
\* has a body.
ASSUME CataloguesAreLegal ==
    \A w \in Catalogues :
        /\ w[1] \in {"mysql", "sqlite", "clickhouse", "postgres", "sqlserver"}
        /\ IsFiniteSet(w[2])
        /\ w[2] \subseteq Objects
        /\ \A o, p \in w[2] : o.name = p.name => o = p
        /\ \A o \in w[2] : o.body # <<>> => /\ o.kind \in {"trigger", "event", "routine"}
                                           /\ Len(o.link) = 2 /\ Last(o.body) = "end"
        /\ w[1] = "sqlite" => \A o \in w[2] : o.kind = "trigger" => o.body # <<>>
ASSUME FileLimits == {MaxRows, MaxRecorded, MaxChanges, MaxBroken} \subseteq Nat

FileTypeOK ==
    /\ exporting \in {"idle", "read", "data", "fetch", "write", "flush", "done"}
    /\ doing \in {"idle", "run", "done"}
    /\ meta \subseteq Objects
    /\ columned \subseteq Nat /\ token \in {"none", "registered", "cancelled"}
    /\ Len(failures) <= MaxRecorded /\ ok + failed = line - 1
    /\ exporting # "done" => doing = "idle"

FileInit ==
    /\ \E w \in Catalogues : dbtype = w[1] /\ cat = w[2]
    /\ include_data \in BOOLEAN
    /\ exporting = "idle" /\ nth = 1 /\ meta = {} /\ columned = {} /\ rowsRead = <<>> /\ file = <<>>
    /\ result = NoResult /\ token = "none" /\ early = FALSE
    /\ doing = "idle" /\ statements = <<>> /\ line = 1 /\ ok = 0 /\ failed = 0 /\ failures = <<>> /\ wrong = <<>>
    /\ dest = {} /\ session = Clean /\ changes = 0 /\ broken = 0

Breaks == broken < MaxBroken /\ broken' = broken + 1

--------------------------------------------------------------------------------
(* The statements of a file.                                               *)

Create(o) == [op |-> "create", obj |-> o, n |-> 0]
Insert(t, n) == [op |-> "insert", obj |-> t, n |-> n]
Setting(s) == [op |-> s, obj |-> 0, n |-> 0]

ByName(S) ==
    [j \in 1 .. Cardinality(S) |->
        CHOOSE o \in S : Cardinality({p \in S : p.name < o.name}) = j - 1]
Of(S, K) == ByName({o \in S : o.kind \in K})
Creates(S, K) == LET s == Of(S, K) IN [j \in DOMAIN s |-> Create(s[j])]

Less(a, b) == IF a < b THEN a ELSE b
\* The rows of table t, and rows with n of them for t.
Given(rows, t) == IF t \in DOMAIN rows THEN rows[t] ELSE 0
With(rows, t, n) == [u \in DOMAIN rows \cup {t} |-> IF u = t THEN n ELSE rows[u]]
\* At most EXPORT_INSERT_BATCH rows per statement (SQL Server: one block per table).
Inserts(rows, t) == IF Given(rows, t) > 0 THEN <<Insert(t, Given(rows, t))>> ELSE <<>>
AllInserts(S, rows) ==
    LET s == Of(S, {"table"}) IN FlattenSeq([j \in DOMAIN s |-> Inserts(rows, s[j].name)])
\* Each table followed by its rows.
TablesWithData(S, rows) ==
    LET s == Of(S, {"table"})
    IN  FlattenSeq([j \in DOMAIN s |-> <<Create(s[j])>> \o Inserts(rows, s[j].name)])

\* Faulty: triggers are created before the rows are inserted.
TriggersFirst(S, rows) ==
    Creates(S, {"table"}) \o Creates(S, {"routine"}) \o Creates(S, {"trigger"})
        \o AllInserts(S, rows) \o Creates(S, {"view", "mview"}) \o Creates(S, {"index"})
        \o Creates(S, {"fk"})
\* build_postgres_export_script, build_sqlserver_export_script
SchemaScript(S, rows) ==
    Creates(S, {"table"}) \o Creates(S, {"routine"}) \o AllInserts(S, rows)
        \o Creates(S, {"view", "mview"}) \o Creates(S, {"index"}) \o Creates(S, {"fk"})
        \o Creates(S, {"trigger"})
\* Faulty: the transaction of the script stays open.
SqliteOpenScript(S, rows) ==
    <<Setting("unchecked"), Setting("begin")>> \o TablesWithData(S, rows)
        \o Creates(S, {"view"}) \o Creates(S, {"index"}) \o Creates(S, {"trigger"})
        \o <<Setting("checked")>>
\* build_export_script of SQLite
SqliteScript(S, rows) ==
    <<Setting("unchecked"), Setting("begin")>> \o TablesWithData(S, rows)
        \o Creates(S, {"view"}) \o Creates(S, {"index"}) \o Creates(S, {"trigger"})
        \o <<Setting("commit"), Setting("checked")>>
\* build_clickhouse_export_script
ClickHouseScript(S, rows) ==
    Creates(S, {"table"}) \o Creates(S, {"view", "mview"}) \o AllInserts(S, rows)

--------------------------------------------------------------------------------
(* export_database_to_file                                                 *)

\* What each of the catalogue queries reads; "columns" is a query of its own.
MysqlReads == <<{"table", "view"}, {"trigger"}, {"event"}>>
SqliteReads == <<{"table", "view", "index", "trigger"}, {"columns"}>>
ClickHouseReads == <<{"table", "view", "mview"}>>
PostgresReads ==
    <<{"table", "view", "mview"}, {"columns"}, {"keys"}, {"index"}, {"fk"}, {"trigger"},
      {"routine"}>>
SqlserverReads == <<{"table", "view"}, {"columns"}, {"keys"}>>
SqlserverReadsMore == <<{"index"}, {"fk"}, {"trigger"}, {"routine"}>>
Queries(e) ==
    CASE e = "mysql" -> MysqlReads
      [] e = "sqlite" -> SqliteReads
      [] e = "clickhouse" -> ClickHouseReads
      [] e = "postgres" -> PostgresReads
      [] OTHER -> SqlserverReads \o SqlserverReadsMore

StartExport ==
    /\ exporting = "idle" /\ exporting' = "read"
    /\ token' \in IF dbtype = "clickhouse" THEN {"none", "registered"} ELSE {"none"}
    /\ UNCHANGED <<dbtype, cat, include_data, nth, meta, columned, rowsRead, file, result, early,
                   import, changes, broken>>

ListedTables(S) == Of(S, {"table"})
\* Tables without columns are left out of the one query that reads all rows.
WithColumns == {t.name : t \in {o \in meta : o.kind = "table"}} \cap columned
Present == {o.name : o \in cat}
RowsOf(t) == LET o == CHOOSE p \in cat : p.name = t IN Less(o.rows, MaxRows)

\* The next catalogue query; behind the last one come the rows.
ReadCatalogue ==
    /\ exporting = "read" /\ nth <= Len(Queries(dbtype))
    /\ meta' = meta \cup {o \in cat : o.kind \in Queries(dbtype)[nth]}
    /\ columned' = IF "columns" \in Queries(dbtype)[nth] \/ dbtype \in {"mysql", "clickhouse"}
                   THEN {o.name : o \in {p \in cat : p.kind = "table"}} ELSE columned
    /\ nth' = nth + 1 /\ UNCHANGED <<exporting, rowsRead, file, result, token, early>>
CatalogueRead ==
    /\ exporting = "read" /\ nth > Len(Queries(dbtype)) /\ nth' = 1
    /\ exporting' = IF dbtype = "mysql" THEN "write" ELSE "data"
    /\ file' = IF dbtype = "mysql" THEN <<Setting("unchecked")>> ELSE file
    /\ UNCHANGED <<meta, columned, rowsRead, result, token, early>>

\* SqlExportCancelToken::check
Cancelled == token = "cancelled"

\* Without ClickHouse all rows are read by one query over all tables.
ReadAllRows ==
    /\ exporting = "data" /\ dbtype # "clickhouse" /\ exporting' = "write" /\ nth' = 1
    /\ include_data => WithColumns \subseteq Present
    /\ rowsRead' = IF include_data THEN [t \in WithColumns |-> RowsOf(t)] ELSE <<>>
    /\ UNCHANGED <<meta, columned, file, result, token, early>>

\* load_clickhouse_export_data_blocks: one table after the other.
BeginTable ==
    /\ exporting = "data" /\ dbtype = "clickhouse" /\ ~Cancelled
    /\ include_data /\ nth <= Len(ListedTables(meta))
    /\ exporting' = "fetch"
    /\ UNCHANGED <<nth, meta, columned, rowsRead, file, result, token, early>>
TableRead ==
    /\ exporting = "fetch" /\ ~Cancelled /\ exporting' = "data"
    /\ ListedTables(meta)[nth].name \in Present
    /\ LET t == ListedTables(meta)[nth].name IN rowsRead' = With(rowsRead, t, RowsOf(t))
    /\ nth' = nth + 1 /\ UNCHANGED <<meta, columned, file, result, token, early>>
DataOver ==
    /\ exporting = "data" /\ dbtype = "clickhouse" /\ ~Cancelled
    /\ include_data => nth > Len(ListedTables(meta))
    /\ exporting' = "write" /\ nth' = 1
    /\ UNCHANGED <<meta, columned, rowsRead, file, result, token, early>>

MysqlOrder(S) == ListedTables(S) \o Of(S, {"view"}) \o Of(S, {"trigger"}) \o Of(S, {"event"})

\* The object a query is about is gone: one of the tables of the query over all rows, the
\* table of ClickHouse's loop, the object SHOW CREATE asks for.
RowsMissing ==
    exporting = "data" /\ dbtype # "clickhouse" /\ include_data /\ ~(WithColumns \subseteq Present)
TableMissing == exporting = "fetch" /\ ListedTables(meta)[nth].name \notin Present
ObjectMissing ==
    exporting = "write" /\ dbtype = "mysql" /\ nth <= Len(MysqlOrder(meta))
        /\ MysqlOrder(meta)[nth].name \notin Present
Missing == RowsMissing \/ TableMissing \/ ObjectMissing
\* The export ends with an error: what is in the file stays.
Abort ==
    /\ result' = ExportError /\ exporting' = "done" /\ token' = "none"
    /\ UNCHANGED <<dbtype, cat, include_data, nth, meta, columned, rowsRead, file, early, import,
                   changes>>
Aborts ==
    /\ \/ exporting \in {"data", "fetch"} /\ Cancelled /\ dbtype = "clickhouse"
       \/ Missing
    /\ Abort /\ UNCHANGED broken
\* A query fails or the file cannot be written.
Fails == exporting \notin {"idle", "done"} /\ Breaks /\ Abort

\* The buffered engines build the whole script and write it at once.
WriteScript ==
    /\ exporting = "write" /\ dbtype # "mysql" /\ exporting' = "flush"
    /\ file' = CASE dbtype = "sqlite" -> SqliteScript(meta, rowsRead)
                 [] dbtype = "clickhouse" -> ClickHouseScript(meta, rowsRead)
                 [] OTHER -> SchemaScript(meta, rowsRead)
    /\ UNCHANGED <<nth, meta, columned, rowsRead, result, token, early>>

\* MySQL: SHOW CREATE and the rows of one object after the other, written at once.
WriteObject ==
    /\ exporting = "write" /\ dbtype = "mysql" /\ nth <= Len(MysqlOrder(meta))
    /\ LET o == MysqlOrder(meta)[nth] rows == o.kind = "table" /\ include_data
       IN  /\ o.name \in Present
           /\ file' = file \o <<Create(o)>>
                        \o IF rows THEN Inserts([t \in {o.name} |-> RowsOf(t)], o.name) ELSE <<>>
           /\ rowsRead' = IF rows THEN With(rowsRead, o.name, RowsOf(o.name)) ELSE rowsRead
    /\ nth' = nth + 1 /\ UNCHANGED <<exporting, meta, columned, result, token, early>>
WriteFooter ==
    /\ exporting = "write" /\ dbtype = "mysql" /\ nth > Len(MysqlOrder(meta))
    /\ exporting' = "flush"
    /\ file' = Append(file, Setting("checked"))
    /\ UNCHANGED <<nth, meta, columned, rowsRead, result, token, early>>

Size(S, K) == Cardinality({o \in S : o.kind \in K})
\* insert_rows
Total(S, rows) ==
    Sum([j \in 1 .. Len(ListedTables(S)) |-> Given(rows, ListedTables(S)[j].name)])
Flush ==
    /\ exporting = "flush" /\ exporting' = "done" /\ token' = "none"
    /\ result' = [kind |-> "ok", tables |-> Size(meta, {"table"}),
                  views |-> Size(meta, {"view", "mview"}), triggers |-> Size(meta, {"trigger"}),
                  rows |-> Total(meta, rowsRead)]
    /\ UNCHANGED <<nth, meta, columned, rowsRead, file, early>>

Export ==
    /\ \/ ReadCatalogue \/ CatalogueRead \/ ReadAllRows \/ BeginTable \/ TableRead \/ DataOver
       \/ WriteScript \/ WriteObject \/ WriteFooter \/ Flush
    /\ UNCHANGED <<dbtype, cat, include_data, import, changes, broken>>

\* cancel_sql_export: only exports with a registered id.
Cancel ==
    /\ token = "registered" /\ token' = "cancelled"
    /\ early' = (exporting \in {"read", "data", "fetch"})
    /\ UNCHANGED <<dbtype, cat, include_data, exporting, nth, meta, columned, rowsRead, file,
                   result, import, changes, broken>>

\* Another client drops or creates an object.
Alter ==
    /\ changes < MaxChanges /\ changes' = changes + 1 /\ exporting \notin {"idle", "done"}
    /\ \/ \E o \in cat : cat' = cat \ {o}
       \/ \E o \in {p \in cat : p.kind = "table"}, n \in {9} \ Present :
             cat' = cat \cup {[o EXCEPT !.name = n]}
    /\ UNCHANGED <<dbtype, include_data, export, import, broken>>

--------------------------------------------------------------------------------
(* import_sql_file                                                         *)

Names == {o.name : o \in dest}
\* Foreign keys of MySQL and SQLite are part of their table and checked only later.
Unchecked == session.unchecked
\* The server accepts the statement.  The head of a statement that was cut is incomplete,
\* and what follows out of place; a lone END commits in SQLite and does nothing in PostgreSQL.
Accepted(s) ==
    CASE s.op = "create" -> s.obj.name \notin Names /\ s.obj.on \subseteq Names
      [] s.op = "insert" ->
            /\ s.obj \in Names
            \* a foreign key needs the rows it refers to
            /\ \A f \in dest : (f.kind = "fk" /\ ~Unchecked /\ f.link[1] = s.obj)
                    => \E p \in dest : p.name = f.link[2] /\ p.rows >= s.n
      [] s.op = "begin" -> ~session.tx
      [] s.op = "commit" -> session.tx
      [] s.op \in {"head", "inner"} -> FALSE
      [] s.op = "end" -> dbtype = "postgres" \/ (dbtype = "sqlite" /\ session.tx)
      [] OTHER -> TRUE

\* Triggers and materialized views copy the rows that are inserted.
Copied(t, n) ==
    [o \in dest |-> IF o.name = t \/ \E c \in dest : /\ c.kind \in {"trigger", "mview"}
                                                   /\ c.link = <<t, o.name>>
                   THEN [o EXCEPT !.rows = @ + n] ELSE o]
Applied(s) ==
    CASE s.op = "create" -> dest \cup {[s.obj EXCEPT !.rows = 0]}
      [] s.op = "insert" -> {Copied(s.obj, s.n)[o] : o \in dest}
      [] OTHER -> dest
SessionAfter(s) ==
    CASE s.op = "begin" -> [session EXCEPT !.tx = TRUE]
      [] s.op \in {"commit", "end"} -> [session EXCEPT !.tx = FALSE]
      [] s.op = "unchecked" -> [session EXCEPT !.unchecked = TRUE]
      [] s.op = "checked" -> [session EXCEPT !.unchecked = FALSE]
      [] OTHER -> session

\* split_import_sql_for_database_type: a body in no quotes comes apart at its semicolons,
\* except in the batches of SQL Server.
CutApart(e, o) == o.body # <<>> /\ e \in {"mysql", "sqlite", "postgres"}
Fragments(e, s) ==
    IF s.op = "create" /\ CutApart(e, s.obj)
    THEN <<[op |-> "head", obj |-> s.obj, n |-> 0]>>
            \o [j \in DOMAIN s.obj.body |-> IF s.obj.body[j] = "insert" THEN Insert(s.obj.link[2], 1)
                                            ELSE Setting(s.obj.body[j])]
    ELSE <<s>>
AllFragments(e, f) == FlattenSeq([i \in DOMAIN f |-> Fragments(e, f[i])])

\* A file without statements is refused.
StartImport ==
    /\ exporting = "done" /\ doing = "idle" /\ doing' = "run"
    /\ statements' = AllFragments(dbtype, file) /\ statements' # <<>>
    /\ UNCHANGED <<dbtype, cat, include_data, export, line, ok, failed, failures, wrong, dest,
                   session, changes, broken>>

RunOk ==
    /\ doing = "run" /\ line <= Len(statements) /\ Accepted(statements[line])
    /\ dest' = Applied(statements[line]) /\ session' = SessionAfter(statements[line])
    /\ ok' = ok + 1 /\ line' = line + 1
    /\ UNCHANGED <<doing, statements, failed, failures, wrong, broken>>

\* record_import_failure
Recorded(f, n) == IF Len(f) < MaxRecorded THEN Append(f, n) ELSE f
RunFails ==
    /\ doing = "run" /\ line <= Len(statements)
    /\ \/ ~Accepted(statements[line]) /\ UNCHANGED broken
       \/ Breaks
    /\ failed' = failed + 1 /\ failures' = Recorded(failures, line) /\ wrong' = Append(wrong, line)
    /\ line' = line + 1 /\ UNCHANGED <<doing, statements, ok, dest, session>>

EndImport ==
    /\ doing = "run" /\ line > Len(statements) /\ doing' = "done"
    /\ UNCHANGED <<statements, line, ok, failed, failures, wrong, dest, session, broken>>

Import ==
    /\ RunOk \/ RunFails \/ EndImport
    /\ UNCHANGED <<dbtype, cat, include_data, export, changes>>

FileNext == StartExport \/ Export \/ Aborts \/ Fails \/ Cancel \/ Alter \/ StartImport \/ Import

FileSpec == FileInit /\ [][FileNext]_fileVars
--------------------------------------------------------------------------------
(* Properties.                                                             *)

Written(K) == Cardinality({j \in DOMAIN file : file[j].op = "create" /\ file[j].obj.kind \in K})
RowsIn(f) == Sum([j \in DOMAIN f |-> IF f[j].op = "insert" THEN f[j].n ELSE 0])

\* The numbers an export reports are those of its file, and it only succeeds with a
\* whole file, whatever other clients did to the catalogue between the queries.
ExportHonest ==
    result.kind = "ok" =>
        /\ result.tables = Written({"table"}) /\ result.views = Written({"view", "mview"})
        /\ result.triggers = Written({"trigger"}) /\ result.rows = RowsIn(file)
        /\ \A o \in meta : \E j \in DOMAIN file : file[j] = Create(o)

\* A cancel that is accepted before the script is built ends the export with an error,
\* and nothing is written.
CancelStops == early => (result.kind # "ok" /\ file = <<>>)

\* What the import loses: the objects whose body comes apart, and what needs one of them.
Lost ==
    LET lost[n \in 0 .. Cardinality(meta)] ==
            IF n = 0 THEN {o \in meta : CutApart(dbtype, o)}
            ELSE LET names == {p.name : p \in lost[n - 1]}
                 IN  lost[n - 1] \cup {o \in meta : o.on \cap names # {}}
    IN  lost[Cardinality(meta)]
\* The rows nobody exported: those that inserts of such bodies leave in table t, and those
\* that ClickHouse's materialized views copy once more.
Strays(t) ==
    LET cut == ByName({o \in meta : CutApart(dbtype, o) /\ o.link[2] = t})
    IN  Sum([j \in DOMAIN cut |-> Cardinality({k \in DOMAIN cut[j].body : cut[j].body[k] = "insert"})])
Copies(t) ==
    LET views == ByName({o \in meta : dbtype = "clickhouse" /\ o.kind = "mview" /\ o.link[2] = t})
    IN  Sum([j \in DOMAIN views |-> RowsOf(views[j].link[1])])
\* What may fail: the pieces of a body, what needs it, and SQLite's COMMIT behind an END.
Excused(s) ==
    \/ s.op \in {"head", "inner", "end"}
    \/ s.op = "create" /\ s.obj \in Lost
    \/ s.op = "commit" /\ \E o \in meta : CutApart("sqlite", o)

\* A file that was exported while nobody changed the database is imported into an empty
\* one with the same objects and rows: objects come after what they need, and rows before
\* the foreign keys and triggers that would check or copy them.  Lost are, and reported,
\* the objects whose bodies the import cuts, with what needs them; there are no more rows
\* than their inserts, and ClickHouse's materialized views, add; nothing else fails.
Replays ==
    (doing = "done" /\ result.kind = "ok" /\ changes = 0 /\ broken = 0) =>
        /\ {[o EXCEPT !.rows = 0] : o \in dest} = {[o EXCEPT !.rows = 0] : o \in meta \ Lost}
        /\ \A o \in dest : o.rows = IF include_data THEN RowsOf(o.name) + Strays(o.name) + Copies(o.name)
                                    ELSE Strays(o.name)
        /\ \A k \in DOMAIN wrong : Excused(statements[wrong[k]])
        /\ \A o \in Lost : \E k \in DOMAIN wrong :
              statements[wrong[k]].op \in {"create", "head"} /\ statements[wrong[k]].obj = o

\* The import report counts every statement once and lists the first failures.
ImportHonest ==
    doing = "done" =>
        /\ ok + failed = Len(statements) /\ failed = Len(wrong)
        /\ failures = SubSeq(wrong, 1, Less(MaxRecorded, failed))

\* The connection that ran a whole exported file goes back to the pool without an open
\* transaction and with foreign keys checked, even if objects could not be created and an
\* END cut off from its trigger ended the transaction early.
SessionClean ==
    (doing = "done" /\ result.kind = "ok" /\ broken = 0) => session = Clean

\* Export and import report what they did, a cancelled export writes nothing into its file,
\* and the connection that ran a whole file is as it was.
FileHonest == FileTypeOK /\ ExportHonest /\ CancelStops /\ ImportHonest /\ SessionClean
================================================================================

------------------------------- MODULE Schema -------------------------------
(***************************************************************************)
(* Tables as the schema comparison sees them (db/schema_compare) and as    *)
(* the target server changes them.  A table is read twice: its public      *)
(* snapshot (columns in order) and, by a second query, its native          *)
(* metadata (db/schema_sync load_metadata).  A column that exists on both  *)
(* sides is compared field by field.                                       *)
(*                                                                         *)
(* A column is a record: ord, typ, null, dflt, key (0, or its place in the *)
(* primary or sorting key), extra ("", "auto", "odd", "gen" or, for a      *)
(* generated column that MySQL does not store, "virtual"), note, and the   *)
(* native detail gen: the generation expression, the identity seed, the    *)
(* name of a default constraint or the codec, 0 where there is none.       *)
(***************************************************************************)
EXTENDS Integers, FiniteSets, SequencesExt

CONSTANT NoTable

Engines == {"mysql", "postgres", "sqlite", "sqlserver", "clickhouse"}
\* Column numbers are dense: the others number columns once and leave gaps.
Dense == {"mysql", "sqlite", "clickhouse"}

\* Columns by their numbers, with the places they have; a table.
AreColumns(cols) ==
    /\ DOMAIN cols \subseteq Int /\ IsFiniteSet(DOMAIN cols)
    /\ \A c \in DOMAIN cols : /\ "ord" \in DOMAIN cols[c] /\ cols[c].ord \in Int
                             /\ "key" \in DOMAIN cols[c]
IsTable(t) ==
    /\ DOMAIN t = {"cols", "shape", "opt", "note", "next"}
    /\ AreColumns(t.cols) /\ t.next \in Int

--------------------------------------------------------------------------------
(* Snapshots.                                                              *)

\* load_schema_snapshot: only whether a column belongs to the key.
PublicView(t) ==
    IF t = NoTable THEN NoTable
    ELSE [c \in DOMAIN t.cols |->
            [t.cols[c] EXCEPT !.key = IF @ = 0 THEN 0 ELSE 1, !.gen = 0]]

\* load_metadata: the shape of the table, options, comment and key, and of every column
\* the native details the engine's query returns (fields F).
Details(t, F) ==
    [shape |-> t.shape, opt |-> t.opt, note |-> t.note,
     pk |-> \E c \in DOMAIN t.cols : t.cols[c].key # 0,
     cols |-> [c \in DOMAIN t.cols |->
                 [special |-> IF "extra" \in F THEN t.cols[c].extra ELSE "",
                  gen |-> t.cols[c].gen, key |-> t.cols[c].key,
                  dflt |-> IF "dflt" \in F THEN t.cols[c].dflt ELSE "none",
                  typ |-> IF "typ" \in F THEN t.cols[c].typ ELSE "int"]]]
\* engine, collation and row format; generation expressions
MysqlNative(t) == Details(t, {})
\* relkind; identity, generation, default and user-defined types; no options
PgNative(t) == [Details(t, {"extra", "dflt", "typ"}) EXCEPT !.opt = 0]
\* CREATE TABLE text, hidden columns; no comments
SqliteNative(t) == [Details(t, {}) EXCEPT !.note = 0]
\* identity, computed columns, default constraints, user-defined types; no options
SsNative(t) == [Details(t, {"extra", "dflt", "typ"}) EXCEPT !.opt = 0]
\* engine and its keys; default kinds and codecs
ChNative(t) == Details(t, {"extra", "dflt", "typ"})
NativeView(engine, t) ==
    IF t = NoTable THEN NoTable
    ELSE CASE engine = "mysql" -> MysqlNative(t) [] engine = "postgres" -> PgNative(t)
           [] engine = "sqlite" -> SqliteNative(t) [] engine = "sqlserver" -> SsNative(t)
           [] engine = "clickhouse" -> ChNative(t)

--------------------------------------------------------------------------------
(* Comparison (schema_compare/mod.rs).                                     *)

NullDefault(d) == d \in {"none", "null"}
DefaultsEqual(s, t) == (NullDefault(s) /\ NullDefault(t)) \/ s = t

Fields == {"ord", "typ", "null", "dflt", "key", "extra", "note"}
ChangedFields(s, t) ==
    {f \in Fields : IF f = "dflt" THEN ~DefaultsEqual(s[f], t[f]) ELSE s[f] # t[f]}

Added(src, tgt) == DOMAIN src \ DOMAIN tgt
Shared(src, tgt) == DOMAIN src \cap DOMAIN tgt
Changed(src, tgt) == {c \in Shared(src, tgt) : ChangedFields(src[c], tgt[c]) # {}}
\* compare_table_columns is not empty
ColumnsDiffer(src, tgt) == DOMAIN src # DOMAIN tgt \/ Changed(src, tgt) # {}
TableDiffers(src, tgt) ==
    IF src = NoTable \/ tgt = NoTable THEN src # tgt ELSE ColumnsDiffer(src, tgt)

\* The columns S of a snapshot in their order (ties by name).
Before(cols, a, b) == \/ cols[a].ord < cols[b].ord
                      \/ cols[a].ord = cols[b].ord /\ a < b
Place(cols, S, c) == Cardinality({d \in S : Before(cols, d, c)}) + 1
InOrder(cols, S) == [i \in 1 .. Cardinality(S) |-> CHOOSE c \in S : Place(cols, S, c) = i]

Position(s, c) == CHOOSE i \in DOMAIN s : s[i] = c
MaxPosition(cols) == Max({0} \cup {cols[c].ord : c \in DOMAIN cols})

\* FIRST, or AFTER the column before it in the source.
PositionClause(src, c) ==
    LET i == Place(src, DOMAIN src, c)
    IN  IF i = 1 THEN <<0>> ELSE <<InOrder(src, DOMAIN src)[i - 1]>>

--------------------------------------------------------------------------------
(* Statements and what the target server does with them.                   *)

Stmt(op, col, def, pos) == [op |-> op, col |-> col, def |-> def, pos |-> pos]
\* A statement that gives some fields of a column new values.
SetCol(c, def) == Stmt("set", c, def, <<>>)
TableStmt(op, def) == Stmt(op, 0, def, <<>>)

\* The fields of f and, where it has none, those of g.
Over(f, g) == [x \in DOMAIN f \cup DOMAIN g |-> IF x \in DOMAIN f THEN f[x] ELSE g[x]]

\* The column c stands first, or right behind the column pos names.
Moved(cols, c, pos) ==
    [d \in DOMAIN cols |->
        [cols[d] EXCEPT !.ord = IF d # c \/ pos = <<>> THEN 2 * @
                                ELSE IF pos[1] = 0 THEN 0 ELSE 2 * cols[pos[1]].ord + 1]]
\* The columns with the numbers 1, 2, ...
Renumbered(cols) ==
    [c \in DOMAIN cols |-> [cols[c] EXCEPT !.ord = Place(cols, DOMAIN cols, c)]]
\* The columns with the numbers the server gives them after a change of c.
Placed(engine, cols, c, pos) ==
    IF engine \in Dense THEN Renumbered(Moved(cols, c, pos)) ELSE cols

WithKey(cols, keys) ==
    [c \in DOMAIN cols |->
        IF c \in ToSet(keys) THEN [cols[c] EXCEPT !.key = Position(keys, c), !.null = FALSE]
        ELSE [cols[c] EXCEPT !.key = 0]]

WithColumn(cols, c, col) == [d \in DOMAIN cols \cup {c} |-> IF d = c THEN col ELSE cols[d]]
Without(cols, c) == [d \in DOMAIN cols \ {c} |-> cols[d]]

\* What a server refuses of a column that exists.  SQL Server: a new type under a
\* default constraint (5074).  PostgreSQL: a new type without USING, unless every value
\* is assigned to it (text) and the default, which keeps its own type, too.  MySQL: an
\* AUTO_INCREMENT column that does not lead a key, a second one, the key taken from
\* under one (1075), and a column that becomes virtual or ceases to be (3106).
AutoColumns(cols) == {c \in DOMAIN cols : cols[c].extra = "auto"}
Retyped(t, s) == s.op = "set" /\ "typ" \in DOMAIN s.def /\ s.def.typ # t.cols[s.col].typ
SqlServerRefuses(t, s) == Retyped(t, s) /\ t.cols[s.col].dflt # "none"
PostgresRefuses(t, s) == Retyped(t, s) /\ (s.def.typ # "text" \/ t.cols[s.col].dflt = "now")
MysqlRefuses(t, s) ==
    \/ s.op = "create" /\ \E c \in AutoColumns(s.def.cols) : s.def.cols[c].key # 1
    \/ s.op = "add" /\ s.def.extra = "auto"
    \/ /\ s.op = "set"
       /\ LET col == t.cols[s.col] IN
          \/ /\ s.def.extra = "auto" /\ col.extra # "auto"
             /\ col.key # 1 \/ AutoColumns(t.cols) # {}
          \/ s.def.extra # col.extra /\ "virtual" \in {s.def.extra, col.extra}
    \/ s.op = "dropPk" /\ \E c \in AutoColumns(t.cols) : t.cols[c].key = 1
Refuses(engine, t, s) ==
    \/ engine = "sqlserver" /\ SqlServerRefuses(t, s)
    \/ engine = "postgres" /\ PostgresRefuses(t, s)
    \/ engine = "mysql" /\ MysqlRefuses(t, s)

\* The server accepts the statement (data and permissions apart).
Accepts(engine, t, s) ==
  /\ IF s.op = "create" THEN t = NoTable
     ELSE /\ t # NoTable
          /\ CASE s.op = "add" -> /\ s.col \notin DOMAIN t.cols
                                  /\ s.pos # <<>> => s.pos[1] \in DOMAIN t.cols \cup {0}
               [] s.op = "set" ->
                     /\ s.col \in DOMAIN t.cols
                     /\ s.pos # <<>> => s.pos[1] \in (DOMAIN t.cols \ {s.col}) \cup {0}
                     /\ ("null" \in DOMAIN s.def /\ s.def.null) => t.cols[s.col].key = 0
                     \* a column of the key cannot be altered
                     /\ (engine = "sqlserver" /\ "typ" \in DOMAIN s.def)
                           => t.cols[s.col].key = 0
               [] s.op = "dropPk" -> \E c \in DOMAIN t.cols : t.cols[c].key # 0
               [] s.op = "addPk" -> /\ \A c \in DOMAIN t.cols : t.cols[c].key = 0
                                    /\ \A c \in ToSet(s.def) :
                                         c \in DOMAIN t.cols /\ ~t.cols[c].null
               [] s.op = "dropCol" -> /\ s.col \in DOMAIN t.cols /\ t.cols[s.col].key = 0
                                      /\ DOMAIN t.cols # {s.col}
               [] OTHER -> TRUE
  /\ ~Refuses(engine, t, s)

Apply(engine, t, s) ==
    CASE s.op = "create" -> s.def
      [] s.op = "dropTab" -> NoTable
      [] s.op = "tabNote" -> [t EXCEPT !.note = s.def]
      [] s.op = "dropPk" -> [t EXCEPT !.cols = WithKey(t.cols, <<>>)]
      [] s.op = "addPk" -> [t EXCEPT !.cols = WithKey(t.cols, s.def)]
      [] s.op = "add" ->
            [t EXCEPT !.cols = Placed(engine, WithColumn(t.cols, s.col, [s.def EXCEPT !.ord = t.next]),
                                      s.col, s.pos),
                      !.next = t.next + 1]
      [] s.op = "set" ->
            [t EXCEPT !.cols = Placed(engine, WithColumn(t.cols, s.col, Over(s.def, t.cols[s.col])),
                                      s.col, s.pos)]
      [] s.op = "dropCol" ->
            [t EXCEPT !.cols = Placed(engine, Without(t.cols, s.col), s.col, <<>>),
                      !.next = IF engine \in Dense THEN t.next - 1 ELSE t.next]

\* A statement that is one transaction runs all of its steps or none: whether it is
\* accepted, and the table afterwards.
AcceptsAll(engine, t, stmts) ==
    LET after[i \in 0 .. Len(stmts)] ==
            IF i = 0 THEN <<TRUE, t>>
            ELSE IF after[i - 1][1] /\ Accepts(engine, after[i - 1][2], stmts[i])
                 THEN <<TRUE, Apply(engine, after[i - 1][2], stmts[i])>>
                 ELSE <<FALSE, t>>
    IN  after[Len(stmts)]
================================================================================

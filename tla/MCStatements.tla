---------------------------- MODULE MCStatements ----------------------------
(* What sends statements to a database, on small instances: the
   synchronisation of schemas ("sync") over every pair of small tables, against
   other clients and with failures; the export and import of SQL files ("file")
   and the splitting of their text ("script").  They share no state, so a
   behaviour moves one part and leaves the others where they start. *)
EXTENDS DatabaseSync, SqlFile, SqlScript

CONSTANT Parts

VARIABLE part
MCVars == <<part, vars, fileVars, scriptVars>>

-----------------------------------------------------------------------------
(* Schemas. *)

Col(typ, null, dflt, key, extra, note, gen) ==
    [ord |-> 0, typ |-> typ, null |-> null, dflt |-> dflt, key |-> key, extra |-> extra,
     note |-> note, gen |-> gen]

Plain == Col("int", TRUE, "none", 0, "", 0, 0)
Other == Col("text", FALSE, "lit", 0, "", 1, 0)
Key1 == Col("int", FALSE, "none", 1, "", 0, 0)
Key2 == [Key1 EXCEPT !.key = 2]

\* The columns of s, defined by d, numbered from 1; the next column gets the number free.
Table(s, d, opt, note, free) ==
    [cols |-> [c \in ToSet(s) |-> [d[Position(s, c)] EXCEPT !.ord = Position(s, c)]],
     shape |-> "plain", opt |-> opt, note |-> note, next |-> free]
Simple(s, d) == Table(s, d, 0, 0, Len(s) + 1)

\* Legal tables: the key places are 1..n.
Legal(d) ==
    LET k == {i \in DOMAIN d : d[i].key # 0}
    IN  {d[i].key : i \in k} = 1 .. Cardinality(k)
TablesOf(S, D) ==
    UNION {{Simple(s, d) : d \in {e \in [1 .. Len(s) -> D] : Legal(e)}} : s \in S}

\* SQLite keeps no comments, PostgreSQL and SQL Server have no table options.
Fit(e, t) ==
    IF t = NoTable THEN t
    ELSE IF e = "sqlite"
    THEN [t EXCEPT !.note = 0,
                   !.cols = [c \in DOMAIN t.cols |-> [t.cols[c] EXCEPT !.note = 0]]]
    ELSE IF e \in {"postgres", "sqlserver"} THEN [t EXCEPT !.opt = 0] ELSE t
World(e, s, t, drifting, failing) ==
    [engine |-> e, source |-> s, target |-> t, drifts |-> drifting, faults |-> failing]
One(t) == [u \in {1} |-> t]
WorldsOf(E, S, D) ==
    UNION {{World(e, One(Fit(e, s)), One(Fit(e, d)), 0, 0) : s \in S, d \in D} : e \in E}

\* Every pair of small tables: other columns, other order, other definitions, keys.
Small == {Plain, Other, Key1, Key2}
PairWorlds ==
    WorldsOf(Engines,
        TablesOf({<<1>>, <<2, 1>>, <<1, 3>>}, Small) \cup {NoTable},
        TablesOf({<<1>>}, Small) \cup TablesOf({<<1, 2>>}, Small \ {Other}) \cup {NoTable})

\* Columns with native details, tables with options, comments and numbering gaps.
\* A MySQL column counts itself when it leads the key, or an index of its own.
Auto == Col("int", FALSE, "none", 0, "auto", 0, 1)
AutoKey == Col("int", FALSE, "none", 1, "auto", 0, 0)
Gen(v) == Col("int", TRUE, "none", 0, "gen", 0, v)
Mat(v) == Col("int", TRUE, "lit", 0, "gen", 0, v)
Codec == [Plain EXCEPT !.gen = 1]
Named == [Other EXCEPT !.gen = 1]
Now == [Plain EXCEPT !.dflt = "now"]
Virtual == [Gen(1) EXCEPT !.extra = "virtual"]
Nullable == [Plain EXCEPT !.dflt = "null"]
Odd == [Plain EXCEPT !.dflt = "odd"]
Udt == [Plain EXCEPT !.typ = "udt"]
Native(e) ==
    {Plain, Key1, Now, Nullable, Odd, Udt} \cup
    CASE e = "mysql" -> {[Auto EXCEPT !.gen = 0], Gen(1), Gen(2), Virtual, [Plain EXCEPT !.extra = "odd"]}
      [] e = "postgres" -> {Auto, Gen(1), Gen(2)}
      [] e = "sqlite" -> {Gen(1)}
      [] e = "sqlserver" -> {Auto, [Auto EXCEPT !.gen = 2], Gen(1), Named}
      [] e = "clickhouse" -> {Mat(0), Codec, [Plain EXCEPT !.extra = "odd"]}
NativeTables(e) ==
    {Table(<<1, 2>>, <<Key1, c>>, 0, 0, f) : c \in Native(e) \ {Key1},
        f \in IF e \in Dense THEN {3} ELSE {3, 4}}
    \cup (IF e = "mysql" THEN {Simple(<<1>>, <<AutoKey>>), Simple(<<1, 2>>, <<AutoKey, Key2>>)} ELSE {})
    \cup {Simple(<<1>>, <<Key1>>), [Simple(<<1>>, <<Key1>>) EXCEPT !.shape = "odd"]}
    \cup {Table(<<1>>, <<Key1>>, o, n, 2) : o \in 0 .. 1, n \in 0 .. 1}
NativeWorlds ==
    UNION {WorldsOf({e}, NativeTables(e) \cup {NoTable}, NativeTables(e) \cup {NoTable}) : e \in Engines}

\* A column moves, another is added behind it, and the target has columns of its own.
MoveWorlds ==
    WorldsOf({"mysql", "clickhouse"},
        {Simple(<<1, 2, 3>>, <<Plain, Plain, Plain>>)},
        {Simple(<<4, 5, 3, 1>>, <<Plain, Plain, Plain, Plain>>)})
\* The target dropped a column once: its numbers have a gap at the end.
GapWorlds ==
    WorldsOf({"postgres", "sqlserver"}, {Simple(<<1, 2>>, <<Plain, Plain>>)},
             {Table(<<1>>, <<Plain>>, 0, 0, 3)})

PlanWorlds == PairWorlds \cup NativeWorlds \cup MoveWorlds \cup GapWorlds

\* Two tables; another client may change either side at any moment.
DriftDesigns == {Simple(<<1>>, <<Key1>>), Simple(<<1, 2>>, <<Key1, Plain>>)}
DriftWorlds ==
    {World(e, (1 :> Simple(<<1, 2>>, <<Key1, Plain>>) @@ 2 :> Simple(<<1>>, <<Plain>>)),
              (1 :> Simple(<<2>>, <<Key1>>) @@ 2 :> NoTable), 1, 0) : e \in Engines}
FaultWorlds ==
    {World(e, One(Simple(<<1, 2>>, <<[Key1 EXCEPT !.typ = "text"], [Plain EXCEPT !.typ = "text"]>>)),
              One(Simple(<<1, 2, 3>>, <<Key1, Plain, Plain>>)),
              0, 2) :
        e \in Engines \ {"sqlite", "clickhouse"}}
    \cup {World(e, One(Simple(<<1, 2, 3>>, <<Key1, Plain, Plain>>)), One(t), 0, 2) :
            e \in Engines, t \in {NoTable, Simple(<<1>>, <<Key1>>)}}

-----------------------------------------------------------------------------
(* SQL files. *)

Obj(kind, name, on, link, rows) ==
    [kind |-> kind, name |-> name, on |-> on, link |-> link, rows |-> rows, body |-> <<>>]
T(name, rows) == Obj("table", name, {}, <<>>, rows)
Compound(kind, name, on, link, body) == [Obj(kind, name, on, link, 0) EXCEPT !.body = body]

\* Table 1 refers to table 2, whose name comes later; a trigger copies into table 2.
TablesAndView == {T(1, 2), T(2, 4), Obj("view", 3, {1, 2}, <<>>, 0)}
Relations == TablesAndView \cup {Obj("trigger", 5, {1}, <<1, 2>>, 0)}
FullSchema == Relations \cup {Obj("index", 4, {1}, <<>>, 0), Obj("fk", 6, {1, 2}, <<1, 2>>, 0)}
\* Triggers, an event and a function of several statements, and a view that calls it.
ReplayWorlds ==
    {<<"mysql", Relations \cup {Obj("event", 8, {}, <<>>, 0)}>>,
     <<"mysql", Relations \cup {Compound("trigger", 6, {1}, <<1, 2>>, <<"inner", "end">>),
                                Compound("event", 8, {}, <<0, 2>>, <<"insert", "end">>)}>>,
     <<"sqlite", TablesAndView \cup {Obj("index", 4, {1}, <<>>, 0)}>>,
     <<"sqlite", TablesAndView \cup {Compound("trigger", 5, {1}, <<1, 2>>, <<"end">>),
                              Compound("trigger", 6, {2}, <<2, 1>>, <<"insert", "inner", "end">>)}>>,
     <<"postgres", FullSchema \cup {Obj("routine", 7, {}, <<>>, 0), Obj("mview", 8, {3}, <<>>, 0)}>>,
     <<"postgres", FullSchema \cup {Compound("routine", 7, {}, <<0, 2>>, <<"insert", "inner", "end">>),
                                    Obj("view", 8, {1, 7}, <<>>, 0), Obj("view", 10, {8}, <<>>, 0)}>>,
     <<"sqlserver", FullSchema \cup {Compound("routine", 7, {}, <<0, 2>>, <<"insert", "end">>)}>>,
     <<"clickhouse", {T(1, 2), T(2, 4), Obj("view", 3, {1}, <<>>, 0), Obj("mview", 4, {1, 2}, <<1, 2>>, 0)}>>}

-----------------------------------------------------------------------------
(* Texts. *)

\* Contents of up to two characters.
Contents(A) == {<<>>} \cup {<<a>> : a \in A} \cup {<<a, b>> : a \in A, b \in A}
All == {"x", ";", "quote", "backslash", "nl", "(", ")", "GO"}
Text(data, lead, rows) ==
    [data |-> data, lead |-> lead, hash |-> FALSE, rows |-> rows, body |-> <<>>, quoted |-> FALSE]
Single(A) == {Text(d, l, <<c>>) : d \in BOOLEAN, l \in BOOLEAN, c \in Contents(A)}
Double(A) == {Text(TRUE, FALSE, <<c, <<"x", "quote">> >>) : c \in Contents(A)}
Second == {Text(TRUE, TRUE, <<<<"quote">>>>), Text(FALSE, FALSE, <<<<";">>>>)}
Files(E, S) == {<<e, <<s, t>>>> : e \in E, s \in S, t \in Second}

\* A trigger or routine with a body of two statements.
Bodied(A, quoted) ==
    {[Text(FALSE, l, <<c>>) EXCEPT !.body = <<<<d>>, <<>>>>, !.quoted = quoted] :
        l \in BOOLEAN, c \in {<<>>, <<"backslash">>}, d \in Contents(A)}
Operators == {[s EXCEPT !.hash = TRUE] : s \in Single({"x", "nl"})}

ReadableScripts ==
    Files({"mysql", "sqlserver", "clickhouse", "sqlite", "postgres"}, Single(All) \cup Double(All))
        \cup Files({"clickhouse"}, Single({"insert", "format", ";"}))
        \cup Files({"mysql", "sqlite", "sqlserver", "postgres"}, Bodied({";", "quote", "backslash"}, FALSE))
        \cup Files({"postgres"}, Bodied({";", "quote", "backslash", "--"}, TRUE) \cup Operators)

-----------------------------------------------------------------------------
\* What the configurations give for Worlds.
SyncWorlds == PlanWorlds \cup DriftWorlds \cup FaultWorlds

\* Where a part that does not move stays.
SyncRests == engine = "sqlite" /\ faults = 2 /\ db["target"][1] = NoTable
FileRests == FileInit /\ dbtype = "mysql" /\ ~include_data
TextRests == /\ dialect = "mysql" /\ stmts = <<>> /\ text = <<>> /\ pos = 1 /\ inside = "out"
             /\ escaped = FALSE /\ cur = <<>> /\ out = <<>>

MCInit ==
    /\ part \in Parts
    /\ Init /\ (part # "sync" => SyncRests)
    /\ IF part = "file" THEN FileInit ELSE FileRests
    /\ IF part = "script" THEN ScriptInit ELSE TextRests

MCNext ==
    \/ part = "sync" /\ Next /\ UNCHANGED <<part, fileVars, scriptVars>>
    \/ part = "file" /\ FileNext /\ UNCHANGED <<part, vars, scriptVars>>
    \/ part = "script" /\ ScriptNext /\ UNCHANGED <<part, vars, fileVars>>

MCSpec == MCInit /\ [][MCNext]_MCVars
=============================================================================

----------------------------- MODULE SchemaPlan -----------------------------
(***************************************************************************)
(* The plan that makes a target table like its source (db/schema_sync):    *)
(* one planner per engine, and the preview that collects the tables'       *)
(* plans, orders the operations and fingerprints them with what they were  *)
(* computed from.  A planner turns the differences it can express into     *)
(* operations, leaves deletions out unless they were asked for, and blocks *)
(* the whole plan on anything else.                                        *)
(*                                                                         *)
(* x is a TablePlanContext: the public snapshots x.src and x.tgt, their    *)
(* native metadata x.srcNat and x.tgtNat, and x.drops (include_drops).     *)
(* blocks holds the columns (0: the table) that could not be planned.      *)
(***************************************************************************)
EXTENDS Schema

Frag(ops, skips, blocks) == [ops |-> ops, skips |-> skips, blocks |-> blocks]
NothingPlanned == Frag({}, {}, {})
Block(b) == Frag({}, {}, b)

\* OperationPhase and the order of kinds within a phase.  Every element of sql is
\* one statement sent to the target: the steps it performs as a whole.
Operation(phase, kind, col, sql) ==
    IF sql = <<>> THEN {} ELSE {[phase |-> phase, kind |-> kind, col |-> col, sql |-> sql]}
CreateOp(sql) == Operation(1, 0, 0, sql)
AddOp(sql) == Operation(2, 0, 0, sql)
AlterOp(sql) == Operation(3, 1, 0, sql)
ReplaceKeyOp(sql) == Operation(3, 2, 0, sql)
CommentOp(col, sql) == Operation(3, 3, col, sql)
DropColumnOps(S) == UNION {Operation(4, 0, c, <<<<Stmt("dropCol", c, 0, <<>>)>>>>) : c \in S}
DropTableOp == Operation(5, 0, 0, <<<<TableStmt("dropTab", 0)>>>>)

\* The statements sql[c] of some columns, in the order of the columns.
ForEach(cols, sql) ==
    LET s == InOrder(cols, DOMAIN sql) IN FlattenSeq([i \in DOMAIN s |-> sql[s[i]]])

Dropped(x) == DOMAIN x.tgt \ DOMAIN x.src
Gone(x) == IF x.drops THEN {} ELSE Dropped(x)
Doomed(x) == IF x.drops THEN Dropped(x) ELSE {}

HasNative(nat, c) == nat # NoTable /\ c \in DOMAIN nat.cols
KeyColumns(cols) == {c \in DOMAIN cols : cols[c].key # 0}

\* The key in its native order; it is unusable when the native metadata, read by a
\* second query, does not have the key the snapshot has.
KeyKnown(cols, nat, S) ==
    /\ \A c \in S : HasNative(nat, c) /\ nat.cols[c].key # 0
    /\ \A c, d \in S : c # d => nat.cols[c].key # nat.cols[d].key
KeyOrder(cols, nat) ==
    LET S == KeyColumns(cols)
    IN  IF Cardinality(S) <= 1 THEN InOrder(cols, S)
        ELSE [i \in 1 .. Cardinality(S) |->
                CHOOSE c \in S : Cardinality({d \in S : nat.cols[d].key < nat.cols[c].key}) = i - 1]

\* The table a CREATE TABLE with these columns produces.
Created(cols, nat, keys, noted) ==
    [cols |-> [c \in DOMAIN cols |->
                [cols[c] EXCEPT !.ord = Place(cols, DOMAIN cols, c), !.gen = nat.cols[c].gen,
                                !.key = IF c \in ToSet(keys) THEN Position(keys, c) ELSE 0,
                                !.note = IF noted THEN @ ELSE 0]],
     shape |-> "plain", opt |-> nat.opt, next |-> Cardinality(DOMAIN cols) + 1,
     note |-> IF noted THEN nat.note ELSE 0]
CreateSql(cols, nat, keys, noted) ==
    <<<<TableStmt("create", Created(cols, nat, keys, noted))>>>>
\* COMMENT ON statements after the CREATE TABLE or ADD COLUMN.
NoteSql(c, note) == IF note = 0 THEN <<>> ELSE <<<<SetCol(c, [note |-> note])>>>>
CreateNotes(cols, nat) ==
    ForEach(cols, [c \in DOMAIN cols |-> NoteSql(c, cols[c].note)])
        \o (IF nat.note = 0 THEN <<>> ELSE <<<<TableStmt("tabNote", nat.note)>>>>)

--------------------------------------------------------------------------------
(* MySQL (schema_sync/mysql.rs).                                           *)

MysqlShape(nat) == nat.shape = "plain"
MysqlSupported(x) ==
    /\ (x.src # NoTable /\ x.srcNat # NoTable) => MysqlShape(x.srcNat)
    /\ (x.tgt # NoTable /\ x.tgtNat # NoTable) => MysqlShape(x.tgtNat)
MysqlExpression(nat, c) == HasNative(nat, c) /\ nat.cols[c].gen # 0
\* generated_storage
MysqlStorage == {"gen", "virtual"}
\* source_column_definition succeeds
MysqlDefinable(cols, nat, c) ==
    /\ cols[c].extra # "odd"
    /\ cols[c].extra \in MysqlStorage => cols[c].dflt = "none" /\ MysqlExpression(nat, c)
MysqlDefinition(cols, nat, c) ==
    [typ |-> cols[c].typ, null |-> cols[c].null, dflt |-> cols[c].dflt,
     extra |-> cols[c].extra, note |-> cols[c].note,
     gen |-> IF cols[c].extra \in MysqlStorage THEN nat.cols[c].gen ELSE 0]
MysqlKeyKnown(cols, nat) ==
    LET S == KeyColumns(cols) IN Cardinality(S) <= 1 \/ KeyKnown(cols, nat, S)

MysqlCreate(x) ==
    LET undefinable == {c \in DOMAIN x.src : ~MysqlDefinable(x.src, x.srcNat, c)}
    IN  IF x.srcNat = NoTable \/ DOMAIN x.src = {} THEN Block({0})
        ELSE IF undefinable # {} THEN Block(undefinable)
        ELSE IF ~MysqlKeyKnown(x.src, x.srcNat) THEN Block({0})
        ELSE LET plain == [c \in DOMAIN x.src |-> [gen |-> MysqlDefinition(x.src, x.srcNat, c).gen]]
             IN  Frag(CreateOp(CreateSql(x.src, [x.srcNat EXCEPT !.cols = plain],
                                         KeyOrder(x.src, x.srcNat), TRUE)), {}, {})

\* Generated on both sides: the expressions must be known to be compared.
MysqlGenerated(x) == {c \in Shared(x.src, x.tgt) : {x.src[c].extra, x.tgt[c].extra} \subseteq MysqlStorage}
MysqlIncomparable(x) ==
    {c \in MysqlGenerated(x) :
        ~(MysqlExpression(x.srcNat, c) /\ MysqlExpression(x.tgtNat, c))}
MysqlRegenerated(x) ==
    {c \in MysqlGenerated(x) \ (Changed(x.src, x.tgt) \cup MysqlIncomparable(x)) :
        x.srcNat.cols[c].gen # x.tgtNat.cols[c].gen}

MysqlAdd(x, c) ==
    <<<<Stmt("add", c, Over([ord |-> 0, key |-> 0], MysqlDefinition(x.src, x.srcNat, c)),
             PositionClause(x.src, c))>>>>
MysqlModify(x, c) ==
    <<<<Stmt("set", c, MysqlDefinition(x.src, x.srcNat, c),
             IF x.src[c].ord # x.tgt[c].ord THEN PositionClause(x.src, c) ELSE <<>>)>>>>

\* The old key is dropped, the columns modified, the new key added.
ReplaceKeySql(old, alters, new) ==
    (IF old = <<>> THEN <<>> ELSE <<<<TableStmt("dropPk", 0)>>>>)
        \o alters \o (IF new = <<>> THEN <<>> ELSE <<<<TableStmt("addPk", new)>>>>)

\* The operations that change the key or, when it stays, only the columns.
KeyChange(x, old, new, alters) ==
    IF old = new THEN Frag(AlterOp(alters), {}, {})
    ELSE IF old # <<>> /\ ~x.drops THEN Block({0})
    ELSE Frag(ReplaceKeyOp(ReplaceKeySql(old, alters, new)), {}, {})

MysqlChange(x) ==
    LET undefinable == {c \in (Added(x.src, x.tgt) \cup Changed(x.src, x.tgt)
                                   \cup MysqlRegenerated(x)) \ MysqlIncomparable(x) :
                          ~MysqlDefinable(x.src, x.srcNat, c)}
        blocks == undefinable \cup MysqlIncomparable(x)
        adds == ForEach(x.src, [c \in Added(x.src, x.tgt) \ blocks |-> MysqlAdd(x, c)])
        alters == ForEach(x.src, [c \in (Changed(x.src, x.tgt) \cup MysqlRegenerated(x)) \ blocks |->
                                    MysqlModify(x, c)])
        known == MysqlKeyKnown(x.src, x.srcNat) /\ MysqlKeyKnown(x.tgt, x.tgtNat)
        key == IF known THEN KeyChange(x, KeyOrder(x.tgt, x.tgtNat),
                                       KeyOrder(x.src, x.srcNat), alters)
               ELSE Frag(AlterOp(alters), {}, {0})
    IN  Frag(AddOp(adds) \cup DropColumnOps(Doomed(x)) \cup key.ops, Gone(x),
             blocks \cup key.blocks)

\* The table exists only in the target.
DropTable(x) == IF x.drops THEN Frag(DropTableOp, {}, {}) ELSE Frag({}, {0}, {})

MysqlPlan(x) ==
    IF ~MysqlSupported(x) THEN Block({0})
    ELSE IF x.tgt = NoTable THEN MysqlCreate(x)
    ELSE IF x.src = NoTable THEN DropTable(x)
    ELSE MysqlChange(x)

--------------------------------------------------------------------------------
(* PostgreSQL (schema_sync/postgres.rs, db/postgres_ddl.rs).               *)

PgMatches(cols, nat, c) == cols[c].dflt = nat.cols[c].dflt
\* validate_column_for_builder; F: the changed fields, full: the whole definition
PgBuildable(cols, nat, c, full, F) ==
    /\ HasNative(nat, c) /\ PgMatches(cols, nat, c)
    /\ (full \/ F \cap {"typ", "null", "dflt", "extra"} # {}) => nat.cols[c].special = ""
    /\ (full \/ "typ" \in F) => nat.cols[c].typ # "udt"
    /\ (full \/ "dflt" \in F) => nat.cols[c].dflt # "odd"
    /\ (full \/ "extra" \in F) /\ nat.cols[c].special = "" => cols[c].extra = ""

\* build_add_column_sqls: appended, then commented.
AppendSql(cols, c) ==
    <<<<Stmt("add", c, [cols[c] EXCEPT !.note = 0, !.key = 0], <<>>)>>>>
        \o NoteSql(c, cols[c].note)

\* build_alter_column_sqls: one statement per field, in this order.
PgAlterSql(s, t, c) ==
    LET part(f, def) == IF s[f] = t[f] THEN <<>> ELSE <<<<SetCol(c, def)>>>>
    IN  part("typ", [typ |-> s.typ]) \o part("null", [null |-> s.null])
            \o part("dflt", [dflt |-> s.dflt]) \o part("note", [note |-> s.note])

PgCreate(x) ==
    LET bad == {c \in DOMAIN x.src : ~PgBuildable(x.src, x.srcNat, c, TRUE, {})}
    IN  IF x.srcNat = NoTable THEN Block({0})
        ELSE IF x.srcNat.shape # "plain" THEN Block({0})
        ELSE IF bad # {} THEN Block(bad)
        ELSE IF ~KeyKnown(x.src, x.srcNat, KeyColumns(x.src)) THEN Block({0})
        ELSE Frag(CreateOp(CreateSql(x.src, x.srcNat, KeyOrder(x.src, x.srcNat), FALSE)
                               \o CreateNotes(x.src, x.srcNat)), {}, {})

\* A column on both sides whose place or native nature cannot be converted.
PgFixed(x, c) ==
    \/ x.src[c].ord # x.tgt[c].ord
    \/ ~HasNative(x.srcNat, c) \/ ~HasNative(x.tgtNat, c)
    \/ ~PgMatches(x.src, x.srcNat, c) \/ ~PgMatches(x.tgt, x.tgtNat, c)
    \/ x.srcNat.cols[c].special # x.tgtNat.cols[c].special
    \/ x.srcNat.cols[c].gen # x.tgtNat.cols[c].gen

\* Relaxations that need include_drops.
PgDrops(s, t) ==
    \/ s.null /\ ~t.null
    \/ t.dflt # "none" /\ s.dflt = "none"

PgNeedsAlter(x, c) == ChangedFields(x.src[c], x.tgt[c]) \ {"ord", "key", "extra"} # {}
PgUnalterable(x, c) ==
    LET F == ChangedFields(x.src[c], x.tgt[c])
    IN  \/ "extra" \in F
        \/ /\ PgNeedsAlter(x, c)
           /\ \/ ~x.drops /\ PgDrops(x.src[c], x.tgt[c])
              \/ ~PgBuildable(x.src, x.srcNat, c, FALSE, F)

\* A column can only be added behind every column the target has.
Appendable(x, c) == x.src[c].ord > MaxPosition(x.tgt)

PgChange(x) ==
    LET fixed == {c \in Shared(x.src, x.tgt) : PgFixed(x, c)}
        adds == Added(x.src, x.tgt)
        alters == {c \in Changed(x.src, x.tgt) \ fixed : PgNeedsAlter(x, c)}
        blocks == fixed
            \cup {c \in adds : ~Appendable(x, c) \/ ~PgBuildable(x.src, x.srcNat, c, TRUE, {})}
            \cup {c \in Changed(x.src, x.tgt) \ fixed : PgUnalterable(x, c)}
        key == KeyChange(x, KeyOrder(x.tgt, x.tgtNat), KeyOrder(x.src, x.srcNat),
                         ForEach(x.src, [c \in alters |-> PgAlterSql(x.src[c], x.tgt[c], c)]))
    IN  IF x.srcNat = NoTable \/ x.tgtNat = NoTable THEN Block({0})
        ELSE IF x.srcNat.shape # x.tgtNat.shape THEN Block({0})
        ELSE IF blocks # {} THEN Frag({}, Gone(x), blocks)
        ELSE IF \/ ~KeyKnown(x.src, x.srcNat, KeyColumns(x.src))
                \/ ~KeyKnown(x.tgt, x.tgtNat, KeyColumns(x.tgt))
                \/ (KeyColumns(x.tgt) # {}) # x.tgtNat.pk
                \/ key.blocks # {}
             THEN Frag({}, Gone(x), {0})
        ELSE Frag(AddOp(ForEach(x.src, [c \in adds |-> AppendSql(x.src, c)]))
                      \cup key.ops \cup DropColumnOps(Doomed(x)), Gone(x), {})

PgPlan(x) ==
    IF x.tgt = NoTable THEN PgCreate(x)
    ELSE IF x.src = NoTable THEN DropTable(x)
    ELSE PgChange(x)

--------------------------------------------------------------------------------
(* SQLite (schema_sync/sqlite.rs): tables are never rebuilt.               *)

SqlitePhysical(nat) == nat # NoTable /\ nat.shape = "plain"
\* Every column has metadata that agrees with the snapshot, and key places are 1..n.
SqliteKeyKnown(cols, nat) ==
    /\ \A c \in DOMAIN cols :
            HasNative(nat, c) /\ (cols[c].key # 0 <=> nat.cols[c].key # 0)
    /\ {nat.cols[c].key : c \in KeyColumns(cols)} = 1 .. Cardinality(KeyColumns(cols))
SqliteOrdinary(cols, nat, c) ==
    HasNative(nat, c) /\ nat.cols[c].gen = 0 /\ cols[c].extra = "" /\ cols[c].dflt # "odd"

SqliteCreate(x) ==
    LET bad == {c \in DOMAIN x.src : ~SqliteOrdinary(x.src, x.srcNat, c)}
    IN  IF ~SqlitePhysical(x.srcNat) \/ DOMAIN x.src = {} THEN Block({0})
        ELSE IF x.srcNat.opt # 0 THEN Block({0})
        ELSE IF bad # {} THEN Block(bad)
        ELSE IF ~SqliteKeyKnown(x.src, x.srcNat) THEN Block({0})
        ELSE Frag(CreateOp(CreateSql(x.src, x.srcNat, KeyOrder(x.src, x.srcNat), FALSE)), {}, {})

\* ALTER TABLE ADD COLUMN: at the end, constant default, none that is evaluated.
SqliteAddable(x, c) ==
    /\ Appendable(x, c) /\ x.src[c].key = 0 /\ SqliteOrdinary(x.src, x.srcNat, c)
    /\ ~x.src[c].null => ~NullDefault(x.src[c].dflt)
    /\ x.src[c].dflt # "now"

\* What would need the table rebuilt: another shape, key or option.
SqliteChangeable(x) ==
    /\ SqlitePhysical(x.srcNat) /\ SqlitePhysical(x.tgtNat)
    /\ SqliteKeyKnown(x.src, x.srcNat) /\ SqliteKeyKnown(x.tgt, x.tgtNat)
    /\ KeyOrder(x.src, x.srcNat) = KeyOrder(x.tgt, x.tgtNat)
    /\ x.srcNat.opt = x.tgtNat.opt

SqliteChange(x) ==
    LET adds == Added(x.src, x.tgt)
        blocks == Changed(x.src, x.tgt) \cup {c \in adds : ~SqliteAddable(x, c)}
    IN  IF ~SqliteChangeable(x) THEN Block({0})
        ELSE IF blocks # {} THEN Frag({}, Gone(x), blocks)
        ELSE Frag(AddOp(ForEach(x.src, [c \in adds |->
                            AppendSql([x.src EXCEPT ![c].note = 0], c)])) \cup DropColumnOps(Doomed(x)), Gone(x), {})

SqlitePlan(x) ==
    IF x.tgt = NoTable THEN SqliteCreate(x)
    ELSE IF x.src = NoTable
         THEN IF SqlitePhysical(x.tgtNat) THEN DropTable(x) ELSE Block({0})
    ELSE SqliteChange(x)

--------------------------------------------------------------------------------
(* SQL Server (schema_sync/sqlserver.rs, db/sqlserver_ddl.rs).             *)

SsPlain(nat) == nat # NoTable /\ nat.shape = "plain"
\* validate_native_shape: the native details agree with the snapshot.
SsConsistent(cols, nat, c) ==
    /\ HasNative(nat, c) /\ nat.cols[c].special # "odd"
    /\ cols[c].dflt = nat.cols[c].dflt /\ cols[c].extra = nat.cols[c].special
\* validate_definition_rebuild: IDENTITY(1,1) at most, and no named default.
SsBuildable(cols, nat, c) ==
    /\ SsConsistent(cols, nat, c)
    /\ nat.cols[c].special # "gen" /\ nat.cols[c].typ # "udt" /\ nat.cols[c].dflt # "odd"
    /\ nat.cols[c].gen = IF nat.cols[c].special = "auto" THEN 1 ELSE 0
SsKeyKnown(cols, nat) ==
    KeyKnown(cols, nat, KeyColumns(cols)) /\ (KeyColumns(cols) # {} <=> nat.pk)

SsCreate(x) ==
    LET bad == {c \in DOMAIN x.src : ~SsBuildable(x.src, x.srcNat, c)}
    IN  IF ~SsPlain(x.srcNat) THEN Block({0})
        ELSE IF bad # {} THEN Block(bad)
        ELSE IF ~SsKeyKnown(x.src, x.srcNat) THEN Block({0})
        ELSE Frag(CreateOp(CreateSql(x.src, x.srcNat, KeyOrder(x.src, x.srcNat), FALSE)
                               \o CreateNotes(x.src, x.srcNat)), {}, {})

\* Identity, computed and user-defined types must be the same, and so must the name of
\* an unchanged default constraint.
SsFixed(x, c) ==
    \/ x.src[c].ord # x.tgt[c].ord
    \/ ~SsConsistent(x.src, x.srcNat, c) \/ ~SsConsistent(x.tgt, x.tgtNat, c)
    \/ LET s == x.srcNat.cols[c] t == x.tgtNat.cols[c]
       IN  \/ s.special # t.special \/ (s.typ = "udt") # (t.typ = "udt")
           \/ s.special # "" /\ s.gen # t.gen
           \/ s.special = "" /\ s.dflt = t.dflt /\ s.gen # t.gen

SsAddable(x, c) == Appendable(x, c) /\ SsBuildable(x.src, x.srcNat, c)
SsUnalterable(x, c) ==
    LET F == ChangedFields(x.src[c], x.tgt[c]) nat == x.srcNat.cols[c]
    IN  \/ "extra" \in F
        \/ F \cap {"typ", "null", "dflt"} # {} /\ nat.special # ""
        \/ F \cap {"typ", "null"} # {} /\ nat.typ = "udt"
        \/ ~x.drops /\ ((x.src[c].null /\ ~x.tgt[c].null) \/ "dflt" \in F)
        \/ "dflt" \in F /\ nat.dflt = "odd"
        \/ nat.special = "gen" /\ "note" \in F /\ F # {"note"}

SsAlterSql(x, c) ==
    LET s == x.src[c] t == x.tgt[c] F == ChangedFields(s, t)
    IN  (IF F \cap {"typ", "null"} = {} THEN <<>>
         ELSE <<<<SetCol(c, [typ |-> s.typ, null |-> s.null])>>>>)
        \o (IF "dflt" \notin F THEN <<>>
            ELSE <<<<SetCol(c, [dflt |-> s.dflt, gen |-> x.srcNat.cols[c].gen])>>>>)
        \o (IF "note" \notin F THEN <<>> ELSE <<<<SetCol(c, [note |-> s.note])>>>>)

\* A key column whose type changes takes the key down with it.
SsKeyRedefined(x) ==
    \E c \in Changed(x.src, x.tgt) :
        /\ x.src[c].key # 0 /\ x.tgt[c].key # 0
        /\ ChangedFields(x.src[c], x.tgt[c]) \cap {"typ", "null"} # {}

\* Faulty: the batch is not a transaction.
SplitBatch(sql) == sql
\* build_atomic_sqlserver_batch: all the statements as one.
AtomicBatch(sql) == IF sql = <<>> THEN <<>> ELSE <<FlattenSeq(sql)>>

SsChange(x) ==
    LET fixed == {c \in Shared(x.src, x.tgt) : SsFixed(x, c)}
        adds == Added(x.src, x.tgt)
        changed == Changed(x.src, x.tgt) \ fixed
        alters == {c \in changed : PgNeedsAlter(x, c)}
        blocks == fixed
            \cup {c \in adds : ~SsAddable(x, c)}
            \cup {c \in changed : "extra" \in ChangedFields(x.src[c], x.tgt[c])}
            \cup {c \in alters : SsUnalterable(x, c)}
        old == KeyOrder(x.tgt, x.tgtNat)
        new == KeyOrder(x.src, x.srcNat)
        replace == old # new \/ SsKeyRedefined(x)
        alterSql == ForEach(x.src, [c \in alters |-> SsAlterSql(x, c)])
        noteSql == IF x.srcNat.note = x.tgtNat.note THEN <<>>
                   ELSE <<<<TableStmt("tabNote", x.srcNat.note)>>>>
    IN  IF ~SsPlain(x.srcNat) \/ ~SsPlain(x.tgtNat) THEN Block({0})
        ELSE IF blocks # {} THEN Frag({}, Gone(x), blocks)
        ELSE IF \/ ~SsKeyKnown(x.src, x.srcNat) \/ ~SsKeyKnown(x.tgt, x.tgtNat)
                \/ replace /\ old # <<>> /\ ~x.drops
             THEN Frag({}, Gone(x), {0})
        ELSE Frag(AddOp(ForEach(x.src, [c \in adds |->
                            AppendSql([x.src EXCEPT ![c].gen = x.srcNat.cols[c].gen], c)]))
                      \cup (IF replace THEN ReplaceKeyOp(AtomicBatch(ReplaceKeySql(old, alterSql, new)))
                            ELSE AlterOp(alterSql))
                      \cup CommentOp(0, noteSql) \cup DropColumnOps(Doomed(x)), Gone(x), {})

SsPlan(x) ==
    IF x.tgt = NoTable THEN SsCreate(x)
    ELSE IF x.src = NoTable THEN IF SsPlain(x.tgtNat) THEN DropTable(x) ELSE Block({0})
    ELSE SsChange(x)

--------------------------------------------------------------------------------
(* ClickHouse (schema_sync/clickhouse.rs).                                 *)

ChSafeEngine(nat) == nat # NoTable /\ nat.shape = "plain"
ChSupported(nat) ==
    ChSafeEngine(nat) /\ \A c \in DOMAIN nat.cols : nat.cols[c].special # "odd"
ChKey(nat) == [c \in {d \in DOMAIN nat.cols : nat.cols[d].key # 0} |-> nat.cols[c].key]

\* build_column_definition succeeds
ChDefinable(cols, nat, c) ==
    /\ HasNative(nat, c) /\ cols[c].dflt = nat.cols[c].dflt
    /\ cols[c].extra # "" => cols[c].extra = nat.cols[c].special

ChCreate(x) ==
    LET bad == {c \in DOMAIN x.src : ~ChDefinable(x.src, x.srcNat, c)}
    IN  IF ~ChSupported(x.srcNat) THEN Block({0})
        ELSE IF DOMAIN x.src = {} THEN Block({0})
        ELSE IF bad # {} THEN Block(bad)
        ELSE Frag(CreateOp(CreateSql(x.src, x.srcNat,
                    InOrder([c \in DOMAIN ChKey(x.srcNat) |-> [ord |-> x.srcNat.cols[c].key]],
                            DOMAIN ChKey(x.srcNat)), TRUE)), {}, {})

ChAdd(x, c) ==
    <<<<Stmt("add", c, [x.src[c] EXCEPT !.gen = x.srcNat.cols[c].gen, !.key = 0],
             PositionClause(x.src, c))>>>>

ChNativeDiffers(x, c) == x.srcNat.cols[c] # x.tgtNat.cols[c]
\* A member of the key cannot change its type, nor a column its membership.
ChKeyBlocks(x, c) ==
    LET s == x.srcNat.cols[c].key # 0 t == x.tgtNat.cols[c].key # 0
    IN  \/ s # t
        \/ (s \/ t) /\ ChangedFields(x.src[c], x.tgt[c]) \cap {"typ", "null"} # {}
ChRedefined(x, c) ==
    \/ ChangedFields(x.src[c], x.tgt[c]) \ {"note", "key"} # {}
    \/ [x.srcNat.cols[c] EXCEPT !.key = 0, !.typ = "int"]
            # [x.tgtNat.cols[c] EXCEPT !.key = 0, !.typ = "int"]
\* Faulty: MODIFY COLUMN is taken to replace the whole definition.
ChRemoveNothing(c, s, t) == <<>>
\* MODIFY COLUMN keeps a default or codec it does not mention: REMOVE takes it away.
ChRemoveSql(c, s, t) ==
    (IF s.dflt = "none" /\ t.dflt # "none"
     THEN <<<<SetCol(c, [dflt |-> "none", extra |-> ""])>>>> ELSE <<>>)
    \o (IF s.gen = 0 /\ t.gen # 0 THEN <<<<SetCol(c, [gen |-> 0])>>>> ELSE <<>>)
ChAlterSql(x, c) ==
    LET s == x.srcNat.cols[c] t == x.tgtNat.cols[c] col == x.src[c]
        def == Over([typ |-> col.typ, null |-> col.null],
                    Over(IF s.dflt = "none" THEN <<>> ELSE [dflt |-> s.dflt, extra |-> s.special],
                         IF s.gen = 0 THEN <<>> ELSE [gen |-> s.gen]))
    IN  ChRemoveSql(c, s, t)
        \o (IF ChRedefined(x, c) THEN <<<<Stmt("set", c, def, PositionClause(x.src, c))>>>>
            ELSE <<>>)

ChChangeable(x) ==
    /\ ChSupported(x.srcNat) /\ ChSupported(x.tgtNat)
    /\ KeyColumns(x.src) = KeyColumns(x.tgt) /\ ChKey(x.srcNat) = ChKey(x.tgtNat)
    /\ x.srcNat.opt = x.tgtNat.opt

\* The columns on both sides that differ in the snapshot or only natively.
ChModified(x, known) ==
    {c \in Shared(x.src, x.tgt) \cap known :
        c \in Changed(x.src, x.tgt) \/ ChNativeDiffers(x, c)}

ChChange(x) ==
    LET noNative == {c \in DOMAIN x.src : \/ ~HasNative(x.srcNat, c)
                                          \/ c \in DOMAIN x.tgt /\ ~HasNative(x.tgtNat, c)}
        adds == Added(x.src, x.tgt)
        modified == ChModified(x, DOMAIN x.src \ noNative)
        keyed == {c \in modified : ChKeyBlocks(x, c)}
        undefinable == {c \in adds \cup {d \in modified \ keyed : ChRedefined(x, d)} :
                            ~ChDefinable(x.src, x.srcNat, c)}
        blocks == noNative \cup keyed \cup undefinable
        noted == {c \in modified \ keyed : "note" \in ChangedFields(x.src[c], x.tgt[c])}
        noteSql == IF x.srcNat.note = x.tgtNat.note THEN <<>>
                   ELSE <<<<TableStmt("tabNote", x.srcNat.note)>>>>
    IN  IF ~ChChangeable(x) THEN Block({0})
        ELSE Frag(AddOp(ForEach(x.src, [c \in adds \ blocks |-> ChAdd(x, c)]))
                    \cup AlterOp(ForEach(x.src, [c \in modified \ blocks |-> ChAlterSql(x, c)]))
                    \cup CommentOp(0, ForEach(x.src, [c \in noted |->
                                                <<<<SetCol(c, [note |-> x.src[c].note])>>>>]))
                    \cup CommentOp(1, noteSql)
                    \cup Operation(4, 0, 0, ForEach(x.tgt, [c \in Doomed(x) |->
                                                <<<<Stmt("dropCol", c, 0, <<>>)>>>>])),
                  Gone(x), blocks)

ChPlan(x) ==
    IF x.tgt = NoTable THEN ChCreate(x)
    ELSE IF x.src = NoTable THEN IF ChSafeEngine(x.tgtNat) THEN DropTable(x) ELSE Block({0})
    ELSE ChChange(x)

--------------------------------------------------------------------------------
(* The preview of all selected tables (schema_sync/mod.rs).                *)

\* Differences of the whole table that no statement of these planners expresses.
Unhandled(engine, x) ==
    IF x.srcNat = NoTable \/ x.tgtNat = NoTable THEN {}
    ELSE IF \/ engine = "mysql" /\ x.srcNat.opt # x.tgtNat.opt
            \/ engine \in {"mysql", "postgres"} /\ x.srcNat.note # x.tgtNat.note
    THEN {0} ELSE {}

\* A difference for which nothing was planned blocks the plan.
Planned(engine, x) ==
    CASE engine = "mysql" -> MysqlPlan(x) [] engine = "postgres" -> PgPlan(x)
      [] engine = "sqlite" -> SqlitePlan(x) [] engine = "sqlserver" -> SsPlan(x)
      [] engine = "clickhouse" -> ChPlan(x)
\* Tables that differ only in what no planner handles are blocked.
OrBlocked(x, p) == IF p = NothingPlanned /\ ~TableDiffers(x.src, x.tgt) THEN Block({0}) ELSE p
PlanTable(engine, x) ==
    OrBlocked(x, [Planned(engine, x) EXCEPT !.blocks = @ \cup Unhandled(engine, x)])

\* The operations of all tables in the order of phase, table, kind and summary.
Precedes(p, o) ==
    \/ p.phase < o.phase
    \/ p.phase = o.phase /\ p.table < o.table
    \/ p.phase = o.phase /\ p.table = o.table /\ p.kind < o.kind
    \/ p.phase = o.phase /\ p.table = o.table /\ p.kind = o.kind /\ p.col < o.col
Ordered(ops) ==
    [i \in 1 .. Cardinality(ops) |->
        CHOOSE o \in ops : Cardinality({p \in ops : Precedes(p, o)}) + 1 = i]

\* finalize_preview once more sets deletions aside when they were not asked for.
Kept(req, ops) == IF req.drops THEN ops ELSE {o \in ops : o.phase \notin {4, 5}}

OfTable(o, t) == [phase |-> o.phase, kind |-> o.kind, col |-> o.col, sql |-> o.sql, table |-> t]

NoPreview == [failed |-> TRUE]
\* finalize_preview: what the tables' fragments add up to.
Finalized(req, s, d, frag) ==
    LET ops == UNION {{OfTable(o, t) : o \in frag[t].ops} : t \in req.selected}
        kept == Kept(req, ops)
        skips == UNION {frag[t].skips \X {t} : t \in req.selected}
                    \cup {<<o.col, o.table>> : o \in ops \ kept}
        blocks == UNION {frag[t].blocks \X {t} : t \in req.selected}
        read(v) == [t \in {u \in req.selected : v.pub[u] # NoTable} |-> <<v.pub[t], v.nat[t]>>]
    IN  [failed |-> FALSE, ops |-> Ordered(kept), skips |-> skips, blocks |-> blocks,
         executable |-> kept # {} /\ blocks = {},
         fingerprint |-> <<req, read(s), read(d), Ordered(kept), skips, blocks>>]
\* A selected table that is gone or no longer differs fails the preview.
Preview(engine, req, s, d) ==
    LET context(t) == [src |-> s.pub[t], tgt |-> d.pub[t], srcNat |-> s.nat[t],
                       tgtNat |-> d.nat[t], drops |-> req.drops]
        settled(t) == /\ ~TableDiffers(s.pub[t], d.pub[t])
                      /\ s.pub[t] = NoTable \/ s.nat[t] = d.nat[t]
    IN  IF \E t \in req.selected : settled(t) THEN NoPreview
        ELSE Finalized(req, s, d, [t \in req.selected |-> PlanTable(engine, context(t))])

\* The statements of a preview, one after the other.
Statements(p) ==
    FlattenSeq([i \in DOMAIN p.ops |->
        [j \in DOMAIN p.ops[i].sql |-> [op |-> i, table |-> p.ops[i].table, steps |-> p.ops[i].sql[j]]]])
================================================================================

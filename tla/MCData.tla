------------------------------- MODULE MCData -------------------------------
(* The transaction of a data task, the way of one value, the gate in front of
   the transaction, the pages of a preview, and the editing of rows on small
   instances.  They share no state, so a behaviour moves one part and leaves the others where they
   start. *)
EXTENDS DataTransfer, TransferGate, DiffPages

CONSTANTS Parts, None
CONSTANTS Columns, Targets

VARIABLES part
VARIABLES offer, cell, step, value, stored
VARIABLES editEngine, shape, table, edit, lent, openTx, others

OneValue == INSTANCE ValueTransfer

valueVars == <<offer, cell, step, value, stored>>
editVars == <<editEngine, shape, table, edit, lent, openTx, others>>
MCVars == <<vars, part, valueVars, gateVars, pageVars, editVars>>

-----------------------------------------------------------------------------
\* Two tables with at most two keys; the first refers to the second, or both do.
TwoTables == {1, 2}
SomeRows == {<<1, 1, 1>>, <<1, 1, 2>>, <<2, 1, 1>>, <<2, 2, 1>>}
Graphs == {{<<1, 2>>}, {<<1, 2>>, <<2, 1>>}}
AllModes == {"merge", "mirror", "append", "replace"}

\* Columns whose ranges, lengths, precisions and scales meet at their edges.
Raw(base, len, p, s, unsigned) == [base |-> base, len |-> len, p |-> p, s |-> s, unsigned |-> unsigned]
Whole(base, unsigned) == Raw(base, -1, 0, 0, unsigned)
Dec(p, s) == Raw("DECIMAL", -2, p, s, 0)
Bare(base) == Raw(base, -1, 0, 0, 0)
Of(base, len) == Raw(base, len, 0, 0, 0)
SomeColumns ==
  [mysql |-> {Whole("TINYINT", 0), Whole("TINYINT", 1), Whole("MEDIUMINT", 0), Whole("BIGINT", 0), Whole("BIGINT", 1),
              Dec(3, 1), Dec(4, 2), Of("VARCHAR", 4), Bare("TEXT"), Bare("LONGTEXT"), Bare("BLOB"),
              Bare("LONGBLOB"), Bare("DATE"), Bare("DATETIME"), Of("DATETIME", 6), Of("TIME", 3),
              Bare("TIMESTAMP"), Bare("FLOAT")},
   postgres |-> {Whole("SMALLINT", 0), Whole("BIGINT", 0), Dec(3, 2), Dec(4, 2), Of("VARCHAR", 4), Bare("TEXT"),
                 Bare("BYTEA"), Bare("BOOLEAN"), Bare("DATE"), Bare("TIMESTAMP"), Of("TIME", 3),
                 Bare("TIMESTAMPTZ"), Bare("REAL"), Bare("DOUBLE")},
   sqlserver |-> {Whole("TINYINT", 0), Whole("SMALLINT", 0), Whole("BIGINT", 0), Dec(4, 1), Of("NVARCHAR", 4),
                  Of("NVARCHAR", 8), Bare("NVARCHAR"), Bare("VARBINARY"), Bare("BIT"), Bare("DATE"),
                  Of("DATETIME2", 3), Of("DATETIME2", 7), Of("TIME", 7), Bare("DATETIME"), Bare("REAL")},
   sqlite |-> {Bare("INT"), Bare("BOOLEAN"), Bare("TEXT"), Bare("BLOB"), Dec(3, 1), Bare("REAL"), Bare("DATE")},
   clickhouse |-> {Whole("TINYINT", 1), Whole("BIGINT", 0), Whole("BIGINT", 1), Bare("STRING"), Dec(3, 1)}]

\* Up to four operations of two tables; one of size 4 exceeds the budget of 3.
SomeSpools == UNION {[1..n -> [table : {1, 2}, size : {1, 2, 4}]] : n \in 0..4}

\* Two rows and a free place, four keys of which one has two spellings, batches
\* of up to two updates.
EditEngines == {"MySql", "Postgres", "Sqlite", "SqlServer", "ClickHouse"}
EditShapes == {[index |-> i, lossless |-> TRUE, reliable |-> TRUE, hidden |-> FALSE] :
                i \in {"primary", "unique"}}
            \cup {[index |-> "none", lossless |-> TRUE, reliable |-> FALSE, hidden |-> FALSE],
                  [index |-> "primary", lossless |-> FALSE, reliable |-> TRUE, hidden |-> TRUE]}
EditClass == ("a" :> 1) @@ ("A" :> 1) @@ ("b" :> 2) @@ ("c" :> 3) @@ ("C" :> 3)
EditRow(k, v) == [k |-> k, v |-> v]
Sets == {("v" :> "y"), ("k" :> "c"), ("k" :> "C") @@ ("v" :> "y"), ("k" :> "b")}
Updates == [key : {"a", "A", "b", "C", "null"}, set : Sets]
Pairs == {<<u, w>> : u, w \in [key : {"a", "A", "b"}, set : Sets]}
EditBatches == {<<>>, <<[key |-> None, set |-> ("v" :> "y")]>>} \cup {<<u>> : u \in Updates} \cup Pairs
Start3(first, second) == (1 :> first) @@ (2 :> second) @@ (3 :> None)
EditTables == {Start3(EditRow("a", "x"), EditRow("b", "x")), Start3(EditRow("a", "x"), EditRow("null", "x")),
             Start3(EditRow("null", "x"), EditRow("null", "x"))}
EditInserts == {EditRow("c", "large")}
EditKeys == {"a", "C", None}

Edit == INSTANCE RowEditing WITH
    Engines <- EditEngines, Shapes <- EditShapes, RowIds <- 1..3, Class <- EditClass, Null <- "null",
    Values <- {"x", "y", "large"}, Large <- {"large"}, Batches <- EditBatches, Tables <- EditTables,
    Inserts <- EditInserts, ChunkRows <- 2, ParameterLimit <- 6, MaxResultRows <- 2, MaxOther <- 1,
    engine <- editEngine, session <- lent
ASSUME Edit!EditingConstantsOK /\ GateConstantsOK

-----------------------------------------------------------------------------
MCInit ==
  /\ part \in Parts
  /\ IF part = "transfer" THEN Init
     ELSE /\ mode = "append" /\ engine = "network" /\ fks = {<<1, 2>>} /\ src = {} /\ tgt = {}
          /\ at = "idle" /\ plan = NoPlan /\ stage = 1 /\ sent = {} /\ tx = {} /\ session = "none" /\ link = "up"
          /\ outcome = "none" /\ cancelled = FALSE /\ late = FALSE /\ drifts = 0 /\ faults = 0
  /\ IF part = "values" THEN OneValue!Init
     ELSE /\ offer = [from |-> "mysql", source |-> Bare("DATE"), to |-> "mysql", target |-> Bare("DATE"), nullable |-> TRUE]
          /\ cell = OneValue!Null /\ value = OneValue!Null /\ stored = OneValue!Null /\ step = "asked"
  /\ IF part = "gate" THEN GateInit
     ELSE /\ world = Good("sqlite")
          /\ ask = [from |-> "mysql", kind |-> "transfer", mode |-> "append", readable |-> TRUE]
          /\ view = NoView /\ planned = NoView /\ gate = "asked" /\ alters = 0
  /\ IF part = "preview" THEN PagesInit ELSE spool = <<>> /\ cursor = 0 /\ shown = <<>> /\ pages = "more"
  /\ Edit!Init /\ (part # "edit" => editEngine = "MySql" /\ shape.index = "primary" /\ shape.lossless
                                   /\ table = Start3(EditRow("a", "x"), EditRow("b", "x")))

MCNext ==
  \/ part = "transfer" /\ Next /\ UNCHANGED <<part, valueVars, gateVars, pageVars, editVars>>
  \/ part = "values" /\ OneValue!Next /\ UNCHANGED <<part, vars, gateVars, pageVars, editVars>>
  \/ part = "gate" /\ GateNext /\ UNCHANGED <<part, vars, valueVars, pageVars, editVars>>
  \/ part = "preview" /\ PagesNext /\ UNCHANGED <<part, vars, valueVars, gateVars, editVars>>
  \/ part = "edit" /\ Edit!Next /\ UNCHANGED <<part, vars, valueVars, gateVars, pageVars>>

MCSpec == MCInit /\ [][MCNext]_MCVars

-----------------------------------------------------------------------------
\* ValueTransfer, type_mapping.rs: a verified cell means the same on both
\* sides, and an accepted pair of columns takes every value of the source.
ValuesIntact == OneValue!TypeOK /\ OneValue!Lossless /\ OneValue!AcceptedArrives

\* RowEditing: a committed batch changed the rows it names and no other.
BatchExact == Edit!BatchExact

\* RowEditing: a rollback that is reported left nothing, and a field that a page
\* cuts can be fetched in full.
RollbackHonest == Edit!RollbackHonest /\ []Edit!TypeOK /\ []Edit!CutFieldsReachable

\* The plan of data tasks: an accepted pair of columns transfers without loss.
AcceptedVerifies == OneValue!AcceptedVerifies
=============================================================================

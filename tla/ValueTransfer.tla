--------------------------- MODULE ValueTransfer ----------------------------
(***************************************************************************)
(* One cell on its way from a source column to a target column of a data   *)
(* task: the catalogue's column becomes a declared type (metadata_inner),  *)
(* the pair of types is judged (type_mapping.rs), the cell is read through *)
(* the adapter's wire format into a DataValue, converted when the engines  *)
(* differ (normalize_transfer_row), kept in the spool, bound and written,  *)
(* and read back through the target's wire format to be compared with what *)
(* the plan expects.                                                       *)
(*                                                                         *)
(* A catalogue column is [base, len, p, s, unsigned]: its native name, its *)
(* length in bytes (NoLimit when unlimited), precision, scale and sign.  Only  *)
(* the 64 bit width is scaled, to Long bits; the other widths, lengths,    *)
(* precisions and scales are the real ones.  A text or a byte string is    *)
(* its length, a decimal a number of hundredths, a float 1 or NotFinite,   *)
(* a date or time the class of its date and the number of its significant  *)
(* fraction digits.  Columns of fixed length (CHAR, BINARY), which pad,    *)
(* are left out.                                                           *)
(***************************************************************************)
EXTENDS Integers, Sequences, FiniteSets, FiniteSetsExt

CONSTANTS
  Columns,   \* engine -> the catalogue columns it offers
  Targets    \* the engines written to

VARIABLES
  offer,     \* [from, source, to, target, nullable]
  cell,      \* the value in the source column
  step,      \* how far the transfer is
  value,     \* the DataValue of the plan
  stored     \* the value in the target column

valueVars == <<offer, cell, step, value, stored>>

Long == 30
NoLimit == 99
NotFinite == 2
DatabaseTypes == DOMAIN Columns

(* A DataType of type_mapping.rs. *)
Type(k, kind, a, b) == [k |-> k, kind |-> kind, a |-> a, b |-> b]
NoType == Type("none", "", 0, 0)

(* A DataValue, and a stored value, with the shape its text has. *)
Value(t, v, f, kind, shown, sep) ==
  [t |-> t, v |-> v, f |-> f, kind |-> kind, shown |-> shown, sep |-> sep]
Plain(t, v) == Value(t, v, 0, "", 0, "")
Null == Plain("null", 0)
Failed == Plain("failed", 0)

Integers8 == [TINYINT |-> 8, SMALLINT |-> 16, MEDIUMINT |-> 24, BIGINT |-> Long]
Low(bits, unsigned) == IF unsigned = 1 THEN 0 ELSE -(2 ^ (bits - 1))
High(bits, unsigned) == IF unsigned = 1 THEN 2 ^ bits - 1 ELSE 2 ^ (bits - 1) - 1

-----------------------------------------------------------------------------
(* What the catalogue's column is called in the metadata. *)

(* MySQL: the display width of an integer goes away, its sign stays. *)
mysql_declared_type(raw) ==
  [base |-> raw.base, unsigned |-> raw.unsigned,
   arg |-> CASE raw.base \in DOMAIN Integers8 -> <<>>
             [] raw.len = -1 -> <<>>
             [] raw.base \in {"DECIMAL", "NUMERIC"} -> <<raw.p, raw.s>>
             [] OTHER -> <<raw.len>>]

(* SQL Server: an NVARCHAR's length is in bytes, -1 is MAX. *)
sqlserver_declared_type(raw) ==
  [base |-> raw.base, unsigned |-> 0,
   arg |-> CASE raw.base \in {"NVARCHAR", "VARCHAR", "VARBINARY"} ->
                  IF raw.len = -1 THEN <<>>
                  ELSE <<IF raw.base = "NVARCHAR" THEN raw.len \div 2 ELSE raw.len>>
             [] raw.base \in {"DECIMAL", "NUMERIC"} -> <<raw.p, raw.s>>
             [] raw.base \in {"DATETIME2", "TIME"} -> <<raw.len>>
             [] OTHER -> <<>>]

(* The other catalogues print the type. *)
declared_type(e, raw) ==
  CASE e = "mysql" -> mysql_declared_type(raw)
    [] e = "sqlserver" -> sqlserver_declared_type(raw)
    [] raw.base \in {"DECIMAL", "NUMERIC"} -> [base |-> raw.base, unsigned |-> 0, arg |-> <<raw.p, raw.s>>]
    [] OTHER -> [base |-> raw.base, unsigned |-> raw.unsigned,
                 arg |-> IF raw.len = -1 THEN <<>> ELSE <<raw.len>>]

Named(base) == [base |-> base, unsigned |-> 0, arg |-> <<>>]
Sized(base, n) == [base |-> base, unsigned |-> 0, arg |-> <<n>>]
NoName == Named("none")

Unlimited == [TEXT |-> "Text", LONGTEXT |-> "Text", NVARCHAR |-> "Text",
              BLOB |-> "Binary", LONGBLOB |-> "Binary", BYTEA |-> "Binary", VARBINARY |-> "Binary"]
Limited == [VARCHAR |-> "Text", NVARCHAR |-> "Text", VARBINARY |-> "Binary"]
Floats == [REAL |-> 64, FLOAT |-> 64, DOUBLE |-> 64, FLOAT4 |-> 32]
Temporals == {"TIMESTAMP", "TIMESTAMPTZ", "DATETIME2", "DATETIME", "TIME", "DATE"}

(* The type a name and its arguments stand for.  A temporal name without a *)
(* precision has six digits.                                               *)
parse(n) ==
  LET args == Len(n.arg) IN
  CASE n.base \in DOMAIN Integers8 -> Type("Integer", "", Integers8[n.base], n.unsigned)
    [] n.unsigned = 1 -> NoType
    [] n.base \in {"DECIMAL", "NUMERIC"} /\ args = 2 ->
         IF n.arg[1] > 0 /\ n.arg[2] <= n.arg[1] THEN Type("Decimal", "", n.arg[1], n.arg[2])
                                                 ELSE NoType
    [] n.base \in DOMAIN Unlimited /\ args = 0 -> Type(Unlimited[n.base], "", NoLimit, 0)
    [] n.base \in DOMAIN Limited /\ args = 1 -> Type(Limited[n.base], "", n.arg[1], 0)
    [] n.base \in {"BOOLEAN", "BIT"} -> Type("Boolean", "", 0, 0)
    [] n.base \in DOMAIN Floats -> Type("Float", "", Floats[n.base], 0)
    [] n.base \in Temporals /\ args = 0 -> Type("Temporal", n.base, 6, 0)
    [] n.base \in Temporals /\ args = 1 -> Type("Temporal", n.base, n.arg[1], 0)
    [] n.base = "UUID" -> Type("Uuid", "", 0, 0)
    [] OTHER -> NoType

(* Faulty: an unsigned column fits the signed one of its own width. *)
CompatibleAnySign(s, t) ==
  /\ s.k = t.k
  /\ CASE s.k = "Integer" -> t.a >= s.a
       [] s.k = "Decimal" -> t.b >= s.b /\ t.a - t.b >= s.a - s.b
       [] s.k \in {"Text", "Binary", "Float"} -> t.a >= s.a
       [] s.k = "Temporal" -> s.kind = t.kind /\ t.a >= s.a
       [] OTHER -> s.k # "none"

(* Whether the second type holds every value of the first. *)
resolve_transfer_type(s, t) ==
  /\ s.k = t.k
  /\ CASE s.k = "Integer" -> IF s.b = t.b THEN t.a >= s.a ELSE s.b = 1 /\ t.b = 0 /\ t.a > s.a
       [] s.k = "Decimal" -> t.b >= s.b /\ t.a - t.b >= s.a - s.b
       [] s.k \in {"Text", "Binary", "Float"} -> t.a >= s.a
       [] s.k = "Temporal" -> s.kind = t.kind /\ t.a >= s.a
       [] OTHER -> s.k # "none"

(* Native names whose meaning differs between the engines: not offered to  *)
(* a transfer between two of them.                                         *)
OwnMeaning(e, base) ==
  \/ e # "sqlserver" /\ base = "BIT"
  \/ e = "mysql" /\ base = "TIMESTAMP"
  \/ e = "sqlserver" /\ base \in {"DATETIME", "TIMESTAMP"}
  \/ base = "TIMESTAMPTZ"

(* The dates and times the engines share, with the precision an engine     *)
(* gives a column that states none.                                        *)
Shared(e, n) ==
  LET precision == IF n.arg # <<>> THEN n.arg[1]
                   ELSE CASE e = "mysql" -> 0 [] e = "sqlserver" -> 7 [] OTHER -> 6
      moment == [postgres |-> "TIMESTAMP", mysql |-> "DATETIME", sqlserver |-> "DATETIME2"] IN
  CASE n.base = "DATE" -> Sized("DATE", 0)
    [] precision > (IF e = "sqlserver" THEN 7 ELSE 6) -> NoName
    [] n.base = moment[e] -> Sized("TIMESTAMP", precision)
    [] OTHER -> Sized("TIME", precision)

IsShared(e, n) ==
  /\ e \in {"postgres", "mysql", "sqlserver"}
  /\ n.base \in {"DATE", "TIME"} \cup
       (CASE e = "mysql" -> {"DATETIME"} [] e = "postgres" -> {"TIMESTAMP"} [] OTHER -> {"DATETIME2"})

(* The name an engine's declared type has in the common vocabulary.  What  *)
(* PostgreSQL prints after a precision, and after TIME, is not parsed.     *)
database_type_name(e, n, cross, target) ==
  CASE e = "clickhouse" -> IF n.base = "STRING" THEN Named("LONGBLOB")
                           ELSE IF n.base \in DOMAIN Integers8 THEN n ELSE NoName
    [] cross /\ OwnMeaning(e, n.base) -> NoName
    [] cross /\ IsShared(e, n) -> Shared(e, n)
    [] e = "sqlite" /\ n.base = "INT" -> Named("BIGINT")
    [] e = "sqlite" /\ cross /\ n.base \in {"NUMERIC", "DECIMAL"} \cup Temporals -> NoName
    [] e = "sqlserver" /\ n.base = "TINYINT" -> [n EXCEPT !.unsigned = 1]
    [] e \in {"postgres", "sqlserver"} /\ n.base = "REAL" -> Named("FLOAT4")
    [] e = "mysql" /\ n.base \in {"DATETIME", "TIMESTAMP", "TIME"} /\ n.arg = <<>> -> Sized(n.base, 0)
    [] e = "postgres" /\ (n.base = "TIME" \/ (n.base \in Temporals /\ n.arg # <<>>)) -> NoName
    [] e = "mysql" /\ cross /\ target /\ n.base \in {"TEXT", "BLOB"} -> NoName
    [] e = "mysql" /\ n.base = "FLOAT" -> Named("FLOAT4")
    [] OTHER -> n

(* The verdict on a pair of columns: nothing is written to ClickHouse, and *)
(* between two engines only the families both define alike are accepted.   *)
resolve_database_transfer_type(o) ==
  LET cross == o.from # o.to
      s == parse(database_type_name(o.from, declared_type(o.from, o.source), cross, FALSE))
      t == parse(database_type_name(o.to, declared_type(o.to, o.target), cross, TRUE)) IN
  /\ o.to # "clickhouse"
  /\ \/ cross /\ s.k = "Boolean" /\ t.k = "Integer"
     \/ /\ cross => s.k \in {"Integer", "Text", "Binary", "Decimal", "Boolean", "Temporal"}
        /\ resolve_transfer_type(s, t)

-----------------------------------------------------------------------------
(* The engines. *)

(* The range of a column, by what the catalogue says of it. *)
Holds(e, raw) ==
  LET len == CASE raw.base = "NVARCHAR" /\ raw.len # -1 -> raw.len \div 2
               [] raw.len # -1 -> raw.len
               [] e = "mysql" /\ raw.base \in {"TEXT", "BLOB"} -> NoLimit - 1
               [] OTHER -> NoLimit IN
  CASE e = "sqlite" -> Type("Any", "", 0, 0)
    [] raw.base \in DOMAIN Integers8 ->
         Type("Integer", "", Integers8[raw.base],
              IF e = "sqlserver" /\ raw.base = "TINYINT" THEN 1 ELSE raw.unsigned)
    [] raw.base \in {"DECIMAL", "NUMERIC"} -> Type("Decimal", "", raw.p, raw.s)
    [] raw.base \in {"TEXT", "LONGTEXT", "NVARCHAR", "VARCHAR"} -> Type("Text", "", len, 0)
    [] raw.base \in {"STRING", "BLOB", "LONGBLOB", "BYTEA", "VARBINARY"} -> Type("Binary", "", len, 0)
    [] raw.base \in {"BOOLEAN", "BIT"} -> Type("Boolean", "", 0, 0)
    [] raw.base \in Temporals ->
         Type("Temporal", raw.base,
              CASE raw.base = "DATE" -> 0
                [] raw.len # -1 -> raw.len
                [] e = "mysql" -> 0 [] e = "sqlserver" -> 7 [] OTHER -> 6, 0)
    [] OTHER -> Type("Float", "", 64, 0)

(* A decimal of precision p and scale s, in hundredths. *)
Hundredths(p, s) == (10 ^ p - 1) * 10 ^ (2 - s)

(* Some cells of a column, its boundaries among them.  A date is plain, of *)
(* the years before 1000, or no common moment at all (an infinity, a zero  *)
(* date, a duration).  SQLite's columns hold any storage class.            *)
Cells(e, raw) ==
  LET h == Holds(e, raw) IN
  {Null} \cup
  CASE h.k = "Integer" -> {Plain("int", v) : v \in {Low(h.a, h.b), 0, 1, High(h.a, h.b)}}
    [] h.k = "Decimal" -> {Plain("dec", v) : v \in {0, 10 ^ (2 - h.b), -Hundredths(h.a, h.b), Hundredths(h.a, h.b)}}
    [] h.k = "Text" -> {Plain("text", v) : v \in {0, h.a}}
    [] h.k = "Binary" -> {Plain("bin", v) : v \in {0, h.a}}
    [] h.k = "Boolean" -> {Plain("bool", v) : v \in {0, 1}}
    [] h.k = "Temporal" -> {Value("temp", v, f, "", 0, "") : v \in 0..2, f \in {0, h.a}}
    [] h.k = "Float" -> {Plain("float", v) : v \in {1, NotFinite}}
    [] OTHER -> {Plain("int", v) : v \in {Low(Long, 0), 0, 1, 300}}
                \cup {Plain("text", 0), Plain("text", 5), Plain("bin", 5), Plain("float", 1)}

(* What a column makes of a value that is bound to it: a fraction is       *)
(* rounded to the column's scale, a value out of range is refused (MySQL   *)
(* sessions are strict).  SQLite keeps what it gets.                       *)
Keeps(e, raw, v) ==
  LET h == Holds(e, raw)
      cut == IF h.k = "Decimal" THEN 10 ^ (2 - h.b) ELSE 1 IN
  CASE v.t = "null" -> v
    [] h.k = "Any" -> IF v.t \in {"uint", "bool"} THEN Plain("int", v.v) ELSE Plain(v.t, v.v)
    [] h.k = "Integer" -> IF v.v \in Low(h.a, h.b)..High(h.a, h.b) THEN Plain("int", v.v) ELSE Failed
    [] h.k = "Decimal" -> IF v.v \in -Hundredths(h.a, h.b)..Hundredths(h.a, h.b)
                          THEN Plain("dec", (v.v \div cut) * cut) ELSE Failed
    [] h.k \in {"Text", "Binary"} -> IF v.v <= h.a THEN Plain(v.t, v.v) ELSE Failed
    [] h.k = "Temporal" -> Value("temp", v.v, Min({v.f, h.a}), "", 0, "")
    [] OTHER -> Plain(v.t, v.v)

-----------------------------------------------------------------------------
(* The wire formats. *)

(* The label an adapter gives a column; "none" is refused. *)
Texts == {"TEXT", "LONGTEXT", "VARCHAR", "NVARCHAR"}
mysql_wire_type(n) ==
  CASE n.base \in DOMAIN Integers8 -> IF n.unsigned = 1 THEN "uint" ELSE "int"
    [] n.base \in {"DECIMAL", "NUMERIC"} -> "dec"
    [] n.base \in Texts -> "text"
    [] n.base \in {"BLOB", "LONGBLOB", "VARBINARY"} -> "bin"
    [] n.base = "DATE" -> "date" [] n.base = "DATETIME" -> "datetime"
    [] n.base = "TIMESTAMP" -> "timestamp" [] n.base = "TIME" -> "time"
    [] OTHER -> "none"

postgres_wire_type(n) ==
  CASE n.base \in DOMAIN Integers8 -> "int"
    [] n.base \in {"DECIMAL", "NUMERIC"} -> "dec"
    [] n.base \in {"REAL", "DOUBLE"} -> "float"
    [] n.base = "BOOLEAN" -> "bool" [] n.base \in Texts -> "text" [] n.base = "BYTEA" -> "bin"
    [] n.base = "DATE" -> "date" [] n.base = "TIME" -> "time"
    [] n.base = "TIMESTAMP" -> "timestamp" [] n.base = "TIMESTAMPTZ" -> "timestamptz"
    [] OTHER -> "none"

sqlserver_wire_type(n) ==
  CASE n.base \in DOMAIN Integers8 -> "int"
    [] n.base \in {"BIT", "BOOLEAN"} -> "bool"
    [] n.base \in {"DECIMAL", "NUMERIC"} -> "dec"
    [] n.base \in {"FLOAT", "REAL"} -> "float"
    [] n.base \in Texts -> "text"
    [] n.base \in {"VARBINARY", "TIMESTAMP"} -> "bin"
    [] n.base = "DATE" -> "date" [] n.base = "TIME" -> "time"
    [] n.base = "DATETIME" -> "datetime" [] n.base = "DATETIME2" -> "datetime2"
    [] OTHER -> "none"

clickhouse_wire_type(n) ==
  CASE n.base \in DOMAIN Integers8 -> IF n.unsigned = 1 THEN "uint" ELSE "int"
    [] n.base = "STRING" -> "bin" [] n.base = "DECIMAL" -> "dec"
    [] OTHER -> "none"

(* The number of decimals of a number of hundredths, without final zeros. *)
Decimals(v) == IF v % 100 = 0 THEN 0 ELSE IF v % 10 = 0 THEN 1 ELSE 2

(* Decimal text without leading and final zeros. *)
normalize_decimal(v) == [v EXCEPT !.shown = Decimals(v.v)]

(* MySQL pads a fraction to the column's precision: the zeros go away. *)
normalize_mysql_temporal(v) == [v EXCEPT !.shown = v.f]

(* What the snapshot's query prints: MySQL the digits of a fraction the    *)
(* column has, PostgreSQL the significant ones, SQL Server the column's    *)
(* unless there is none.                                                   *)
Printed(raw, kind, v, shown, sep) ==
  CASE v.t = "temp" -> Value("temp", v.v, v.f, kind, shown, IF kind \in {"date", "time"} THEN "" ELSE sep)
    [] kind = "dec" -> Value("dec", v.v, 0, "", raw.s, "")
    [] OTHER -> Plain(kind, v.v)
mysql_snapshot(raw, kind, v) == Printed(raw, kind, v, Holds("mysql", raw).a, " ")
postgres_snapshot(raw, kind, v) == Printed(raw, kind, v, v.f, " ")
sqlserver_snapshot(raw, kind, v) ==
  Printed(raw, kind, v, IF v.f = 0 THEN 0 ELSE Holds("sqlserver", raw).a, "T")

(* The DataValue a stored value is read as. *)
mysql_decode(raw, v) ==
  LET kind == mysql_wire_type(mysql_declared_type(raw))
      text == mysql_snapshot(raw, kind, v) IN
  CASE kind = "none" -> Failed
    [] v = Null -> Null
    [] kind = "dec" -> normalize_decimal(text)
    [] v.t = "temp" -> normalize_mysql_temporal(text)
    [] OTHER -> text

postgres_decode(raw, v) ==
  LET kind == postgres_wire_type(declared_type("postgres", raw)) IN
  CASE kind = "none" -> Failed
    [] v = Null -> Null
    [] kind = "dec" -> normalize_decimal(postgres_snapshot(raw, kind, v))
    [] kind = "float" /\ v.v = NotFinite -> Failed
    [] OTHER -> postgres_snapshot(raw, kind, v)

sqlserver_decode(raw, v) ==
  LET kind == sqlserver_wire_type(sqlserver_declared_type(raw)) IN
  CASE kind = "none" -> Failed
    [] v = Null -> Null
    [] kind = "dec" -> normalize_decimal(sqlserver_snapshot(raw, kind, v))
    [] kind = "float" /\ v.v = NotFinite -> Failed
    [] OTHER -> sqlserver_snapshot(raw, kind, v)

clickhouse_decode(raw, v) ==
  LET kind == clickhouse_wire_type(declared_type("clickhouse", raw)) IN
  CASE kind = "none" -> Failed
    [] v = Null -> Null
    [] kind = "dec" -> normalize_decimal(Value("dec", v.v, 0, "", raw.s, ""))
    [] OTHER -> Plain(kind, v.v)

(* SQLite hands out each value in the storage class it has. *)
sqlite_decode(raw, v) == v

read_value(e, raw, v) ==
  CASE e = "mysql" -> mysql_decode(raw, v)
    [] e = "postgres" -> postgres_decode(raw, v)
    [] e = "sqlserver" -> sqlserver_decode(raw, v)
    [] e = "clickhouse" -> clickhouse_decode(raw, v)
    [] OTHER -> sqlite_decode(raw, v)

(* Which DataValues an adapter binds to which columns. *)
mysql_bind(raw, v) == v.t # "float"
postgres_bind(raw, v) ==
  LET kind == postgres_wire_type(declared_type("postgres", raw)) IN
  \/ v.t = "null"
  \/ v.t \in {"int", "uint"} /\ kind \in {"int", "dec"}
  \/ v.t = kind /\ (v.t = "float" => v.v # NotFinite)
  \/ v.t = "temp" /\ kind \in {"date", "time", "timestamp", "timestamptz"}
sqlserver_bind(raw, v) ==
  /\ v.t = "null" => sqlserver_wire_type(sqlserver_declared_type(raw)) # "none"
  /\ v.t = "uint" => v.v <= High(Long, 0)
  /\ v.t = "float" => v.v # NotFinite
sqlite_bind(raw, v) ==
  /\ v.t \notin {"dec", "temp"}
  /\ v.t = "uint" => v.v <= High(Long, 0)
  /\ v.t = "float" => v.v # NotFinite
bind_value(e, raw, v) ==
  CASE e = "mysql" -> mysql_bind(raw, v)
    [] e = "postgres" -> postgres_bind(raw, v)
    [] e = "sqlserver" -> sqlserver_bind(raw, v)
    [] OTHER -> sqlite_bind(raw, v)

-----------------------------------------------------------------------------
(* The conversion between two engines. *)

(* Only a common calendar date or clock time passes, within the target's   *)
(* precision, in the text the target reads back.                           *)
normalize_temporal(v, t, e) ==
  LET kind == CASE t.kind = "DATE" -> "date" [] t.kind = "TIME" -> "time"
                [] OTHER -> CASE e = "postgres" -> "timestamp" [] e = "sqlserver" -> "datetime2"
                              [] OTHER -> "datetime"
      shown == IF e \in {"postgres", "mysql"} \/ v.f = 0 THEN v.f ELSE t.a IN
  IF v.v = 2 \/ (e = "mysql" /\ v.v = 1 /\ t.kind # "TIME") \/ v.f > t.a THEN Failed
  ELSE Value("temp", v.v, v.f, kind, shown,
             IF kind \in {"date", "time"} THEN "" ELSE IF e = "sqlserver" THEN "T" ELSE " ")

(* The DataValue the target reads for the same meaning, or a failure: an   *)
(* integer of the target's range, in the sign its adapter reads, a text or *)
(* byte string within the limit, a decimal within precision and scale.     *)
Converted(o, v, t) ==
  CASE v.t = "bool" /\ t.k = "Boolean" -> IF o.to = "sqlite" THEN Plain("int", v.v) ELSE v
    [] v.t = "int" /\ t.k = "Boolean" /\ o.from = "sqlite" /\ v.v \in {0, 1} -> Plain("bool", v.v)
    [] v.t = "bool" /\ t.k = "Integer" -> Plain(IF t.b = 1 /\ o.to # "sqlserver" THEN "uint" ELSE "int", v.v)
    [] v.t \in {"int", "uint"} /\ t.k = "Integer" /\ v.v \in Low(t.a, t.b)..High(t.a, t.b) ->
         Plain(IF t.b = 1 /\ o.to # "sqlserver" THEN "uint" ELSE "int", v.v)
    [] v.t = "text" /\ t.k = "Text" /\ v.v <= t.a -> v
    [] v.t = "bin" /\ t.k = "Binary" /\ v.v <= t.a -> v
    [] v.t = "dec" /\ t.k = "Decimal" /\ v.v \in -Hundredths(t.a, t.b)..Hundredths(t.a, t.b)
       /\ Decimals(v.v) <= t.b -> normalize_decimal(v)
    [] v.t = "float" /\ t.k = "Float" /\ v.v # NotFinite -> v
    [] v.t = "temp" /\ t.k = "Temporal" -> normalize_temporal(v, t, o.to)
    [] OTHER -> Failed

(* A row of the source snapshot, before it is kept: unchanged when both    *)
(* engines are the same; a NULL needs a nullable column; a SQLite BOOLEAN  *)
(* holds 0 or 1.                                                           *)
normalize_transfer_row(o, v) ==
  LET t == parse(database_type_name(o.to, declared_type(o.to, o.target), TRUE, TRUE))
      boolean == o.from = "sqlite" /\ o.source.base = "BOOLEAN" IN
  CASE o.from = o.to -> v
    [] v.t = "null" -> IF o.nullable THEN v ELSE Failed
    [] boolean /\ ~(v.t \in {"int", "bool"} /\ v.v \in {0, 1}) -> Failed
    [] OTHER -> Converted(o, v, t)

(* A value's bytes in the spool, and the value the bytes stand for: a tag  *)
(* and the fields the tag announces.                                       *)
canonical_bytes(v) ==
  CASE v.t = "temp" -> <<8, v.kind, v.v, v.f, v.shown, v.sep>>
    [] v.t = "dec" -> <<4, normalize_decimal(v).shown, v.v>>
    [] OTHER -> <<CASE v.t = "null" -> 0 [] v.t = "bool" -> 1 [] v.t = "int" -> 2 [] v.t = "uint" -> 3
                    [] v.t = "float" -> 5 [] v.t = "text" -> 6 [] OTHER -> 7, v.v>>

decode_row(b) ==
  CASE b[1] = 8 -> Value("temp", b[3], b[4], b[2], b[5], b[6])
    [] b[1] = 4 -> Value("dec", b[3], 0, "", b[2], "")
    [] OTHER -> Plain(CASE b[1] = 0 -> "null" [] b[1] = 1 -> "bool" [] b[1] = 2 -> "int" [] b[1] = 3 -> "uint"
                        [] b[1] = 5 -> "float" [] b[1] = 6 -> "text" [] OTHER -> "bin", b[2])

-----------------------------------------------------------------------------
Init ==
  /\ offer \in UNION {[from : {e}, source : Columns[e], to : {d}, target : Columns[d], nullable : {TRUE}]
                       : e \in DatabaseTypes, d \in Targets}
  /\ cell = Null /\ value = Null /\ stored = Null
  /\ step = "asked"

(* validate_mapping judges the pair of columns. *)
Judge ==
  /\ step = "asked"
  /\ step' = IF resolve_database_transfer_type(offer) THEN "mapped" ELSE "refused"
  /\ UNCHANGED <<offer, cell, value, stored>>

(* The source holds some value; the adapter streams it. *)
Read ==
  /\ step = "mapped"
  /\ cell' \in Cells(offer.from, offer.source)
  /\ offer' \in {[offer EXCEPT !.nullable = b] : b \in BOOLEAN}
  /\ value' = read_value(offer.from, offer.source, cell')
  /\ step' = IF value' = Failed THEN "unreadable" ELSE "read"
  /\ UNCHANGED stored

(* The snapshot's conversion, and the way into the spool and out again. *)
Keep ==
  /\ step = "read"
  /\ LET v == normalize_transfer_row(offer, value) IN
       IF v = Failed THEN step' = "failed" /\ UNCHANGED value
                     ELSE step' = "kept" /\ value' = decode_row(canonical_bytes(v))
  /\ UNCHANGED <<offer, cell, stored>>

(* The row is bound and the server stores it, or either refuses. *)
Write ==
  /\ step = "kept"
  /\ LET s == IF bind_value(offer.to, offer.target, value) /\ (value = Null => offer.nullable)
              THEN Keeps(offer.to, offer.target, value) ELSE Failed IN
       IF s = Failed THEN step' = "failed" /\ UNCHANGED stored
                     ELSE step' = "written" /\ stored' = s
  /\ UNCHANGED <<offer, cell, value>>

(* The target is read again and compared with the plan by its bytes. *)
Compare ==
  /\ step = "written"
  /\ LET again == read_value(offer.to, offer.target, stored) IN
       step' = IF again # Failed /\ canonical_bytes(again) = canonical_bytes(value)
               THEN "verified" ELSE "mismatch"
  /\ UNCHANGED <<offer, cell, value, stored>>

Next == Judge \/ Read \/ Keep \/ Write \/ Compare

Spec == Init /\ [][Next]_valueVars

-----------------------------------------------------------------------------
(* The types of the variables. *)
TypeOK ==
  /\ step \in {"asked", "mapped", "refused", "unreadable", "read", "kept", "failed", "written",
               "verified", "mismatch"}
  /\ offer.from \in DatabaseTypes /\ offer.to \in Targets

Meaning(v) == <<IF v.t \in {"int", "uint", "bool"} THEN "number" ELSE v.t, v.v, v.f>>

(* type_mapping.rs: a cell whose transfer was verified means in the target *)
(* what it means in the source: no sign, digit, precision or length is     *)
(* lost by a chain of conversions that compares equal at its end.          *)
Lossless == step = "verified" => Meaning(stored) = Meaning(cell)

(* A pair of columns is accepted because the target holds every value of   *)
(* the source: once a value of an engine with strict types was read, and   *)
(* it is neither a date nor a NULL for a column without NULLs, it is       *)
(* neither refused by the conversion nor by the target, and between two    *)
(* engines reading it back shows the planned bytes (a false alarm rolls    *)
(* the task back).  Excepted are MySQL's TEXT and BLOB, which are taken    *)
(* for unlimited, and different columns of one engine, whose values are    *)
(* not converted.                                                          *)
AcceptedArrives ==
  /\ step = "failed" =>
       \/ offer.from = "sqlite"
       \/ cell.t = "temp" /\ offer.from # offer.to
       \/ cell = Null /\ ~offer.nullable
       \/ offer.from = offer.to /\ offer.target.base \in {"TEXT", "BLOB"}
  /\ step = "mismatch" => offer.from = offer.to /\ offer.source # offer.target

(* The plan of the data tasks: a pair of types that is not refused up      *)
(* front transfers without loss, so reading the target back never          *)
(* disagrees with what was written.                                        *)
AcceptedVerifies == step # "mismatch"
=============================================================================

-------------------------- MODULE StatementsProofs --------------------------
(***************************************************************************)
(* Proofs about what sends statements to a database: the commands that     *)
(* compare and synchronise two databases (DatabaseSync with the planners   *)
(* of SchemaPlan), for every engine, every number of tables and columns,   *)
(* drift and faults; and the export and import of SQL files (SqlFile), for *)
(* every catalogue, change by another client and failure.                  *)
(*                                                                         *)
(* The first half is about data.  Sets put in order and sequences of       *)
(* sequences have members where they should (orders, flattening); every    *)
(* planner builds operations whose statements are well formed, takes       *)
(* nothing away unless asked to and, for SQL Server, ends by adding a key  *)
(* wherever it takes one away; numbering the operations gives each its     *)
(* statements in one stretch of the plan; and a table a well formed        *)
(* statement has changed is a table, with the key it is to have.           *)
(* The second half is the invariant: databases hold tables (Stored), what  *)
(* was read is the public view of tables (Viewed), a confirmed plan is the *)
(* plan of what was seen (Confirmed), and an execution has applied the     *)
(* statements before its place and no others (Progress).  The next part    *)
(* adds what the keys need: an undisturbed reading is what the databases   *)
(* hold (Fresh) and the plan fits what was read (Carried).                 *)
(*                                                                         *)
(* The last part is about exports.  What a script creates and inserts is   *)
(* counted stretch by stretch (Yields): each object once, each row once,   *)
(* whatever comes in between.  The invariant follows the objects read      *)
(* (Known), the rows (Gathering), the cancel (Cancelling), the file, which *)
(* MySQL's export writes object by object (Writing), the report of the     *)
(* import (Importing) and the state of its connection (SessionKept), which *)
(* rests on what cutting leaves of a whole file's frame (Cutting).         *)
(***************************************************************************)
EXTENDS DatabaseSync, SqlFile, Induction, FiniteSetTheorems, TLAPS

-----------------------------------------------------------------------------
(* The places of columns *)

\* The place of a column is a number.
LEMMA PlaceIs ==
  ASSUME NEW cols, NEW S, IsFiniteSet(S), NEW c
  PROVE  Place(cols, S, c) \in Nat
<1>1. PICK A : A = {d \in S : Before(cols, d, c)}
  OBVIOUS
<1>2. A \in SUBSET S
  BY <1>1
<1>3. IsFiniteSet(A)
  BY <1>2, FS_Subset
<1>4. Cardinality(A) \in Nat
  BY <1>3, FS_CardinalityType
<1> QED BY <1>1, <1>4 DEF Place

\* The columns of a snapshot in their order are a sequence of just these columns.
LEMMA InOrderIs ==
  ASSUME NEW cols, AreColumns(cols), NEW S, S \subseteq DOMAIN cols
  PROVE  InOrder(cols, S) \in Seq(S)
<1>1. IsFiniteSet(S)
  BY FS_Subset DEF AreColumns
<1>2. PICK R : R = {p \in S \X S : Before(cols, p[1], p[2])}
  OBVIOUS
<1>3. \A a, b \in S : <<a, b>> \in R <=> Before(cols, a, b)
  BY <1>2
<1>4. \A a \in S : a \in Int /\ cols[a].ord \in Int
  BY DEF AreColumns
<1>5. \A a, b \in S : ~(<<a, b>> \in R /\ <<b, a>> \in R)
  <2>1. ASSUME NEW a \in S, NEW b \in S PROVE ~(Before(cols, a, b) /\ Before(cols, b, a))
    BY <1>4 DEF Before
  <2> QED BY <1>3, <2>1
<1>5a. \A a, b \in S : a # b => <<a, b>> \in R \/ <<b, a>> \in R
  BY <1>3, <1>4 DEF Before
<1>5b. \A a, b, c \in S : <<a, b>> \in R /\ <<b, c>> \in R => <<a, c>> \in R
  BY <1>3, <1>4 DEF Before
<1>5c. StrictOrder(R, S)
  BY <1>5, <1>5a, <1>5b DEF StrictOrder
<1>6. \A i \in 1 .. Cardinality(S) : \E c \in S : RankIn(R, S, c) = i
  BY <1>1, <1>5c, Ranking
<1>7. \A c \in S : {d \in S : <<d, c>> \in R} = {d \in S : Before(cols, d, c)}
  BY <1>3
<1>8. \A i \in 1 .. Cardinality(S) : \E c \in S : Place(cols, S, c) = i
  BY <1>6, <1>7 DEF Place, RankIn
<1>9. \A i \in 1 .. Cardinality(S) : (CHOOSE c \in S : Place(cols, S, c) = i) \in S
  BY <1>8
<1>10. Cardinality(S) \in Nat
  BY <1>1, FS_CardinalityType
<1>11. InOrder(cols, S) \in [1 .. Cardinality(S) -> S]
  BY <1>9 DEF InOrder
<1> QED BY <1>10, <1>11

-----------------------------------------------------------------------------
(* The numbers of a flattened sequence *)

\* When every entry of the i-th sequence belongs to i, the flattened sequence goes
\* through these numbers without going back.
LEMMA FlattenMonotone ==
  ASSUME NEW T, NEW seqs \in Seq(Seq(T)),
         \A i \in DOMAIN seqs : \A j \in DOMAIN seqs[i] : seqs[i][j].op = i
  PROVE  LET f == FlattenSeq(seqs)
         IN  /\ \A a \in DOMAIN f : f[a].op \in DOMAIN seqs
             /\ \A a, b \in DOMAIN f : a < b => f[a].op <= f[b].op
<1>1. PICK N \in Nat : N = Len(seqs)
  OBVIOUS
<1>1a. PICK h : h \in Joins(T, seqs, N)
  BY <1>1, Flattening
<1>2. /\ h \in [0 .. N -> Seq(T)] /\ h[0] = <<>>
      /\ \A n \in 1 .. N : h[n] = h[n - 1] \o seqs[n]
      /\ FlattenSeq(seqs) = h[N]
  BY <1>1a DEF Joins
<1> DEFINE U == {n \in 0 .. N :
                   /\ \A a \in DOMAIN h[n] : h[n][a].op \in 1 .. n
                   /\ \A a, b \in DOMAIN h[n] : a < b => h[n][a].op <= h[n][b].op}
<1>3. 0 \in U
  BY <1>2
<1>4. ASSUME NEW n \in 1 .. N, n - 1 \in U PROVE n \in U
  <2>1. PICK s \in Seq(T) : s = h[n - 1]
    BY <1>2
  <2>2. PICK t \in Seq(T) : t = seqs[n]
    BY <1>1
  <2>2a. n \in DOMAIN seqs
    BY <1>1
  <2>3. \A j \in DOMAIN t : t[j].op = n
    BY <2>2, <2>2a
  <2>4. /\ \A a \in DOMAIN s : s[a].op \in 1 .. n - 1
        /\ \A a, b \in DOMAIN s : a < b => s[a].op <= s[b].op
    BY <1>4, <2>1
  <2>5. PICK w \in Seq(T) : w = s \o t
    BY ConcatProperties
  <2>6. PICK p, q \in Nat : p = Len(s) /\ q = Len(t)
    OBVIOUS
  <2>7. /\ DOMAIN s = 1 .. p /\ DOMAIN t = 1 .. q /\ DOMAIN w = 1 .. p + q
        /\ \A i \in 1 .. p + q : w[i] = IF i <= p THEN s[i] ELSE t[i - p]
    BY <2>5, <2>6, ConcatProperties
  <2>8. \A a \in 1 .. p + q : IF a <= p THEN w[a] = s[a] /\ a \in 1 .. p
                              ELSE w[a] = t[a - p] /\ a - p \in 1 .. q
    BY <2>7
  <2>9. \A a \in 1 .. p + q : IF a <= p THEN w[a].op = s[a].op /\ s[a].op \in 1 .. n - 1
                              ELSE w[a].op = n
    BY <2>3, <2>4, <2>7, <2>8
  <2>10. \A a \in 1 .. p + q : w[a].op \in 1 .. n
    <3>1. SUFFICES ASSUME NEW a \in 1 .. p + q PROVE w[a].op \in 1 .. n
      OBVIOUS
    <3>2. PICK v : v = w[a].op
      OBVIOUS
    <3>3. v \in 1 .. n - 1 \/ v = n
      BY <2>9, <3>2
    <3> QED BY <3>2, <3>3
  <2>11. \A a, b \in 1 .. p + q : a < b => w[a].op <= w[b].op
    <3>1. SUFFICES ASSUME NEW a \in 1 .. p + q, NEW b \in 1 .. p + q, a < b PROVE w[a].op <= w[b].op
      OBVIOUS
    <3>2. CASE b <= p
      <4>1. a \in 1 .. p /\ b \in 1 .. p
        BY <3>1, <3>2
      <4>2. w[a] = s[a] /\ w[b] = s[b]
        BY <2>7, <4>1
      <4> QED BY <2>4, <2>7, <3>1, <4>1, <4>2
    <3>3. CASE ~(b <= p)
      BY <2>9, <2>10, <3>3
    <3> QED BY <3>2, <3>3
  <2>12. h[n] = w
    BY <1>2, <2>1, <2>2, <2>5
  <2>13. n \in 0 .. N
    OBVIOUS
  <2> QED BY <2>7, <2>10, <2>11, <2>12, <2>13
<1>5. 0 .. N \subseteq U
  <2> HIDE DEF U
  <2> QED BY <1>3, <1>4, InductionUpTo
<1>6. DOMAIN seqs = 1 .. N
  BY <1>1
<1>7. N \in U
  <2> HIDE DEF U
  <2> QED BY <1>5
<1> QED BY <1>2, <1>6, <1>7

-----------------------------------------------------------------------------
(* Statements the planners build *)

\* A statement the target can be sent: one of the eight kinds; a CREATE TABLE defines a
\* table, an ADD COLUMN a whole column outside the key, and no change of a column sets
\* its number or its place in the key.
Kinds == {"create", "dropTab", "tabNote", "dropPk", "addPk", "add", "set", "dropCol"}
StmtOK(s) ==
    /\ s.op \in Kinds
    /\ s.op = "create" => IsTable(s.def)
    /\ s.op = "add" => s.col \in Int /\ "ord" \in DOMAIN s.def /\ "key" \in DOMAIN s.def /\ s.def.key = 0
    /\ s.op = "set" => "ord" \notin DOMAIN s.def /\ "key" \notin DOMAIN s.def
\* Kinds that only add to a table or change it; kinds that take nothing away; kinds that
\* leave the key alone.
Growing == {"add", "set", "tabNote"}
Additive == {"create", "tabNote", "addPk", "add", "set"}
Keyless == {"tabNote", "add", "set", "dropCol"}
\* A sequence of statements, each one a sequence of steps of the kinds in O.
SqlOf(O, sql) == \E S : sql \in Seq(Seq(S)) /\ \A s \in S : StmtOK(s) /\ s.op \in O

\* Statements of some kinds are statements of more kinds.
LEMMA SqlWider ==
  ASSUME NEW O, NEW P, O \subseteq P, NEW sql, SqlOf(O, sql)
  PROVE  SqlOf(P, sql)
<1>1. PICK S : sql \in Seq(Seq(S)) /\ \A s \in S : StmtOK(s) /\ s.op \in O
  BY DEF SqlOf
<1>2. \A s \in S : StmtOK(s) /\ s.op \in P
  BY <1>1
<1> QED BY <1>1, <1>2 DEF SqlOf

\* No statement at all.
LEMMA SqlEmpty ==
  ASSUME NEW O PROVE SqlOf(O, <<>>)
<1>1. PICK q, S : q = <<>> /\ S = {}
  OBVIOUS
<1>2. q \in Seq(Seq(S)) /\ \A s \in S : StmtOK(s) /\ s.op \in O
  BY <1>1
<1>3. SqlOf(O, q)
  BY <1>2 DEF SqlOf
<1> QED BY <1>1, <1>3

\* One statement with one step.
LEMMA SqlOne ==
  ASSUME NEW O, NEW s, StmtOK(s), s.op \in O
  PROVE  SqlOf(O, <<<<s>>>>)
<1>1. PICK q, S : q = <<<<s>>>> /\ S = {s}
  OBVIOUS
<1>2. <<s>> \in Seq(S)
  BY <1>1
<1>3. q \in Seq(Seq(S)) /\ \A x \in S : StmtOK(x) /\ x.op \in O
  BY <1>1, <1>2
<1>4. SqlOf(O, q)
  BY <1>3 DEF SqlOf
<1> QED BY <1>1, <1>4

\* Statements behind one another.
LEMMA SqlConcat ==
  ASSUME NEW O, NEW a, NEW b, SqlOf(O, a), SqlOf(O, b)
  PROVE  SqlOf(O, a \o b)
<1>1. PICK S : a \in Seq(Seq(S)) /\ \A s \in S : StmtOK(s) /\ s.op \in O
  BY DEF SqlOf
<1>2. PICK T : b \in Seq(Seq(T)) /\ \A s \in T : StmtOK(s) /\ s.op \in O
  BY DEF SqlOf
<1>3. PICK V : V = Seq(S \cup T)
  OBVIOUS
<1>4. Seq(S) \subseteq V /\ Seq(T) \subseteq V
  BY <1>3
<1>5. a \in Seq(V) /\ b \in Seq(V)
  BY <1>1, <1>2, <1>4
<1>6. a \o b \in Seq(V)
  BY <1>5, ConcatProperties
<1>7. a \o b \in Seq(Seq(S \cup T)) /\ \A s \in S \cup T : StmtOK(s) /\ s.op \in O
  BY <1>1, <1>2, <1>3, <1>6
<1> QED BY <1>7 DEF SqlOf

\* All the statements as one (build_atomic_sqlserver_batch).
LEMMA SqlAtomic ==
  ASSUME NEW O, NEW a, SqlOf(O, a)
  PROVE  SqlOf(O, AtomicBatch(a))
<1>1. PICK S : a \in Seq(Seq(S)) /\ \A s \in S : StmtOK(s) /\ s.op \in O
  BY DEF SqlOf
<1>2. FlattenSeq(a) \in Seq(S)
  BY <1>1, FlattenIs
<1>3. <<FlattenSeq(a)>> \in Seq(Seq(S))
  BY <1>2
<1>4. SqlOf(O, <<FlattenSeq(a)>>)
  BY <1>1, <1>3 DEF SqlOf
<1>5. CASE a = <<>>
  BY <1>5, SqlEmpty DEF AtomicBatch
<1>6. CASE a # <<>>
  BY <1>4, <1>6 DEF AtomicBatch
<1> QED BY <1>5, <1>6

\* The statements of some columns in their order.
LEMMA ForEachIs ==
  ASSUME NEW O, NEW cols, AreColumns(cols), NEW f, DOMAIN f \subseteq DOMAIN cols,
         \A c \in DOMAIN f : SqlOf(O, f[c])
  PROVE  SqlOf(O, ForEach(cols, f))
<1>1. PICK s : s = InOrder(cols, DOMAIN f)
  OBVIOUS
<1>2. s \in Seq(DOMAIN f)
  BY <1>1, InOrderIs
<1>3. PICK G : G = [c \in DOMAIN f |-> CHOOSE S : f[c] \in Seq(Seq(S)) /\ \A x \in S : StmtOK(x) /\ x.op \in O]
  OBVIOUS
<1>4. \A c \in DOMAIN f : f[c] \in Seq(Seq(G[c])) /\ \A x \in G[c] : StmtOK(x) /\ x.op \in O
  BY <1>3 DEF SqlOf
<1>5. PICK V : V = UNION {G[c] : c \in DOMAIN f}
  OBVIOUS
<1>6. \A x \in V : StmtOK(x) /\ x.op \in O
  BY <1>4, <1>5
<1>7. ASSUME NEW c \in DOMAIN f PROVE f[c] \in Seq(Seq(V))
  <2>1. G[c] \subseteq V
    BY <1>5
  <2>2. PICK A, B : A = Seq(G[c]) /\ B = Seq(V)
    OBVIOUS
  <2>3. A \subseteq B
    BY <2>1, <2>2
  <2>4. f[c] \in Seq(A)
    BY <1>4, <2>2
  <2>5. f[c] \in Seq(B)
    BY <2>3, <2>4
  <2> QED BY <2>2, <2>5
<1>8. PICK q : q = [i \in DOMAIN s |-> f[s[i]]]
  OBVIOUS
<1>9. PICK T : T = Seq(V)
  OBVIOUS
<1>10. \A i \in DOMAIN s : f[s[i]] \in Seq(T)
  BY <1>2, <1>7, <1>9
<1>11. q \in Seq(Seq(T))
  <2>1. PICK n \in Nat : DOMAIN s = 1 .. n
    BY <1>2
  <2>2. q \in [1 .. n -> Seq(T)]
    BY <1>8, <1>10, <2>1
  <2> QED BY <2>2
<1>12. FlattenSeq(q) \in Seq(T)
  BY <1>11, FlattenIs
<1>13. ForEach(cols, f) = FlattenSeq(q)
  BY <1>1, <1>8, Zenon DEF ForEach
<1> QED BY <1>6, <1>9, <1>12, <1>13 DEF SqlOf

\* Statements about a whole table.
LEMMA TableSql ==
  ASSUME NEW O, NEW op \in O, op \in {"dropTab", "tabNote", "dropPk", "addPk"}, NEW def
  PROVE  SqlOf(O, <<<<TableStmt(op, def)>>>>)
<1>1. PICK s : s = TableStmt(op, def)
  OBVIOUS
<1>2. StmtOK(s) /\ s.op \in O
  BY <1>1 DEF StmtOK, TableStmt, Stmt, Kinds
<1> QED BY <1>1, <1>2, SqlOne

\* The statement that drops a column.
LEMMA DropSql ==
  ASSUME NEW c
  PROVE  SqlOf({"dropCol"}, <<<<Stmt("dropCol", c, 0, <<>>)>>>>)
<1>1. PICK s : s = Stmt("dropCol", c, 0, <<>>)
  OBVIOUS
<1>2. StmtOK(s) /\ s.op \in {"dropCol"}
  BY <1>1 DEF StmtOK, Stmt, Kinds
<1> QED BY <1>1, <1>2, SqlOne

\* The statement that adds a column.
LEMMA AddSql ==
  ASSUME NEW c \in Int, NEW def, "ord" \in DOMAIN def, "key" \in DOMAIN def, def.key = 0, NEW where
  PROVE  SqlOf(Growing, <<<<Stmt("add", c, def, where)>>>>)
<1>1. PICK s : s = Stmt("add", c, def, where)
  OBVIOUS
<1>2. StmtOK(s) /\ s.op \in Growing
  BY <1>1 DEF StmtOK, Stmt, Kinds, Growing
<1> QED BY <1>1, <1>2, SqlOne

\* The statement that changes a column.
LEMMA ChangeSql ==
  ASSUME NEW c, NEW def, "ord" \notin DOMAIN def, "key" \notin DOMAIN def, NEW where
  PROVE  SqlOf(Growing, <<<<Stmt("set", c, def, where)>>>>)
<1>1. PICK s : s = Stmt("set", c, def, where)
  OBVIOUS
<1>2. StmtOK(s) /\ s.op \in Growing
  BY <1>1 DEF StmtOK, Stmt, Kinds, Growing
<1> QED BY <1>1, <1>2, SqlOne

\* The same without a new place for the column.
LEMMA SetSql ==
  ASSUME NEW c, NEW def, "ord" \notin DOMAIN def, "key" \notin DOMAIN def
  PROVE  SqlOf(Growing, <<<<SetCol(c, def)>>>>)
  BY ChangeSql DEF SetCol

-----------------------------------------------------------------------------
(* Statements that do not leave a table without its key *)

\* The steps of a statement leave the key alone or end by adding one.
KeepsKey(steps) ==
    \/ \E S : steps \in Seq(S) /\ \A s \in S : StmtOK(s) /\ s.op \in Keyless
    \/ \E S, b, new, n : /\ b \in Seq(S) /\ \A s \in S : StmtOK(s)
                         /\ n \in Nat \ {0} /\ DOMAIN new = 1 .. n
                         /\ steps = b \o <<TableStmt("addPk", new)>>
StmtsKeep(sql) == \A j \in DOMAIN sql : KeepsKey(sql[j])
\* No operation on a table that is to have a key takes it away for good.
KeyKept(x, ops) ==
    (x.src # NoTable /\ x.tgt # NoTable /\ KeyColumns(x.src) # {}) => \A o \in ops : StmtsKeep(o.sql)

\* Statements that never touch a key keep it.
LEMMA GrowingKeeps ==
  ASSUME NEW O, O \subseteq Keyless, NEW sql, SqlOf(O, sql)
  PROVE  StmtsKeep(sql)
<1>1. PICK S : sql \in Seq(Seq(S)) /\ \A s \in S : StmtOK(s) /\ s.op \in O
  BY DEF SqlOf
<1>2. \A s \in S : StmtOK(s) /\ s.op \in Keyless
  BY <1>1
<1>3. \A j \in DOMAIN sql : sql[j] \in Seq(S)
  BY <1>1
<1>4. \A j \in DOMAIN sql : KeepsKey(sql[j])
  BY <1>2, <1>3, Zenon DEF KeepsKey
<1> QED BY <1>4 DEF StmtsKeep

\* A flattened sequence ends with its last part.
LEMMA FlattenLast ==
  ASSUME NEW T, NEW a \in Seq(Seq(T)), NEW w \in Seq(T)
  PROVE  \E b \in Seq(T) : FlattenSeq(a \o <<w>>) = b \o w
<1>1. PICK n \in Nat : n = Len(a)
  OBVIOUS
<1>2. PICK seqs : seqs = a \o <<w>>
  OBVIOUS
<1>3. seqs \in Seq(Seq(T)) /\ Len(seqs) = n + 1 /\ seqs[n + 1] = w
  BY <1>1, <1>2
<1>4. PICK m \in Nat : m = n + 1
  OBVIOUS
<1>5. PICK h : h \in Joins(T, seqs, m)
  BY <1>3, <1>4, Flattening
<1>6. /\ h \in [0 .. m -> Seq(T)] /\ h[0] = <<>>
      /\ \A i \in 1 .. m : h[i] = h[i - 1] \o seqs[i]
      /\ FlattenSeq(seqs) = h[m]
  BY <1>5 DEF Joins
<1>7. m \in 1 .. m /\ m - 1 = n /\ n \in 0 .. m
  BY <1>4
<1>8. h[m] = h[n] \o seqs[m]
  <2>1. h[m] = h[m - 1] \o seqs[m]
    BY <1>6, <1>7
  <2> QED BY <1>7, <2>1
<1>9. h[n] \in Seq(T)
  BY <1>6, <1>7
<1>10. seqs[m] = w
  BY <1>3, <1>4
<1> QED BY <1>2, <1>6, <1>8, <1>9, <1>10

\* A key has at least one column.
LEMMA KeyOrderIs ==
  ASSUME NEW cols, AreColumns(cols), NEW nat, KeyColumns(cols) # {}
  PROVE  \E n \in Nat \ {0} : DOMAIN KeyOrder(cols, nat) = 1 .. n
<1>1. PICK S : S = KeyColumns(cols)
  OBVIOUS
<1>2. IsFiniteSet(S)
  <2>1. S \subseteq DOMAIN cols /\ IsFiniteSet(DOMAIN cols)
    BY <1>1 DEF KeyColumns, AreColumns
  <2> QED BY <2>1, FS_Subset
<1>3. PICK n \in Nat : n = Cardinality(S)
  BY <1>2, FS_CardinalityType
<1>4. n # 0
  BY <1>1, <1>2, <1>3, FS_EmptySet
<1>5. DOMAIN KeyOrder(cols, nat) = 1 .. Cardinality(S)
  BY <1>1 DEF KeyOrder, InOrder
<1> QED BY <1>3, <1>4, <1>5

\* The statements that replace a key: where there was none they only add, and where
\* there is to be one they end by adding it.
LEMMA ReplaceKeySqlIs ==
  ASSUME NEW old, NEW alters, SqlOf(Growing, alters), NEW new
  PROVE  /\ SqlOf(Kinds, ReplaceKeySql(old, alters, new))
         /\ old = <<>> => SqlOf(Additive, ReplaceKeySql(old, alters, new))
         /\ new # <<>> => \E a : /\ SqlOf(Kinds, a)
                                 /\ ReplaceKeySql(old, alters, new) = a \o <<<<TableStmt("addPk", new)>>>>
<1>1. PICK a : a = IF old = <<>> THEN <<>> ELSE <<<<TableStmt("dropPk", 0)>>>>
  OBVIOUS
<1>2. PICK b : b = IF new = <<>> THEN <<>> ELSE <<<<TableStmt("addPk", new)>>>>
  OBVIOUS
<1>3. /\ SqlOf(Kinds, <<<<TableStmt("dropPk", 0)>>>>) /\ SqlOf(Kinds, <<<<TableStmt("addPk", new)>>>>)
      /\ SqlOf(Additive, <<<<TableStmt("addPk", new)>>>>)
  BY TableSql DEF Kinds, Additive
<1>4. SqlOf(Kinds, a) /\ SqlOf(Kinds, b) /\ SqlOf(Additive, b) /\ (old = <<>> => SqlOf(Additive, a))
  BY <1>1, <1>2, <1>3, SqlEmpty
<1>5. SqlOf(Kinds, alters) /\ SqlOf(Additive, alters)
  BY SqlWider DEF Growing, Additive, Kinds
<1>6. SqlOf(Kinds, a \o alters) /\ (old = <<>> => SqlOf(Additive, a \o alters))
  BY <1>4, <1>5, SqlConcat
<1>7. /\ SqlOf(Kinds, (a \o alters) \o b)
      /\ old = <<>> => SqlOf(Additive, (a \o alters) \o b)
  BY <1>4, <1>6, SqlConcat
<1>8. ReplaceKeySql(old, alters, new) = (a \o alters) \o b
  BY <1>1, <1>2, Zenon DEF ReplaceKeySql
<1>9. new # <<>> => b = <<<<TableStmt("addPk", new)>>>>
  BY <1>2
<1> QED BY <1>6, <1>7, <1>8, <1>9

\* build_atomic_sqlserver_batch: a key that is replaced is there again when the batch is
\* over.
LEMMA BatchKeeps ==
  ASSUME NEW old, NEW alters, SqlOf(Growing, alters), NEW new, NEW n \in Nat \ {0}, DOMAIN new = 1 .. n
  PROVE  StmtsKeep(AtomicBatch(ReplaceKeySql(old, alters, new)))
<1>1. new # <<>>
  <2>1. 1 \in DOMAIN new
    OBVIOUS
  <2> QED BY <2>1
<1>2. PICK a : SqlOf(Kinds, a) /\ ReplaceKeySql(old, alters, new) = a \o <<<<TableStmt("addPk", new)>>>>
  BY <1>1, ReplaceKeySqlIs
<1>3. PICK S : a \in Seq(Seq(S)) /\ \A s \in S : StmtOK(s) /\ s.op \in Kinds
  BY <1>2 DEF SqlOf
<1>4. PICK last : last = TableStmt("addPk", new)
  OBVIOUS
<1>5. StmtOK(last)
  BY <1>4 DEF StmtOK, TableStmt, Stmt, Kinds
<1>6. PICK T : T = S \cup {last}
  OBVIOUS
<1>7. \A s \in T : StmtOK(s)
  BY <1>3, <1>5, <1>6
<1>8. PICK U, V : U = Seq(S) /\ V = Seq(T)
  OBVIOUS
<1>9. U \subseteq V
  BY <1>6, <1>8
<1>10. a \in Seq(V)
  BY <1>3, <1>8, <1>9
<1>11. <<last>> \in Seq(T)
  BY <1>6
<1>12. PICK b \in Seq(T) : FlattenSeq(a \o <<<<last>>>>) = b \o <<last>>
  BY <1>8, <1>10, <1>11, FlattenLast
<1>13. KeepsKey(b \o <<last>>)
  BY <1>4, <1>7, <1>12, Zenon DEF KeepsKey
<1>14. PICK sql : sql = a \o <<<<last>>>>
  OBVIOUS
<1>15. sql # <<>>
  BY <1>10, <1>14
<1>16. AtomicBatch(sql) = <<b \o <<last>>>>
  BY <1>12, <1>14, <1>15 DEF AtomicBatch
<1>17. StmtsKeep(<<b \o <<last>>>>)
  <2>1. PICK w : w = b \o <<last>>
    OBVIOUS
  <2>2. \A j \in DOMAIN <<w>> : <<w>>[j] = w
    OBVIOUS
  <2>3. StmtsKeep(<<w>>)
    BY <1>13, <2>1, <2>2 DEF StmtsKeep
  <2> QED BY <2>1, <2>3
<1> QED BY <1>2, <1>4, <1>14, <1>16, <1>17

-----------------------------------------------------------------------------
(* Operations and fragments *)

\* Statements an operation of a phase may have: without include_drops (drops) only
\* deletions take something away, and those are not kept.
Fits(drops, phase, sql) ==
    SqlOf(Kinds, sql) /\ (drops \/ phase \in {4, 5} \/ SqlOf(Additive, sql))
\* Finitely many operations, told apart by phase, kind and column, with statements the
\* target can be sent.
OpsOK(drops, ops) ==
    /\ IsFiniteSet(ops)
    /\ \A o \in ops : /\ o.phase \in Int /\ o.kind \in Int /\ o.col \in Int
                      /\ Fits(drops, o.phase, o.sql)
    /\ \A o, p \in ops : (o.phase = p.phase /\ o.kind = p.kind /\ o.col = p.col) => o = p
FragOK(drops, f) == "ops" \in DOMAIN f /\ OpsOK(drops, f.ops)

\* The statements of an operation.
LEMMA SqlOfOperation ==
  ASSUME NEW phase, NEW kind, NEW col, NEW sql
  PROVE  \A o \in Operation(phase, kind, col, sql) : o.sql = sql
  BY DEF Operation

\* No operation at all.
LEMMA NoOps ==
  ASSUME NEW drops PROVE OpsOK(drops, {})
  BY FS_EmptySet DEF OpsOK

\* Statements that only add fit in everywhere, and so do those that delete in the phases
\* for it.
LEMMA AddingFits ==
  ASSUME NEW drops, NEW phase, NEW sql
  PROVE  /\ SqlOf(Additive, sql) => Fits(drops, phase, sql)
         /\ SqlOf(Growing, sql) => Fits(drops, phase, sql)
<1>1. Growing \subseteq Additive /\ Additive \subseteq Kinds
  BY DEF Growing, Additive, Kinds
<1>2. SqlOf(Growing, sql) => SqlOf(Additive, sql)
  BY <1>1, SqlWider
<1>3. SqlOf(Additive, sql) => SqlOf(Kinds, sql)
  BY <1>1, SqlWider
<1> QED BY <1>2, <1>3, Zenon DEF Fits

\* One operation, if there is anything to send.
LEMMA OperationIs ==
  ASSUME NEW drops, NEW phase \in Int, NEW kind \in Int, NEW col \in Int, NEW sql, Fits(drops, phase, sql)
  PROVE  /\ OpsOK(drops, Operation(phase, kind, col, sql))
         /\ \A o \in Operation(phase, kind, col, sql) :
                o.phase = phase /\ o.kind = kind /\ o.col = col
<1>1. CASE sql = <<>>
  BY <1>1, NoOps DEF Operation
<1>2. CASE sql # <<>>
  <2>1. PICK o : o = [phase |-> phase, kind |-> kind, col |-> col, sql |-> sql]
    OBVIOUS
  <2>2. Operation(phase, kind, col, sql) = {o}
    BY <1>2, <2>1 DEF Operation
  <2>3. o.phase = phase /\ o.kind = kind /\ o.col = col /\ o.sql = sql
    BY <2>1
  <2>4. IsFiniteSet({o})
    BY FS_Singleton
  <2> QED BY <2>2, <2>3, <2>4 DEF OpsOK
<1> QED BY <1>1, <1>2

\* The deletions of some columns.
LEMMA DropsAre ==
  ASSUME NEW drops, NEW S, IsFiniteSet(S), S \subseteq Int
  PROVE  OpsOK(drops, DropColumnOps(S)) /\ \A o \in DropColumnOps(S) : o.phase = 4 /\ StmtsKeep(o.sql)
<1>1. PICK f : f = [c \in S |-> [phase |-> 4, kind |-> 0, col |-> c,
                                 sql |-> <<<<Stmt("dropCol", c, 0, <<>>)>>>>]]
  OBVIOUS
<1>2. \A c \in S : Operation(4, 0, c, <<<<Stmt("dropCol", c, 0, <<>>)>>>>) = {f[c]}
  <2>1. \A s : <<s>> # <<>>
    OBVIOUS
  <2> QED BY <1>1, <2>1, Zenon DEF Operation
<1>3. DropColumnOps(S) = {f[c] : c \in S}
  BY <1>2 DEF DropColumnOps
<1>4. \A c \in S : /\ f[c].phase = 4 /\ f[c].kind = 0 /\ f[c].col = c
                   /\ f[c].sql = <<<<Stmt("dropCol", c, 0, <<>>)>>>>
  BY <1>1
<1>5. \A c \in S : SqlOf(Kinds, f[c].sql)
  <2>1. {"dropCol"} \subseteq Kinds
    BY DEF Kinds
  <2>2. \A c \in S : SqlOf({"dropCol"}, f[c].sql)
    BY <1>4, DropSql
  <2> QED BY <2>1, <2>2, SqlWider
<1>6. IsFiniteSet({f[c] : c \in S})
  <2>1. f \in Surjection(S, {f[c] : c \in S})
    BY <1>1 DEF Surjection
  <2> QED BY <2>1, FS_Surjection
<1>7. \A c \in S : Fits(drops, f[c].phase, f[c].sql)
  BY <1>4, <1>5 DEF Fits
<1>8. \A c \in S : StmtsKeep(f[c].sql)
  BY <1>4, DropSql, GrowingKeeps DEF Keyless
<1>9. OpsOK(drops, DropColumnOps(S))
  BY <1>3, <1>4, <1>6, <1>7 DEF OpsOK
<1> QED BY <1>3, <1>4, <1>8, <1>9

\* Operations of different phases, kinds or columns together.
LEMMA OpsUnion ==
  ASSUME NEW drops, NEW A, NEW B, OpsOK(drops, A), OpsOK(drops, B),
         \A a \in A, b \in B : a.phase # b.phase \/ a.kind # b.kind \/ a.col # b.col
  PROVE  OpsOK(drops, A \cup B)
<1>1. IsFiniteSet(A \cup B)
  BY FS_Union DEF OpsOK
<1> QED BY <1>1 DEF OpsOK

\* The fragment of some operations.
LEMMA FragIs ==
  ASSUME NEW drops, NEW ops, OpsOK(drops, ops), NEW skips, NEW blocks
  PROVE  FragOK(drops, Frag(ops, skips, blocks))
  BY DEF FragOK, Frag

\* A fragment that plans nothing.
LEMMA BlockIs ==
  ASSUME NEW drops, NEW skips, NEW blocks
  PROVE  FragOK(drops, Block(blocks)) /\ FragOK(drops, Frag({}, skips, blocks))
  BY NoOps, FragIs DEF Block

\* What the planners know of a table: its columns on both sides, at least on one.
ContextOK(x) ==
    /\ x.src = NoTable \/ AreColumns(x.src)
    /\ x.tgt = NoTable \/ AreColumns(x.tgt)
    /\ x.src # NoTable \/ x.tgt # NoTable

\* The place of a column defined again.
LEMMA Renumber ==
  ASSUME NEW col, "ord" \in DOMAIN col, "key" \in DOMAIN col, NEW o, NEW g, NEW k, NEW n
  PROVE  LET r == [col EXCEPT !.ord = o, !.gen = g, !.key = k, !.note = n]
         IN  "ord" \in DOMAIN r /\ "key" \in DOMAIN r /\ r.ord = o
  OBVIOUS

\* A CREATE TABLE defines a table.
LEMMA CreateSqlIs ==
  ASSUME NEW cols, AreColumns(cols), NEW nat, NEW keys, NEW noted \in BOOLEAN
  PROVE  SqlOf(Additive, CreateSql(cols, nat, keys, noted))
<1>1. PICK t : t = Created(cols, nat, keys, noted)
  OBVIOUS
<1>2. PICK S : S = DOMAIN cols
  OBVIOUS
<1>3. S \subseteq Int /\ IsFiniteSet(S) /\ \A c \in S : "ord" \in DOMAIN cols[c] /\ "key" \in DOMAIN cols[c]
  BY <1>2 DEF AreColumns
<1>4. PICK r : r = [c \in S |-> [cols[c] EXCEPT !.ord = Place(cols, S, c), !.gen = nat.cols[c].gen,
                                !.key = IF c \in ToSet(keys) THEN Position(keys, c) ELSE 0,
                                !.note = IF noted THEN @ ELSE 0]]
  OBVIOUS
<1>5. DOMAIN t = {"cols", "shape", "opt", "note", "next"} /\ t.cols = r /\ t.next = Cardinality(S) + 1
  BY <1>1, <1>2, <1>4 DEF Created
<1>6. \A c \in S : "ord" \in DOMAIN r[c] /\ "key" \in DOMAIN r[c] /\ r[c].ord = Place(cols, S, c)
  <2>1. SUFFICES ASSUME NEW c \in S PROVE "ord" \in DOMAIN r[c] /\ "key" \in DOMAIN r[c] /\ r[c].ord = Place(cols, S, c)
    OBVIOUS
  <2>2. PICK a, g, k, n : /\ a = Place(cols, S, c) /\ g = nat.cols[c].gen
                          /\ k = (IF c \in ToSet(keys) THEN Position(keys, c) ELSE 0)
                          /\ n = (IF noted THEN cols[c].note ELSE 0)
    OBVIOUS
  <2>3. r[c] = [cols[c] EXCEPT !.ord = a, !.gen = g, !.key = k, !.note = n]
    BY <1>4, <2>2
  <2> QED BY <1>3, <2>2, <2>3, Renumber
<1>7. \A c \in S : Place(cols, S, c) \in Nat
  BY <1>3, PlaceIs
<1>8. AreColumns(r)
  <2>1. DOMAIN r = S
    BY <1>4
  <2>2. \A c \in S : r[c].ord \in Int
    BY <1>6, <1>7
  <2> HIDE <1>7
  <2> QED BY <1>3, <1>6, <2>1, <2>2 DEF AreColumns
<1>9. Cardinality(S) + 1 \in Int
  <2>1. Cardinality(S) \in Nat
    BY <1>3, FS_CardinalityType
  <2> QED BY <2>1
<1>10. IsTable(t)
  BY <1>5, <1>8, <1>9 DEF IsTable
<1>11. PICK s : s = TableStmt("create", t)
  OBVIOUS
<1>12. StmtOK(s) /\ s.op \in Additive
  <2>1. s.op = "create" /\ s.def = t
    BY <1>11 DEF TableStmt, Stmt
  <2> QED BY <1>10, <2>1 DEF StmtOK, Additive, Kinds
<1> QED BY <1>1, <1>11, <1>12, SqlOne DEF CreateSql

\* The COMMENT ON statements behind it.
LEMMA NoteSqlIs ==
  ASSUME NEW c, NEW note
  PROVE  SqlOf(Growing, NoteSql(c, note))
<1>1. PICK d : d = [note |-> note]
  OBVIOUS
<1>2. "ord" \notin DOMAIN d /\ "key" \notin DOMAIN d
  BY <1>1
<1>3. SqlOf(Growing, <<<<SetCol(c, d)>>>>)
  BY <1>2, SetSql
<1> QED BY <1>1, <1>3, SqlEmpty DEF NoteSql

\* The comments behind a new table are statements.
LEMMA CreateNotesIs ==
  ASSUME NEW cols, AreColumns(cols), NEW nat
  PROVE  SqlOf(Growing, CreateNotes(cols, nat))
<1>1. PICK f : f = [c \in DOMAIN cols |-> NoteSql(c, cols[c].note)]
  OBVIOUS
<1>2. SqlOf(Growing, ForEach(cols, f))
  <2>1. DOMAIN f \subseteq DOMAIN cols /\ \A c \in DOMAIN f : SqlOf(Growing, f[c])
    BY <1>1, NoteSqlIs
  <2> QED BY <2>1, ForEachIs
<1>3. PICK g : g = IF nat.note = 0 THEN <<>> ELSE <<<<TableStmt("tabNote", nat.note)>>>>
  OBVIOUS
<1>4. SqlOf(Growing, g)
  <2>1. SqlOf(Growing, <<<<TableStmt("tabNote", nat.note)>>>>)
    BY TableSql DEF Growing
  <2> QED BY <1>3, <2>1, SqlEmpty
<1>5. CreateNotes(cols, nat) = ForEach(cols, f) \o g
  BY <1>1, <1>3, Zenon DEF CreateNotes
<1> QED BY <1>2, <1>4, <1>5, SqlConcat
\* Columns that only the target has.
LEMMA DoomedAre ==
  ASSUME NEW x, AreColumns(x.tgt)
  PROVE  IsFiniteSet(Doomed(x)) /\ Doomed(x) \subseteq DOMAIN x.tgt /\ Doomed(x) \subseteq Int
<1>1. Doomed(x) \subseteq DOMAIN x.tgt
  BY DEF Doomed, Dropped
<1>2. IsFiniteSet(DOMAIN x.tgt) /\ DOMAIN x.tgt \subseteq Int
  BY DEF AreColumns
<1>3. IsFiniteSet(Doomed(x))
  BY <1>1, <1>2, FS_Subset
<1> QED BY <1>1, <1>2, <1>3

\* The operations of a table that exists on both sides: columns added, what changes
\* in between, columns dropped.
LEMMA ChangeOps ==
  ASSUME NEW drops, NEW adds, SqlOf(Growing, adds), NEW K, OpsOK(drops, K), \A o \in K : o.phase = 3,
         NEW D, OpsOK(drops, D), \A o \in D : o.phase = 4
  PROVE  OpsOK(drops, AddOp(adds) \cup K \cup D)
<1>1. PICK A : A = AddOp(adds)
  OBVIOUS
<1>2. OpsOK(drops, A) /\ \A o \in A : o.phase = 2
  BY <1>1, AddingFits, OperationIs DEF AddOp
<1>3. PICK B : B = A \cup K
  OBVIOUS
<1>4. OpsOK(drops, B)
  <2>1. \A a \in A, b \in K : a.phase # b.phase \/ a.kind # b.kind \/ a.col # b.col
    BY <1>2
  <2> QED BY <1>2, <1>3, <2>1, OpsUnion
<1>5. \A a \in B, b \in D : a.phase # b.phase \/ a.kind # b.kind \/ a.col # b.col
  BY <1>2, <1>3
<1>6. OpsOK(drops, B \cup D)
  BY <1>4, <1>5, OpsUnion
<1> QED BY <1>1, <1>3, <1>6

\* The operation that creates a table.
LEMMA CreateIs ==
  ASSUME NEW drops, NEW sql, SqlOf(Additive, sql)
  PROVE  FragOK(drops, Frag(CreateOp(sql), {}, {}))
<1>1. OpsOK(drops, CreateOp(sql))
  BY AddingFits, OperationIs DEF CreateOp
<1> QED BY <1>1, FragIs

\* The fragment of a table that only the target has.
LEMMA DropTableIs ==
  ASSUME NEW drops, NEW x PROVE FragOK(drops, DropTable(x))
<1>1. SqlOf(Kinds, <<<<TableStmt("dropTab", 0)>>>>)
  BY TableSql DEF Kinds
<1>2. OpsOK(drops, DropTableOp)
  <2>1. Fits(drops, 5, <<<<TableStmt("dropTab", 0)>>>>)
    BY <1>1 DEF Fits
  <2> QED BY <2>1, OperationIs DEF DropTableOp
<1>3. FragOK(drops, Frag(DropTableOp, {}, {})) /\ FragOK(drops, Frag({}, {0}, {}))
  BY <1>2, FragIs, NoOps
<1> QED BY <1>3 DEF DropTable

\* A column appended and commented.
LEMMA AppendSqlIs ==
  ASSUME NEW cols, NEW c \in Int, "ord" \in DOMAIN cols[c], "key" \in DOMAIN cols[c]
  PROVE  SqlOf(Growing, AppendSql(cols, c))
<1>1. PICK d : d = [cols[c] EXCEPT !.note = 0, !.key = 0]
  OBVIOUS
<1>2. "ord" \in DOMAIN d /\ "key" \in DOMAIN d /\ d.key = 0
  BY <1>1
<1>3. SqlOf(Growing, <<<<Stmt("add", c, d, <<>>)>>>>)
  BY <1>2, AddSql
<1>4. SqlOf(Growing, NoteSql(c, cols[c].note))
  BY NoteSqlIs
<1> QED BY <1>1, <1>3, <1>4, SqlConcat DEF AppendSql

\* An operation of a phase its statements fit, and what it says of its place.
LEMMA FittedIs ==
  ASSUME NEW drops, NEW sql, NEW p \in Int, NEW k \in Int, NEW c \in Int, Fits(drops, p, sql)
  PROVE  OpsOK(drops, Operation(p, k, c, sql))
  BY OperationIs

\* An operation keeps its phase, kind and column.
LEMMA OperationPlace ==
  ASSUME NEW sql, NEW p, NEW k, NEW c, NEW o \in Operation(p, k, c, sql)
  PROVE  o.phase = p /\ o.kind = k /\ o.col = c
  BY DEF Operation

\* The operation that changes columns.
LEMMA AlterIs ==
  ASSUME NEW drops, NEW sql, SqlOf(Growing, sql)
  PROVE  OpsOK(drops, AlterOp(sql)) /\ \A o \in AlterOp(sql) : o.phase = 3 /\ o.kind = 1
<1>1. Fits(drops, 3, sql)
  BY AddingFits
<1>2. OpsOK(drops, Operation(3, 1, 0, sql))
  BY <1>1, FittedIs
<1>3. \A o \in Operation(3, 1, 0, sql) : o.phase = 3 /\ o.kind = 1
  BY OperationPlace
<1> QED BY <1>2, <1>3 DEF AlterOp

\* The operation that replaces the key.
LEMMA ReplaceKeyIs ==
  ASSUME NEW drops, NEW sql, Fits(drops, 3, sql)
  PROVE  OpsOK(drops, ReplaceKeyOp(sql)) /\ \A o \in ReplaceKeyOp(sql) : o.phase = 3 /\ o.kind = 2
<1>1. OpsOK(drops, Operation(3, 2, 0, sql))
  BY FittedIs
<1>2. \A o \in Operation(3, 2, 0, sql) : o.phase = 3 /\ o.kind = 2
  BY OperationPlace
<1> QED BY <1>1, <1>2 DEF ReplaceKeyOp

\* The operation that comments a table.
LEMMA CommentIs ==
  ASSUME NEW drops, NEW col \in Int, NEW sql, SqlOf(Growing, sql)
  PROVE  /\ OpsOK(drops, CommentOp(col, sql))
         /\ \A o \in CommentOp(col, sql) : o.phase = 3 /\ o.kind = 3 /\ o.col = col
  BY AddingFits, OperationIs DEF CommentOp

\* The operation of ClickHouse that drops columns.
LEMMA DropColsIs ==
  ASSUME NEW drops, NEW sql, SqlOf(Kinds, sql)
  PROVE  OpsOK(drops, Operation(4, 0, 0, sql)) /\ \A o \in Operation(4, 0, 0, sql) : o.phase = 4
<1>1. Fits(drops, 4, sql)
  BY DEF Fits
<1>2. OpsOK(drops, Operation(4, 0, 0, sql))
  BY <1>1, FittedIs
<1>3. \A o \in Operation(4, 0, 0, sql) : o.phase = 4
  BY OperationPlace
<1> QED BY <1>2, <1>3

\* The operation that changes the key or only the columns.
LEMMA KeyChangeIs ==
  ASSUME NEW x, NEW old, NEW new, NEW alters, SqlOf(Growing, alters)
  PROVE  LET k == KeyChange(x, old, new, alters)
         IN  OpsOK(x.drops, k.ops) /\ \A o \in k.ops : o.phase = 3
<1>1. OpsOK(x.drops, AlterOp(alters)) /\ \A o \in AlterOp(alters) : o.phase = 3
  BY AlterIs
<1>2. PICK sql : sql = ReplaceKeySql(old, alters, new)
  OBVIOUS
<1>3. SqlOf(Kinds, sql) /\ (old = <<>> => SqlOf(Additive, sql))
  BY <1>2, ReplaceKeySqlIs
<1>4. ASSUME old = <<>> \/ x.drops
      PROVE  OpsOK(x.drops, ReplaceKeyOp(sql)) /\ \A o \in ReplaceKeyOp(sql) : o.phase = 3
  <2>1. Fits(x.drops, 3, sql)
    BY <1>3, <1>4, Zenon DEF Fits
  <2> QED BY <2>1, ReplaceKeyIs
<1>5. PICK k : k = KeyChange(x, old, new, alters)
  OBVIOUS
<1>6. \/ k = Frag(AlterOp(alters), {}, {}) \/ k = Block({0})
      \/ k = Frag(ReplaceKeyOp(sql), {}, {}) /\ (old = <<>> \/ x.drops)
  BY <1>2, <1>5, Zenon DEF KeyChange
<1>7. k.ops = AlterOp(alters) \/ k.ops = {} \/ (k.ops = ReplaceKeyOp(sql) /\ (old = <<>> \/ x.drops))
  BY <1>6 DEF Frag, Block
<1>8. OpsOK(x.drops, k.ops) /\ \A o \in k.ops : o.phase = 3
  BY <1>1, <1>4, <1>7, NoOps
<1> QED BY <1>5, <1>8

-----------------------------------------------------------------------------
(* The planners *)

\* Every plan the MySQL planner makes for a table is well formed.
LEMMA MysqlIs ==
  ASSUME NEW x, ContextOK(x)
  PROVE  FragOK(x.drops, MysqlPlan(x))
<1>1. CASE ~MysqlSupported(x)
  BY <1>1, BlockIs DEF MysqlPlan
<1>2. CASE MysqlSupported(x) /\ x.tgt = NoTable
  <2>1. AreColumns(x.src)
    BY <1>2 DEF ContextOK
  <2>2. PICK nat, keys : /\ nat = [x.srcNat EXCEPT !.cols =
                                    [c \in DOMAIN x.src |-> [gen |-> MysqlDefinition(x.src, x.srcNat, c).gen]]]
                         /\ keys = KeyOrder(x.src, x.srcNat)
    OBVIOUS
  <2>3. PICK sql : sql = CreateSql(x.src, nat, keys, TRUE)
    OBVIOUS
  <2>4. SqlOf(Additive, sql)
    BY <2>1, <2>3, CreateSqlIs
  <2>5. FragOK(x.drops, Frag(CreateOp(sql), {}, {}))
    BY <2>4, CreateIs
  <2>6. MysqlCreate(x) = Frag(CreateOp(sql), {}, {}) \/ \E b : MysqlCreate(x) = Block(b)
    BY <2>2, <2>3, Zenon DEF MysqlCreate
  <2>7. FragOK(x.drops, MysqlCreate(x))
    BY <2>5, <2>6, BlockIs
  <2> QED BY <1>2, <2>7 DEF MysqlPlan
<1>3. CASE MysqlSupported(x) /\ x.tgt # NoTable /\ x.src = NoTable
  BY <1>3, DropTableIs DEF MysqlPlan
<1>4. CASE MysqlSupported(x) /\ x.tgt # NoTable /\ x.src # NoTable
  <2>1. AreColumns(x.src) /\ AreColumns(x.tgt)
    BY <1>4 DEF ContextOK
  <2>2. \A c \in DOMAIN x.src : c \in Int
    BY <2>1 DEF AreColumns
  <2>3. \A c \in DOMAIN x.src : SqlOf(Growing, MysqlAdd(x, c)) /\ SqlOf(Growing, MysqlModify(x, c))
    <3>1. SUFFICES ASSUME NEW c \in DOMAIN x.src PROVE SqlOf(Growing, MysqlAdd(x, c)) /\ SqlOf(Growing, MysqlModify(x, c))
      OBVIOUS
    <3>2. PICK d : d = MysqlDefinition(x.src, x.srcNat, c)
      OBVIOUS
    <3>3. "ord" \notin DOMAIN d /\ "key" \notin DOMAIN d
      BY <3>2 DEF MysqlDefinition
    <3>4. PICK e : e = Over([ord |-> 0, key |-> 0], d)
      OBVIOUS
    <3>5. "ord" \in DOMAIN e /\ "key" \in DOMAIN e /\ e.key = 0
      BY <3>4 DEF Over
    <3>6. PICK p, q : /\ p = PositionClause(x.src, c)
                      /\ q = IF x.src[c].ord # x.tgt[c].ord THEN PositionClause(x.src, c) ELSE <<>>
      OBVIOUS
    <3>7. SqlOf(Growing, <<<<Stmt("add", c, e, p)>>>>)
      BY <2>2, <3>5, AddSql
    <3>8. SqlOf(Growing, <<<<Stmt("set", c, d, q)>>>>)
      BY <3>3, ChangeSql
    <3> QED BY <3>2, <3>4, <3>6, <3>7, <3>8, Zenon DEF MysqlAdd, MysqlModify
  <2>4. PICK undefinable : undefinable =
            {c \in (Added(x.src, x.tgt) \cup Changed(x.src, x.tgt)
                                   \cup MysqlRegenerated(x)) \ MysqlIncomparable(x) :
                          ~MysqlDefinable(x.src, x.srcNat, c)}
    OBVIOUS
  <2>5. PICK blocks : blocks = undefinable \cup MysqlIncomparable(x)
    OBVIOUS
  <2>6. PICK f, g : /\ f = [c \in Added(x.src, x.tgt) \ blocks |-> MysqlAdd(x, c)]
                    /\ g = [c \in (Changed(x.src, x.tgt) \cup MysqlRegenerated(x)) \ blocks |->
                                    MysqlModify(x, c)]
    OBVIOUS
  <2>7. DOMAIN f \subseteq DOMAIN x.src /\ DOMAIN g \subseteq DOMAIN x.src
    BY <2>6 DEF Added, Changed, MysqlRegenerated, MysqlGenerated, Shared
  <2>8. (\A c \in DOMAIN f : SqlOf(Growing, f[c])) /\ (\A c \in DOMAIN g : SqlOf(Growing, g[c]))
    BY <2>3, <2>6, <2>7
  <2>9. PICK adds, alters : adds = ForEach(x.src, f) /\ alters = ForEach(x.src, g)
    OBVIOUS
  <2>10. SqlOf(Growing, adds) /\ SqlOf(Growing, alters)
    BY <2>1, <2>7, <2>8, <2>9, ForEachIs
  <2>11. PICK known : known = (MysqlKeyKnown(x.src, x.srcNat) /\ MysqlKeyKnown(x.tgt, x.tgtNat))
    OBVIOUS
  <2>12. PICK key : key = IF known THEN KeyChange(x, KeyOrder(x.tgt, x.tgtNat),
                                       KeyOrder(x.src, x.srcNat), alters)
               ELSE Frag(AlterOp(alters), {}, {0})
    OBVIOUS
  <2>13. OpsOK(x.drops, key.ops) /\ \A o \in key.ops : o.phase = 3
    <3>1. OpsOK(x.drops, AlterOp(alters)) /\ \A o \in AlterOp(alters) : o.phase = 3
      BY <2>10, AlterIs
    <3>2. CASE known
      BY <2>10, <2>12, <3>2, KeyChangeIs
    <3>3. CASE ~known
      BY <2>12, <3>1, <3>3 DEF Frag
    <3> QED BY <3>2, <3>3
  <2>14. PICK K, D : K = key.ops /\ D = DropColumnOps(Doomed(x))
    OBVIOUS
  <2>15. OpsOK(x.drops, D) /\ \A o \in D : o.phase = 4
    BY <2>1, <2>14, DoomedAre, DropsAre
  <2>16. OpsOK(x.drops, AddOp(adds) \cup K \cup D)
    BY <2>10, <2>13, <2>14, <2>15, ChangeOps
  <2>17. PICK ops : ops = AddOp(adds) \cup D \cup K
    OBVIOUS
  <2>18. OpsOK(x.drops, ops)
    <3>1. ops = AddOp(adds) \cup K \cup D
      BY <2>17
    <3> QED BY <2>16, <3>1
  <2>19. MysqlChange(x) = Frag(ops, Gone(x), blocks \cup key.blocks)
    BY <2>4, <2>5, <2>6, <2>9, <2>11, <2>12, <2>14, <2>17, Zenon DEF MysqlChange
  <2>20. FragOK(x.drops, MysqlChange(x))
    BY <2>18, <2>19, FragIs
  <2> QED BY <1>4, <2>20 DEF MysqlPlan
<1> QED BY <1>1, <1>2, <1>3, <1>4
\* The changes of a PostgreSQL column, one statement per field.
LEMMA PgAlterSqlIs ==
  ASSUME NEW s, NEW t, NEW c
  PROVE  SqlOf(Growing, PgAlterSql(s, t, c))
<1>1. PICK d1, d2, d3, d4 : /\ d1 = [typ |-> s.typ] /\ d2 = [null |-> s.null]
                            /\ d3 = [dflt |-> s.dflt] /\ d4 = [note |-> s.note]
  OBVIOUS
<1>2. "ord" \notin DOMAIN d1 /\ "key" \notin DOMAIN d1 /\ "ord" \notin DOMAIN d2 /\ "key" \notin DOMAIN d2 /\ "ord" \notin DOMAIN d3 /\ "key" \notin DOMAIN d3 /\ "ord" \notin DOMAIN d4 /\ "key" \notin DOMAIN d4
  BY <1>1
<1>3. PICK p1, p2, p3, p4 :
        /\ p1 = IF s["typ"] = t["typ"] THEN <<>> ELSE <<<<SetCol(c, d1)>>>>
        /\ p2 = IF s["null"] = t["null"] THEN <<>> ELSE <<<<SetCol(c, d2)>>>>
        /\ p3 = IF s["dflt"] = t["dflt"] THEN <<>> ELSE <<<<SetCol(c, d3)>>>>
        /\ p4 = IF s["note"] = t["note"] THEN <<>> ELSE <<<<SetCol(c, d4)>>>>
  OBVIOUS
<1>4. /\ SqlOf(Growing, <<<<SetCol(c, d1)>>>>) /\ SqlOf(Growing, <<<<SetCol(c, d2)>>>>)
      /\ SqlOf(Growing, <<<<SetCol(c, d3)>>>>) /\ SqlOf(Growing, <<<<SetCol(c, d4)>>>>)
  BY <1>2, SetSql
<1>5. SqlOf(Growing, p1) /\ SqlOf(Growing, p2) /\ SqlOf(Growing, p3) /\ SqlOf(Growing, p4)
  BY <1>3, <1>4, SqlEmpty
<1>6. SqlOf(Growing, p1 \o p2)
  BY <1>5, SqlConcat
<1>7. SqlOf(Growing, (p1 \o p2) \o p3)
  BY <1>5, <1>6, SqlConcat
<1>8. SqlOf(Growing, ((p1 \o p2) \o p3) \o p4)
  BY <1>5, <1>7, SqlConcat
<1>9. PgAlterSql(s, t, c) = ((p1 \o p2) \o p3) \o p4
  BY <1>1, <1>3, Zenon DEF PgAlterSql
<1> QED BY <1>8, <1>9

\* The CREATE TABLE and the comments behind it.
LEMMA CreateNotedIs ==
  ASSUME NEW drops, NEW cols, AreColumns(cols), NEW nat, NEW keys
  PROVE  FragOK(drops, Frag(CreateOp(CreateSql(cols, nat, keys, FALSE) \o CreateNotes(cols, nat)), {}, {}))
<1>1. PICK a, b : a = CreateSql(cols, nat, keys, FALSE) /\ b = CreateNotes(cols, nat)
  OBVIOUS
<1>2. SqlOf(Additive, a)
  BY <1>1, CreateSqlIs
<1>3. SqlOf(Additive, b)
  BY <1>1, CreateNotesIs, SqlWider DEF Growing, Additive
<1>4. SqlOf(Additive, a \o b)
  BY <1>2, <1>3, SqlConcat
<1> QED BY <1>1, <1>4, CreateIs

\* Every plan the PostgreSQL planner makes for a table is well formed.
LEMMA PgIs ==
  ASSUME NEW x, ContextOK(x)
  PROVE  FragOK(x.drops, PgPlan(x))
<1>1. CASE x.tgt = NoTable
  <2>1. AreColumns(x.src)
    BY <1>1 DEF ContextOK
  <2>2. PICK p : p = Frag(CreateOp(CreateSql(x.src, x.srcNat, KeyOrder(x.src, x.srcNat), FALSE)
                               \o CreateNotes(x.src, x.srcNat)), {}, {})
    OBVIOUS
  <2>3. FragOK(x.drops, p)
    BY <2>1, <2>2, CreateNotedIs
  <2>4. PgCreate(x) = p \/ \E b : PgCreate(x) = Block(b)
    BY <2>2, Zenon DEF PgCreate
  <2>5. FragOK(x.drops, PgCreate(x))
    BY <2>3, <2>4, BlockIs
  <2> QED BY <1>1, <2>5 DEF PgPlan
<1>2. CASE x.tgt # NoTable /\ x.src = NoTable
  BY <1>2, DropTableIs DEF PgPlan
<1>3. CASE x.tgt # NoTable /\ x.src # NoTable
  <2>1. AreColumns(x.src) /\ AreColumns(x.tgt)
    BY <1>3 DEF ContextOK
  <2>2. \A c \in DOMAIN x.src : c \in Int /\ "ord" \in DOMAIN x.src[c] /\ "key" \in DOMAIN x.src[c]
    BY <2>1 DEF AreColumns
  <2>3. PICK fixed, adds, alters :
            /\ fixed = {c \in Shared(x.src, x.tgt) : PgFixed(x, c)}
            /\ adds = Added(x.src, x.tgt)
            /\ alters = {c \in Changed(x.src, x.tgt) \ fixed : PgNeedsAlter(x, c)}
    OBVIOUS
  <2>4. adds \subseteq DOMAIN x.src /\ alters \subseteq DOMAIN x.src
    BY <2>3 DEF Added, Changed, Shared
  <2>5. PICK f, g : /\ f = [c \in adds |-> AppendSql(x.src, c)]
                    /\ g = [c \in alters |-> PgAlterSql(x.src[c], x.tgt[c], c)]
    OBVIOUS
  <2>6. \A c \in adds : SqlOf(Growing, AppendSql(x.src, c))
    BY <2>2, <2>4, AppendSqlIs
  <2>7. \A c \in alters : SqlOf(Growing, PgAlterSql(x.src[c], x.tgt[c], c))
    BY PgAlterSqlIs
  <2>8. /\ DOMAIN f \subseteq DOMAIN x.src /\ DOMAIN g \subseteq DOMAIN x.src
        /\ (\A c \in DOMAIN f : SqlOf(Growing, f[c])) /\ (\A c \in DOMAIN g : SqlOf(Growing, g[c]))
    BY <2>4, <2>5, <2>6, <2>7
  <2>9. PICK a, b : a = ForEach(x.src, f) /\ b = ForEach(x.src, g)
    OBVIOUS
  <2>10. SqlOf(Growing, a) /\ SqlOf(Growing, b)
    BY <2>1, <2>8, <2>9, ForEachIs
  <2>11. PICK key : key = KeyChange(x, KeyOrder(x.tgt, x.tgtNat), KeyOrder(x.src, x.srcNat), b)
    OBVIOUS
  <2>12. PICK K, D : K = key.ops /\ D = DropColumnOps(Doomed(x))
    OBVIOUS
  <2>13. OpsOK(x.drops, K) /\ \A o \in K : o.phase = 3
    BY <2>10, <2>11, <2>12, KeyChangeIs
  <2>14. OpsOK(x.drops, D) /\ \A o \in D : o.phase = 4
    BY <2>1, <2>12, DoomedAre, DropsAre
  <2>15. OpsOK(x.drops, AddOp(a) \cup K \cup D)
    BY <2>10, <2>13, <2>14, ChangeOps
  <2>16. PICK ops : ops = AddOp(a) \cup K \cup D
    OBVIOUS
  <2>17. \/ \E bl : PgChange(x) = Block(bl) \/ PgChange(x) = Frag({}, Gone(x), bl)
         \/ PgChange(x) = Frag(ops, Gone(x), {})
    BY <2>3, <2>5, <2>9, <2>11, <2>12, <2>16, Zenon DEF PgChange
  <2>18. FragOK(x.drops, PgChange(x))
    BY <2>15, <2>16, <2>17, FragIs, BlockIs
  <2> QED BY <1>3, <2>18 DEF PgPlan
<1> QED BY <1>1, <1>2, <1>3

\* Every plan the SQLite planner makes for a table is well formed.
LEMMA SqliteIs ==
  ASSUME NEW x, ContextOK(x)
  PROVE  FragOK(x.drops, SqlitePlan(x))
<1>1. CASE x.tgt = NoTable
  <2>1. AreColumns(x.src)
    BY <1>1 DEF ContextOK
  <2>2. PICK sql : sql = CreateSql(x.src, x.srcNat, KeyOrder(x.src, x.srcNat), FALSE)
    OBVIOUS
  <2>3. SqlOf(Additive, sql)
    BY <2>1, <2>2, CreateSqlIs
  <2>4. FragOK(x.drops, Frag(CreateOp(sql), {}, {}))
    BY <2>3, CreateIs
  <2>5. SqliteCreate(x) = Frag(CreateOp(sql), {}, {}) \/ \E b : SqliteCreate(x) = Block(b)
    BY <2>2, Zenon DEF SqliteCreate
  <2>6. FragOK(x.drops, SqliteCreate(x))
    BY <2>4, <2>5, BlockIs
  <2> QED BY <1>1, <2>6 DEF SqlitePlan
<1>2. CASE x.tgt # NoTable /\ x.src = NoTable
  BY <1>2, DropTableIs, BlockIs DEF SqlitePlan
<1>3. CASE x.tgt # NoTable /\ x.src # NoTable
  <2>1. AreColumns(x.src) /\ AreColumns(x.tgt)
    BY <1>3 DEF ContextOK
  <2>2. \A c \in DOMAIN x.src : c \in Int /\ "ord" \in DOMAIN x.src[c] /\ "key" \in DOMAIN x.src[c]
    BY <2>1 DEF AreColumns
  <2>3. PICK adds : adds = Added(x.src, x.tgt)
    OBVIOUS
  <2>4. adds \subseteq DOMAIN x.src
    BY <2>3 DEF Added
  <2>5. PICK f : f = [c \in adds |-> AppendSql([x.src EXCEPT ![c].note = 0], c)]
    OBVIOUS
  <2>6. \A c \in adds : SqlOf(Growing, AppendSql([x.src EXCEPT ![c].note = 0], c))
    <3>1. SUFFICES ASSUME NEW c \in adds PROVE SqlOf(Growing, AppendSql([x.src EXCEPT ![c].note = 0], c))
      OBVIOUS
    <3>2. PICK cols : cols = [x.src EXCEPT ![c].note = 0]
      OBVIOUS
    <3>3. c \in Int /\ "ord" \in DOMAIN cols[c] /\ "key" \in DOMAIN cols[c]
      BY <2>2, <2>4, <3>2
    <3> QED BY <3>2, <3>3, AppendSqlIs
  <2>7. DOMAIN f \subseteq DOMAIN x.src /\ \A c \in DOMAIN f : SqlOf(Growing, f[c])
    BY <2>4, <2>5, <2>6
  <2>8. PICK a, D : a = ForEach(x.src, f) /\ D = DropColumnOps(Doomed(x))
    OBVIOUS
  <2>9. SqlOf(Growing, a)
    BY <2>1, <2>7, <2>8, ForEachIs
  <2>10. OpsOK(x.drops, D) /\ \A o \in D : o.phase = 4
    BY <2>1, <2>8, DoomedAre, DropsAre
  <2>11. OpsOK(x.drops, AddOp(a) \cup {} \cup D)
    <3>1. PICK K : K = {}
      OBVIOUS
    <3>2. OpsOK(x.drops, K) /\ \A o \in K : o.phase = 3
      BY <3>1, NoOps
    <3>3. OpsOK(x.drops, AddOp(a) \cup K \cup D)
      BY <2>9, <2>10, <3>2, ChangeOps
    <3> QED BY <3>1, <3>3
  <2>12. PICK ops : ops = AddOp(a) \cup D
    OBVIOUS
  <2>13. OpsOK(x.drops, ops)
    <3>1. ops = AddOp(a) \cup {} \cup D
      BY <2>12
    <3> QED BY <2>11, <3>1
  <2>14. \/ \E bl : SqliteChange(x) = Block(bl) \/ SqliteChange(x) = Frag({}, Gone(x), bl)
         \/ SqliteChange(x) = Frag(ops, Gone(x), {})
    BY <2>3, <2>5, <2>8, <2>12, Zenon DEF SqliteChange
  <2>15. FragOK(x.drops, SqliteChange(x))
    BY <2>13, <2>14, FragIs, BlockIs
  <2> QED BY <1>3, <2>15 DEF SqlitePlan
<1> QED BY <1>1, <1>2, <1>3
\* The changes of a SQL Server column.
LEMMA SsAlterSqlIs ==
  ASSUME NEW x, NEW c
  PROVE  SqlOf(Growing, SsAlterSql(x, c))
<1>1. PICK s, t, F : s = x.src[c] /\ t = x.tgt[c] /\ F = ChangedFields(s, t)
  OBVIOUS
<1>2. PICK d1, d2, d3 : /\ d1 = [typ |-> s.typ, null |-> s.null]
                        /\ d2 = [dflt |-> s.dflt, gen |-> x.srcNat.cols[c].gen]
                        /\ d3 = [note |-> s.note]
  OBVIOUS
<1>3. "ord" \notin DOMAIN d1 /\ "key" \notin DOMAIN d1 /\ "ord" \notin DOMAIN d2 /\ "key" \notin DOMAIN d2 /\ "ord" \notin DOMAIN d3 /\ "key" \notin DOMAIN d3
  BY <1>2
<1>4. PICK p1, p2, p3 :
        /\ p1 = IF F \cap {"typ", "null"} = {} THEN <<>> ELSE <<<<SetCol(c, d1)>>>>
        /\ p2 = IF "dflt" \notin F THEN <<>> ELSE <<<<SetCol(c, d2)>>>>
        /\ p3 = IF "note" \notin F THEN <<>> ELSE <<<<SetCol(c, d3)>>>>
  OBVIOUS
<1>5. SqlOf(Growing, <<<<SetCol(c, d1)>>>>) /\ SqlOf(Growing, <<<<SetCol(c, d2)>>>>) /\ SqlOf(Growing, <<<<SetCol(c, d3)>>>>)
  BY <1>3, SetSql
<1>6. SqlOf(Growing, p1) /\ SqlOf(Growing, p2) /\ SqlOf(Growing, p3)
  BY <1>4, <1>5, SqlEmpty
<1>7. SqlOf(Growing, p1 \o p2)
  BY <1>6, SqlConcat
<1>8. SqlOf(Growing, (p1 \o p2) \o p3)
  BY <1>6, <1>7, SqlConcat
<1>9. SsAlterSql(x, c) = (p1 \o p2) \o p3
  BY <1>1, <1>2, <1>4, Zenon DEF SsAlterSql
<1> QED BY <1>8, <1>9

\* The comment of a table, when it differs.
LEMMA TableNoteIs ==
  ASSUME NEW s, NEW t
  PROVE  SqlOf(Growing, IF s = t THEN <<>> ELSE <<<<TableStmt("tabNote", s)>>>>)
<1>1. SqlOf(Growing, <<<<TableStmt("tabNote", s)>>>>)
  BY TableSql DEF Growing
<1> QED BY <1>1, SqlEmpty

\* Every plan the SQL Server planner makes for a table is well formed.
LEMMA SsIs ==
  ASSUME NEW x, ContextOK(x)
  PROVE  FragOK(x.drops, SsPlan(x)) /\ KeyKept(x, SsPlan(x).ops)
<1>1. CASE x.tgt = NoTable
  <2>1. AreColumns(x.src)
    BY <1>1 DEF ContextOK
  <2>2. PICK p : p = Frag(CreateOp(CreateSql(x.src, x.srcNat, KeyOrder(x.src, x.srcNat), FALSE)
                               \o CreateNotes(x.src, x.srcNat)), {}, {})
    OBVIOUS
  <2>3. FragOK(x.drops, p)
    BY <2>1, <2>2, CreateNotedIs
  <2>4. SsCreate(x) = p \/ \E b : SsCreate(x) = Block(b)
    BY <2>2, Zenon DEF SsCreate
  <2>5. FragOK(x.drops, SsCreate(x))
    BY <2>3, <2>4, BlockIs
  <2> QED BY <1>1, <2>5 DEF SsPlan, KeyKept
<1>2. CASE x.tgt # NoTable /\ x.src = NoTable
  BY <1>2, DropTableIs, BlockIs DEF SsPlan, KeyKept
<1>3. CASE x.tgt # NoTable /\ x.src # NoTable
  <2>1. AreColumns(x.src) /\ AreColumns(x.tgt)
    BY <1>3 DEF ContextOK
  <2>2. \A c \in DOMAIN x.src : c \in Int /\ "ord" \in DOMAIN x.src[c] /\ "key" \in DOMAIN x.src[c]
    BY <2>1 DEF AreColumns
  <2>3. PICK fixed, adds :
            /\ fixed = {c \in Shared(x.src, x.tgt) : SsFixed(x, c)}
            /\ adds = Added(x.src, x.tgt)
    OBVIOUS
  <2>4. PICK changed : changed = Changed(x.src, x.tgt) \ fixed
    OBVIOUS
  <2>5. PICK alters : alters = {c \in changed : PgNeedsAlter(x, c)}
    OBVIOUS
  <2>6. PICK blocks : blocks = fixed
            \cup {c \in adds : ~SsAddable(x, c)}
            \cup {c \in changed : "extra" \in ChangedFields(x.src[c], x.tgt[c])}
            \cup {c \in alters : SsUnalterable(x, c)}
    OBVIOUS
  <2>7. adds \subseteq DOMAIN x.src /\ alters \subseteq DOMAIN x.src
    BY <2>3, <2>4, <2>5 DEF Added, Changed, Shared
  <2>8. PICK f, g : /\ f = [c \in adds |-> AppendSql([x.src EXCEPT ![c].gen = x.srcNat.cols[c].gen], c)]
                    /\ g = [c \in alters |-> SsAlterSql(x, c)]
    OBVIOUS
  <2>9. \A c \in adds : SqlOf(Growing, AppendSql([x.src EXCEPT ![c].gen = x.srcNat.cols[c].gen], c))
    <3>1. SUFFICES ASSUME NEW c \in adds
                   PROVE SqlOf(Growing, AppendSql([x.src EXCEPT ![c].gen = x.srcNat.cols[c].gen], c))
      OBVIOUS
    <3>2. PICK cols : cols = [x.src EXCEPT ![c].gen = x.srcNat.cols[c].gen]
      OBVIOUS
    <3>3. c \in Int /\ "ord" \in DOMAIN cols[c] /\ "key" \in DOMAIN cols[c]
      BY <2>2, <2>7, <3>2
    <3> QED BY <3>2, <3>3, AppendSqlIs
  <2>10. /\ DOMAIN f \subseteq DOMAIN x.src /\ DOMAIN g \subseteq DOMAIN x.src
         /\ (\A c \in DOMAIN f : SqlOf(Growing, f[c])) /\ (\A c \in DOMAIN g : SqlOf(Growing, g[c]))
    BY <2>7, <2>8, <2>9, SsAlterSqlIs
  <2>11. PICK a, alterSql : a = ForEach(x.src, f) /\ alterSql = ForEach(x.src, g)
    OBVIOUS
  <2>12. SqlOf(Growing, a) /\ SqlOf(Growing, alterSql)
    BY <2>1, <2>10, <2>11, ForEachIs
  <2>13. PICK old, new : old = KeyOrder(x.tgt, x.tgtNat) /\ new = KeyOrder(x.src, x.srcNat)
    OBVIOUS
  <2>14. PICK replace : replace = (old # new \/ SsKeyRedefined(x))
    OBVIOUS
  <2>15. PICK noteSql : noteSql = IF x.srcNat.note = x.tgtNat.note THEN <<>>
                                  ELSE <<<<TableStmt("tabNote", x.srcNat.note)>>>>
    OBVIOUS
  <2>16. SqlOf(Growing, noteSql)
    BY <2>15, TableNoteIs
  <2>17. PICK batch : batch = AtomicBatch(ReplaceKeySql(old, alterSql, new))
    OBVIOUS
  <2>18. SqlOf(Kinds, batch) /\ (old = <<>> => SqlOf(Additive, batch))
    <3>1. PICK sql : sql = ReplaceKeySql(old, alterSql, new)
      OBVIOUS
    <3>2. SqlOf(Kinds, sql) /\ (old = <<>> => SqlOf(Additive, sql))
      BY <2>12, <3>1, ReplaceKeySqlIs
    <3> QED BY <2>17, <3>1, <3>2, SqlAtomic
  <2>19. PICK K1, K2 : /\ K1 = (IF replace THEN ReplaceKeyOp(batch) ELSE AlterOp(alterSql))
                       /\ K2 = CommentOp(0, noteSql)
    OBVIOUS
  <2>29. \/ \E bl : SsChange(x) = Block(bl) \/ SsChange(x) = Frag({}, Gone(x), bl)
         \/ SsChange(x) = Frag(AddOp(a) \cup K1 \cup K2 \cup DropColumnOps(Doomed(x)), Gone(x), {})
            /\ ~(replace /\ old # <<>> /\ ~x.drops)
    BY <2>3, <2>4, <2>5, <2>6, <2>8, <2>11, <2>13, <2>14, <2>15, <2>17, <2>19, Zenon
       DEF SsChange
  <2>29a. CASE \E bl : SsChange(x) = Block(bl) \/ SsChange(x) = Frag({}, Gone(x), bl)
    <3>1. PICK bl : SsChange(x) = Block(bl) \/ SsChange(x) = Frag({}, Gone(x), bl)
      BY <2>29a
    <3>2. FragOK(x.drops, Block(bl)) /\ FragOK(x.drops, Frag({}, Gone(x), bl))
      BY BlockIs
    <3>3. Block(bl).ops = {} /\ Frag({}, Gone(x), bl).ops = {}
      BY DEF Block, Frag
    <3>4. FragOK(x.drops, SsChange(x)) /\ SsChange(x).ops = {}
      BY <3>1, <3>2, <3>3
    <3> QED BY <1>3, <3>4 DEF SsPlan, KeyKept
  <2>29b. CASE SsChange(x) = Frag(AddOp(a) \cup K1 \cup K2 \cup DropColumnOps(Doomed(x)), Gone(x), {})
            /\ ~(replace /\ old # <<>> /\ ~x.drops)
    <3>20. OpsOK(x.drops, K1) /\ \A o \in K1 : o.phase = 3 /\ o.kind \in {1, 2}
      <4>1. replace => Fits(x.drops, 3, batch)
        BY <2>18, <2>29b, Zenon DEF Fits
      <4>2. replace => OpsOK(x.drops, ReplaceKeyOp(batch)) /\ \A o \in ReplaceKeyOp(batch) : o.phase = 3 /\ o.kind = 2
        BY <4>1, ReplaceKeyIs
      <4>3. OpsOK(x.drops, AlterOp(alterSql)) /\ \A o \in AlterOp(alterSql) : o.phase = 3 /\ o.kind = 1
        BY <2>12, AlterIs
      <4> QED BY <2>19, <4>2, <4>3
    <3>21. OpsOK(x.drops, K2) /\ \A o \in K2 : o.phase = 3 /\ o.kind = 3
      BY <2>16, <2>19, CommentIs
    <3>22. PICK K : K = K1 \cup K2
      OBVIOUS
    <3>23. OpsOK(x.drops, K) /\ \A o \in K : o.phase = 3
      <4>1. \A p \in K1, q \in K2 : p.phase # q.phase \/ p.kind # q.kind \/ p.col # q.col
        BY <3>20, <3>21
      <4> QED BY <3>20, <3>21, <3>22, <4>1, OpsUnion
    <3>24. PICK D : D = DropColumnOps(Doomed(x))
      OBVIOUS
    <3>25. OpsOK(x.drops, D) /\ \A o \in D : o.phase = 4 /\ StmtsKeep(o.sql)
      BY <2>1, <3>24, DoomedAre, DropsAre
    <3>26. OpsOK(x.drops, AddOp(a) \cup K \cup D)
      BY <2>12, <3>23, <3>25, ChangeOps
    <3>27. PICK ops : ops = AddOp(a) \cup K1 \cup K2 \cup D
      OBVIOUS
    <3>28. OpsOK(x.drops, ops)
      <4>1. ops = AddOp(a) \cup K \cup D
        BY <3>22, <3>27
      <4> QED BY <3>26, <4>1
    <3>29. ASSUME KeyColumns(x.src) # {} PROVE \A o \in ops : StmtsKeep(o.sql)
      <4>1. StmtsKeep(a) /\ StmtsKeep(alterSql) /\ StmtsKeep(noteSql)
        BY <2>12, <2>16, GrowingKeeps DEF Growing, Keyless
      <4>2. PICK n \in Nat \ {0} : DOMAIN new = 1 .. n
        BY <2>1, <2>13, <3>29, KeyOrderIs
      <4>3. StmtsKeep(batch)
        BY <2>12, <2>17, <4>2, BatchKeeps
      <4>4. \A o \in AddOp(a) : o.sql = a
        BY SqlOfOperation DEF AddOp
      <4>5. \A o \in K1 : o.sql = batch \/ o.sql = alterSql
        BY <2>19, SqlOfOperation DEF ReplaceKeyOp, AlterOp
      <4>6. \A o \in K2 : o.sql = noteSql
        BY <2>19, SqlOfOperation DEF CommentOp
      <4> QED BY <3>25, <3>27, <4>1, <4>3, <4>4, <4>5, <4>6
    <3>30. SsChange(x) = Frag(ops, Gone(x), {})
      BY <2>29b, <3>24, <3>27
    <3>31. FragOK(x.drops, SsChange(x)) /\ SsChange(x).ops = ops
      BY <3>28, <3>30, FragIs DEF Frag
    <3> QED BY <1>3, <3>29, <3>31 DEF SsPlan, KeyKept
  <2> QED BY <2>29, <2>29a, <2>29b
<1> QED BY <1>1, <1>2, <1>3

\* The changes of a ClickHouse column.
LEMMA ChAlterSqlIs ==
  ASSUME NEW x, NEW c
  PROVE  SqlOf(Growing, ChAlterSql(x, c))
<1>1. PICK s, t, col : s = x.srcNat.cols[c] /\ t = x.tgtNat.cols[c] /\ col = x.src[c]
  OBVIOUS
<1>2. PICK d1, d2 : d1 = [dflt |-> "none", extra |-> ""] /\ d2 = [gen |-> 0]
  OBVIOUS
<1>3. "ord" \notin DOMAIN d1 /\ "key" \notin DOMAIN d1 /\ "ord" \notin DOMAIN d2 /\ "key" \notin DOMAIN d2
  BY <1>2
<1>4. SqlOf(Growing, <<<<SetCol(c, d1)>>>>) /\ SqlOf(Growing, <<<<SetCol(c, d2)>>>>)
  BY <1>3, SetSql
<1>5. PICK p1, p2 :
        /\ p1 = (IF s.dflt = "none" /\ t.dflt # "none" THEN <<<<SetCol(c, d1)>>>> ELSE <<>>)
        /\ p2 = (IF s.gen = 0 /\ t.gen # 0 THEN <<<<SetCol(c, d2)>>>> ELSE <<>>)
  OBVIOUS
<1>6. SqlOf(Growing, p1) /\ SqlOf(Growing, p2)
  BY <1>4, <1>5, SqlEmpty
<1>7. SqlOf(Growing, p1 \o p2)
  BY <1>6, SqlConcat
<1>8. ChRemoveSql(c, s, t) = p1 \o p2
  BY <1>2, <1>5, Zenon DEF ChRemoveSql
<1>9. PICK e1, e2 : /\ e1 = (IF s.dflt = "none" THEN <<>> ELSE [dflt |-> s.dflt, extra |-> s.special])
                    /\ e2 = (IF s.gen = 0 THEN <<>> ELSE [gen |-> s.gen])
  OBVIOUS
<1>10. "ord" \notin DOMAIN e1 /\ "key" \notin DOMAIN e1 /\ "ord" \notin DOMAIN e2 /\ "key" \notin DOMAIN e2
  BY <1>9
<1>11. PICK e : e = Over(e1, e2)
  OBVIOUS
<1>12. "ord" \notin DOMAIN e /\ "key" \notin DOMAIN e
  BY <1>10, <1>11 DEF Over
<1>13. PICK d0 : d0 = [typ |-> col.typ, null |-> col.null]
  OBVIOUS
<1>14. PICK def : def = Over(d0, e)
  OBVIOUS
<1>15. "ord" \notin DOMAIN def /\ "key" \notin DOMAIN def
  <2>1. "ord" \notin DOMAIN d0 /\ "key" \notin DOMAIN d0
    BY <1>13
  <2> QED BY <1>12, <1>14, <2>1 DEF Over
<1>16. PICK where : where = PositionClause(x.src, c)
  OBVIOUS
<1>17. SqlOf(Growing, <<<<Stmt("set", c, def, where)>>>>)
  BY <1>15, ChangeSql
<1>18. PICK p3 : p3 = IF ChRedefined(x, c) THEN <<<<Stmt("set", c, def, where)>>>> ELSE <<>>
  OBVIOUS
<1>19. SqlOf(Growing, p3)
  BY <1>17, <1>18, SqlEmpty
<1>20. PICK r : r = ChRemoveSql(c, s, t)
  OBVIOUS
<1>21. SqlOf(Growing, r \o p3)
  BY <1>7, <1>8, <1>19, <1>20, SqlConcat
<1>22. ChAlterSql(x, c) = r \o p3
  BY <1>1, <1>9, <1>11, <1>13, <1>14, <1>16, <1>18, <1>20, Zenon DEF ChAlterSql
<1> QED BY <1>21, <1>22

\* Every plan the ClickHouse planner makes for a table is well formed.
LEMMA ChIs ==
  ASSUME NEW x, ContextOK(x)
  PROVE  FragOK(x.drops, ChPlan(x))
<1>1. CASE x.tgt = NoTable
  <2>1. AreColumns(x.src)
    BY <1>1 DEF ContextOK
  <2>2. PICK keys : keys = InOrder([c \in DOMAIN ChKey(x.srcNat) |-> [ord |-> x.srcNat.cols[c].key]],
                                   DOMAIN ChKey(x.srcNat))
    OBVIOUS
  <2>3. PICK sql : sql = CreateSql(x.src, x.srcNat, keys, TRUE)
    OBVIOUS
  <2>4. SqlOf(Additive, sql)
    BY <2>1, <2>3, CreateSqlIs
  <2>5. FragOK(x.drops, Frag(CreateOp(sql), {}, {}))
    BY <2>4, CreateIs
  <2>6. ChCreate(x) = Frag(CreateOp(sql), {}, {}) \/ \E b : ChCreate(x) = Block(b)
    BY <2>2, <2>3, Zenon DEF ChCreate
  <2>7. FragOK(x.drops, ChCreate(x))
    BY <2>5, <2>6, BlockIs
  <2> QED BY <1>1, <2>7 DEF ChPlan
<1>2. CASE x.tgt # NoTable /\ x.src = NoTable
  BY <1>2, DropTableIs, BlockIs DEF ChPlan
<1>3. CASE x.tgt # NoTable /\ x.src # NoTable
  <2>1. AreColumns(x.src) /\ AreColumns(x.tgt)
    BY <1>3 DEF ContextOK
  <2>2. \A c \in DOMAIN x.src : c \in Int /\ "ord" \in DOMAIN x.src[c] /\ "key" \in DOMAIN x.src[c]
    BY <2>1 DEF AreColumns
  <2> DEFINE
        noNative == {c \in DOMAIN x.src : \/ ~HasNative(x.srcNat, c)
                                          \/ c \in DOMAIN x.tgt /\ ~HasNative(x.tgtNat, c)}
        adds == Added(x.src, x.tgt)
        modified == ChModified(x, DOMAIN x.src \ noNative)
        keyed == {c \in modified : ChKeyBlocks(x, c)}
        undefinable == {c \in adds \cup {d \in modified \ keyed : ChRedefined(x, d)} :
                            ~ChDefinable(x.src, x.srcNat, c)}
        blocks == noNative \cup keyed \cup undefinable
        noted == {c \in modified \ keyed : "note" \in ChangedFields(x.src[c], x.tgt[c])}
        noteSql == IF x.srcNat.note = x.tgtNat.note THEN <<>>
                   ELSE <<<<TableStmt("tabNote", x.srcNat.note)>>>>
        f1 == [c \in adds \ blocks |-> ChAdd(x, c)]
        f2 == [c \in modified \ blocks |-> ChAlterSql(x, c)]
        f3 == [c \in noted |-> <<<<SetCol(c, [note |-> x.src[c].note])>>>>]
        f4 == [c \in Doomed(x) |-> <<<<Stmt("dropCol", c, 0, <<>>)>>>>]
        s1 == ForEach(x.src, f1)
        s2 == ForEach(x.src, f2)
        s3 == ForEach(x.src, f3)
        s4 == ForEach(x.tgt, f4)
        K1 == AlterOp(s2)
        K2 == CommentOp(0, s3)
        K3 == CommentOp(1, noteSql)
        D == Operation(4, 0, 0, s4)
        ops == AddOp(s1) \cup K1 \cup K2 \cup K3 \cup D
  <2>33. \/ \E bl : ChChange(x) = Block(bl)
         \/ ChChange(x) = Frag(ops, Gone(x), blocks)
    BY Zenon DEF ChChange
  <2>9. SqlOf(Growing, noteSql)
    BY TableNoteIs
  <2>10. adds \subseteq DOMAIN x.src /\ modified \subseteq DOMAIN x.src /\ noted \subseteq DOMAIN x.src
    BY DEF Added, ChModified, Shared
  <2> HIDE DEF blocks, noted, modified, adds, noNative, keyed, undefinable
  <2>12. \A c \in adds : SqlOf(Growing, ChAdd(x, c))
    <3>1. SUFFICES ASSUME NEW c \in adds PROVE SqlOf(Growing, ChAdd(x, c))
      OBVIOUS
    <3>2. PICK d, p : /\ d = [x.src[c] EXCEPT !.gen = x.srcNat.cols[c].gen, !.key = 0]
                      /\ p = PositionClause(x.src, c)
      OBVIOUS
    <3>3. c \in Int /\ "ord" \in DOMAIN d /\ "key" \in DOMAIN d /\ d.key = 0
      BY <2>2, <2>10, <3>2
    <3>4. SqlOf(Growing, <<<<Stmt("add", c, d, p)>>>>)
      BY <3>3, AddSql
    <3> QED BY <3>2, <3>4, Zenon DEF ChAdd
  <2>13. \A c \in noted : SqlOf(Growing, <<<<SetCol(c, [note |-> x.src[c].note])>>>>)
    <3>1. SUFFICES ASSUME NEW c \in noted PROVE SqlOf(Growing, <<<<SetCol(c, [note |-> x.src[c].note])>>>>)
      OBVIOUS
    <3>2. PICK d : d = [note |-> x.src[c].note]
      OBVIOUS
    <3>3. "ord" \notin DOMAIN d /\ "key" \notin DOMAIN d
      BY <3>2
    <3> QED BY <3>2, <3>3, SetSql
  <2>14. DOMAIN f1 \subseteq DOMAIN x.src /\ \A c \in DOMAIN f1 : SqlOf(Growing, f1[c])
    BY <2>10, <2>12
  <2>15. DOMAIN f2 \subseteq DOMAIN x.src /\ \A c \in DOMAIN f2 : SqlOf(Growing, f2[c])
    BY <2>10, ChAlterSqlIs
  <2>16. DOMAIN f3 \subseteq DOMAIN x.src /\ \A c \in DOMAIN f3 : SqlOf(Growing, f3[c])
    BY <2>10, <2>13
  <2>17. DOMAIN f4 \subseteq DOMAIN x.tgt /\ \A c \in DOMAIN f4 : SqlOf({"dropCol"}, f4[c])
    BY <2>1, DoomedAre, DropSql
  <2> HIDE DEF f1, f2, f3, f4
  <2>19. SqlOf(Growing, s1) /\ SqlOf(Growing, s2) /\ SqlOf(Growing, s3)
    BY <2>1, <2>14, <2>15, <2>16, ForEachIs
  <2>20. SqlOf({"dropCol"}, s4)
    BY <2>1, <2>17, ForEachIs
  <2> HIDE DEF s1, s2, s3, s4, noteSql
  <2>21. OpsOK(x.drops, K1) /\ \A o \in K1 : o.phase = 3 /\ o.kind = 1
    BY <2>19, AlterIs
  <2>22. OpsOK(x.drops, K2) /\ \A o \in K2 : o.phase = 3 /\ o.kind = 3 /\ o.col = 0
    <3>1. PICK c \in Int : c = 0
      OBVIOUS
    <3> QED BY <2>19, <3>1, CommentIs
  <2>23. OpsOK(x.drops, K3) /\ \A o \in K3 : o.phase = 3 /\ o.kind = 3 /\ o.col = 1
    <3>1. PICK c \in Int : c = 1
      OBVIOUS
    <3> QED BY <2>9, <3>1, CommentIs
  <2>24. OpsOK(x.drops, D) /\ \A o \in D : o.phase = 4
    <3>1. SqlOf(Kinds, s4)
      <4>1. {"dropCol"} \subseteq Kinds
        BY DEF Kinds
      <4> QED BY <2>20, <4>1, SqlWider
    <3> QED BY <3>1, DropColsIs
  <2> HIDE DEF K1, K2, K3, D
  <2>25. PICK L : L = K1 \cup K2
    OBVIOUS
  <2>26. OpsOK(x.drops, L)
    <3>1. \A p \in K1, q \in K2 : p.phase # q.phase \/ p.kind # q.kind \/ p.col # q.col
      BY <2>21, <2>22
    <3> QED BY <2>21, <2>22, <2>25, <3>1, OpsUnion
  <2>27. PICK K : K = L \cup K3
    OBVIOUS
  <2>28. OpsOK(x.drops, K)
    <3>1. \A p \in L, q \in K3 : p.phase # q.phase \/ p.kind # q.kind \/ p.col # q.col
      BY <2>21, <2>22, <2>23, <2>25
    <3> QED BY <2>23, <2>26, <2>27, <3>1, OpsUnion
  <2>29. \A o \in K : o.phase = 3
    BY <2>21, <2>22, <2>23, <2>25, <2>27
  <2>30. OpsOK(x.drops, AddOp(s1) \cup K \cup D)
    BY <2>19, <2>24, <2>28, <2>29, ChangeOps
  <2>32. OpsOK(x.drops, ops)
    <3>1. ops = AddOp(s1) \cup K \cup D
      BY <2>25, <2>27
    <3> QED BY <2>30, <3>1
  <2> HIDE DEF ops
  <2>34. FragOK(x.drops, ChChange(x))
    BY <2>32, <2>33, FragIs, BlockIs
  <2> QED BY <1>3, <2>34 DEF ChPlan
<1> QED BY <1>1, <1>2, <1>3

\* Whatever the engine and the difference, the plan of a table is well formed.
LEMMA PlanTableIs ==
  ASSUME NEW x, ContextOK(x), NEW e \in Engines
  PROVE  /\ OpsOK(x.drops, PlanTable(e, x).ops)
         /\ e = "sqlserver" => KeyKept(x, PlanTable(e, x).ops)
<1>1. FragOK(x.drops, MysqlPlan(x)) /\ FragOK(x.drops, PgPlan(x)) /\ FragOK(x.drops, SqlitePlan(x)) /\ FragOK(x.drops, SsPlan(x)) /\ FragOK(x.drops, ChPlan(x))
  BY MysqlIs, PgIs, SqliteIs, SsIs, ChIs
<1>2. PICK p : p = Planned(e, x)
  OBVIOUS
<1>3. FragOK(x.drops, p)
  <2>1. CASE e = "mysql"
    BY <1>1, <1>2, <2>1 DEF Planned
  <2>2. CASE e = "postgres"
    BY <1>1, <1>2, <2>2 DEF Planned
  <2>3. CASE e = "sqlite"
    BY <1>1, <1>2, <2>3 DEF Planned
  <2>4. CASE e = "sqlserver"
    BY <1>1, <1>2, <2>4 DEF Planned
  <2>5. CASE e = "clickhouse"
    BY <1>1, <1>2, <2>5 DEF Planned
  <2> QED BY <2>1, <2>2, <2>3, <2>4, <2>5 DEF Engines
<1>4. PICK q : q = [p EXCEPT !.blocks = @ \cup Unhandled(e, x)]
  OBVIOUS
<1>5. q.ops = p.ops
  BY <1>3, <1>4 DEF FragOK
<1>6. OpsOK(x.drops, q.ops) /\ OpsOK(x.drops, Block({0}).ops)
  BY <1>3, <1>5, BlockIs DEF FragOK
<1>6a. e = "sqlserver" => KeyKept(x, q.ops)
  <2>1. e = "sqlserver" => p = SsPlan(x)
    BY <1>2 DEF Planned
  <2> QED BY <1>5, <2>1, SsIs
<1>6b. KeyKept(x, Block({0}).ops)
  BY DEF Block, Frag, KeyKept
<1>7. PlanTable(e, x) = OrBlocked(x, q)
  BY <1>2, <1>4 DEF PlanTable
<1>8. OrBlocked(x, q) = q \/ OrBlocked(x, q) = Block({0})
  BY DEF OrBlocked
<1> QED BY <1>6, <1>6a, <1>6b, <1>7, <1>8

-----------------------------------------------------------------------------
(* The plan of all tables *)

\* Operations that phase, table, kind and column tell apart can be put in order.
LEMMA OrderedIs ==
  ASSUME NEW ops, IsFiniteSet(ops),
         \A o \in ops : o.phase \in Int /\ o.table \in Int /\ o.kind \in Int /\ o.col \in Int,
         \A o, p \in ops : (o.phase = p.phase /\ o.table = p.table /\ o.kind = p.kind /\ o.col = p.col)
                              => o = p
  PROVE  Ordered(ops) \in Seq(ops)
<1>1. PICK R : R = {q \in ops \X ops : Precedes(q[1], q[2])}
  OBVIOUS
<1>2. \A a, b \in ops : <<a, b>> \in R <=> Precedes(a, b)
  BY <1>1
<1>3. \A a, b \in ops : ~(Precedes(a, b) /\ Precedes(b, a))
  BY DEF Precedes
<1>4. \A a, b \in ops : a # b => Precedes(a, b) \/ Precedes(b, a)
  BY DEF Precedes
<1>5. \A a, b, c \in ops : Precedes(a, b) /\ Precedes(b, c) => Precedes(a, c)
  BY DEF Precedes
<1>6. StrictOrder(R, ops)
  <2>1. \A a, b \in ops : ~(<<a, b>> \in R /\ <<b, a>> \in R)
    BY <1>2, <1>3
  <2>2. \A a, b \in ops : a # b => <<a, b>> \in R \/ <<b, a>> \in R
    BY <1>2, <1>4
  <2>3. \A a, b, c \in ops : <<a, b>> \in R /\ <<b, c>> \in R => <<a, c>> \in R
    BY <1>2, <1>5
  <2> QED BY <2>1, <2>2, <2>3 DEF StrictOrder
<1>7. \A i \in 1 .. Cardinality(ops) : \E o \in ops : RankIn(R, ops, o) = i
  BY <1>6, Ranking
<1>8. \A o \in ops : {p \in ops : <<p, o>> \in R} = {p \in ops : Precedes(p, o)}
  BY <1>2
<1>9. \A i \in 1 .. Cardinality(ops) :
            \E o \in ops : Cardinality({p \in ops : Precedes(p, o)}) + 1 = i
  BY <1>7, <1>8 DEF RankIn
<1>10. PICK n \in Nat : n = Cardinality(ops)
  BY FS_CardinalityType
<1>11. Ordered(ops) \in [1 .. n -> ops]
  BY <1>9, <1>10 DEF Ordered
<1> QED BY <1>11

\* A plan is a sequence of operations with statements the target can be sent.
PlanOK(p) == \E S : p.ops \in Seq(S) /\ \A i \in DOMAIN p.ops : SqlOf(Kinds, p.ops[i].sql)
\* The operations of a plan fit the engine and the request, and what was read of the two
\* sides: nothing is taken away unasked, and on SQL Server a key stays when there is to
\* be one.
Keyed(v, t) == v.pub[t] # NoTable /\ KeyColumns(v.pub[t]) # {}
Suits(e, r, s, d, o) ==
    /\ ~r.drops => SqlOf(Additive, o.sql)
    /\ (e = "sqlserver" /\ Keyed(s, o.table) /\ Keyed(d, o.table)) => StmtsKeep(o.sql)
Suited(e, r, s, d, p) == \A i \in DOMAIN p.ops : Suits(e, r, s, d, p.ops[i])

\* The fragments of the selected tables add up to such a plan.
LEMMA FinalizedIs ==
  ASSUME NEW r, IsFiniteSet(r.selected), r.selected \subseteq Int, NEW s, NEW d, NEW frag,
         \A t \in r.selected : OpsOK(r.drops, frag[t].ops), NEW e,
         \A t \in r.selected : (e = "sqlserver" /\ Keyed(s, t) /\ Keyed(d, t))
                                    => \A o \in frag[t].ops : StmtsKeep(o.sql)
  PROVE  PlanOK(Finalized(r, s, d, frag)) /\ Suited(e, r, s, d, Finalized(r, s, d, frag))
<1>1. PICK f : f = [t \in r.selected |-> {OfTable(o, t) : o \in frag[t].ops}]
  OBVIOUS
<1>2. PICK ops : ops = UNION {f[t] : t \in r.selected}
  OBVIOUS
<1>3. \A t \in r.selected : IsFiniteSet(f[t])
  <2>1. SUFFICES ASSUME NEW t \in r.selected PROVE IsFiniteSet(f[t])
    OBVIOUS
  <2>2. PICK A : A = frag[t].ops
    OBVIOUS
  <2>3. PICK g : g = [o \in A |-> OfTable(o, t)]
    OBVIOUS
  <2>4. f[t] = {g[o] : o \in A}
    BY <1>1, <2>2, <2>3
  <2>5. g \in Surjection(A, {g[o] : o \in A})
    BY <2>3 DEF Surjection
  <2>6. IsFiniteSet(A)
    BY <2>2 DEF OpsOK
  <2> QED BY <2>4, <2>5, <2>6, FS_Surjection
<1>4. IsFiniteSet(ops)
  <2>1. PICK U : U = {f[t] : t \in r.selected}
    OBVIOUS
  <2>2. f \in Surjection(r.selected, U)
    BY <1>1, <2>1 DEF Surjection
  <2>3. IsFiniteSet(U)
    BY <2>2, FS_Surjection
  <2>4. \A A \in U : IsFiniteSet(A)
    BY <1>3, <2>1
  <2> QED BY <1>2, <2>1, <2>3, <2>4, FS_UNION
<1>5. \A p \in ops : \E t \in r.selected : \E o \in frag[t].ops : p = OfTable(o, t)
  BY <1>1, <1>2
<1>6. \A o, t : /\ OfTable(o, t).phase = o.phase /\ OfTable(o, t).kind = o.kind
                /\ OfTable(o, t).col = o.col /\ OfTable(o, t).sql = o.sql /\ OfTable(o, t).table = t
  BY DEF OfTable
<1>7. \A p \in ops : /\ p.phase \in Int /\ p.table \in Int /\ p.kind \in Int /\ p.col \in Int
                     /\ Fits(r.drops, p.phase, p.sql)
                     /\ (e = "sqlserver" /\ Keyed(s, p.table) /\ Keyed(d, p.table)) => StmtsKeep(p.sql)
  <2>1. SUFFICES ASSUME NEW p \in ops
                 PROVE  /\ p.phase \in Int /\ p.table \in Int /\ p.kind \in Int /\ p.col \in Int
                        /\ Fits(r.drops, p.phase, p.sql)
                        /\ (e = "sqlserver" /\ Keyed(s, p.table) /\ Keyed(d, p.table)) => StmtsKeep(p.sql)
    OBVIOUS
  <2>2a. PICK t \in r.selected : \E o \in frag[t].ops : p = OfTable(o, t)
    BY <1>5
  <2>2. PICK o \in frag[t].ops : p = OfTable(o, t)
    BY <2>2a
  <2>3. o.phase \in Int /\ o.kind \in Int /\ o.col \in Int /\ Fits(r.drops, o.phase, o.sql) /\ t \in Int
    BY DEF OpsOK
  <2>4. p.phase = o.phase /\ p.kind = o.kind /\ p.col = o.col /\ p.sql = o.sql /\ p.table = t
    BY <1>6, <2>2
  <2>5. (e = "sqlserver" /\ Keyed(s, t) /\ Keyed(d, t)) => StmtsKeep(o.sql)
    OBVIOUS
  <2> QED BY <2>3, <2>4, <2>5
<1>8. ASSUME NEW p \in ops, NEW q \in ops,
             p.phase = q.phase /\ p.table = q.table /\ p.kind = q.kind /\ p.col = q.col
      PROVE  p = q
  <2>1a. PICK t \in r.selected : \E o \in frag[t].ops : p = OfTable(o, t)
    BY <1>5
  <2>1. PICK o \in frag[t].ops : p = OfTable(o, t)
    BY <2>1a
  <2>2a. PICK u \in r.selected : \E v \in frag[u].ops : q = OfTable(v, u)
    BY <1>5
  <2>2. PICK v \in frag[u].ops : q = OfTable(v, u)
    BY <2>2a
  <2>3. t = u
    BY <1>6, <1>8, <2>1, <2>2
  <2>4. o.phase = v.phase /\ o.kind = v.kind /\ o.col = v.col
    BY <1>6, <1>8, <2>1, <2>2
  <2>5. o = v
    BY <2>3, <2>4 DEF OpsOK
  <2> QED BY <2>1, <2>2, <2>3, <2>5
<1>9. PICK kept : kept = Kept(r, ops)
  OBVIOUS
<1>10. kept \subseteq ops
  BY <1>9 DEF Kept
<1>11. IsFiniteSet(kept)
  BY <1>4, <1>10, FS_Subset
<1>12. Ordered(kept) \in Seq(kept)
  <2>1. \A o \in kept : o.phase \in Int /\ o.table \in Int /\ o.kind \in Int /\ o.col \in Int
    BY <1>7, <1>10
  <2>2. \A o, p \in kept : (o.phase = p.phase /\ o.table = p.table /\ o.kind = p.kind /\ o.col = p.col)
                              => o = p
    BY <1>8, <1>10
  <2> QED BY <1>11, <2>1, <2>2, OrderedIs
<1>13. Finalized(r, s, d, frag).ops = Ordered(kept)
  <2>a. \A t \in r.selected : f[t] = {OfTable(o, t) : o \in frag[t].ops}
    BY <1>1
  <2>b. {f[t] : t \in r.selected} = {{OfTable(o, t) : o \in frag[t].ops} : t \in r.selected}
    BY <2>a, Zenon
  <2>1. ops = UNION {{OfTable(o, t) : o \in frag[t].ops} : t \in r.selected}
    BY <1>2, <2>b
  <2> QED BY <1>9, <2>1 DEF Finalized
<1>14. \A p \in kept : SqlOf(Kinds, p.sql) /\ Suits(e, r, s, d, p)
  <2>1. SUFFICES ASSUME NEW p \in kept PROVE SqlOf(Kinds, p.sql) /\ Suits(e, r, s, d, p)
    OBVIOUS
  <2>2. /\ Fits(r.drops, p.phase, p.sql)
        /\ (e = "sqlserver" /\ Keyed(s, p.table) /\ Keyed(d, p.table)) => StmtsKeep(p.sql)
    BY <1>7, <1>10
  <2>3. ~r.drops => p.phase \notin {4, 5}
    BY <1>9 DEF Kept
  <2> QED BY <2>2, <2>3, Zenon DEF Fits, Suits
<1>15. PICK q : q = Ordered(kept)
  OBVIOUS
<1>16. \A i \in DOMAIN q : q[i] \in kept
  BY <1>12, <1>15
<1>17. \A i \in DOMAIN q : SqlOf(Kinds, q[i].sql) /\ Suits(e, r, s, d, q[i])
  BY <1>14, <1>16
<1> QED BY <1>12, <1>13, <1>15, <1>17 DEF PlanOK, Suited

\* A statement of a plan: the number of its operation and steps the target can be sent.
StepsOK(steps) == \E S : steps \in Seq(S) /\ \A s \in S : StmtOK(s)
\* It is one of those of its operation, for the same table.
Stems(p, x) ==
    /\ x.op \in DOMAIN p.ops /\ x.table = p.ops[x.op].table
    /\ \E j \in DOMAIN p.ops[x.op].sql : x.steps = p.ops[x.op].sql[j]

\* The statements of a plan go through its operations without going back.
LEMMA StatementsAre ==
  ASSUME NEW p, PlanOK(p)
  PROVE  LET f == Statements(p)
         IN  /\ \E T : f \in Seq(T)
             /\ \A a \in DOMAIN f : f[a].op \in DOMAIN p.ops /\ StepsOK(f[a].steps) /\ Stems(p, f[a])
             /\ \A a, b \in DOMAIN f : a < b => f[a].op <= f[b].op
<1>1. PICK S : p.ops \in Seq(S)
  BY DEF PlanOK
<1>2. PICK N \in Nat : DOMAIN p.ops = 1 .. N
  BY <1>1
<1> DEFINE e(i, j) == [op |-> i, table |-> p.ops[i].table, steps |-> p.ops[i].sql[j]]
<1>3. PICK seqs : seqs = [i \in DOMAIN p.ops |-> [j \in DOMAIN p.ops[i].sql |-> e(i, j)]]
  OBVIOUS
<1>4. PICK T : T = UNION {{e(i, j) : j \in DOMAIN p.ops[i].sql} : i \in DOMAIN p.ops}
  OBVIOUS
<1>5. ASSUME NEW i \in DOMAIN p.ops
      PROVE  \E n \in Nat : DOMAIN p.ops[i].sql = 1 .. n
  <2>1. PICK V : p.ops[i].sql \in Seq(Seq(V))
    BY DEF PlanOK, SqlOf
  <2> QED BY <2>1
<1>6. \A i \in DOMAIN p.ops : \A j \in DOMAIN p.ops[i].sql : StepsOK(p.ops[i].sql[j])
  <2>1. SUFFICES ASSUME NEW i \in DOMAIN p.ops, NEW j \in DOMAIN p.ops[i].sql
                 PROVE  StepsOK(p.ops[i].sql[j])
    OBVIOUS
  <2>2. PICK V : p.ops[i].sql \in Seq(Seq(V)) /\ \A s \in V : StmtOK(s)
    BY DEF PlanOK, SqlOf
  <2>3. PICK w : w = p.ops[i].sql[j]
    OBVIOUS
  <2>4. w \in Seq(V)
    BY <2>2, <2>3
  <2>5. StepsOK(w)
    BY <2>2, <2>4 DEF StepsOK
  <2> QED BY <2>3, <2>5
<1>7. \A i \in DOMAIN p.ops : \A j \in DOMAIN p.ops[i].sql : e(i, j) \in T
  BY <1>4
<1>8. \A i \in DOMAIN p.ops : seqs[i] \in Seq(T)
  <2>1. SUFFICES ASSUME NEW i \in DOMAIN p.ops PROVE seqs[i] \in Seq(T)
    OBVIOUS
  <2>2. PICK n \in Nat : DOMAIN p.ops[i].sql = 1 .. n
    BY <1>5
  <2>3. seqs[i] = [j \in 1 .. n |-> e(i, j)]
    BY <1>3, <2>2
  <2>4. \A j \in 1 .. n : e(i, j) \in T
    BY <1>7, <2>2
  <2> HIDE DEF e
  <2>5. seqs[i] \in [1 .. n -> T]
    BY <2>3, <2>4
  <2> QED BY <2>5
<1>9. seqs \in Seq(Seq(T))
  <2>1. DOMAIN seqs = 1 .. N /\ seqs = [i \in 1 .. N |-> seqs[i]]
    BY <1>2, <1>3
  <2>2. seqs \in [1 .. N -> Seq(T)]
    BY <1>2, <1>8, <2>1
  <2> QED BY <2>2
<1>10. \A i \in DOMAIN seqs : \A j \in DOMAIN seqs[i] : seqs[i][j].op = i
  BY <1>3
<1>11. PICK f : f = Statements(p)
  OBVIOUS
<1>12. f = FlattenSeq(seqs)
  BY <1>3, <1>11 DEF Statements
<1>13. f \in Seq(T)
  BY <1>9, <1>12, FlattenIs
<1>14. /\ \A a \in DOMAIN f : f[a].op \in DOMAIN seqs
       /\ \A a, b \in DOMAIN f : a < b => f[a].op <= f[b].op
  BY <1>9, <1>10, <1>12, FlattenMonotone
<1>15. DOMAIN seqs = DOMAIN p.ops
  BY <1>3
<1>16. \A x \in T : StepsOK(x.steps)
  BY <1>4, <1>6
<1>17. \A x \in T : Stems(p, x)
  <2>1. SUFFICES ASSUME NEW x \in T PROVE Stems(p, x)
    OBVIOUS
  <2>2a. PICK i \in DOMAIN p.ops : \E j \in DOMAIN p.ops[i].sql : x = e(i, j)
    BY <1>4
  <2>2. PICK j \in DOMAIN p.ops[i].sql : x = e(i, j)
    BY <2>2a
  <2>3. x.op = i /\ x.table = p.ops[i].table /\ x.steps = p.ops[i].sql[j]
    BY <2>2
  <2> QED BY <2>3 DEF Stems
<1>18. \A a \in DOMAIN f : StepsOK(f[a].steps) /\ Stems(p, f[a])
  BY <1>13, <1>16, <1>17
<1> QED BY <1>11, <1>13, <1>14, <1>15, <1>18

-----------------------------------------------------------------------------
(* What the target does with a statement *)

TableOK(t) == t = NoTable \/ IsTable(t)

\* Columns are renumbered to columns.
LEMMA RenumberedIs ==
  ASSUME NEW cols, DOMAIN cols \subseteq Int, IsFiniteSet(DOMAIN cols),
         \A c \in DOMAIN cols : "ord" \in DOMAIN cols[c] /\ "key" \in DOMAIN cols[c]
  PROVE  AreColumns(Renumbered(cols))
<1>1. PICK r : r = Renumbered(cols)
  OBVIOUS
<1>2. PICK S : S = DOMAIN cols
  OBVIOUS
<1>3. r = [c \in S |-> [cols[c] EXCEPT !.ord = Place(cols, S, c)]]
  BY <1>1, <1>2 DEF Renumbered
<1>4. \A c \in S : Place(cols, S, c) \in Int
  BY <1>2, PlaceIs
<1>5. \A c \in S : "ord" \in DOMAIN r[c] /\ "key" \in DOMAIN r[c] /\ r[c].ord = Place(cols, S, c)
  BY <1>2, <1>3
<1>6. DOMAIN r = S
  BY <1>3
<1>7. \A c \in S : r[c].ord \in Int
  BY <1>4, <1>5
<1>8. AreColumns(r)
  BY <1>2, <1>5, <1>6, <1>7 DEF AreColumns
<1> QED BY <1>1, <1>8

\* The server numbers the columns again, or leaves their numbers alone.
LEMMA PlacedIs ==
  ASSUME NEW cols, AreColumns(cols), NEW e, NEW c, NEW where
  PROVE  AreColumns(Placed(e, cols, c, where))
<1>1. PICK m : m = Moved(cols, c, where)
  OBVIOUS
<1>2. DOMAIN m = DOMAIN cols /\ \A d \in DOMAIN cols : DOMAIN m[d] = DOMAIN cols[d]
  BY <1>1 DEF Moved
<1>3. /\ DOMAIN cols \subseteq Int /\ IsFiniteSet(DOMAIN cols)
      /\ \A d \in DOMAIN cols : "ord" \in DOMAIN cols[d] /\ "key" \in DOMAIN cols[d]
  BY DEF AreColumns
<1>4. \A d \in DOMAIN m : "ord" \in DOMAIN m[d] /\ "key" \in DOMAIN m[d]
  BY <1>2, <1>3
<1>5. DOMAIN m \subseteq Int /\ IsFiniteSet(DOMAIN m)
  BY <1>2, <1>3
<1>6. AreColumns(Renumbered(m))
  BY <1>4, <1>5, RenumberedIs
<1> QED BY <1>1, <1>6 DEF Placed

\* Another key leaves the columns where they are.
LEMMA WithKeyIs ==
  ASSUME NEW cols, AreColumns(cols), NEW keys
  PROVE  AreColumns(WithKey(cols, keys))
<1>1. PICK r : r = WithKey(cols, keys)
  OBVIOUS
<1>2. DOMAIN r = DOMAIN cols
  BY <1>1 DEF WithKey
<1>3. \A c \in DOMAIN cols : "ord" \in DOMAIN cols[c] /\ cols[c].ord \in Int /\ "key" \in DOMAIN cols[c]
  BY DEF AreColumns
<1>4. \A c \in DOMAIN cols : "ord" \in DOMAIN r[c] /\ r[c].ord = cols[c].ord /\ "key" \in DOMAIN r[c]
  <2>1. SUFFICES ASSUME NEW c \in DOMAIN cols
                 PROVE  "ord" \in DOMAIN r[c] /\ r[c].ord = cols[c].ord /\ "key" \in DOMAIN r[c]
    OBVIOUS
  <2>2. PICK k : k = Position(keys, c)
    OBVIOUS
  <2>3. r[c] = [cols[c] EXCEPT !.key = k, !.null = FALSE] \/ r[c] = [cols[c] EXCEPT !.key = 0]
    BY <1>1, <2>2 DEF WithKey
  <2> QED BY <1>3, <2>3
<1>5. AreColumns(r)
  BY <1>2, <1>3, <1>4 DEF AreColumns
<1> QED BY <1>1, <1>5

\* A column more, or defined anew.
LEMMA WithColumnIs ==
  ASSUME NEW cols, AreColumns(cols), NEW c \in Int, NEW col, "ord" \in DOMAIN col, col.ord \in Int,
         "key" \in DOMAIN col
  PROVE  AreColumns(WithColumn(cols, c, col))
<1>1. PICK r : r = WithColumn(cols, c, col)
  OBVIOUS
<1>2. DOMAIN r = DOMAIN cols \cup {c}
  BY <1>1 DEF WithColumn
<1>3. DOMAIN cols \subseteq Int /\ IsFiniteSet(DOMAIN cols)
  BY DEF AreColumns
<1>4. IsFiniteSet(DOMAIN cols \cup {c})
  BY <1>3, FS_AddElement
<1>5. \A d \in DOMAIN cols \cup {c} : "ord" \in DOMAIN r[d] /\ r[d].ord \in Int /\ "key" \in DOMAIN r[d]
  BY <1>1 DEF WithColumn, AreColumns
<1>6. AreColumns(r)
  BY <1>2, <1>3, <1>4, <1>5 DEF AreColumns
<1> QED BY <1>1, <1>6

\* A column less.
LEMMA WithoutIs ==
  ASSUME NEW cols, AreColumns(cols), NEW c
  PROVE  AreColumns(Without(cols, c))
<1>1. PICK r : r = Without(cols, c)
  OBVIOUS
<1>2. DOMAIN r = DOMAIN cols \ {c} /\ \A d \in DOMAIN r : r[d] = cols[d]
  BY <1>1 DEF Without
<1>3. IsFiniteSet(DOMAIN r)
  <2>1. DOMAIN r \subseteq DOMAIN cols /\ IsFiniteSet(DOMAIN cols)
    BY <1>2 DEF AreColumns
  <2> QED BY <2>1, FS_Subset
<1>4. AreColumns(r)
  BY <1>2, <1>3 DEF AreColumns
<1> QED BY <1>1, <1>4

\* A table with other columns, another next number or another comment.
LEMMA TableWith ==
  ASSUME NEW t, IsTable(t), NEW cols, AreColumns(cols), NEW n \in Int, NEW note
  PROVE  /\ IsTable([t EXCEPT !.cols = cols]) /\ IsTable([t EXCEPT !.cols = cols, !.next = n])
         /\ IsTable([t EXCEPT !.note = note])
<1>1. DOMAIN t = {"cols", "shape", "opt", "note", "next"} /\ AreColumns(t.cols) /\ t.next \in Int
  BY DEF IsTable
<1>2. PICK a, b, c : /\ a = [t EXCEPT !.cols = cols] /\ b = [t EXCEPT !.cols = cols, !.next = n]
                     /\ c = [t EXCEPT !.note = note]
  OBVIOUS
<1>3. DOMAIN a = DOMAIN t /\ a.cols = cols /\ a.next = t.next
  BY <1>1, <1>2
<1>4. DOMAIN b = DOMAIN t /\ b.cols = cols /\ b.next = n
  BY <1>1, <1>2
<1>5. DOMAIN c = DOMAIN t /\ c.cols = t.cols /\ c.next = t.next
  BY <1>1, <1>2
<1>6. IsTable(a) /\ IsTable(b) /\ IsTable(c)
  BY <1>1, <1>3, <1>4, <1>5 DEF IsTable
<1> QED BY <1>2, <1>6

\* The same, one by one.
LEMMA TableNoted ==
  ASSUME NEW t, IsTable(t), NEW note PROVE IsTable([t EXCEPT !.note = note])
<1>1. AreColumns(t.cols) /\ t.next \in Int
  BY DEF IsTable
<1> QED BY <1>1, TableWith

\* A table with a changed column is a table.
LEMMA TableChanged ==
  ASSUME NEW t, IsTable(t), NEW cols, AreColumns(cols) PROVE IsTable([t EXCEPT !.cols = cols])
<1>1. t.next \in Int
  BY DEF IsTable
<1> QED BY <1>1, TableWith

\* Statements the target accepts turn tables into tables.
LEMMA ApplyIs ==
  ASSUME NEW e, NEW t, TableOK(t), NEW s, StmtOK(s), Accepts(e, t, s)
  PROVE  /\ TableOK(Apply(e, t, s))
         /\ s.op # "dropTab" => IsTable(Apply(e, t, s))
<1>1. PICK u : u = Apply(e, t, s)
  OBVIOUS
<1>2. s.op # "create" => t # NoTable
  BY DEF Accepts
<1>3. s.op # "create" => IsTable(t) /\ AreColumns(t.cols) /\ t.next \in Int
  BY <1>2 DEF TableOK, IsTable
<1>4. CASE s.op = "create"
  BY <1>4 DEF Apply, StmtOK, TableOK
<1>5. CASE s.op = "dropTab"
  BY <1>5 DEF Apply, TableOK
<1>6. CASE s.op = "tabNote"
  <2>1. Apply(e, t, s) = [t EXCEPT !.note = s.def]
    BY <1>6 DEF Apply
  <2>2. IsTable([t EXCEPT !.note = s.def])
    BY <1>3, <1>6, TableNoted
  <2> QED BY <2>1, <2>2 DEF TableOK
<1>7. CASE s.op = "dropPk"
  <2>1. Apply(e, t, s) = [t EXCEPT !.cols = WithKey(t.cols, <<>>)]
    BY <1>7 DEF Apply
  <2>2. PICK cols : cols = WithKey(t.cols, <<>>)
    OBVIOUS
  <2>3. AreColumns(cols)
    BY <1>3, <1>7, <2>2, WithKeyIs
  <2>4. IsTable([t EXCEPT !.cols = cols])
    BY <1>3, <1>7, <2>3, TableChanged
  <2> QED BY <2>1, <2>2, <2>4 DEF TableOK
<1>8. CASE s.op = "addPk"
  <2>1. Apply(e, t, s) = [t EXCEPT !.cols = WithKey(t.cols, s.def)]
    BY <1>8 DEF Apply
  <2>2. PICK cols : cols = WithKey(t.cols, s.def)
    OBVIOUS
  <2>3. AreColumns(cols)
    BY <1>3, <1>8, <2>2, WithKeyIs
  <2>4. IsTable([t EXCEPT !.cols = cols])
    BY <1>3, <1>8, <2>3, TableChanged
  <2> QED BY <2>1, <2>2, <2>4 DEF TableOK
<1>9. CASE s.op = "add"
  <2>1. PICK col : col = [s.def EXCEPT !.ord = t.next]
    OBVIOUS
  <2>2. s.col \in Int /\ "ord" \in DOMAIN col /\ col.ord \in Int /\ "key" \in DOMAIN col
    BY <1>3, <1>9, <2>1 DEF StmtOK
  <2>3. PICK cols : cols = WithColumn(t.cols, s.col, col)
    OBVIOUS
  <2>4. AreColumns(cols)
    BY <1>3, <1>9, <2>2, <2>3, WithColumnIs
  <2>5. PICK p : p = Placed(e, cols, s.col, s.pos)
    OBVIOUS
  <2>6. AreColumns(p)
    BY <2>4, <2>5, PlacedIs
  <2>7. PICK n \in Int : n = t.next + 1
    BY <1>3, <1>9
  <2>8. Apply(e, t, s) = [t EXCEPT !.cols = p, !.next = n]
    BY <1>9, <2>1, <2>3, <2>5, <2>7 DEF Apply
  <2>9. IsTable([t EXCEPT !.cols = p, !.next = n])
    BY <1>3, <1>9, <2>6, TableWith
  <2> QED BY <2>8, <2>9 DEF TableOK
<1>10. CASE s.op = "set"
  <2>1. s.col \in DOMAIN t.cols
    BY <1>10 DEF Accepts
  <2>2. PICK col : col = Over(s.def, t.cols[s.col])
    OBVIOUS
  <2>3. "ord" \notin DOMAIN s.def /\ "ord" \in DOMAIN t.cols[s.col] /\ t.cols[s.col].ord \in Int /\ s.col \in Int
    BY <1>3, <1>10, <2>1 DEF StmtOK, AreColumns
  <2>4. "ord" \in DOMAIN col /\ col.ord \in Int /\ "key" \in DOMAIN col
    <3>1. "key" \in DOMAIN t.cols[s.col]
      BY <1>3, <1>10, <2>1 DEF AreColumns
    <3> QED BY <2>2, <2>3, <3>1 DEF Over
  <2>5. PICK cols : cols = WithColumn(t.cols, s.col, col)
    OBVIOUS
  <2>6. AreColumns(cols)
    BY <1>3, <1>10, <2>3, <2>4, <2>5, WithColumnIs
  <2>7. PICK p : p = Placed(e, cols, s.col, s.pos)
    OBVIOUS
  <2>8. AreColumns(p)
    BY <2>6, <2>7, PlacedIs
  <2>9. Apply(e, t, s) = [t EXCEPT !.cols = p]
    BY <1>10, <2>2, <2>5, <2>7 DEF Apply
  <2>10. IsTable([t EXCEPT !.cols = p])
    BY <1>3, <1>10, <2>8, TableWith
  <2> QED BY <2>9, <2>10 DEF TableOK
<1>11. CASE s.op = "dropCol"
  <2>1. PICK cols : cols = Without(t.cols, s.col)
    OBVIOUS
  <2>2. AreColumns(cols)
    BY <1>3, <1>11, <2>1, WithoutIs
  <2>3. PICK p : p = Placed(e, cols, s.col, <<>>)
    OBVIOUS
  <2>4. AreColumns(p)
    BY <2>2, <2>3, PlacedIs
  <2>5. PICK n \in Int : n = IF e \in Dense THEN t.next - 1 ELSE t.next
    BY <1>3, <1>11
  <2>6. Apply(e, t, s) = [t EXCEPT !.cols = p, !.next = n]
    BY <1>11, <2>1, <2>3, <2>5 DEF Apply
  <2>7. IsTable([t EXCEPT !.cols = p, !.next = n])
    BY <1>3, <1>11, <2>4, TableWith
  <2> QED BY <2>6, <2>7 DEF TableOK
<1> QED BY <1>4, <1>5, <1>6, <1>7, <1>8, <1>9, <1>10, <1>11 DEF StmtOK, Kinds

\* The steps of a statement one after the other: whether all were accepted so far, and
\* the table; the first that is refused undoes those before it.
Runs(e, t, sqls, N, v) ==
    /\ v[0] = <<TRUE, t>>
    /\ \A i \in 1 .. N : v[i] = IF v[i - 1][1] /\ Accepts(e, v[i - 1][2], sqls[i])
                                THEN <<TRUE, Apply(e, v[i - 1][2], sqls[i])>>
                                ELSE <<FALSE, t>>

\* AcceptsAll is where these steps end.
LEMMA Running ==
  ASSUME NEW e, NEW t, NEW sqls, NEW N \in Nat, N = Len(sqls)
  PROVE  \E v : Runs(e, t, sqls, N, v) /\ AcceptsAll(e, t, sqls) = v[N]
<1> DEFINE Proceed(v, s) == IF v[1] /\ Accepts(e, v[2], s) THEN <<TRUE, Apply(e, v[2], s)>>
                         ELSE <<FALSE, t>>
           F(g) == [i \in 0 .. N |-> IF i = 0 THEN <<TRUE, t>>
                                     ELSE IF g[i - 1][1] /\ Accepts(e, g[i - 1][2], sqls[i])
                                     THEN <<TRUE, Apply(e, g[i - 1][2], sqls[i])>>
                                     ELSE <<FALSE, t>>]
           Upto(n, g) == /\ DOMAIN g = 0 .. n
                         /\ \A i \in 0 .. n : g[i] = IF i = 0 THEN <<TRUE, t>>
                                                     ELSE Proceed(g[i - 1], sqls[i])
           total == CHOOSE g : g = F(g)
           T == {n \in 0 .. N : \E g : Upto(n, g)}
<1>4. 0 \in T
  <2>1. PICK g : g = [i \in 0 .. 0 |-> <<TRUE, t>>]
    OBVIOUS
  <2>2. DOMAIN g = 0 .. 0
    BY <2>1
  <2>3. ASSUME NEW i \in 0 .. 0 PROVE i = 0 /\ g[i] = <<TRUE, t>>
    <3>1. i = 0
      OBVIOUS
    <3>2. g[i] = <<TRUE, t>>
      BY <2>1, Zenon
    <3> QED BY <3>1, <3>2
  <2>4. Upto(0, g)
    <3> HIDE DEF Proceed
    <3> QED BY <2>2, <2>3
  <2>5. 0 \in 0 .. N
    OBVIOUS
  <2> HIDE DEF Upto
  <2> QED BY <2>4, <2>5
<1>5. ASSUME NEW n \in 1 .. N, n - 1 \in T PROVE n \in T
  <2>1. PICK g : Upto(n - 1, g)
    BY <1>5
  <2>2. PICK h : h = [i \in 0 .. n |-> IF i = n THEN Proceed(g[n - 1], sqls[n]) ELSE g[i]]
    OBVIOUS
  <2>3. DOMAIN h = 0 .. n
    BY <2>2
  <2>4. \A i \in 0 .. n - 1 : g[i] = IF i = 0 THEN <<TRUE, t>> ELSE Proceed(g[i - 1], sqls[i])
    BY <2>1
  <2> HIDE DEF Proceed
  <2>5. \A i \in 0 .. n : h[i] = IF i = 0 THEN <<TRUE, t>> ELSE Proceed(h[i - 1], sqls[i])
    <3>1. SUFFICES ASSUME NEW i \in 0 .. n
                   PROVE  h[i] = IF i = 0 THEN <<TRUE, t>> ELSE Proceed(h[i - 1], sqls[i])
      OBVIOUS
    <3>2. CASE i = 0
      <4>1. 0 \in 0 .. n - 1 /\ 0 \in 0 .. n /\ 0 # n
        OBVIOUS
      <4>2. g[0] = <<TRUE, t>> /\ h[0] = g[0]
        BY <2>2, <2>4, <4>1
      <4> QED BY <3>2, <4>2
    <3>3. CASE i = n
      <4>1. n - 1 \in 0 .. n /\ n - 1 # n /\ i # 0
        BY <3>3
      <4>2. h[n - 1] = g[n - 1]
        BY <2>2, <4>1
      <4>3. h[n] = Proceed(g[n - 1], sqls[n])
        BY <2>2
      <4> QED BY <3>3, <4>1, <4>2, <4>3
    <3>4. CASE i # 0 /\ i # n
      <4>1. i - 1 \in 0 .. n /\ i - 1 # n /\ i \in 0 .. n - 1
        BY <3>4
      <4>2. h[i - 1] = g[i - 1] /\ h[i] = g[i]
        BY <2>2, <3>4, <4>1
      <4>3. g[i] = Proceed(g[i - 1], sqls[i])
        BY <2>4, <3>4, <4>1
      <4> QED BY <3>4, <4>2, <4>3
    <3> QED BY <3>2, <3>3, <3>4
  <2>6. Upto(n, h)
    BY <2>3, <2>5
  <2>7. n \in 0 .. N
    OBVIOUS
  <2> QED BY <2>6, <2>7
<1>6. PICK g : Upto(N, g)
  <2>1. 0 .. N \subseteq T
    <3> HIDE DEF T
    <3> QED BY <1>4, <1>5, InductionUpTo
  <2>2. N \in T
    <3> HIDE DEF T
    <3> QED BY <2>1
  <2> QED BY <2>2
<1>7. PICK a : a = [i \in 0 .. N |-> g[i]]
  OBVIOUS
<1>8. a = F(a)
  <2>1. \A i \in 0 .. N : a[i] = F(a)[i]
    <3>1. SUFFICES ASSUME NEW i \in 0 .. N PROVE a[i] = F(a)[i]
      OBVIOUS
    <3>2. g[i] = IF i = 0 THEN <<TRUE, t>> ELSE Proceed(g[i - 1], sqls[i])
      BY <1>6
    <3>3. i # 0 => i - 1 \in 0 .. N
      OBVIOUS
    <3>4. i # 0 => a[i - 1] = g[i - 1]
      BY <1>7, <3>3
    <3>5. a[i] = IF i = 0 THEN <<TRUE, t>> ELSE Proceed(a[i - 1], sqls[i])
      BY <1>7, <3>2, <3>4
    <3> QED BY <3>5
  <2>2. a = [i \in 0 .. N |-> a[i]]
    BY <1>7
  <2>3. F(a) = [i \in 0 .. N |-> F(a)[i]]
    OBVIOUS
  <2> HIDE DEF F
  <2> QED BY <2>1, <2>2, <2>3
<1>9. total = F(total)
  <2> HIDE DEF F
  <2> QED BY <1>8
<1>10. AcceptsAll(e, t, sqls) = total[N]
  BY DEF AcceptsAll
<1> HIDE DEF total
<1>11. total[0] = <<TRUE, t>> /\ \A i \in 1 .. N : total[i] = Proceed(total[i - 1], sqls[i])
  <2>1. \A i \in 0 .. N : total[i] = IF i = 0 THEN <<TRUE, t>> ELSE Proceed(total[i - 1], sqls[i])
    BY <1>9
  <2> HIDE DEF Proceed
  <2>2. 0 \in 0 .. N /\ \A i \in 1 .. N : i \in 0 .. N /\ i # 0
    OBVIOUS
  <2>3. total[0] = <<TRUE, t>>
    BY <2>1, <2>2
  <2>4. \A i \in 1 .. N : total[i] = Proceed(total[i - 1], sqls[i])
    BY <2>1, <2>2
  <2> QED BY <2>3, <2>4
<1>12. Runs(e, t, sqls, N, total)
  BY <1>11 DEF Runs
<1> QED BY <1>10, <1>12

\* A step that is accepted is applied to what the accepted steps before it left.
Stepped(e, s, w, x) == w[1] /\ Accepts(e, w[2], s) /\ x = <<TRUE, Apply(e, w[2], s)>>

\* Every accepted step of AcceptsAll is such a step.
LEMMA LastStep ==
  ASSUME NEW e, NEW t, NEW sqls, NEW N, NEW v, Runs(e, t, sqls, N, v)
  PROVE  \A n \in 1 .. N : v[n][1] => Stepped(e, sqls[n], v[n - 1], v[n])
<1>1. SUFFICES ASSUME NEW n \in 1 .. N, v[n][1] PROVE Stepped(e, sqls[n], v[n - 1], v[n])
  OBVIOUS
<1>2. PICK w, x, st : w = v[n - 1] /\ x = v[n] /\ st = sqls[n]
  OBVIOUS
<1>3. x = IF w[1] /\ Accepts(e, w[2], st) THEN <<TRUE, Apply(e, w[2], st)>> ELSE <<FALSE, t>>
  BY <1>2 DEF Runs
<1>4. x[1]
  BY <1>1, <1>2
<1>5. ~(<<FALSE, t>>[1])
  OBVIOUS
<1>6. x # <<FALSE, t>>
  BY <1>4, <1>5
<1>7. Stepped(e, st, w, x)
  BY <1>3, <1>6 DEF Stepped
<1> QED BY <1>2, <1>7

\* The steps of a statement turn tables into tables.
LEMMA RunsAre ==
  ASSUME NEW e, NEW t, TableOK(t), NEW sqls, StepsOK(sqls), NEW N \in Nat, N = Len(sqls), NEW v,
         Runs(e, t, sqls, N, v)
  PROVE  \A n \in 0 .. N : TableOK(v[n][2])
<1>1. PICK S : sqls \in Seq(S) /\ \A s \in S : StmtOK(s)
  BY DEF StepsOK
<1>2. \A i \in 1 .. N : StmtOK(sqls[i])
  BY <1>1
<1> DEFINE P == {n \in 0 .. N : TableOK(v[n][2])}
<1>3. 0 \in P
  BY DEF Runs
<1>4. ASSUME NEW n \in 1 .. N, n - 1 \in P PROVE n \in P
  <2>1. PICK w, st : w = v[n - 1] /\ st = sqls[n]
    OBVIOUS
  <2>2. TableOK(w[2]) /\ StmtOK(st)
    BY <1>2, <1>4, <2>1
  <2>3. \/ v[n] = <<TRUE, Apply(e, w[2], st)>> /\ Accepts(e, w[2], st)
        \/ v[n] = <<FALSE, t>>
    BY <2>1 DEF Runs
  <2>4. TableOK(v[n][2])
    <3>1. CASE v[n] = <<FALSE, t>>
      BY <3>1
    <3>2. CASE v[n] = <<TRUE, Apply(e, w[2], st)>> /\ Accepts(e, w[2], st)
      <4>1. TableOK(Apply(e, w[2], st))
        BY <2>2, <3>2, ApplyIs
      <4> QED BY <3>2, <4>1
    <3> QED BY <2>3, <3>1, <3>2
  <2>5. n \in 0 .. N
    OBVIOUS
  <2> QED BY <2>4, <2>5
<1>5. 0 .. N \subseteq P
  <2> HIDE DEF P
  <2> QED BY <1>3, <1>4, InductionUpTo
<1> QED BY <1>5

\* So does the whole statement, all of its steps or none.
LEMMA AcceptsAllIs ==
  ASSUME NEW e, NEW t, TableOK(t), NEW sqls, StepsOK(sqls)
  PROVE  TableOK(AcceptsAll(e, t, sqls)[2])
<1>1. PICK N \in Nat : N = Len(sqls)
  BY DEF StepsOK
<1>2. PICK v : Runs(e, t, sqls, N, v) /\ AcceptsAll(e, t, sqls) = v[N]
  BY <1>1, Running
<1>3. \A n \in 0 .. N : TableOK(v[n][2])
  BY <1>1, <1>2, RunsAre
<1> QED BY <1>2, <1>3

-----------------------------------------------------------------------------
(* What becomes of the key *)

\* Some column belongs to the key; two sets of columns have the same key.
HasKey(cols) == \E c \in DOMAIN cols : cols[c].key # 0
KeyIn(a, b) == \A c \in DOMAIN a : a[c].key # 0 => c \in DOMAIN b /\ b[c].key = a[c].key
SameKey(a, b) == KeyIn(a, b) /\ KeyIn(b, a)

\* Numbering columns again changes neither the columns nor the key.
LEMMA PlacedKeys ==
  ASSUME NEW cols, AreColumns(cols), NEW e, NEW c, NEW where
  PROVE  /\ DOMAIN Placed(e, cols, c, where) = DOMAIN cols
         /\ \A d \in DOMAIN cols : Placed(e, cols, c, where)[d].key = cols[d].key
<1>1. PICK m : m = Moved(cols, c, where)
  OBVIOUS
<1>2. \A d \in DOMAIN cols : "key" \in DOMAIN cols[d]
  BY DEF AreColumns
<1>3. DOMAIN m = DOMAIN cols /\ \A d \in DOMAIN cols : DOMAIN m[d] = DOMAIN cols[d] /\ m[d].key = cols[d].key
  <2>1. DOMAIN m = DOMAIN cols
    BY <1>1 DEF Moved
  <2>2. SUFFICES ASSUME NEW d \in DOMAIN cols PROVE DOMAIN m[d] = DOMAIN cols[d] /\ m[d].key = cols[d].key
    BY <2>1
  <2>3. PICK n : n = IF d # c \/ where = <<>> THEN 2 * cols[d].ord
                     ELSE IF where[1] = 0 THEN 0 ELSE 2 * cols[where[1]].ord + 1
    OBVIOUS
  <2>4. m[d] = [cols[d] EXCEPT !.ord = n]
    BY <1>1, <2>3 DEF Moved
  <2> QED BY <1>2, <2>4
<1>4. PICK r : r = Renumbered(m)
  OBVIOUS
<1>5. DOMAIN r = DOMAIN m /\ \A d \in DOMAIN m : r[d].key = m[d].key
  <2>1. DOMAIN r = DOMAIN m
    BY <1>4 DEF Renumbered
  <2>2. SUFFICES ASSUME NEW d \in DOMAIN m PROVE r[d].key = m[d].key
    BY <2>1
  <2>3. PICK n : n = Place(m, DOMAIN m, d)
    OBVIOUS
  <2>4. r[d] = [m[d] EXCEPT !.ord = n]
    BY <1>4, <2>3 DEF Renumbered
  <2> QED BY <1>2, <1>3, <2>4
<1>6. DOMAIN r = DOMAIN cols /\ \A d \in DOMAIN cols : r[d].key = cols[d].key
  BY <1>3, <1>5
<1>7. Placed(e, cols, c, where) = r \/ Placed(e, cols, c, where) = cols
  BY <1>1, <1>4 DEF Placed
<1> QED BY <1>6, <1>7

\* Statements that leave the key alone: a column is added outside the key, changed in
\* place or, outside the key, dropped.
LEMMA KeylessKeeps ==
  ASSUME NEW e, NEW t, IsTable(t), NEW s, StmtOK(s), s.op \in Keyless, Accepts(e, t, s)
  PROVE  /\ SameKey(t.cols, Apply(e, t, s).cols)
         /\ s.op # "dropCol" => DOMAIN t.cols \subseteq DOMAIN Apply(e, t, s).cols
<1>1. PICK cols : cols = t.cols
  OBVIOUS
<1>2. /\ DOMAIN t = {"cols", "shape", "opt", "note", "next"} /\ AreColumns(cols) /\ t.next \in Int
      /\ \A c \in DOMAIN cols : "key" \in DOMAIN cols[c]
  BY <1>1 DEF IsTable, AreColumns
<1>3. SUFFICES ASSUME NEW u, u = Apply(e, t, s)
               PROVE  SameKey(cols, u.cols) /\ (s.op # "dropCol" => DOMAIN cols \subseteq DOMAIN u.cols)
  BY <1>1
<1>4. ASSUME NEW r, AreColumns(r), NEW where, NEW c, u.cols = Placed(e, r, c, where), SameKey(cols, r),
             s.op # "dropCol" => DOMAIN cols \subseteq DOMAIN r
      PROVE  SameKey(cols, u.cols) /\ (s.op # "dropCol" => DOMAIN cols \subseteq DOMAIN u.cols)
  <2>1. DOMAIN u.cols = DOMAIN r /\ \A d \in DOMAIN r : u.cols[d].key = r[d].key
    BY <1>4, PlacedKeys
  <2> QED BY <1>4, <2>1 DEF SameKey, KeyIn
<1>5. CASE s.op = "tabNote"
  <2>1. u = [t EXCEPT !.note = s.def]
    BY <1>3, <1>5 DEF Apply
  <2>2. u.cols = cols
    BY <1>1, <1>2, <2>1
  <2> QED BY <2>2 DEF SameKey, KeyIn
<1>6. CASE s.op = "add"
  <2>1. PICK col : col = [s.def EXCEPT !.ord = t.next]
    OBVIOUS
  <2>2. /\ s.col \in Int /\ "ord" \in DOMAIN col /\ col.ord \in Int /\ "key" \in DOMAIN col
        /\ col.key = 0
    BY <1>2, <1>6, <2>1 DEF StmtOK
  <2>3. PICK r : r = WithColumn(cols, s.col, col)
    OBVIOUS
  <2>4. AreColumns(r)
    BY <1>2, <2>2, <2>3, WithColumnIs
  <2>5. s.col \notin DOMAIN cols
    BY <1>1, <1>6 DEF Accepts
  <2>6. PICK p, n : p = Placed(e, r, s.col, s.pos) /\ n = t.next + 1
    OBVIOUS
  <2>7. u = [t EXCEPT !.cols = p, !.next = n]
    BY <1>1, <1>3, <1>6, <2>1, <2>3, <2>6 DEF Apply
  <2>8. u.cols = Placed(e, r, s.col, s.pos)
    BY <1>2, <2>6, <2>7
  <2>9. DOMAIN r = DOMAIN cols \cup {s.col} /\ r[s.col] = col /\ \A d \in DOMAIN cols : r[d] = cols[d]
    BY <2>3, <2>5 DEF WithColumn
  <2>10. SameKey(cols, r)
    BY <2>2, <2>9 DEF SameKey, KeyIn
  <2> QED BY <1>4, <2>4, <2>8, <2>9, <2>10
<1>7. CASE s.op = "set"
  <2>1. s.col \in DOMAIN cols
    BY <1>1, <1>7 DEF Accepts
  <2>2. PICK col : col = Over(s.def, cols[s.col])
    OBVIOUS
  <2>3. /\ "ord" \notin DOMAIN s.def /\ "ord" \in DOMAIN cols[s.col] /\ cols[s.col].ord \in Int
        /\ "key" \notin DOMAIN s.def /\ "key" \in DOMAIN cols[s.col] /\ s.col \in Int
    BY <1>2, <1>7, <2>1 DEF StmtOK, AreColumns
  <2>4. "ord" \in DOMAIN col /\ col.ord \in Int /\ "key" \in DOMAIN col /\ col.key = cols[s.col].key
    BY <2>2, <2>3 DEF Over
  <2>5. PICK r : r = WithColumn(cols, s.col, col)
    OBVIOUS
  <2>6. AreColumns(r)
    BY <1>2, <2>3, <2>4, <2>5, WithColumnIs
  <2>7. PICK p : p = Placed(e, r, s.col, s.pos)
    OBVIOUS
  <2>8. u = [t EXCEPT !.cols = p]
    BY <1>1, <1>3, <1>7, <2>2, <2>5, <2>7 DEF Apply
  <2>9. u.cols = Placed(e, r, s.col, s.pos)
    BY <1>2, <2>7, <2>8
  <2>10. DOMAIN r = DOMAIN cols /\ r[s.col] = col /\ \A d \in DOMAIN cols : d # s.col => r[d] = cols[d]
    BY <2>1, <2>5 DEF WithColumn
  <2>11. \A d \in DOMAIN cols : r[d].key = cols[d].key
    BY <2>4, <2>10
  <2>12. SameKey(cols, r)
    BY <2>10, <2>11 DEF SameKey, KeyIn
  <2> QED BY <1>4, <2>6, <2>9, <2>10, <2>12
<1>8. CASE s.op = "dropCol"
  <2>1. s.col \in DOMAIN cols /\ cols[s.col].key = 0
    BY <1>1, <1>8 DEF Accepts
  <2>2. PICK r : r = Without(cols, s.col)
    OBVIOUS
  <2>3. AreColumns(r)
    BY <1>2, <2>2, WithoutIs
  <2>4. PICK p, n : p = Placed(e, r, s.col, <<>>) /\ n = IF e \in Dense THEN t.next - 1 ELSE t.next
    OBVIOUS
  <2>5. u = [t EXCEPT !.cols = p, !.next = n]
    BY <1>1, <1>3, <1>8, <2>2, <2>4 DEF Apply
  <2>6. u.cols = Placed(e, r, s.col, <<>>)
    BY <1>2, <2>4, <2>5
  <2>7. DOMAIN r = DOMAIN cols \ {s.col} /\ \A d \in DOMAIN r : r[d] = cols[d]
    BY <2>2 DEF Without
  <2>8. SameKey(cols, r)
    BY <2>1, <2>7 DEF SameKey, KeyIn
  <2> QED BY <1>4, <1>8, <2>3, <2>6, <2>8
<1> QED BY <1>5, <1>6, <1>7, <1>8 DEF Keyless

\* ADD PRIMARY KEY with columns gives the table a key.
LEMMA AddPkKeys ==
  ASSUME NEW e, NEW t, IsTable(t), NEW n \in Nat \ {0}, NEW new, DOMAIN new = 1 .. n,
         NEW s, s = TableStmt("addPk", new), Accepts(e, t, s)
  PROVE  HasKey(Apply(e, t, s).cols)
<1>1. s.op = "addPk" /\ s.def = new
  BY DEF TableStmt, Stmt
<1>2. PICK cols : cols = t.cols
  OBVIOUS
<1>3. /\ DOMAIN t = {"cols", "shape", "opt", "note", "next"}
      /\ \A c \in DOMAIN cols : "key" \in DOMAIN cols[c]
  BY <1>2 DEF IsTable, AreColumns
<1>4. 1 \in DOMAIN new
  OBVIOUS
<1>5. PICK c : c = new[1]
  OBVIOUS
<1>6. c \in ToSet(new)
  BY <1>4, <1>5 DEF ToSet
<1>7. c \in DOMAIN cols
  BY <1>1, <1>2, <1>6 DEF Accepts
<1>8. PICK k : k = Position(new, c)
  OBVIOUS
<1>9. k \in DOMAIN new
  BY <1>4, <1>5, <1>8 DEF Position
<1>10. k # 0
  BY <1>9
<1>11. PICK r : r = WithKey(cols, new)
  OBVIOUS
<1>12. DOMAIN r = DOMAIN cols /\ r[c] = [cols[c] EXCEPT !.key = k, !.null = FALSE]
  BY <1>6, <1>7, <1>8, <1>11 DEF WithKey
<1>13. r[c].key = k
  BY <1>3, <1>7, <1>12
<1>14. HasKey(r)
  BY <1>7, <1>10, <1>12, <1>13 DEF HasKey
<1>15. Apply(e, t, s) = [t EXCEPT !.cols = r]
  BY <1>1, <1>2, <1>11 DEF Apply
<1>16. Apply(e, t, s).cols = r
  BY <1>3, <1>15
<1> QED BY <1>14, <1>16

\* A statement that keeps the key, if the target runs it, leaves a table with a key.
LEMMA KeysKept ==
  ASSUME NEW e, NEW t, IsTable(t), HasKey(t.cols), NEW steps, KeepsKey(steps), NEW r,
         r = AcceptsAll(e, t, steps), r[1]
  PROVE  IsTable(r[2]) /\ HasKey(r[2].cols)
<1>1. CASE \E S : steps \in Seq(S) /\ \A s \in S : StmtOK(s) /\ s.op \in Keyless
  <2>1. PICK S : steps \in Seq(S) /\ \A s \in S : StmtOK(s) /\ s.op \in Keyless
    BY <1>1
  <2>2. PICK N \in Nat : N = Len(steps)
    BY <2>1
  <2>3. PICK v : Runs(e, t, steps, N, v) /\ r = v[N]
    BY <2>2, Running
  <2>4. \A n \in 1 .. N : StmtOK(steps[n]) /\ steps[n].op \in Keyless
    BY <2>1, <2>2
  <2> DEFINE P == {n \in 0 .. N : v[n][1] => IsTable(v[n][2]) /\ HasKey(v[n][2].cols)}
  <2>5. 0 \in P
    BY <2>3 DEF Runs
  <2>6. ASSUME NEW n \in 1 .. N, n - 1 \in P PROVE n \in P
    <3>1. SUFFICES ASSUME v[n][1] PROVE IsTable(v[n][2]) /\ HasKey(v[n][2].cols)
      OBVIOUS
    <3>2. PICK w, st : w = v[n - 1] /\ st = steps[n]
      OBVIOUS
    <3>3. w[1] /\ Accepts(e, w[2], st) /\ v[n] = <<TRUE, Apply(e, w[2], st)>>
      <4>1. \A m \in 1 .. N : v[m][1] => Stepped(e, steps[m], v[m - 1], v[m])
        BY <2>3, LastStep
      <4>2. Stepped(e, steps[n], v[n - 1], v[n])
        BY <3>1, <4>1
      <4>3. Stepped(e, st, w, v[n])
        BY <3>2, <4>2
      <4> QED BY <4>3, Zenon DEF Stepped
    <3>4. IsTable(w[2]) /\ HasKey(w[2].cols)
      BY <2>6, <3>2, <3>3
    <3>5. StmtOK(st) /\ st.op \in Keyless
      BY <2>4, <3>2
    <3>6. PICK x : x = w[2]
      OBVIOUS
    <3>7. IsTable(Apply(e, x, st)) /\ SameKey(x.cols, Apply(e, x, st).cols)
      BY <3>3, <3>4, <3>5, <3>6, ApplyIs, KeylessKeeps DEF Keyless, TableOK
    <3>8. HasKey(Apply(e, x, st).cols)
      BY <3>4, <3>6, <3>7 DEF SameKey, KeyIn, HasKey
    <3> QED BY <3>3, <3>6, <3>7, <3>8
  <2>7. 0 .. N \subseteq P
    <3> HIDE DEF P
    <3> QED BY <2>5, <2>6, InductionUpTo
  <2> QED BY <2>3, <2>7
<1>2. CASE \E S, b, new, n : /\ b \in Seq(S) /\ \A s \in S : StmtOK(s)
                             /\ n \in Nat \ {0} /\ DOMAIN new = 1 .. n
                             /\ steps = b \o <<TableStmt("addPk", new)>>
  <2>1. PICK S, b, new, n : /\ b \in Seq(S) /\ \A s \in S : StmtOK(s)
                            /\ n \in Nat \ {0} /\ DOMAIN new = 1 .. n
                            /\ steps = b \o <<TableStmt("addPk", new)>>
    BY <1>2
  <2>2. PICK last : last = TableStmt("addPk", new)
    OBVIOUS
  <2>3. StmtOK(last)
    BY <2>2 DEF StmtOK, TableStmt, Stmt, Kinds
  <2>4. PICK T : T = S \cup {last}
    OBVIOUS
  <2>5. b \in Seq(T) /\ <<last>> \in Seq(T) /\ \A s \in T : StmtOK(s)
    BY <2>1, <2>3, <2>4
  <2>6. steps \in Seq(T)
    BY <2>1, <2>2, <2>5
  <2>7. StepsOK(steps)
    BY <2>5, <2>6 DEF StepsOK
  <2>8. PICK N \in Nat : N = Len(steps)
    BY <2>6
  <2>9. N \in 1 .. N /\ steps[N] = last /\ N - 1 \in 0 .. N
    BY <2>1, <2>2, <2>5, <2>8
  <2>10. PICK v : Runs(e, t, steps, N, v) /\ r = v[N]
    BY <2>8, Running
  <2>11. PICK w : w = v[N - 1]
    OBVIOUS
  <2>12. w[1] /\ Accepts(e, w[2], last) /\ v[N] = <<TRUE, Apply(e, w[2], last)>>
    <3>1. \A m \in 1 .. N : v[m][1] => Stepped(e, steps[m], v[m - 1], v[m])
      BY <2>10, LastStep
    <3>2. v[N][1]
      BY <2>10
    <3>3. Stepped(e, steps[N], v[N - 1], v[N])
      BY <2>9, <3>1, <3>2
    <3>4. Stepped(e, last, w, v[N])
      BY <2>9, <2>11, <3>3
    <3> QED BY <3>4, Zenon DEF Stepped
  <2>13. TableOK(t)
    BY DEF TableOK
  <2>14. TableOK(w[2])
    <3>1. \A m \in 0 .. N : TableOK(v[m][2])
      BY <2>7, <2>8, <2>10, <2>13, RunsAre
    <3> QED BY <2>9, <2>11, <3>1
  <2>15. last.op = "addPk"
    BY <2>2 DEF TableStmt, Stmt
  <2>16. w[2] # NoTable
    BY <2>12, <2>15 DEF Accepts
  <2>17. IsTable(w[2])
    BY <2>14, <2>16 DEF TableOK
  <2>18. PICK x : x = w[2]
    OBVIOUS
  <2>19. HasKey(Apply(e, x, last).cols)
    BY <2>1, <2>2, <2>12, <2>17, <2>18, AddPkKeys
  <2>20. IsTable(Apply(e, x, last))
    BY <2>3, <2>12, <2>14, <2>15, <2>18, ApplyIs
  <2> QED BY <2>10, <2>12, <2>18, <2>19, <2>20
<1> QED BY <1>1, <1>2 DEF KeepsKey

\* NoTable stands for a table that does not exist: it is none.
NoTableIsNone == \A t : IsTable(t) => t # NoTable
\* Nothing of a table is gone: neither a column nor, if there was one, the key.
Keeps(a, b) == DOMAIN a \subseteq DOMAIN b /\ (HasKey(a) => SameKey(a, b))

\* Statements that only add do not take anything away: a table is only created where
\* there is none, and a key only added where there is none.
LEMMA AdditiveKeeps ==
  ASSUME NoTableIsNone, NEW e, NEW t, IsTable(t), NEW s, StmtOK(s), s.op \in Additive, Accepts(e, t, s)
  PROVE  IsTable(Apply(e, t, s)) /\ Keeps(t.cols, Apply(e, t, s).cols)
<1>1. t # NoTable
  BY DEF NoTableIsNone
<1>2. s.op # "create"
  BY <1>1 DEF Accepts
<1>3. IsTable(Apply(e, t, s))
  BY ApplyIs DEF TableOK, Additive
<1>4. CASE s.op \in Keyless
  <2>1. s.op # "dropCol"
    BY DEF Additive
  <2>2. SameKey(t.cols, Apply(e, t, s).cols) /\ DOMAIN t.cols \subseteq DOMAIN Apply(e, t, s).cols
    BY <1>4, <2>1, KeylessKeeps
  <2> QED BY <1>3, <2>2 DEF Keeps
<1>5. CASE s.op = "addPk"
  <2>1. PICK cols, r : cols = t.cols /\ r = WithKey(cols, s.def)
    OBVIOUS
  <2>2. Apply(e, t, s) = [t EXCEPT !.cols = r] /\ DOMAIN t = {"cols", "shape", "opt", "note", "next"}
    BY <1>5, <2>1 DEF Apply, IsTable
  <2>3. Apply(e, t, s).cols = r
    BY <2>2
  <2>4. DOMAIN r = DOMAIN cols
    BY <2>1 DEF WithKey
  <2>5. ~HasKey(cols)
    BY <1>1, <1>5, <2>1 DEF Accepts, HasKey
  <2> QED BY <1>3, <2>1, <2>3, <2>4, <2>5 DEF Keeps
<1> QED BY <1>2, <1>4, <1>5 DEF Additive, Keyless

\* Keeping everything twice is keeping everything.
LEMMA KeepsOn ==
  ASSUME NEW a, NEW b, NEW c, Keeps(a, b), Keeps(b, c)
  PROVE  Keeps(a, c)
<1>1. DOMAIN a \subseteq DOMAIN c
  BY DEF Keeps
<1>2. ASSUME HasKey(a) PROVE SameKey(a, c)
  <2>1. SameKey(a, b)
    BY <1>2 DEF Keeps
  <2>2. HasKey(b)
    BY <1>2, <2>1 DEF SameKey, KeyIn, HasKey
  <2>3. SameKey(b, c)
    BY <2>2 DEF Keeps
  <2> QED BY <2>1, <2>3 DEF SameKey, KeyIn
<1> QED BY <1>1, <1>2 DEF Keeps

\* A statement whose steps only add, if the target runs it, takes nothing away.
LEMMA AddingKeeps ==
  ASSUME NoTableIsNone, NEW e, NEW t, IsTable(t), NEW S, NEW steps, steps \in Seq(S),
         \A s \in S : StmtOK(s) /\ s.op \in Additive, NEW r, r = AcceptsAll(e, t, steps), r[1]
  PROVE  IsTable(r[2]) /\ Keeps(t.cols, r[2].cols)
<1>1. PICK N \in Nat : N = Len(steps)
  OBVIOUS
<1>2. PICK v : Runs(e, t, steps, N, v) /\ r = v[N]
  BY <1>1, Running
<1>3. \A n \in 1 .. N : StmtOK(steps[n]) /\ steps[n].op \in Additive
  BY <1>1
<1> DEFINE P == {n \in 0 .. N : v[n][1] => IsTable(v[n][2]) /\ Keeps(t.cols, v[n][2].cols)}
<1>4. 0 \in P
  <2>1. Keeps(t.cols, t.cols)
    BY DEF Keeps, SameKey, KeyIn
  <2> QED BY <1>2, <2>1 DEF Runs
<1>5. ASSUME NEW n \in 1 .. N, n - 1 \in P PROVE n \in P
  <2>1. SUFFICES ASSUME v[n][1] PROVE IsTable(v[n][2]) /\ Keeps(t.cols, v[n][2].cols)
    OBVIOUS
  <2>2. PICK w, st : w = v[n - 1] /\ st = steps[n]
    OBVIOUS
  <2>3. w[1] /\ Accepts(e, w[2], st) /\ v[n] = <<TRUE, Apply(e, w[2], st)>>
    <3>1. \A m \in 1 .. N : v[m][1] => Stepped(e, steps[m], v[m - 1], v[m])
      BY <1>2, LastStep
    <3>2. Stepped(e, steps[n], v[n - 1], v[n])
      BY <2>1, <3>1
    <3>3. Stepped(e, st, w, v[n])
      BY <2>2, <3>2
    <3> QED BY <3>3, Zenon DEF Stepped
  <2>4. IsTable(w[2]) /\ Keeps(t.cols, w[2].cols)
    BY <1>5, <2>2, <2>3
  <2>5. StmtOK(st) /\ st.op \in Additive
    BY <1>3, <2>2
  <2>6. PICK x, y : x = w[2] /\ y = Apply(e, w[2], st)
    OBVIOUS
  <2>7. IsTable(y) /\ Keeps(x.cols, y.cols)
    BY <2>3, <2>4, <2>5, <2>6, AdditiveKeeps
  <2>8. Keeps(t.cols, y.cols)
    BY <2>4, <2>6, <2>7, KeepsOn
  <2> QED BY <2>3, <2>6, <2>7, <2>8
<1>6. 0 .. N \subseteq P
  <2> HIDE DEF P
  <2> QED BY <1>4, <1>5, InductionUpTo
<1> QED BY <1>2, <1>6

-----------------------------------------------------------------------------
(* The invariant *)

\* The databases hold tables.
Stored ==
    /\ DOMAIN db = Sides /\ IsFiniteSet(Tables) /\ Tables \subseteq Int
    /\ \A s \in Sides : DOMAIN db[s] = Tables /\ \A t \in Tables : TableOK(db[s][t])
\* What was read of a side are the columns of its tables.
Viewed(v) ==
    /\ DOMAIN v = Sides
    /\ \A s \in Sides :
          /\ DOMAIN v[s] = {"pub", "nat"}
          /\ \A t \in Tables : v[s].pub[t] = NoTable \/ AreColumns(v[s].pub[t])
\* The part of a reading v that the fingerprint of a request r holds.
Reading(r, v) == [t \in {u \in r.selected : v.pub[u] # NoTable} |-> <<v.pub[t], v.nat[t]>>]
Describes(p, v) ==
    p.fingerprint[2] = Reading(req, v["source"]) /\ p.fingerprint[3] = Reading(req, v["target"])

\* The plan that was shown, is about to be shown or is executed was computed from seen.
Confirmed ==
    /\ shown # NoPreview => Describes(shown, seen)
    /\ outcome.kind = "preview" => Describes(outcome.plan, seen) /\ PlanOK(outcome.plan)
    /\ (mode = "preview" /\ at # "idle") => shown = NoPreview
    /\ (mode = "execute" /\ at # "idle") => shown # NoPreview
\* How far a command is.
Progress ==
    /\ at = "idle" => open = {}
    /\ at \in {"open", "load"} => next = 1 /\ applied = 0
    /\ at = "run" => outcome.kind = "preview" /\ next \in 1 .. Len(Todo) + 1 /\ applied = next - 1
    /\ at = "refresh" => /\ outcome.kind = "exec"
                         /\ DOMAIN outcome = {"kind", "plan", "status", "completed", "pend", "latest"}
    /\ outcome.kind = "compare" => outcome.tables \subseteq Tables
    /\ outcome.kind = "exec" => outcome.latest \subseteq Tables

SInv == /\ TypeOK /\ Stored /\ Viewed(view) /\ Confirmed /\ Progress
        /\ DriftStopsExecution /\ HonestReport /\ CacheRefreshed

\* A preview that does not fail is a plan that says what it was computed from.
LEMMA PreviewIs ==
  ASSUME NEW e \in Engines, NEW r, IsFiniteSet(r.selected), r.selected \subseteq Int, NEW s, NEW d,
         \A t \in r.selected : s.pub[t] = NoTable \/ AreColumns(s.pub[t]),
         \A t \in r.selected : d.pub[t] = NoTable \/ AreColumns(d.pub[t])
  PROVE  LET p == Preview(e, r, s, d)
         IN  \/ p.failed
             \/ /\ PlanOK(p) /\ p.fingerprint[2] = Reading(r, s) /\ p.fingerprint[3] = Reading(r, d)
                /\ Suited(e, r, s, d, p)
<1> DEFINE context(t) == [src |-> s.pub[t], tgt |-> d.pub[t], srcNat |-> s.nat[t],
                          tgtNat |-> d.nat[t], drops |-> r.drops]
           settled(t) == /\ ~TableDiffers(s.pub[t], d.pub[t])
                         /\ s.pub[t] = NoTable \/ s.nat[t] = d.nat[t]
           frag == [t \in r.selected |-> PlanTable(e, context(t))]
<1>1. CASE \E t \in r.selected : settled(t)
  <2>1. Preview(e, r, s, d) = NoPreview
    BY <1>1 DEF Preview
  <2> QED BY <2>1 DEF NoPreview
<1>2. CASE ~\E t \in r.selected : settled(t)
  <2>1. Preview(e, r, s, d) = Finalized(r, s, d, frag)
    BY <1>2 DEF Preview
  <2>2. \A t \in r.selected : ContextOK(context(t))
    <3>1. SUFFICES ASSUME NEW t \in r.selected PROVE ContextOK(context(t))
      OBVIOUS
    <3>2. PICK x : x = context(t)
      OBVIOUS
    <3>3. x.src = s.pub[t] /\ x.tgt = d.pub[t]
      BY <3>2
    <3>4. x.src # NoTable \/ x.tgt # NoTable
      BY <1>2, <3>3 DEF TableDiffers
    <3>5. ContextOK(x)
      BY <3>3, <3>4 DEF ContextOK
    <3> QED BY <3>2, <3>5
  <2>3. ASSUME NEW t \in r.selected
        PROVE  /\ OpsOK(r.drops, frag[t].ops)
               /\ (e = "sqlserver" /\ Keyed(s, t) /\ Keyed(d, t)) => \A o \in frag[t].ops : StmtsKeep(o.sql)
    <3>2. PICK x : x = context(t)
      OBVIOUS
    <3>3. ContextOK(x) /\ x.drops = r.drops /\ x.src = s.pub[t] /\ x.tgt = d.pub[t]
      BY <2>2, <3>2
    <3>4. OpsOK(r.drops, PlanTable(e, x).ops) /\ (e = "sqlserver" => KeyKept(x, PlanTable(e, x).ops))
      BY <3>3, PlanTableIs
    <3>5. frag[t] = PlanTable(e, x)
      BY <3>2
    <3> HIDE DEF frag
    <3> QED BY <3>3, <3>4, <3>5 DEF KeyKept, Keyed
  <2>4. PICK g : g = frag
    OBVIOUS
  <2>4a. /\ \A t \in r.selected : OpsOK(r.drops, g[t].ops)
         /\ \A t \in r.selected : (e = "sqlserver" /\ Keyed(s, t) /\ Keyed(d, t))
                                      => \A o \in g[t].ops : StmtsKeep(o.sql)
    <3> HIDE DEF frag
    <3> QED BY <2>3, <2>4
  <2>5. PlanOK(Finalized(r, s, d, g)) /\ Suited(e, r, s, d, Finalized(r, s, d, g))
    BY <2>4a, FinalizedIs
  <2>6. /\ Finalized(r, s, d, g).fingerprint[2] = Reading(r, s)
        /\ Finalized(r, s, d, g).fingerprint[3] = Reading(r, d)
    BY DEF Finalized, Reading
  <2> QED BY <2>1, <2>4, <2>5, <2>6
<1> QED BY <1>1, <1>2

\* What a public snapshot shows of a table are columns.
LEMMA PublicViewIs ==
  ASSUME NEW t, TableOK(t)
  PROVE  PublicView(t) = NoTable \/ AreColumns(PublicView(t))
<1>1. CASE t = NoTable
  BY <1>1 DEF PublicView
<1>2. CASE t # NoTable
  <2>1. AreColumns(t.cols)
    BY <1>2 DEF TableOK, IsTable
  <2>2. PICK cols : cols = t.cols
    OBVIOUS
  <2>3. PICK r : r = PublicView(t)
    OBVIOUS
  <2>4. r = [c \in DOMAIN cols |-> [cols[c] EXCEPT !.key = IF @ = 0 THEN 0 ELSE 1, !.gen = 0]]
    BY <1>2, <2>2, <2>3 DEF PublicView
  <2>5. \A c \in DOMAIN cols : "ord" \in DOMAIN cols[c] /\ cols[c].ord \in Int /\ "key" \in DOMAIN cols[c]
    BY <2>1, <2>2 DEF AreColumns
  <2>6. DOMAIN r = DOMAIN cols
    BY <2>4
  <2>7. \A c \in DOMAIN cols : "ord" \in DOMAIN r[c] /\ r[c].ord = cols[c].ord /\ "key" \in DOMAIN r[c]
    <3>1. SUFFICES ASSUME NEW c \in DOMAIN cols
                   PROVE  "ord" \in DOMAIN r[c] /\ r[c].ord = cols[c].ord /\ "key" \in DOMAIN r[c]
      OBVIOUS
    <3>2. PICK k : k = IF cols[c].key = 0 THEN 0 ELSE 1
      OBVIOUS
    <3>3. r[c] = [cols[c] EXCEPT !.key = k, !.gen = 0]
      BY <2>4, <3>2
    <3> QED BY <2>5, <3>3
  <2>8. AreColumns(r)
    BY <2>1, <2>2, <2>5, <2>6, <2>7 DEF AreColumns
  <2> QED BY <2>3, <2>8
<1> QED BY <1>1, <1>2

\* The statements of the plan that is executed.
LEMMA RunPlan ==
  ASSUME Confirmed, Progress, at = "run"
  PROVE  /\ \E n \in Nat : Len(Todo) = n /\ DOMAIN Todo = 1 .. n
         /\ \A a \in DOMAIN Todo : /\ Todo[a].op \in DOMAIN outcome.plan.ops /\ StepsOK(Todo[a].steps)
                                    /\ Stems(outcome.plan, Todo[a])
         /\ \A a, b \in DOMAIN Todo : a < b => Todo[a].op <= Todo[b].op
         /\ \E n \in Nat : DOMAIN outcome.plan.ops = 1 .. n
<1>1. PICK p : p = outcome.plan
  OBVIOUS
<1>2. PlanOK(p)
  BY <1>1 DEF Confirmed, Progress
<1>3. PICK f : f = Statements(p)
  OBVIOUS
<1>4. /\ \E T : f \in Seq(T)
      /\ \A a \in DOMAIN f : f[a].op \in DOMAIN p.ops /\ StepsOK(f[a].steps) /\ Stems(p, f[a])
      /\ \A a, b \in DOMAIN f : a < b => f[a].op <= f[b].op
  BY <1>2, <1>3, StatementsAre
<1>5. \E n \in Nat : Len(f) = n /\ DOMAIN f = 1 .. n
  BY <1>4
<1>6. \E n \in Nat : DOMAIN p.ops = 1 .. n
  BY <1>2 DEF PlanOK
<1>7. f = Todo
  BY <1>1, <1>3 DEF Todo
<1> QED BY <1>1, <1>4, <1>5, <1>6, <1>7

\* The databases change when a statement is performed or another client drifts.
LEMMA DbSteps ==
  ASSUME [Next]_vars
  PROVE  \/ UNCHANGED db
         \/ /\ at = "run" /\ next <= Len(Todo)
            /\ db' = [db EXCEPT !["target"][Current.table] = Ran[2]]
         \/ \E s \in Sides, t \in Tables, d \in Designs \cup {NoTable} : db' = [db EXCEPT ![s][t] = d]
<1>1. CASE Execute
  BY <1>1 DEF Execute, Succeeds, Errs, Performed
<1>2. CASE Drift
  BY <1>2 DEF Drift
<1>3. CASE ~Execute /\ ~Drift
  BY <1>3 DEF Next, vars, compare_databases, preview_database_sync, execute_database_sync, Start,
              OpenReturns, Load, CloseReturns, Opened, Build, Executed, Refreshed, Return, Browse
<1> QED BY <1>1, <1>2, <1>3

\* A database with a table replaced still holds tables.
LEMMA Replaced ==
  ASSUME Stored, NEW s \in Sides, NEW t, NEW d, t \in Tables => TableOK(d), db' = [db EXCEPT ![s][t] = d]
  PROVE  Stored' /\ Tables' = Tables
<1>1. DOMAIN db = Sides /\ \A u \in Sides : DOMAIN db[u] = Tables
  BY DEF Stored
<1>2. DOMAIN db' = Sides /\ \A u \in Sides : DOMAIN (db'[u]) = Tables
  BY <1>1
<1>3. Tables' = Tables
  BY <1>2 DEF Tables, Sides
<1>4. \A u \in Sides, v \in Tables : TableOK(db'[u][v])
  <2>1. SUFFICES ASSUME NEW u \in Sides, NEW v \in Tables PROVE TableOK(db'[u][v])
    OBVIOUS
  <2>2. (v = t /\ db'[u][v] = d) \/ db'[u][v] = db[u][v]
    BY <1>1
  <2> QED BY <2>2 DEF Stored
<1> QED BY <1>2, <1>3, <1>4 DEF Stored

\* The databases hold tables, and always the same number of them.
LEMMA StoredStep ==
  ASSUME SyncConstants, Stored, Confirmed, Progress, [Next]_vars
  PROVE  Stored' /\ Tables' = Tables
<1>1. CASE UNCHANGED db
  BY <1>1 DEF Stored, Tables
<1>2. CASE /\ at = "run" /\ next <= Len(Todo)
           /\ db' = [db EXCEPT !["target"][Current.table] = Ran[2]]
  <2>1. StepsOK(Current.steps)
    <3>1. next \in DOMAIN Todo
      BY <1>2, RunPlan DEF Progress
    <3> QED BY <1>2, <3>1, RunPlan DEF Current
  <2>2. PICK e, tab, t, st : /\ e = engine /\ tab = Current.table /\ t = db["target"][Current.table]
                             /\ st = Current.steps
    OBVIOUS
  <2>3. PICK d : d = AcceptsAll(e, t, st)[2]
    OBVIOUS
  <2>4. d = Ran[2]
    BY <2>2, <2>3 DEF Ran
  <2>5. tab \in Tables => TableOK(d)
    <3>1. SUFFICES ASSUME tab \in Tables PROVE TableOK(d)
      OBVIOUS
    <3>2. TableOK(t)
      BY <2>2, <3>1 DEF Stored, Sides
    <3> QED BY <2>1, <2>2, <2>3, <3>2, AcceptsAllIs
  <2>6. db' = [db EXCEPT !["target"][tab] = d]
    BY <1>2, <2>2, <2>4
  <2> QED BY <2>5, <2>6, Replaced DEF Sides
<1>3. CASE \E s \in Sides, t \in Tables, d \in Designs \cup {NoTable} : db' = [db EXCEPT ![s][t] = d]
  <2>1. PICK s \in Sides, t \in Tables, d \in Designs \cup {NoTable} : db' = [db EXCEPT ![s][t] = d]
    BY <1>3
  <2>2. TableOK(d)
    BY DEF SyncConstants, TableOK
  <2> QED BY <2>1, <2>2, Replaced
<1> QED BY <1>1, <1>2, <1>3, DbSteps

\* What was read are columns of the tables.
LEMMA ViewedStep ==
  ASSUME TypeOK, Stored, Viewed(view), Tables' = Tables, [Next]_vars
  PROVE  Viewed(view)'
<1>1. CASE UNCHANGED view
  BY <1>1 DEF Viewed
<1>2. CASE view' = [s \in Sides |-> Unread]
  <2>1. \A s \in Sides : DOMAIN view'[s] = {"pub", "nat"} /\ view'[s].pub = [t \in Tables |-> NoTable]
    BY <1>2 DEF Unread
  <2>2. DOMAIN view' = Sides
    BY <1>2
  <2> QED BY <2>1, <2>2 DEF Viewed
<1>3. ASSUME NEW s \in Sides, view' = [view EXCEPT ![s].pub = [t \in Tables |-> PublicView(db[s][t])]]
      PROVE  Viewed(view)'
  <2>1. \A t \in Tables : PublicView(db[s][t]) = NoTable \/ AreColumns(PublicView(db[s][t]))
    <3>1. SUFFICES ASSUME NEW t \in Tables
                   PROVE  PublicView(db[s][t]) = NoTable \/ AreColumns(PublicView(db[s][t]))
      OBVIOUS
    <3>2. PICK x : x = db[s][t]
      OBVIOUS
    <3>3. TableOK(x)
      BY <3>2 DEF Stored
    <3> QED BY <3>2, <3>3, PublicViewIs
  <2>2. PICK p : p = [t \in Tables |-> PublicView(db[s][t])]
    OBVIOUS
  <2>3. \A t \in Tables : p[t] = NoTable \/ AreColumns(p[t])
    BY <2>1, <2>2
  <2>4. view' = [view EXCEPT ![s].pub = p]
    BY <1>3, <2>2
  <2>5. /\ DOMAIN view' = Sides /\ \A u \in Sides : DOMAIN view'[u] = {"pub", "nat"}
        /\ \A u \in Sides : view'[u].pub = p \/ view'[u].pub = view[u].pub
    BY <2>4 DEF Viewed
  <2> QED BY <2>3, <2>5 DEF Viewed
<1>4. ASSUME NEW s \in Sides, NEW n, view' = [view EXCEPT ![s].nat = n]
      PROVE  Viewed(view)'
  <2>1. /\ DOMAIN view' = Sides /\ \A u \in Sides : DOMAIN view'[u] = {"pub", "nat"}
        /\ \A u \in Sides : view'[u].pub = view[u].pub
    BY <1>4 DEF Viewed
  <2> QED BY <2>1 DEF Viewed
<1>5. CASE \E s \in Sides : Load(s)
  <2>1. PICK s \in Sides : Load(s)
    BY <1>5
  <2>2. CASE LoadPublic(s)
    BY <1>3, <2>2 DEF LoadPublic
  <2>3. CASE LoadNative(s)
    <3>1. PICK n : n = [t \in Tables |-> NativeView(engine, db[s][t])]
      OBVIOUS
    <3>2. view' = [view EXCEPT ![s].nat = n]
      BY <2>3, <3>1 DEF LoadNative
    <3> QED BY <1>4, <3>2
  <2>4. CASE LoadFails(s)
    BY <1>1, <2>4 DEF LoadFails
  <2> QED BY <2>1, <2>2, <2>3, <2>4 DEF Load
<1>6. CASE compare_databases \/ preview_database_sync \/ execute_database_sync
  BY <1>2, <1>6 DEF compare_databases, preview_database_sync, execute_database_sync, Start
<1>7. CASE UNCHANGED vars
  BY <1>1, <1>7 DEF vars, sync
<1>8. ASSUME Next, ~(\E s \in Sides : Load(s)),
             ~(compare_databases \/ preview_database_sync \/ execute_database_sync)
      PROVE  Viewed(view)'
  BY <1>1, <1>8 DEF Next, OpenReturns, CloseReturns, Opened, Build, Execute, Executed, Refreshed,
                    Return, Browse, Drift, sync
<1> QED BY <1>5, <1>6, <1>7, <1>8

\* Every step keeps the types.
LEMMA TypeStep ==
  ASSUME TypeOK, Progress, Tables' = Tables, [Next]_vars
  PROVE  TypeOK'
<1>1. CASE UNCHANGED vars
  BY <1>1 DEF TypeOK, vars, sync, Tables
<1>2. CASE compare_databases \/ preview_database_sync \/ execute_database_sync
  <2>1. req'.selected \subseteq Tables /\ differs' \subseteq Tables
    BY <1>2 DEF compare_databases, preview_database_sync, execute_database_sync, TypeOK, NoSelection
  <2>2. \E m \in Modes : Start(m)
    BY <1>2 DEF compare_databases, preview_database_sync, execute_database_sync, Modes
  <2>3. outcome'.kind = "none"
    BY <2>2 DEF Start, Nothing
  <2>4. /\ mode' \in Modes /\ at' = "open" /\ pending' = Sides /\ open' = {}
        /\ next' = 1 /\ applied' = 0 /\ UNCHANGED <<engine, cached, drifts, faults>>
    BY <2>2 DEF Start, Progress
  <2>5. loaded' \in [Sides -> {"none", "public", "done", "err"}]
    BY <2>2 DEF Start
  <2> QED BY <2>1, <2>3, <2>4, <2>5 DEF TypeOK
<1>3. ASSUME NEW s \in Sides, OpenReturns(s) PROVE TypeOK'
  BY <1>3 DEF OpenReturns, TypeOK, Awaited, Fault, NoFault
<1>4. ASSUME NEW s \in Sides, Load(s) PROVE TypeOK'
  BY <1>4 DEF Load, LoadPublic, LoadNative, LoadFails, TypeOK, Fault, NoFault
<1>5. ASSUME NEW s \in Sides, CloseReturns(s) PROVE TypeOK'
  BY <1>5 DEF CloseReturns, TypeOK, Fault, NoFault, Failure
<1>6. CASE Opened
  BY <1>6 DEF Opened, TypeOK, Failure
<1>7. CASE Build
  BY <1>7 DEF Build, TypeOK, Failure
<1>8. CASE Execute
  BY <1>8 DEF Execute, Succeeds, Errs, Performed, TypeOK, Report, Fault, NoFault
<1>9. CASE Executed
  BY <1>9 DEF Executed, TypeOK, Report
<1>10. CASE Refreshed
  <2>1. outcome'.kind = outcome.kind
    BY <1>10 DEF Refreshed, Progress
  <2> QED BY <1>10, <2>1 DEF Refreshed, TypeOK
<1>11. CASE Return
  <2>1. differs' \subseteq Tables
    BY <1>11 DEF Return, TypeOK, Progress
  <2>2. cached' \in {"none", "current", "old"}
    BY <1>11 DEF Return, TypeOK
  <2> QED BY <1>11, <2>1, <2>2 DEF Return, TypeOK
<1>12. CASE Browse
  BY <1>12 DEF Browse, TypeOK
<1>13. CASE Drift
  BY <1>13 DEF Drift, TypeOK, sync
<1> QED BY <1>1, <1>2, <1>3, <1>4, <1>5, <1>6, <1>7, <1>8, <1>9, <1>10, <1>11, <1>12, <1>13 DEF Next

\* A view only matters by what is read of the selected tables.
LEMMA PreviewDescribes ==
  ASSUME TypeOK, Stored, Viewed(view)
  PROVE  \/ Computed.failed
         \/ /\ PlanOK(Computed) /\ Describes(Computed, view)
            /\ Suited(engine, req, view["source"], view["target"], Computed)
<1>1. PICK e, r, s, d : e = engine /\ r = req /\ s = view["source"] /\ d = view["target"]
  OBVIOUS
<1>2. e \in Engines /\ r.selected \subseteq Tables
  BY <1>1 DEF TypeOK
<1>3. IsFiniteSet(r.selected) /\ r.selected \subseteq Int
  BY <1>2, FS_Subset DEF Stored
<1>4. \A t \in r.selected : s.pub[t] = NoTable \/ AreColumns(s.pub[t])
  BY <1>1, <1>2 DEF Viewed, Sides
<1>5. \A t \in r.selected : d.pub[t] = NoTable \/ AreColumns(d.pub[t])
  BY <1>1, <1>2 DEF Viewed, Sides
<1>6. PICK p : p = Preview(e, r, s, d)
  OBVIOUS
<1>7. \/ p.failed
      \/ /\ PlanOK(p) /\ p.fingerprint[2] = Reading(r, s) /\ p.fingerprint[3] = Reading(r, d)
         /\ Suited(e, r, s, d, p)
  BY <1>2, <1>3, <1>4, <1>5, <1>6, PreviewIs
<1>8. p = Computed
  BY <1>1, <1>6 DEF Computed
<1> QED BY <1>1, <1>7, <1>8 DEF Describes

\* Plans are confirmed and executed as they were computed.
LEMMA ConfirmedStep ==
  ASSUME TypeOK, Stored, Viewed(view), Confirmed, Progress, [Next]_vars
  PROVE  Confirmed'
<1>1. CASE UNCHANGED <<shown, outcome, mode, at, seen, req>>
  BY <1>1 DEF Confirmed, Describes
<1>2. CASE compare_databases
  <2>1. shown' = NoPreview /\ outcome'.kind = "none" /\ mode' = "compare"
    BY <1>2 DEF compare_databases, Start, Nothing
  <2> QED BY <2>1 DEF Confirmed
<1>3. CASE preview_database_sync
  <2>1. shown' = NoPreview /\ outcome'.kind = "none" /\ mode' = "preview"
    BY <1>3 DEF preview_database_sync, Start, Nothing
  <2> QED BY <2>1 DEF Confirmed
<1>4. CASE execute_database_sync
  <2>1. /\ UNCHANGED <<shown, seen, req>> /\ outcome'.kind = "none" /\ mode' = "execute"
        /\ shown # NoPreview
    BY <1>4 DEF execute_database_sync, Start, Nothing
  <2> QED BY <2>1 DEF Confirmed, Describes
<1>5. CASE Opened
  <2>1. /\ UNCHANGED <<shown, seen, req, mode>> /\ at # "idle"
        /\ outcome' = outcome \/ outcome'.kind = "err"
    BY <1>5 DEF Opened, Failure
  <2>2. (outcome' = outcome) => (outcome'.kind = "preview" => Describes(outcome'.plan, seen) /\ PlanOK(outcome'.plan))
    BY DEF Confirmed
  <2>3. outcome'.kind = "preview" => Describes(outcome'.plan, seen) /\ PlanOK(outcome'.plan)
    BY <2>1, <2>2
  <2> QED BY <2>1, <2>3 DEF Confirmed, Describes
<1>6. CASE Build
  <2>0. /\ UNCHANGED <<shown, req, mode, view>> /\ at = "load" /\ at' # "idle"
    BY <1>6 DEF Build
  <2>1. CASE outcome'.kind # "preview" /\ UNCHANGED seen
    BY <2>0, <2>1 DEF Confirmed, Describes
  <2>2. CASE outcome'.kind # "preview" /\ mode = "preview"
    <3>1. shown' = NoPreview
      BY <2>0, <2>2 DEF Confirmed
    <3> QED BY <2>0, <2>2, <3>1 DEF Confirmed
  <2>3. CASE ~Computed.failed /\ outcome' = [kind |-> "preview", plan |-> Computed] /\ mode = "preview" /\ seen' = view
    <3>1. PlanOK(Computed) /\ Describes(Computed, view)
      BY <2>3, PreviewDescribes
    <3>2. outcome'.plan = Computed /\ shown' = NoPreview
      BY <2>0, <2>3 DEF Confirmed
    <3>3. PlanOK(outcome'.plan)
      BY <3>1, <3>2
    <3>5. Describes(outcome.plan, seen)'
      BY <2>0, <2>3, <3>1, <3>2 DEF Describes
    <3> QED BY <2>0, <2>3, <3>2, <3>3, <3>5 DEF Confirmed
  <2>4. CASE /\ ~Computed.failed /\ Matches(Computed) /\ outcome' = [kind |-> "preview", plan |-> Computed]
             /\ mode = "execute" /\ UNCHANGED seen
    <3>1. PlanOK(Computed)
      BY <2>4, PreviewDescribes
    <3>2. outcome'.plan = Computed /\ Computed.fingerprint = shown.fingerprint
      BY <2>4 DEF Matches
    <3>3. shown # NoPreview /\ Describes(shown, seen)
      BY <2>0, <2>4 DEF Confirmed
    <3>4. PlanOK(outcome'.plan)
      BY <3>1, <3>2
    <3>5. Describes(outcome.plan, seen)'
      BY <2>0, <2>4, <3>2, <3>3 DEF Describes
    <3>6. shown' # NoPreview /\ Describes(shown, seen)'
      BY <2>0, <2>4, <3>3 DEF Describes
    <3> QED BY <2>0, <2>4, <3>4, <3>5, <3>6 DEF Confirmed
  <2> QED BY <1>6, <2>1, <2>2, <2>3, <2>4 DEF Build, Failure, TypeOK, Modes
<1>7. CASE Execute
  <2>1. UNCHANGED <<shown, seen, req, mode>> /\ at = "run"
    BY <1>7 DEF Execute, Succeeds, Errs
  <2>2. UNCHANGED outcome \/ outcome'.kind = "exec"
    BY <1>7 DEF Execute, Succeeds, Errs, Report
  <2>3. outcome'.kind = "preview" => Describes(outcome.plan, seen)' /\ PlanOK(outcome'.plan)
    BY <2>1, <2>2 DEF Confirmed, Describes
  <2> QED BY <2>1, <2>3 DEF Confirmed, Describes
<1>8. CASE Executed
  <2>1. UNCHANGED <<shown, seen, req, mode>> /\ at = "run" /\ outcome'.kind = "exec"
    BY <1>8 DEF Executed, Report
  <2> QED BY <2>1 DEF Confirmed, Describes
<1>9. CASE Refreshed
  <2>1. UNCHANGED <<shown, seen, req, mode>> /\ at = "refresh" /\ outcome'.kind = "exec"
    BY <1>9 DEF Refreshed, Progress
  <2> QED BY <2>1 DEF Confirmed, Describes
<1>10. ASSUME NEW s \in Sides, CloseReturns(s) PROVE Confirmed'
  <2>1. UNCHANGED <<shown, seen, req, mode, at>> /\ (UNCHANGED outcome \/ outcome'.kind = "err")
    BY <1>10 DEF CloseReturns, Failure
  <2>2. outcome'.kind = "preview" => Describes(outcome.plan, seen)' /\ PlanOK(outcome'.plan)
    BY <2>1 DEF Confirmed, Describes
  <2> QED BY <2>1, <2>2 DEF Confirmed, Describes
<1>11. CASE Return
  <2>1. UNCHANGED <<seen, req, outcome>> /\ at' = "idle"
    BY <1>11 DEF Return
  <2>2. shown' = IF outcome.kind = "preview" THEN outcome.plan ELSE NoPreview
    BY <1>11 DEF Return
  <2>3. shown' # NoPreview => Describes(shown, seen)'
    BY <2>1, <2>2 DEF Confirmed, Describes
  <2>4. outcome'.kind = "preview" => Describes(outcome.plan, seen)' /\ PlanOK(outcome'.plan)
    BY <2>1 DEF Confirmed, Describes
  <2> QED BY <2>1, <2>3, <2>4 DEF Confirmed
<1>12. ASSUME NEW s \in Sides, OpenReturns(s) \/ Load(s) PROVE Confirmed'
  BY <1>1, <1>12 DEF OpenReturns, Load
<1>13. CASE Browse \/ Drift \/ UNCHANGED vars
  BY <1>1, <1>13 DEF Browse, Drift, vars, sync
<1> QED BY <1>2, <1>3, <1>4, <1>5, <1>6, <1>7, <1>8, <1>9, <1>10, <1>11, <1>12, <1>13 DEF Next

\* Every step keeps to the course of a command.
LEMMA ProgressStep ==
  ASSUME TypeOK, Confirmed, Progress, Confirmed', Tables' = Tables, [Next]_vars
  PROVE  Progress'
<1>1. CASE UNCHANGED <<at, open, next, applied, outcome>>
  BY <1>1 DEF Progress, Todo
<1>2. CASE compare_databases \/ preview_database_sync \/ execute_database_sync
  <2>1. at' = "open" /\ next' = 1 /\ applied' = 0 /\ outcome'.kind = "none"
    BY <1>2 DEF compare_databases, preview_database_sync, execute_database_sync, Start, Nothing
  <2> QED BY <2>1 DEF Progress
<1>3. ASSUME NEW s \in Sides, OpenReturns(s) PROVE Progress'
  <2>1. at = "open" /\ UNCHANGED <<at, next, applied, outcome>>
    BY <1>3 DEF OpenReturns
  <2> QED BY <2>1 DEF Progress
<1>4. ASSUME NEW s \in Sides, Load(s) PROVE Progress'
  BY <1>1, <1>4 DEF Load
<1>5. CASE Opened
  <2>1. /\ at = "open" /\ at' \in {"load", "close"} /\ UNCHANGED <<next, applied>>
        /\ UNCHANGED outcome \/ outcome'.kind = "err"
    BY <1>5 DEF Opened, Failure
  <2>2. /\ outcome'.kind = "compare" => outcome'.tables \subseteq Tables
        /\ outcome'.kind = "exec" => outcome'.latest \subseteq Tables
    BY <2>1 DEF Progress
  <2> QED BY <2>1, <2>2 DEF Progress
<1>6. CASE Build
  <2>1. at = "load" /\ UNCHANGED <<next, applied>> /\ next = 1 /\ applied = 0
    BY <1>6 DEF Build, Progress
  <2>2. CASE at' = "run" /\ outcome'.kind = "preview"
    <3>1. PICK p : p = outcome'.plan
      OBVIOUS
    <3>2. PlanOK(p)
      BY <2>2, <3>1 DEF Confirmed
    <3>3. PICK T : Statements(p) \in Seq(T)
      BY <3>2, StatementsAre
    <3>4. Len(Statements(p)) \in Nat
      BY <3>3
    <3>5. Todo' = Statements(p)
      BY <3>1 DEF Todo
    <3>6. next' \in 1 .. Len(Todo') + 1 /\ applied' = next' - 1
      BY <2>1, <3>4, <3>5
    <3> QED BY <2>2, <3>6 DEF Progress
  <2>3. CASE at' = "close" /\ outcome'.kind = "compare" /\ outcome'.tables \subseteq Tables
    BY <2>3 DEF Progress
  <2>4. CASE at' = "close" /\ outcome'.kind \notin {"compare", "exec"}
    BY <2>4 DEF Progress
  <2>5. Differing \subseteq Tables
    BY DEF Differing
  <2> QED BY <1>6, <2>2, <2>3, <2>4, <2>5 DEF Build, Failure
<1>7. CASE Execute
  <2>1. /\ at = "run" /\ next \in 1 .. Len(Todo) + 1 /\ applied = next - 1 /\ outcome.kind = "preview"
        /\ next <= Len(Todo)
    BY <1>7 DEF Execute, Succeeds, Errs, Progress
  <2>2. CASE Succeeds
    <3>1. UNCHANGED <<at, outcome>> /\ next' = next + 1 /\ applied' = applied + 1 /\ Todo' = Todo
      BY <2>2 DEF Succeeds, Performed, Todo
    <3>2. PICK n \in Nat : Len(Todo) = n
      BY <2>1, RunPlan
    <3>3. next' \in 1 .. Len(Todo') + 1 /\ applied' = next' - 1
      BY <2>1, <3>1, <3>2
    <3> QED BY <2>1, <3>1, <3>3 DEF Progress
  <2>3. CASE Errs
    <3>1. at' = "close" /\ outcome'.kind = "exec" /\ outcome'.latest = {}
      BY <2>3 DEF Errs, Report
    <3> QED BY <3>1 DEF Progress
  <2> QED BY <1>7, <2>2, <2>3 DEF Execute
<1>8. CASE Executed
  <2>1. at' = "refresh" /\ outcome' = Report("succeeded", {})
    BY <1>8 DEF Executed
  <2>2. /\ outcome'.kind = "exec" /\ outcome'.latest = {}
        /\ DOMAIN outcome' = {"kind", "plan", "status", "completed", "pend", "latest"}
    BY <2>1 DEF Report
  <2> QED BY <2>1, <2>2 DEF Progress
<1>9. CASE Refreshed
  <2>1. PICK L : L = (IF BothRead THEN Differing ELSE Tables)
    OBVIOUS
  <2>2. L \subseteq Tables
    BY <2>1 DEF Differing
  <2>3. at' = "close" /\ outcome' = [outcome EXCEPT !.latest = L] /\ at = "refresh"
    BY <1>9, <2>1 DEF Refreshed
  <2>4. outcome'.kind = "exec" /\ outcome'.latest = L
    BY <2>3 DEF Progress
  <2> QED BY <2>2, <2>3, <2>4 DEF Progress
<1>10. ASSUME NEW s \in Sides, CloseReturns(s) PROVE Progress'
  <2>1. at = "close" /\ at' = "close" /\ (UNCHANGED outcome \/ outcome'.kind = "err")
    BY <1>10 DEF CloseReturns, Failure
  <2>2. /\ outcome'.kind = "compare" => outcome'.tables \subseteq Tables
        /\ outcome'.kind = "exec" => outcome'.latest \subseteq Tables
    BY <2>1 DEF Progress
  <2> QED BY <2>1, <2>2 DEF Progress
<1>11. CASE Return
  <2>1. at' = "idle" /\ open' = {} /\ UNCHANGED outcome
    BY <1>11 DEF Return
  <2> QED BY <2>1 DEF Progress
<1>12. CASE Browse \/ Drift \/ UNCHANGED vars
  BY <1>1, <1>12 DEF Browse, Drift, vars, sync
<1> QED BY <1>2, <1>3, <1>4, <1>5, <1>6, <1>7, <1>8, <1>9, <1>10, <1>11, <1>12 DEF Next

\* Plans with the same fingerprint were computed from the same schemas.
LEMMA SameReading ==
  ASSUME NEW r, NEW v, NEW w, Reading(r, v) = Reading(r, w), NEW t \in r.selected
  PROVE  v.pub[t] = w.pub[t] /\ (v.pub[t] # NoTable => v.nat[t] = w.nat[t])
<1>1. PICK a, b : a = Reading(r, v) /\ b = Reading(r, w)
  OBVIOUS
<1>2. DOMAIN a = {u \in r.selected : v.pub[u] # NoTable} /\ DOMAIN b = {u \in r.selected : w.pub[u] # NoTable}
  BY <1>1 DEF Reading
<1>3. v.pub[t] # NoTable => a[t] = <<v.pub[t], v.nat[t]>>
  BY <1>1 DEF Reading
<1>4. w.pub[t] # NoTable => b[t] = <<w.pub[t], w.nat[t]>>
  BY <1>1 DEF Reading
<1>5. v.pub[t] # NoTable <=> w.pub[t] # NoTable
  BY <1>1, <1>2
<1> QED BY <1>1, <1>3, <1>4, <1>5

\* An execution goes on only with the schemas of its preview.
LEMMA DriftStep ==
  ASSUME TypeOK, Stored, Viewed(view), Confirmed, DriftStopsExecution, [Next]_vars
  PROVE  DriftStopsExecution'
<1>1. CASE at' # "run"
  BY <1>1 DEF DriftStopsExecution
<1>2. CASE UNCHANGED <<at, view, seen, req>>
  BY <1>2 DEF DriftStopsExecution
<1>3. CASE at' = "run" /\ Build
  <2>1. /\ UNCHANGED <<view, seen, req>> /\ mode = "execute" /\ at = "load"
        /\ ~Computed.failed /\ Matches(Computed)
    <3>1. at = "load" /\ BothRead /\ mode # "compare" /\ UNCHANGED <<view, req>>
      BY <1>3 DEF Build
    <3>2. mode = "execute"
      BY <1>3, <3>1 DEF Build, TypeOK, Modes
    <3>3. PICK p : p = Computed
      OBVIOUS
    <3>4. UNCHANGED seen /\ ~p.failed /\ Matches(p)
      BY <1>3, <3>1, <3>2, <3>3 DEF Build
    <3> QED BY <3>1, <3>2, <3>3, <3>4
  <2>2. Describes(Computed, view)
    BY <2>1, PreviewDescribes
  <2>3. shown # NoPreview /\ Describes(shown, seen)
    BY <2>1 DEF Confirmed
  <2>4. Computed.fingerprint = shown.fingerprint
    BY <2>1 DEF Matches
  <2>5. \A s \in Sides : Reading(req, view[s]) = Reading(req, seen[s])
    BY <2>2, <2>3, <2>4 DEF Describes, Sides
  <2>6. ASSUME NEW s \in Sides, NEW t \in req.selected
        PROVE  /\ view[s].pub[t] = seen[s].pub[t]
               /\ view[s].pub[t] # NoTable => view[s].nat[t] = seen[s].nat[t]
    <3>1. PICK r, v, w : r = req /\ v = view[s] /\ w = seen[s]
      OBVIOUS
    <3>2. Reading(r, v) = Reading(r, w) /\ t \in r.selected
      BY <2>5, <3>1
    <3>3. v.pub[t] = w.pub[t] /\ (v.pub[t] # NoTable => v.nat[t] = w.nat[t])
      BY <3>2, SameReading
    <3> QED BY <3>1, <3>3
  <2> QED BY <2>1, <2>6 DEF DriftStopsExecution
<1>4. CASE at' = "run" /\ ~Build
  <2>1. at' = "run" /\ UNCHANGED <<at, view, seen, req>>
    <3>1. CASE Execute
      BY <1>4, <3>1 DEF Execute, Succeeds, Errs
    <3>2. CASE Browse \/ Drift \/ UNCHANGED vars
      BY <1>4, <3>2 DEF Browse, Drift, vars, sync
    <3>3. CASE compare_databases \/ preview_database_sync \/ execute_database_sync
      BY <1>4, <3>3 DEF compare_databases, preview_database_sync, execute_database_sync, Start
    <3>4. CASE \E s \in Sides : OpenReturns(s) \/ Load(s) \/ CloseReturns(s)
      BY <1>4, <3>4 DEF OpenReturns, Load, CloseReturns, LoadPublic, LoadNative, LoadFails
    <3>5. CASE Opened \/ Executed \/ Refreshed \/ Return
      BY <1>4, <3>5 DEF Opened, Executed, Refreshed, Return
    <3> QED BY <1>4, <3>1, <3>2, <3>3, <3>4, <3>5 DEF Next
  <2> QED BY <1>2, <2>1
<1> QED BY <1>1, <1>3, <1>4

\* A report says which statements were applied, also when the answer of one was lost.
LEMMA HonestStep ==
  ASSUME TypeOK, Confirmed, Progress, HonestReport, [Next]_vars
  PROVE  HonestReport'
<1>1. CASE UNCHANGED <<outcome, applied>>
  BY <1>1 DEF HonestReport, Todo
<1>2. CASE outcome'.kind # "exec"
  BY <1>2 DEF HonestReport
<1>3. CASE Errs
  <2>1. PICK n \in Nat : Len(Todo) = n /\ DOMAIN Todo = 1 .. n
    BY <1>3, RunPlan DEF Errs
  <2>2. at = "run" /\ next \in 1 .. n /\ applied = next - 1
    BY <1>3, <2>1 DEF Errs, Progress
  <2>3. PICK m \in Nat : DOMAIN outcome.plan.ops = 1 .. m
    BY <2>2, RunPlan
  <2>4. PICK k, todo : k = next /\ todo = Todo
    OBVIOUS
  <2>5. /\ \A a \in 1 .. n : todo[a].op \in 1 .. m
        /\ \A a, b \in 1 .. n : a < b => todo[a].op <= todo[b].op
    BY <2>1, <2>2, <2>3, <2>4, RunPlan
  <2>6. applied' = k - 1 \/ applied' = k
    BY <1>3, <2>2, <2>4 DEF Errs, Performed
  <2>7. PICK pend : pend = {o \in 1 .. m : o > todo[k].op}
    OBVIOUS
  <2>8. outcome' = Report(IF k = 1 THEN "failed" ELSE "partial", pend)
    BY <1>3, <2>3, <2>4, <2>7 DEF Errs, PendingAfter, Current
  <2>9. /\ outcome'.completed = k - 1 /\ outcome'.pend = pend /\ outcome'.plan = outcome.plan
        /\ outcome'.status = IF k = 1 THEN "failed" ELSE "partial"
    BY <2>4, <2>8 DEF Report
  <2>10. Todo' = todo
    BY <2>4, <2>9 DEF Todo
  <2>11. ASSUME NEW i \in 1 .. n
         PROVE  /\ todo[i].op \in pend => i > k
                /\ (i > k - 1 /\ todo[i].op \notin pend) => todo[i].op = todo[k].op
    <3>1. k \in 1 .. n /\ todo[i].op \in 1 .. m /\ todo[k].op \in 1 .. m
      BY <2>2, <2>4, <2>5
    <3>2. i < k => todo[i].op <= todo[k].op
      BY <2>5, <3>1
    <3>3. k < i => todo[k].op <= todo[i].op
      BY <2>5, <3>1
    <3>4. i = k \/ i < k \/ k < i
      BY <3>1
    <3>5. i = k => todo[i].op = todo[k].op
      OBVIOUS
    <3> QED BY <2>7, <3>1, <3>2, <3>3, <3>4, <3>5
  <2>12. k \in 1 .. n
    BY <2>2, <2>4
  <2>13. applied' \in {outcome'.completed, outcome'.completed + 1}
    BY <2>6, <2>9, <2>12
  <2>14. outcome'.status = "succeeded" <=> outcome'.completed = Len(Todo')
    BY <2>1, <2>4, <2>9, <2>10, <2>12
  <2>15. outcome'.status = "failed" => outcome'.completed = 0
    BY <2>9, <2>12
  <2>16. \A i \in DOMAIN Todo' :
            /\ Todo'[i].op \in outcome'.pend => i > outcome'.completed + 1
            /\ (i > outcome'.completed /\ Todo'[i].op \notin outcome'.pend)
                  => Todo'[i].op = Todo'[outcome'.completed + 1].op
    <3>1. outcome'.completed + 1 = k
      BY <2>9, <2>12
    <3> QED BY <2>1, <2>4, <2>9, <2>10, <2>11, <3>1
  <2> QED BY <2>13, <2>14, <2>15, <2>16 DEF HonestReport
<1>4. CASE Executed
  <2>1. PICK n \in Nat : Len(Todo) = n /\ DOMAIN Todo = 1 .. n
    BY <1>4, RunPlan DEF Executed
  <2>2. next = n + 1 /\ applied = n
    BY <1>4, <2>1 DEF Executed, Progress
  <2>3. /\ outcome'.completed = n /\ outcome'.pend = {} /\ outcome'.plan = outcome.plan
        /\ outcome'.status = "succeeded" /\ applied' = n
    BY <1>4, <2>2 DEF Executed, Report
  <2>4. Todo' = Todo
    BY <2>3 DEF Todo
  <2>5. \A i \in 1 .. n : ~(i > n)
    OBVIOUS
  <2> QED BY <2>1, <2>3, <2>4, <2>5 DEF HonestReport
<1>5. CASE Refreshed
  <2>1. PICK L : outcome' = [outcome EXCEPT !.latest = L] /\ UNCHANGED applied /\ at = "refresh"
    BY <1>5 DEF Refreshed
  <2>2. /\ outcome'.kind = "exec" /\ outcome.kind = "exec"
        /\ outcome'.plan = outcome.plan /\ outcome'.status = outcome.status
        /\ outcome'.completed = outcome.completed /\ outcome'.pend = outcome.pend
    BY <2>1 DEF Progress
  <2> QED BY <2>1, <2>2 DEF HonestReport, Todo
<1>6. CASE compare_databases \/ preview_database_sync \/ execute_database_sync
  BY <1>2, <1>6 DEF compare_databases, preview_database_sync, execute_database_sync, Start, Nothing
<1>7. CASE Succeeds
  <2>1. outcome'.kind = "preview"
    BY <1>7 DEF Succeeds, Progress
  <2> QED BY <1>2, <2>1
<1>8. CASE Opened
  BY <1>1, <1>2, <1>8 DEF Opened, Failure
<1>9. CASE Build
  BY <1>2, <1>9 DEF Build, Failure
<1>10. CASE \E s \in Sides : OpenReturns(s) \/ Load(s) \/ CloseReturns(s)
  BY <1>1, <1>2, <1>10 DEF OpenReturns, Load, CloseReturns, Failure
<1>11. CASE Return \/ Browse \/ Drift \/ UNCHANGED vars
  BY <1>1, <1>11 DEF Return, Browse, Drift, vars, sync
<1> QED BY <1>3, <1>4, <1>5, <1>6, <1>7, <1>8, <1>9, <1>10, <1>11 DEF Next, Execute

\* The metadata of the target is dropped before the report of an execution is returned.
LEMMA CacheStep ==
  ASSUME CacheRefreshed, [Next]_vars
  PROVE  CacheRefreshed'
<1>1. CASE at' # "idle"
  BY <1>1 DEF CacheRefreshed
<1>2. CASE UNCHANGED <<at, outcome, applied>> /\ (UNCHANGED cached \/ cached' # "old")
  BY <1>2 DEF CacheRefreshed
<1>3. CASE Return
  <2>1. UNCHANGED outcome /\ (Invalidates(outcome) => cached' = "none")
    BY <1>3 DEF Return
  <2> QED BY <2>1 DEF CacheRefreshed, Invalidates
<1>4. CASE Browse \/ Drift \/ UNCHANGED vars
  BY <1>2, <1>4 DEF Browse, Drift, vars, sync
<1>5. CASE compare_databases \/ preview_database_sync \/ execute_database_sync
  BY <1>1, <1>5 DEF compare_databases, preview_database_sync, execute_database_sync, Start
<1>6. CASE \E s \in Sides : OpenReturns(s) \/ Load(s) \/ CloseReturns(s)
  BY <1>1, <1>6 DEF OpenReturns, Load, LoadPublic, LoadNative, LoadFails, CloseReturns
<1>7. CASE Opened \/ Build
  BY <1>1, <1>7 DEF Opened, Build
<1>8. CASE Executed \/ Refreshed
  BY <1>1, <1>8 DEF Executed, Refreshed
<1>9. CASE Execute
  BY <1>1, <1>9 DEF Execute, Succeeds, Errs
<1> QED BY <1>3, <1>4, <1>5, <1>6, <1>7, <1>8, <1>9 DEF Next

\* Before the first command both databases hold tables and nothing was read.
LEMMA SInit ==
  ASSUME SyncConstants, Init
  PROVE  SInv
<1>1. PICK w \in Worlds : /\ engine = w.engine /\ db = [source |-> w.source, target |-> w.target]
                          /\ drifts = w.drifts /\ faults = w.faults
  BY DEF Init
<1>2. /\ w.engine \in Engines /\ w.drifts \in Nat /\ w.faults \in Nat
      /\ DOMAIN w.source = DOMAIN w.target
      /\ DOMAIN w.source \subseteq Int /\ IsFiniteSet(DOMAIN w.source)
      /\ \A t \in DOMAIN w.source : TableOK(w.source[t]) /\ TableOK(w.target[t])
  BY DEF SyncConstants, TableOK
<1>3. db["source"] = w.source /\ db["target"] = w.target /\ DOMAIN db = Sides
  BY <1>1 DEF Sides
<1>4. Tables = DOMAIN w.source
  BY <1>3 DEF Tables
<1>5. Stored
  BY <1>2, <1>3, <1>4 DEF Stored, Sides
<1>6. Viewed(view)
  BY DEF Init, Viewed, Unread
<1>7. TypeOK
  BY <1>1, <1>2 DEF Init, TypeOK, NoSelection, Nothing, Modes
<1>8. Confirmed /\ Progress
  BY DEF Init, Confirmed, Progress, Nothing
<1>9. DriftStopsExecution /\ HonestReport /\ CacheRefreshed
  BY DEF Init, DriftStopsExecution, HonestReport, CacheRefreshed, Nothing
<1> QED BY <1>5, <1>6, <1>7, <1>8, <1>9 DEF SInv

\* Comparing, previewing and executing, whatever fails and whatever other clients do
\* meanwhile: both databases keep holding tables, what was read of them describes them,
\* and a command follows its course with the plan that was confirmed.
THEOREM SyncInvariance == Spec => []SInv
<1>1. Init => SInv
  BY SInit, SyncConstants
<1>2. SInv /\ [Next]_vars => SInv'
  <2>1. SUFFICES ASSUME SInv, [Next]_vars PROVE SInv'
    OBVIOUS
  <2>2. /\ TypeOK /\ Stored /\ Viewed(view) /\ Confirmed /\ Progress
        /\ DriftStopsExecution /\ HonestReport /\ CacheRefreshed
    BY <2>1 DEF SInv
  <2>3. Stored' /\ Tables' = Tables
    BY <2>1, <2>2, StoredStep, SyncConstants
  <2>4. Viewed(view)'
    BY <2>1, <2>2, <2>3, ViewedStep
  <2>5. TypeOK'
    BY <2>1, <2>2, <2>3, TypeStep
  <2>6. Confirmed'
    BY <2>1, <2>2, ConfirmedStep
  <2>7. Progress'
    BY <2>1, <2>2, <2>3, <2>6, ProgressStep
  <2>8. DriftStopsExecution'
    BY <2>1, <2>2, DriftStep
  <2>9. HonestReport'
    BY <2>1, <2>2, HonestStep
  <2>10. CacheRefreshed'
    BY <2>1, <2>2, CacheStep
  <2> QED BY <2>3, <2>4, <2>5, <2>6, <2>7, <2>8, <2>9, <2>10 DEF SInv
<1> QED BY <1>1, <1>2, PTL DEF Spec

\* An execution only sends statements while both schemas are the ones its preview was
\* computed from (validate_plan_fingerprint), its report counts what the target really
\* applied whatever statement fails or loses its answer (execute_operation_statements),
\* and no open connection keeps metadata from before it
\* (invalidate_metadata_after_sync_result).
THEOREM SyncIsHonest == Spec => []SyncHonest
<1>1. SInv => SyncHonest
  BY DEF SInv, SyncHonest
<1> QED BY <1>1, SyncInvariance, PTL

-----------------------------------------------------------------------------
(* The key of a table *)

\* What is read before a plan is made: nothing while the connections open, and while
\* nobody interferes the columns the databases hold.
Fresh ==
    /\ at = "open" => loaded = [s \in Sides |-> "none"]
    /\ at \in {"open", "load"} => outcome.kind = "none"
    /\ (at = "load" /\ quiet) =>
          \A s \in Sides : loaded[s] \in {"public", "done"} =>
              \A t \in Tables : view[s].pub[t] = PublicView(db[s][t])
\* The plan that is executed suits the engine, the request and what was read.
Carried == at = "run" => Suited(engine, req, view["source"], view["target"], outcome.plan)
\* A table that had a key and is to have one still has one.
KeyHeld ==
    (engine = "sqlserver" /\ quiet /\ mode = "execute" /\ outcome.kind \in {"preview", "exec"}) =>
        \A t \in req.selected :
            (Keyed(seen["source"], t) /\ Keyed(seen["target"], t)) =>
                IsTable(db["target"][t]) /\ HasKey(db["target"][t].cols)

\* A table a snapshot shows with a key is there and has one.
LEMMA ShownKey ==
  ASSUME NEW t, TableOK(t), NEW v, v = PublicView(t), v # NoTable, KeyColumns(v) # {}
  PROVE  IsTable(t) /\ HasKey(t.cols)
<1>1. t # NoTable
  BY DEF PublicView
<1>2. IsTable(t)
  BY <1>1 DEF TableOK
<1>3. PICK cols : cols = t.cols
  OBVIOUS
<1>4. \A c \in DOMAIN cols : "key" \in DOMAIN cols[c]
  BY <1>2, <1>3 DEF IsTable, AreColumns
<1>5. v = [c \in DOMAIN cols |-> [cols[c] EXCEPT !.key = IF @ = 0 THEN 0 ELSE 1, !.gen = 0]]
  BY <1>1, <1>3 DEF PublicView
<1>6. PICK c \in DOMAIN v : v[c].key # 0
  BY DEF KeyColumns
<1>7. c \in DOMAIN cols
  BY <1>5, <1>6
<1>8. PICK k : k = IF cols[c].key = 0 THEN 0 ELSE 1
  OBVIOUS
<1>9. v[c] = [cols[c] EXCEPT !.key = k, !.gen = 0]
  BY <1>5, <1>7, <1>8
<1>10. v[c].key = k
  BY <1>4, <1>7, <1>9
<1>11. cols[c].key # 0
  BY <1>6, <1>8, <1>10
<1>12. HasKey(cols)
  BY <1>7, <1>11 DEF HasKey
<1> QED BY <1>2, <1>3, <1>12

\* What was read stays what the databases hold until another client interferes.
LEMMA FreshStep ==
  ASSUME TypeOK, Viewed(view), Fresh, Tables' = Tables, [Next]_vars
  PROVE  Fresh'
<1>1. CASE at' \notin {"open", "load"}
  BY <1>1 DEF Fresh
<1>2. CASE UNCHANGED <<at, loaded, outcome, quiet, view, db>>
  BY <1>2 DEF Fresh
<1>3. CASE compare_databases \/ preview_database_sync \/ execute_database_sync
  <2>1. at' = "open" /\ loaded' = [s \in Sides |-> "none"] /\ outcome'.kind = "none"
    BY <1>3 DEF compare_databases, preview_database_sync, execute_database_sync, Start, Nothing
  <2> QED BY <2>1 DEF Fresh
<1>4. ASSUME NEW s \in Sides, OpenReturns(s) \/ CloseReturns(s) PROVE Fresh'
  BY <1>1, <1>2, <1>4 DEF OpenReturns, CloseReturns
<1>5. CASE Opened
  <2>1. CASE at' # "load"
    BY <1>1, <1>5, <2>1 DEF Opened
  <2>2. CASE at' = "load"
    <3>1. UNCHANGED <<loaded, outcome>> /\ at = "open"
      BY <1>5, <2>2 DEF Opened
    <3>2. outcome'.kind = "none" /\ \A s \in Sides : loaded'[s] = "none"
      BY <3>1 DEF Fresh
    <3> QED BY <2>2, <3>2 DEF Fresh
  <2> QED BY <2>1, <2>2
<1>6. ASSUME NEW s \in Sides, Load(s) PROVE Fresh'
  <2>1. CASE at = "refresh"
    BY <1>1, <1>6, <2>1 DEF Load
  <2>2. CASE at = "load"
    <3>1. UNCHANGED <<at, outcome, quiet, db>> /\ outcome.kind = "none"
      BY <1>6, <2>2 DEF Load, Fresh
    <3>2. ASSUME quiet, NEW u \in Sides, loaded'[u] \in {"public", "done"}, NEW t \in Tables
          PROVE  view'[u].pub[t] = PublicView(db[u][t])
      <4>1. \A w \in Sides : loaded[w] \in {"public", "done"} => view[w].pub[t] = PublicView(db[w][t])
        BY <2>2, <3>2 DEF Fresh
      <4>2. DOMAIN loaded = Sides /\ DOMAIN view = Sides /\ DOMAIN view[s] = {"pub", "nat"}
        BY DEF TypeOK, Viewed
      <4>3. CASE LoadPublic(s)
        <5>1. PICK p : p = [w \in Tables |-> PublicView(db[s][w])]
          OBVIOUS
        <5>2. PICK x : x = IF mode = "compare" THEN "done" ELSE "public"
          OBVIOUS
        <5>3. view' = [view EXCEPT ![s].pub = p] /\ loaded' = [loaded EXCEPT ![s] = x]
          BY <4>3, <5>1, <5>2 DEF LoadPublic
        <5>4. CASE u = s
          BY <4>2, <5>1, <5>3, <5>4
        <5>5. CASE u # s
          <6>1. view'[u] = view[u] /\ loaded'[u] = loaded[u]
            BY <4>2, <5>3, <5>5
          <6> QED BY <3>2, <4>1, <6>1
        <5> QED BY <5>4, <5>5
      <4>4. CASE LoadNative(s)
        <5>1. PICK n : n = [w \in Tables |-> NativeView(engine, db[s][w])]
          OBVIOUS
        <5>2. /\ view' = [view EXCEPT ![s].nat = n] /\ loaded' = [loaded EXCEPT ![s] = "done"]
              /\ loaded[s] = "public"
          BY <4>4, <5>1 DEF LoadNative
        <5>3. view'[u].pub = view[u].pub
          BY <4>2, <5>2
        <5>4. loaded[u] \in {"public", "done"}
          BY <3>2, <4>2, <5>2
        <5> QED BY <4>1, <5>3, <5>4
      <4>5. CASE LoadFails(s)
        <5>1. UNCHANGED view /\ loaded' = [loaded EXCEPT ![s] = "err"]
          BY <4>5 DEF LoadFails
        <5>2. loaded[u] \in {"public", "done"}
          BY <3>2, <4>2, <5>1
        <5> QED BY <4>1, <5>1, <5>2
      <4> QED BY <1>6, <4>3, <4>4, <4>5 DEF Load
    <3> QED BY <2>2, <3>1, <3>2 DEF Fresh
  <2> QED BY <1>6, <2>1, <2>2 DEF Load, LoadPublic, LoadNative, LoadFails
<1>7. CASE Build \/ Executed \/ Refreshed \/ Return
  BY <1>1, <1>7 DEF Build, Executed, Refreshed, Return
<1>8. CASE Execute
  BY <1>1, <1>8 DEF Execute, Succeeds, Errs
<1>9. CASE Browse \/ UNCHANGED vars
  BY <1>2, <1>9 DEF Browse, vars, sync
<1>10. CASE Drift
  BY <1>10 DEF Drift, sync, Fresh
<1> QED BY <1>3, <1>4, <1>5, <1>6, <1>7, <1>8, <1>9, <1>10 DEF Next

\* The plan is executed as it was computed.
LEMMA CarriedStep ==
  ASSUME TypeOK, Stored, Viewed(view), Carried, [Next]_vars
  PROVE  Carried'
<1>1. CASE at' # "run"
  BY <1>1 DEF Carried
<1>2. CASE at = "run" /\ UNCHANGED <<engine, req, view, outcome>>
  BY <1>2 DEF Carried
<1>3. CASE at' = "run" /\ Build
  <2>1. PICK p : p = Computed
    OBVIOUS
  <2>2. mode # "compare" /\ BothRead
    BY <1>3 DEF Build
  <2>3. mode = "execute"
    BY <1>3, <2>2 DEF Build, TypeOK, Modes
  <2>4. ~p.failed /\ outcome' = [kind |-> "preview", plan |-> p] /\ UNCHANGED <<engine, req, view>>
    BY <1>3, <2>1, <2>2, <2>3 DEF Build
  <2>5. Suited(engine, req, view["source"], view["target"], Computed)
    BY <2>1, <2>4, PreviewDescribes
  <2>6. outcome'.plan = Computed
    BY <2>1, <2>4
  <2>7. Suited(engine', req', view'["source"], view'["target"], outcome'.plan)
    BY <2>4, <2>5, <2>6
  <2> QED BY <2>7 DEF Carried
<1>4. CASE at' = "run" /\ ~Build
  <2>1. at = "run" /\ UNCHANGED <<engine, req, view, outcome>>
    <3>1. CASE Execute
      BY <1>4, <3>1 DEF Execute, Succeeds, Errs
    <3>2. CASE Browse \/ Drift \/ UNCHANGED vars
      BY <1>4, <3>2 DEF Browse, Drift, vars, sync
    <3>3. CASE compare_databases \/ preview_database_sync \/ execute_database_sync
      BY <1>4, <3>3 DEF compare_databases, preview_database_sync, execute_database_sync, Start
    <3>4. CASE \E s \in Sides : OpenReturns(s) \/ Load(s) \/ CloseReturns(s)
      BY <1>4, <3>4 DEF OpenReturns, Load, CloseReturns, LoadPublic, LoadNative, LoadFails
    <3>5. CASE Opened \/ Executed \/ Refreshed \/ Return
      BY <1>4, <3>5 DEF Opened, Executed, Refreshed, Return
    <3> QED BY <1>4, <3>1, <3>2, <3>3, <3>4, <3>5 DEF Next
  <2> QED BY <1>2, <2>1
<1> QED BY <1>1, <1>3, <1>4

\* The statement that is performed is one the plan has for its table.
LEMMA CurrentSuits ==
  ASSUME Confirmed, Progress, Carried, at = "run", next <= Len(Todo)
  PROVE  /\ StepsOK(Current.steps)
         /\ ~req.drops => \E S : Current.steps \in Seq(S) /\ \A s \in S : StmtOK(s) /\ s.op \in Additive
         /\ (/\ engine = "sqlserver" /\ Keyed(view["source"], Current.table)
             /\ Keyed(view["target"], Current.table)) => KeepsKey(Current.steps)
<1>1. next \in DOMAIN Todo
  BY RunPlan DEF Progress
<1>2. PICK p, x : p = outcome.plan /\ x = Current
  OBVIOUS
<1>3. StepsOK(x.steps) /\ Stems(p, x)
  BY <1>1, <1>2, RunPlan DEF Current
<1>4. PICK o : o = p.ops[x.op]
  OBVIOUS
<1>5. x.table = o.table
  BY <1>3, <1>4 DEF Stems
<1>6. PICK j \in DOMAIN o.sql : x.steps = o.sql[j]
  BY <1>3, <1>4 DEF Stems
<1>7. PICK e, r, v, w : e = engine /\ r = req /\ v = view["source"] /\ w = view["target"]
  OBVIOUS
<1>8. Suits(e, r, v, w, o)
  <2>1. Suited(e, r, v, w, p)
    BY <1>2, <1>7 DEF Carried
  <2> QED BY <1>3, <1>4, <2>1 DEF Suited, Stems
<1>9. ~r.drops => \E S : x.steps \in Seq(S) /\ \A s \in S : StmtOK(s) /\ s.op \in Additive
  <2>1. SUFFICES ASSUME ~r.drops
                 PROVE  \E S : x.steps \in Seq(S) /\ \A s \in S : StmtOK(s) /\ s.op \in Additive
    OBVIOUS
  <2>2. SqlOf(Additive, o.sql)
    BY <1>8, <2>1, Zenon DEF Suits
  <2>3. PICK S : o.sql \in Seq(Seq(S)) /\ \A s \in S : StmtOK(s) /\ s.op \in Additive
    BY <2>2 DEF SqlOf
  <2>4. x.steps \in Seq(S)
    BY <1>6, <2>3
  <2> QED BY <2>3, <2>4
<1>10. (e = "sqlserver" /\ Keyed(v, x.table) /\ Keyed(w, x.table)) => KeepsKey(x.steps)
  <2>1. SUFFICES ASSUME e = "sqlserver", Keyed(v, x.table), Keyed(w, x.table) PROVE KeepsKey(x.steps)
    OBVIOUS
  <2>2. StmtsKeep(o.sql)
    BY <1>5, <1>8, <2>1 DEF Suits
  <2> QED BY <1>6, <2>2 DEF StmtsKeep
<1> QED BY <1>2, <1>3, <1>7, <1>9, <1>10, Zenon

\* An execution starts with the keys its preview was computed from, and none of its
\* statements takes one away for good.
LEMMA KeyHeldStep ==
  ASSUME TypeOK, Stored, Viewed(view), Confirmed, Progress, DriftStopsExecution, DriftStopsExecution',
         Fresh, Carried, KeyHeld, [Next]_vars
  PROVE  KeyHeld'
<1>1. CASE outcome'.kind \notin {"preview", "exec"} \/ ~quiet' \/ mode' # "execute"
  BY <1>1 DEF KeyHeld
<1>2. CASE /\ UNCHANGED <<engine, mode, req, seen, db>> /\ (quiet' => quiet)
           /\ outcome'.kind \in {"preview", "exec"} => outcome.kind \in {"preview", "exec"}
  BY <1>2 DEF KeyHeld
<1>3. CASE compare_databases \/ preview_database_sync \/ execute_database_sync
  BY <1>1, <1>3 DEF compare_databases, preview_database_sync, execute_database_sync, Start, Nothing
<1>4. ASSUME NEW s \in Sides, OpenReturns(s) \/ Load(s) \/ CloseReturns(s) PROVE KeyHeld'
  BY <1>1, <1>2, <1>4 DEF OpenReturns, Load, CloseReturns, Failure
<1>5. CASE Opened
  <2>1. outcome'.kind = "none" \/ outcome'.kind = "err"
    BY <1>5 DEF Opened, Failure, Fresh
  <2> QED BY <1>1, <2>1
<1>6. CASE Build
  <2>1. CASE mode' = "execute" /\ quiet' /\ outcome'.kind \in {"preview", "exec"}
    <3>1. at = "load" /\ mode = "execute" /\ quiet /\ UNCHANGED <<engine, req, view, db>>
      BY <1>6, <2>1 DEF Build
    <3>2. outcome' # Failure
      BY <2>1 DEF Failure
    <3>3. BothRead /\ at' = "run" /\ UNCHANGED seen
      BY <1>6, <3>1, <3>2 DEF Build
    <3>4. ASSUME NEW t \in req.selected, Keyed(seen["source"], t), Keyed(seen["target"], t)
          PROVE  IsTable(db["target"][t]) /\ HasKey(db["target"][t].cols)
      <4>1. t \in Tables
        BY DEF TypeOK
      <4>2. view["target"].pub[t] = seen["target"].pub[t]
        BY <3>1, <3>3 DEF DriftStopsExecution, Sides
      <4>3. view["target"].pub[t] = PublicView(db["target"][t])
        BY <3>1, <3>3, <4>1 DEF Fresh, BothRead, Sides
      <4>4. PICK x, v : x = db["target"][t] /\ v = seen["target"].pub[t]
        OBVIOUS
      <4>5. TableOK(x) /\ v = PublicView(x) /\ v # NoTable /\ KeyColumns(v) # {}
        BY <3>4, <4>1, <4>2, <4>3, <4>4 DEF Stored, Sides, Keyed
      <4>6. IsTable(x) /\ HasKey(x.cols)
        BY <4>5, ShownKey
      <4> QED BY <4>4, <4>6
    <3> QED BY <3>1, <3>3, <3>4 DEF KeyHeld
  <2> QED BY <1>1, <2>1
<1>7. CASE Execute
  <2>1. /\ at = "run" /\ next <= Len(Todo) /\ outcome.kind = "preview"
        /\ UNCHANGED <<engine, mode, req, seen, quiet>>
    BY <1>7 DEF Execute, Succeeds, Errs, Progress
  <2>2. CASE UNCHANGED db
    BY <1>2, <2>1, <2>2
  <2>3. CASE Performed /\ engine = "sqlserver" /\ quiet /\ mode = "execute"
    <3>1. ASSUME NEW t \in req.selected, Keyed(seen["source"], t), Keyed(seen["target"], t)
          PROVE  IsTable(db'["target"][t]) /\ HasKey(db'["target"][t].cols)
      <4>1. IsTable(db["target"][t]) /\ HasKey(db["target"][t].cols)
        BY <2>1, <2>3, <3>1 DEF KeyHeld
      <4>2. PICK e, tab, steps, x, r : /\ e = engine /\ tab = Current.table /\ steps = Current.steps
                                       /\ x = db["target"][tab] /\ r = Ran
        OBVIOUS
      <4>3. r = AcceptsAll(e, x, steps) /\ r[1] /\ db' = [db EXCEPT !["target"][tab] = r[2]]
        BY <2>3, <4>2 DEF Ran, Performed
      <4>4. t \in Tables /\ DOMAIN db = Sides /\ DOMAIN db["target"] = Tables
        BY DEF TypeOK, Stored, Sides
      <4>5. CASE t # tab
        <5>1. db'["target"][t] = db["target"][t]
          BY <4>3, <4>4, <4>5 DEF Sides
        <5> QED BY <4>1, <5>1
      <4>6. CASE t = tab
        <5>1. view["source"].pub[t] = seen["source"].pub[t] /\ view["target"].pub[t] = seen["target"].pub[t]
          BY <2>1 DEF DriftStopsExecution, Sides
        <5>2. Keyed(view["source"], t) /\ Keyed(view["target"], t)
          BY <3>1, <5>1 DEF Keyed
        <5>3. KeepsKey(steps)
          BY <2>1, <2>3, <4>2, <4>6, <5>2, CurrentSuits
        <5>4. IsTable(x) /\ HasKey(x.cols)
          BY <4>1, <4>2, <4>6
        <5>5. IsTable(r[2]) /\ HasKey(r[2].cols)
          BY <4>3, <5>3, <5>4, KeysKept
        <5>6. db'["target"][t] = r[2]
          BY <4>3, <4>4, <4>6 DEF Sides
        <5> QED BY <5>5, <5>6
      <4> QED BY <4>5, <4>6
    <3> QED BY <2>1, <2>3, <3>1 DEF KeyHeld
  <2>4. CASE ~(engine = "sqlserver" /\ quiet /\ mode = "execute")
    BY <2>1, <2>4 DEF KeyHeld
  <2>5. UNCHANGED db \/ Performed
    BY <1>7 DEF Execute, Succeeds, Errs
  <2> QED BY <2>2, <2>3, <2>4, <2>5
<1>8. CASE Executed
  BY <1>2, <1>8 DEF Executed, Progress
<1>9. CASE Refreshed
  BY <1>2, <1>9 DEF Refreshed, Progress
<1>10. CASE Return \/ Browse \/ UNCHANGED vars
  BY <1>2, <1>10 DEF Return, Browse, vars, sync
<1>11. CASE Drift
  BY <1>1, <1>11 DEF Drift
<1> QED BY <1>3, <1>4, <1>5, <1>6, <1>7, <1>8, <1>9, <1>10, <1>11 DEF Next

\* On SQL Server, however an execution nobody interferes with ends, and whichever of its
\* statements fails or loses its answer, a table that had a primary key and is to have
\* one still has one: the key is replaced in one transaction
\* (build_atomic_sqlserver_batch).
THEOREM KeyIsNeverLost == Spec => []KeyNeverLost
<1> DEFINE KeyStands == Fresh /\ Carried /\ KeyHeld
<1>1. Init => KeyStands
  BY DEF Init, KeyStands, Fresh, Carried, KeyHeld, Nothing
<1>2. SInv /\ SInv' /\ KeyStands /\ [Next]_vars => KeyStands'
  <2>1. SUFFICES ASSUME SInv, SInv', KeyStands, [Next]_vars PROVE KeyStands'
    OBVIOUS
  <2>2. /\ TypeOK /\ Stored /\ Viewed(view) /\ Confirmed /\ Progress /\ DriftStopsExecution
        /\ DriftStopsExecution'
    BY <2>1 DEF SInv
  <2>3. Tables' = Tables
    BY <2>1, <2>2, StoredStep, SyncConstants
  <2>4. Fresh' /\ Carried'
    BY <2>1, <2>2, <2>3, FreshStep, CarriedStep
  <2>5. KeyHeld'
    BY <2>1, <2>2, KeyHeldStep
  <2> QED BY <2>4, <2>5
<1>3. SInv /\ KeyStands => KeyNeverLost
  <2>1. SUFFICES ASSUME SInv, KeyStands, engine = "sqlserver", quiet, mode = "execute",
                        outcome.kind \in {"preview", "exec"}, NEW t \in req.selected,
                        Keyed(seen["source"], t), Keyed(seen["target"], t)
                 PROVE  Keys(db["target"][t]) # {}
    BY DEF KeyNeverLost, Keyed
  <2>2. HasKey(db["target"][t].cols)
    BY <2>1 DEF KeyHeld
  <2>3. PICK x : x = db["target"][t]
    OBVIOUS
  <2>4. PICK c \in DOMAIN x.cols : x.cols[c].key # 0
    BY <2>2, <2>3 DEF HasKey
  <2>5. <<c, x.cols[c].key>> \in Keys(x)
    BY <2>4 DEF Keys
  <2> QED BY <2>3, <2>5
<1> QED BY <1>1, <1>2, <1>3, SyncInvariance, PTL DEF Spec

\* Without include_drops no statement an execution runs, of any engine, removes a table,
\* a column or a primary key of the target (the planners' safe branches and
\* finalize_preview, which leaves the deletions out).
THEOREM NothingDroppedUnasked ==
  ASSUME NoTableIsNone
  PROVE  Spec => DropsOptIn
<1> DEFINE Opted == (at = "run" /\ ~req.drops /\ applied' # applied) =>
                        \A t \in Tables :
                            db["target"][t] # NoTable =>
                                /\ db'["target"][t] # NoTable
                                /\ DOMAIN db["target"][t].cols \subseteq DOMAIN db'["target"][t].cols
                                /\ Keys(db["target"][t]) # {} => Keys(db'["target"][t]) = Keys(db["target"][t])
<1>1. Init => Carried
  BY DEF Init, Carried
<1>2. SInv /\ Carried /\ [Next]_vars => Carried'
  BY CarriedStep DEF SInv
<1>3. SInv /\ Carried /\ [Next]_vars => Opted
  <2>1. SUFFICES ASSUME SInv, Carried, [Next]_vars, at = "run", ~req.drops, applied' # applied,
                        NEW t \in Tables, db["target"][t] # NoTable
                 PROVE  /\ db'["target"][t] # NoTable
                        /\ DOMAIN db["target"][t].cols \subseteq DOMAIN db'["target"][t].cols
                        /\ Keys(db["target"][t]) # {} => Keys(db'["target"][t]) = Keys(db["target"][t])
    OBVIOUS
  <2>2. /\ TypeOK /\ Stored /\ Confirmed /\ Progress
    BY <2>1 DEF SInv
  <2>3. Performed /\ next <= Len(Todo)
    <3>1. CASE Execute
      BY <2>1, <3>1 DEF Execute, Succeeds, Errs
    <3>2. CASE Build \/ Executed \/ Refreshed \/ Return \/ Browse \/ Drift \/ Opened \/ UNCHANGED vars
      BY <2>1, <3>2 DEF Build, Executed, Refreshed, Return, Browse, Drift, Opened, vars, sync
    <3>3. CASE compare_databases \/ preview_database_sync \/ execute_database_sync
      BY <2>1, <3>3 DEF compare_databases, preview_database_sync, execute_database_sync, Start
    <3>4. CASE \E s \in Sides : OpenReturns(s) \/ Load(s) \/ CloseReturns(s)
      BY <2>1, <3>4 DEF OpenReturns, Load, CloseReturns
    <3> QED BY <2>1, <3>1, <3>2, <3>3, <3>4 DEF Next
  <2>4. PICK e, tab, steps, x, r : /\ e = engine /\ tab = Current.table /\ steps = Current.steps
                                   /\ x = db["target"][tab] /\ r = Ran
    OBVIOUS
  <2>5. r = AcceptsAll(e, x, steps) /\ r[1] /\ db' = [db EXCEPT !["target"][tab] = r[2]]
    BY <2>3, <2>4 DEF Ran, Performed
  <2>6. DOMAIN db = Sides /\ DOMAIN db["target"] = Tables
    BY <2>2 DEF Stored, Sides
  <2>7. CASE t # tab
    <3>1. db'["target"][t] = db["target"][t]
      BY <2>5, <2>6, <2>7 DEF Sides
    <3> QED BY <2>1, <3>1
  <2>8. CASE t = tab
    <3>1. IsTable(x)
      BY <2>1, <2>2, <2>4, <2>8 DEF Stored, TableOK, Sides
    <3>2. PICK S : steps \in Seq(S) /\ \A s \in S : StmtOK(s) /\ s.op \in Additive
      BY <2>1, <2>2, <2>3, <2>4, CurrentSuits
    <3>3. IsTable(r[2]) /\ Keeps(x.cols, r[2].cols)
      BY <2>5, <3>1, <3>2, AddingKeeps
    <3>4. db'["target"][t] = r[2] /\ db["target"][t] = x
      BY <2>4, <2>5, <2>6, <2>8 DEF Sides
    <3>5. PICK y : y = r[2]
      OBVIOUS
    <3>6. y # NoTable /\ DOMAIN x.cols \subseteq DOMAIN y.cols
      BY <3>3, <3>5 DEF NoTableIsNone, Keeps
    <3>7. ASSUME Keys(x) # {} PROVE Keys(y) = Keys(x)
      <4>1. HasKey(x.cols)
        BY <3>7 DEF Keys, HasKey
      <4>2. SameKey(x.cols, y.cols)
        BY <3>3, <3>5, <4>1 DEF Keeps
      <4> QED BY <4>2 DEF SameKey, KeyIn, Keys
    <3> QED BY <3>4, <3>5, <3>6, <3>7
  <2> QED BY <2>7, <2>8
<1> QED BY <1>1, <1>2, <1>3, SyncInvariance, PTL DEF Spec, DropsOptIn

-----------------------------------------------------------------------------
(* What a file contains *)

FileStatements ==
    [op : {"create"}, obj : Objects, n : {0}] \cup [op : {"insert"}, obj : Nat, n : Nat]
        \cup [op : {"unchecked", "begin", "commit", "checked"}, obj : {0}, n : {0}]
Rows(s) == IF s.op = "insert" THEN s.n ELSE 0

\* The statements f create each object of S once and no other, and insert n rows.
Yields(f, S, n) ==
    /\ f \in Seq(FileStatements)
    /\ \A j \in DOMAIN f : f[j].op = "create" => f[j].obj \in S
    /\ \A o \in S : \E j \in DOMAIN f : f[j] = Create(o)
    /\ \A j, k \in DOMAIN f : f[j].op = "create" /\ f[j] = f[k] => j = k
    /\ RowsIn(f) = n
\* f does not change the session.
Quiet(f) == \A j \in DOMAIN f : f[j].op \in {"create", "insert"}

\* A statement inserts a number of rows.
LEMMA RowsAre ==
  ASSUME NEW s \in FileStatements
  PROVE  Rows(s) \in Nat
  BY DEF FileStatements, Rows

\* The rows of a file are the sum of those of its statements.
LEMMA RowsInIs ==
  ASSUME NEW f \in Seq(FileStatements), NEW n \in Nat, n = Len(f)
  PROVE  \E a \in Seq(Int) :
            Len(a) = n /\ (\A j \in 1 .. n : a[j] = Rows(f[j])) /\ RowsIn(f) = Sum(a)
<1>1. PICK a : a = [j \in DOMAIN f |-> Rows(f[j])]
  OBVIOUS
<1>2. DOMAIN f = 1 .. n /\ \A j \in 1 .. n : f[j] \in FileStatements
  OBVIOUS
<1>3. \A j \in 1 .. n : Rows(f[j]) \in Int
  BY <1>2, RowsAre
<1>4. a \in [1 .. n -> Int]
  BY <1>1, <1>2, <1>3
<1>5. a \in Seq(Int) /\ Len(a) = n
  BY <1>4
<1>6. RowsIn(f) = Sum(a)
  BY <1>1 DEF RowsIn, Rows
<1> QED BY <1>1, <1>2, <1>5, <1>6

\* Nothing contains nothing.
LEMMA YieldsNone == Yields(<<>>, {}, 0) /\ Quiet(<<>>)
<1>1. <<>> \in Seq(FileStatements) /\ DOMAIN <<>> = {}
  OBVIOUS
<1>2. RowsIn(<<>>) = 0
  <2>1. [j \in DOMAIN <<>> |-> IF <<>>[j].op = "insert" THEN <<>>[j].n ELSE 0] = <<>>
    BY <1>1
  <2> QED BY <2>1, SumEmpty DEF RowsIn
<1> QED BY <1>1, <1>2 DEF Yields, Quiet

\* One statement.
LEMMA YieldsOne ==
  ASSUME NEW s \in FileStatements, NEW S, s.op = "create" => S = {s.obj}, s.op # "create" => S = {}
  PROVE  Yields(<<s>>, S, Rows(s))
<1>1. PICK f : f = <<s>>
  OBVIOUS
<1>2. f \in Seq(FileStatements) /\ Len(f) = 1 /\ f[1] = s /\ DOMAIN f = {1}
  BY <1>1
<1>3. PICK a \in Seq(Int) : Len(a) = 1 /\ (\A j \in 1 .. 1 : a[j] = Rows(f[j])) /\ RowsIn(f) = Sum(a)
  BY <1>2, RowsInIs
<1>4. Rows(s) \in Int
  BY RowsAre
<1>5. PICK r \in Int : r = Rows(s)
  BY <1>4
<1>6. a = Append(<<>>, r)
  BY <1>2, <1>3, <1>5
<1>7. Sum(a) = r
  <2>1. <<>> \in Seq(Int)
    OBVIOUS
  <2>2. PICK e \in Seq(Int) : e = <<>>
    BY <2>1, Zenon
  <2>3. Sum(e) = 0
    BY <2>2, SumEmpty
  <2>4. Sum(Append(e, r)) = Sum(e) + r
    BY SumAppend
  <2> QED BY <1>5, <1>6, <2>2, <2>3, <2>4
<1>8. RowsIn(f) = r
  BY <1>3, <1>7
<1>9. s.op = "create" => s = Create(s.obj)
  BY DEF FileStatements, Create
<1>10. \A o \in S : \E j \in DOMAIN f : f[j] = Create(o)
  BY <1>2, <1>9
<1>11. \A j \in DOMAIN f : f[j].op = "create" => f[j].obj \in S
  BY <1>2
<1>12. \A j, k \in DOMAIN f : f[j].op = "create" /\ f[j] = f[k] => j = k
  BY <1>2
<1>13. Yields(f, S, r)
  BY <1>2, <1>8, <1>10, <1>11, <1>12 DEF Yields
<1> QED BY <1>1, <1>5, <1>13

\* One part behind another.
LEMMA YieldsBoth ==
  ASSUME NEW f, NEW g, NEW S, NEW T, NEW m \in Int, NEW n \in Int, S \cap T = {},
         Yields(f, S, m), Yields(g, T, n)
  PROVE  Yields(f \o g, S \cup T, m + n)
<1>1. f \in Seq(FileStatements) /\ g \in Seq(FileStatements)
  BY DEF Yields
<1>2. PICK p \in Nat : p = Len(f)
  BY <1>1
<1>3. PICK q \in Nat : q = Len(g)
  BY <1>1
<1>4. PICK h \in Seq(FileStatements) : h = f \o g
  BY <1>1, ConcatProperties
<1>5. Len(h) = p + q
  BY <1>1, <1>2, <1>3, <1>4, ConcatProperties
<1>6. \A i \in 1 .. p + q : h[i] = IF i <= p THEN f[i] ELSE g[i - p]
  BY <1>1, <1>2, <1>3, <1>4, ConcatProperties
<1>7. DOMAIN f = 1 .. p /\ DOMAIN g = 1 .. q /\ DOMAIN h = 1 .. p + q
  BY <1>1, <1>2, <1>3, <1>5
<1>8. \A i \in 1 .. p : i \in 1 .. p + q /\ h[i] = f[i]
  BY <1>6
<1>9. \A i \in 1 .. q : p + i \in 1 .. p + q /\ h[p + i] = g[i]
  <2>1. \A i \in 1 .. q : p + i \in 1 .. p + q /\ ~(p + i <= p) /\ (p + i) - p = i
    OBVIOUS
  <2> QED BY <1>6, <2>1
<1>10. \A i \in 1 .. p + q : i \in 1 .. p \/ \E k \in 1 .. q : i = p + k
  <2>1. ASSUME NEW i \in 1 .. p + q, ~(i \in 1 .. p) PROVE \E k \in 1 .. q : i = p + k
    <3>1. i - p \in 1 .. q /\ i = p + (i - p)
      BY <2>1
    <3> QED BY <3>1
  <2> QED BY <2>1
<1>11. \A j \in 1 .. p : f[j].op = "create" => f[j].obj \in S
  BY <1>7 DEF Yields
<1>12. \A j \in 1 .. q : g[j].op = "create" => g[j].obj \in T
  BY <1>7 DEF Yields
<1>13. ASSUME NEW j \in DOMAIN h, h[j].op = "create" PROVE h[j].obj \in S \cup T
  <2>1. CASE j \in 1 .. p
    BY <1>8, <1>11, <1>13, <2>1
  <2>2. CASE \E k \in 1 .. q : j = p + k
    <3>1. PICK k \in 1 .. q : j = p + k
      BY <2>2
    <3>2. h[j] = g[k]
      BY <1>9, <3>1
    <3> QED BY <1>12, <1>13, <3>2
  <2> QED BY <1>7, <1>10, <2>1, <2>2
<1>14. \A o \in S \cup T : \E j \in DOMAIN h : h[j] = Create(o)
  <2>1. ASSUME NEW o \in S PROVE \E j \in DOMAIN h : h[j] = Create(o)
    <3>1. PICK j \in 1 .. p : f[j] = Create(o)
      BY <1>7 DEF Yields
    <3> QED BY <1>7, <1>8, <3>1
  <2>2. ASSUME NEW o \in T PROVE \E j \in DOMAIN h : h[j] = Create(o)
    <3>1. PICK j \in 1 .. q : g[j] = Create(o)
      BY <1>7 DEF Yields
    <3> QED BY <1>7, <1>9, <3>1
  <2> QED BY <2>1, <2>2
<1>15. ASSUME NEW j \in DOMAIN h, NEW k \in DOMAIN h, h[j].op = "create", h[j] = h[k] PROVE j = k
  <2>1. j \in 1 .. p + q /\ k \in 1 .. p + q
    BY <1>7
  <2>2. CASE j \in 1 .. p /\ k \in 1 .. p
    <3>1. f[j].op = "create" /\ f[j] = f[k]
      BY <1>8, <1>15, <2>2
    <3> QED BY <1>7, <2>2, <3>1 DEF Yields
  <2>3. CASE j \in 1 .. p /\ ~(k \in 1 .. p)
    <3>1. PICK c \in 1 .. q : k = p + c
      BY <1>10, <2>1, <2>3
    <3>2. f[j].op = "create" /\ f[j] = g[c]
      BY <1>8, <1>9, <1>15, <2>3, <3>1
    <3>3. f[j].obj \in S /\ f[j].obj \in T
      BY <1>11, <1>12, <2>3, <3>2
    <3> QED BY <3>3
  <2>4. CASE ~(j \in 1 .. p) /\ k \in 1 .. p
    <3>1. PICK c \in 1 .. q : j = p + c
      BY <1>10, <2>1, <2>4
    <3>2. f[k].op = "create" /\ f[k] = g[c]
      BY <1>8, <1>9, <1>15, <2>4, <3>1
    <3>3. f[k].obj \in S /\ f[k].obj \in T
      BY <1>11, <1>12, <2>4, <3>2
    <3> QED BY <3>3
  <2>5. CASE ~(j \in 1 .. p) /\ ~(k \in 1 .. p)
    <3>1. PICK c \in 1 .. q : j = p + c
      BY <1>10, <2>1, <2>5
    <3>2. PICK d \in 1 .. q : k = p + d
      BY <1>10, <2>1, <2>5
    <3>3. g[c].op = "create" /\ g[c] = g[d]
      BY <1>9, <1>15, <3>1, <3>2
    <3>4. c = d
      BY <1>7, <3>3 DEF Yields
    <3> QED BY <3>1, <3>2, <3>4
  <2> QED BY <2>2, <2>3, <2>4, <2>5
<1>16. RowsIn(h) = m + n
  <2>1. PICK a \in Seq(Int) : Len(a) = p /\ (\A j \in 1 .. p : a[j] = Rows(f[j])) /\ RowsIn(f) = Sum(a)
    BY <1>1, <1>2, RowsInIs
  <2>2. PICK b \in Seq(Int) : Len(b) = q /\ (\A j \in 1 .. q : b[j] = Rows(g[j])) /\ RowsIn(g) = Sum(b)
    BY <1>1, <1>3, RowsInIs
  <2>3. PICK r \in Nat : r = p + q
    OBVIOUS
  <2>4. PICK c \in Seq(Int) : Len(c) = r /\ (\A j \in 1 .. r : c[j] = Rows(h[j])) /\ RowsIn(h) = Sum(c)
    BY <1>5, <2>3, RowsInIs
  <2>5. PICK d \in Seq(Int) : d = a \o b
    BY ConcatProperties
  <2>6. Len(d) = r /\ \A i \in 1 .. r : d[i] = IF i <= p THEN a[i] ELSE b[i - p]
    <3>1. /\ Len(d) = Len(a) + Len(b)
          /\ \A i \in 1 .. Len(a) + Len(b) : d[i] = IF i <= Len(a) THEN a[i] ELSE b[i - Len(a)]
      BY <2>5, ConcatProperties
    <3>2. Len(a) = p /\ Len(b) = q
      BY <2>1, <2>2
    <3> QED BY <2>3, <3>1, <3>2
  <2>7. ASSUME NEW i \in 1 .. r PROVE c[i] = d[i]
    <3>1. CASE i <= p
      <4>1. i \in 1 .. p
        BY <3>1
      <4> QED BY <1>8, <2>1, <2>4, <2>6, <3>1, <4>1
    <3>2. CASE ~(i <= p)
      <4>1. i - p \in 1 .. q /\ p + (i - p) = i
        BY <2>3, <3>2
      <4>2. h[i] = g[i - p] /\ b[i - p] = Rows(g[i - p])
        BY <1>9, <2>2, <4>1
      <4> QED BY <2>4, <2>6, <3>2, <4>2
    <3> QED BY <3>1, <3>2
  <2>8. c = d
    BY <2>4, <2>6, <2>7, SeqEqual
  <2>9. Sum(d) = Sum(a) + Sum(b)
    BY <2>5, SumTwo
  <2>10. RowsIn(f) = m /\ RowsIn(g) = n
    BY DEF Yields
  <2> QED BY <2>1, <2>2, <2>4, <2>8, <2>9, <2>10
<1>17. Yields(h, S \cup T, m + n)
  BY <1>13, <1>14, <1>15, <1>16 DEF Yields
<1> QED BY <1>4, <1>17

\* What is quiet stays so when it is put together.
LEMMA QuietBoth ==
  ASSUME NEW f \in Seq(FileStatements), NEW g \in Seq(FileStatements), Quiet(f), Quiet(g)
  PROVE  Quiet(f \o g)
<1>1. PICK h : h = f \o g
  OBVIOUS
<1>2. h \in Seq(FileStatements) /\ Len(h) = Len(f) + Len(g)
      /\ \A i \in 1 .. Len(f) + Len(g) : h[i] = IF i <= Len(f) THEN f[i] ELSE g[i - Len(f)]
  BY <1>1, ConcatProperties
<1>3. ASSUME NEW i \in 1 .. Len(f) + Len(g) PROVE h[i].op \in {"create", "insert"}
  <2>1. CASE i <= Len(f)
    <3>1. i \in DOMAIN f
      BY <2>1
    <3> QED BY <1>2, <2>1, <3>1 DEF Quiet
  <2>2. CASE ~(i <= Len(f))
    <3>1. i - Len(f) \in DOMAIN g
      BY <2>2
    <3> QED BY <1>2, <2>2, <3>1 DEF Quiet
  <2> QED BY <2>1, <2>2
<1>4. DOMAIN h = 1 .. Len(f) + Len(g)
  BY <1>2
<1> QED BY <1>1, <1>3, <1>4 DEF Quiet

-----------------------------------------------------------------------------
(* The statements an export writes *)

\* Kinds of objects that are read together, and objects with different names within them.
Alike(a, b) == a = b \/ {a, b} \subseteq {"view", "mview"}
Distinct(M) == \A o, p \in M : o.name = p.name /\ Alike(o.kind, p.kind) => o = p
Group(K) == K \subseteq ObjectKinds /\ \A a, b \in K : Alike(a, b)
\* Every member of S has one place in s.
Lists(s, S) ==
    /\ s \in Seq(S)
    /\ \A o \in S : \E j \in DOMAIN s : s[j] = o
    /\ \A j, k \in DOMAIN s : s[j] = s[k] => j = k

\* Objects with different names have places by their names.
LEMMA ByNameIs ==
  ASSUME NEW S, IsFiniteSet(S), S \subseteq Objects, \A o, p \in S : o.name = p.name => o = p
  PROVE  Lists(ByName(S), S) /\ Len(ByName(S)) = Cardinality(S)
<1>1. PICK n \in Nat : n = Cardinality(S)
  BY FS_CardinalityType
<1>2. \A o \in S : o.name \in Nat
  BY DEF Objects
<1>3. PICK R : R = {q \in S \X S : q[1].name < q[2].name}
  OBVIOUS
<1>4. \A a, b \in S : <<a, b>> \in R <=> a.name < b.name
  BY <1>3
<1>5. StrictOrder(R, S)
  <2>1. ASSUME NEW a \in S, NEW b \in S PROVE ~(<<a, b>> \in R /\ <<b, a>> \in R)
    <3>1. PICK i, j : i = a.name /\ j = b.name
      OBVIOUS
    <3>2. i \in Nat /\ j \in Nat
      BY <1>2, <3>1
    <3> QED BY <1>4, <3>1, <3>2
  <2>2. \A a, b \in S : a # b => <<a, b>> \in R \/ <<b, a>> \in R
    BY <1>2, <1>4
  <2>3. \A a, b, c \in S : <<a, b>> \in R /\ <<b, c>> \in R => <<a, c>> \in R
    BY <1>2, <1>4
  <2> QED BY <2>1, <2>2, <2>3 DEF StrictOrder
<1>6. \A c \in S : {d \in S : <<d, c>> \in R} = {p \in S : p.name < c.name}
  BY <1>4
<1>7. ASSUME NEW j \in 1 .. n
      PROVE  \E o \in S : Cardinality({p \in S : p.name < o.name}) = j - 1
  <2>1. \A i \in 1 .. Cardinality(S) : \E c \in S : RankIn(R, S, c) = i
    BY <1>5, Ranking
  <2>2. PICK c \in S : RankIn(R, S, c) = j
    BY <1>1, <2>1
  <2>3. PICK A : A = {p \in S : p.name < c.name}
    OBVIOUS
  <2>4. A \in SUBSET S
    BY <2>3
  <2>5. Cardinality(A) \in Nat
    BY <2>4, FS_Subset, FS_CardinalityType
  <2>6. Cardinality(A) + 1 = j
    BY <1>6, <2>2, <2>3 DEF RankIn
  <2>7. Cardinality(A) = j - 1
    BY <2>5, <2>6
  <2> QED BY <2>3, <2>7
<1>8. PICK s : s = ByName(S)
  OBVIOUS
<1>9. \A j \in 1 .. n : s[j] \in S /\ Cardinality({p \in S : p.name < s[j].name}) = j - 1
  <2>1. \A j \in 1 .. n : s[j] = CHOOSE o \in S : Cardinality({p \in S : p.name < o.name}) = j - 1
    BY <1>1, <1>8 DEF ByName
  <2> QED BY <1>7, <2>1
<1>10. s \in [1 .. n -> S]
  <2> DEFINE P(j) == CHOOSE o \in S : Cardinality({p \in S : p.name < o.name}) = j - 1
  <2>a. s = [j \in 1 .. n |-> P(j)]
    BY <1>1, <1>8 DEF ByName
  <2> HIDE DEF P
  <2>1. s = [j \in 1 .. n |-> s[j]]
    BY <2>a
  <2> QED BY <1>9, <2>1
<1>11. s \in Seq(S) /\ Len(s) = n /\ DOMAIN s = 1 .. n
  BY <1>10
<1>12. \A j, k \in 1 .. n : s[j] = s[k] => j = k
  <2>1. ASSUME NEW j \in 1 .. n, NEW k \in 1 .. n, s[j] = s[k] PROVE j = k
    <3>1. j - 1 = k - 1
      BY <1>9, <2>1
    <3> QED BY <3>1
  <2> QED BY <2>1
<1>13. \A o \in S : \E j \in 1 .. n : s[j] = o
  <2>1. PICK I : I = 1 .. n
    OBVIOUS
  <2>2. IsFiniteSet(I) /\ Cardinality(I) = n
    <3>1. IsFiniteSet(1 .. n) /\ Cardinality(1 .. n) = IF 1 > n THEN 0 ELSE n - 1 + 1
      BY FS_Interval
    <3> QED BY <2>1, <3>1
  <2>3. s \in Injection(I, S)
    BY <1>10, <1>12, <2>1 DEF Injection, IsInjective
  <2>4. s \in Surjection(I, S)
    BY <1>1, <2>2, <2>3, FS_Injection
  <2> QED BY <2>1, <2>4 DEF Surjection
<1> QED BY <1>1, <1>8, <1>11, <1>12, <1>13 DEF Lists

\* The objects of a group of kinds.
LEMMA OfIs ==
  ASSUME NEW M, IsFiniteSet(M), M \subseteq Objects, Distinct(M), NEW K, Group(K)
  PROVE  /\ Lists(Of(M, K), {o \in M : o.kind \in K})
         /\ Len(Of(M, K)) = Cardinality({o \in M : o.kind \in K})
<1>1. PICK S : S = {o \in M : o.kind \in K}
  OBVIOUS
<1>2. S \in SUBSET M
  BY <1>1
<1>3. IsFiniteSet(S)
  BY <1>2, FS_Subset
<1>4. \A o, p \in S : o.name = p.name => o = p
  BY <1>1 DEF Distinct, Group
<1>5. S \subseteq Objects
  BY <1>2
<1>6. Lists(ByName(S), S) /\ Len(ByName(S)) = Cardinality(S)
  BY <1>3, <1>4, <1>5, ByNameIs
<1> QED BY <1>1, <1>6 DEF Of

\* The statement that creates an object.
LEMMA CreatingIs ==
  ASSUME NEW o \in Objects
  PROVE  /\ Create(o) \in FileStatements /\ Create(o).op = "create" /\ Create(o).obj = o
         /\ Rows(Create(o)) = 0
  BY DEF Create, FileStatements, Rows

\* Members of S, created one after the other.
LEMMA CreatesOf ==
  ASSUME NEW S, S \subseteq Objects, NEW s, Lists(s, S)
  PROVE  LET f == [j \in DOMAIN s |-> Create(s[j])] IN Yields(f, S, 0) /\ Quiet(f)
<1>1. PICK n \in Nat : n = Len(s)
  BY DEF Lists
<1>2. s \in [1 .. n -> S] /\ DOMAIN s = 1 .. n
  BY <1>1 DEF Lists
<1>3. PICK f : f = [j \in DOMAIN s |-> Create(s[j])]
  OBVIOUS
<1>4. \A j \in 1 .. n : s[j] \in Objects /\ f[j] = Create(s[j])
  BY <1>2, <1>3
<1>5. \A j \in 1 .. n : f[j] \in FileStatements /\ f[j].op = "create" /\ f[j].obj = s[j] /\ Rows(f[j]) = 0
  BY <1>4, CreatingIs
<1>6. f \in [1 .. n -> FileStatements]
  BY <1>2, <1>3, <1>5
<1>7. f \in Seq(FileStatements) /\ Len(f) = n /\ DOMAIN f = 1 .. n
  BY <1>6
<1>8. RowsIn(f) = 0
  <2>1. PICK a \in Seq(Int) : Len(a) = n /\ (\A j \in 1 .. n : a[j] = Rows(f[j])) /\ RowsIn(f) = Sum(a)
    BY <1>7, RowsInIs
  <2>2. \A j \in 1 .. Len(a) : a[j] = 0
    BY <1>5, <2>1
  <2> QED BY <2>1, <2>2, SumZero
<1>9. \A j \in DOMAIN f : f[j].op = "create" => f[j].obj \in S
  BY <1>2, <1>5, <1>7
<1>10. \A o \in S : \E j \in DOMAIN f : f[j] = Create(o)
  BY <1>2, <1>4, <1>7 DEF Lists
<1>11. \A j, k \in DOMAIN f : f[j].op = "create" /\ f[j] = f[k] => j = k
  <2>1. ASSUME NEW j \in 1 .. n, NEW k \in 1 .. n, f[j] = f[k] PROVE j = k
    <3>1. s[j] = s[k]
      BY <1>5, <2>1
    <3> QED BY <1>2, <3>1 DEF Lists
  <2> QED BY <1>7, <2>1
<1>12. Yields(f, S, 0)
  BY <1>7, <1>8, <1>9, <1>10, <1>11 DEF Yields
<1>13. Quiet(f)
  BY <1>5, <1>7 DEF Quiet
<1> QED BY <1>3, <1>12, <1>13

\* Creates writes the objects of a group of kinds.
LEMMA CreatesIs ==
  ASSUME NEW M, IsFiniteSet(M), M \subseteq Objects, Distinct(M), NEW K, Group(K)
  PROVE  Yields(Creates(M, K), {o \in M : o.kind \in K}, 0) /\ Quiet(Creates(M, K))
<1>1. PICK S : S = {o \in M : o.kind \in K}
  OBVIOUS
<1>2. PICK s : s = Of(M, K)
  OBVIOUS
<1>3. Lists(s, S) /\ S \subseteq Objects
  BY <1>1, <1>2, OfIs
<1>4. LET f == [j \in DOMAIN s |-> Create(s[j])] IN Yields(f, S, 0) /\ Quiet(f)
  BY <1>3, CreatesOf
<1> QED BY <1>1, <1>2, <1>4 DEF Creates

\* Numbers of rows, by table.
Counts(R) == R \in [DOMAIN R -> Nat]

\* What was read of a table is a number of rows.
LEMMA GivenIs ==
  ASSUME NEW R, Counts(R), NEW t
  PROVE  Given(R, t) \in Nat
  BY DEF Given, Counts

\* The rows of one table.
LEMMA InsertsIs ==
  ASSUME NEW R, Counts(R), NEW t \in Nat
  PROVE  Yields(Inserts(R, t), {}, Given(R, t)) /\ Quiet(Inserts(R, t))
<1>1. PICK n \in Nat : n = Given(R, t)
  BY GivenIs
<1>2. CASE n > 0
  <2>1. PICK s : s = Insert(t, n)
    OBVIOUS
  <2>2. s \in FileStatements /\ s.op = "insert" /\ Rows(s) = n
    BY <2>1 DEF Insert, FileStatements, Rows
  <2>3. Yields(<<s>>, {}, Rows(s))
    BY <2>2, YieldsOne
  <2>4. Inserts(R, t) = <<s>>
    BY <1>1, <1>2, <2>1 DEF Inserts
  <2>5. Quiet(<<s>>)
    BY <2>2 DEF Quiet
  <2> QED BY <1>1, <2>2, <2>3, <2>4, <2>5
<1>3. CASE ~(n > 0)
  <2>1. Inserts(R, t) = <<>> /\ n = 0
    BY <1>1, <1>3 DEF Inserts
  <2> QED BY <1>1, <2>1, YieldsNone
<1> QED BY <1>2, <1>3

\* Many parts one behind another: what they contain adds up.
AllOf(G, n) == UNION {G[i] : i \in 1 .. n}

\* Parts that yield different objects yield all of them one behind another.
LEMMA YieldsFlat ==
  ASSUME NEW M, NEW seqs \in Seq(Seq(FileStatements)), NEW N \in Nat, N = Len(seqs),
         NEW G \in [1 .. N -> SUBSET M], NEW a \in Seq(Int), Len(a) = N,
         \A i \in 1 .. N : Yields(seqs[i], G[i], a[i]),
         \A i, j \in 1 .. N : i # j => G[i] \cap G[j] = {}
  PROVE  Yields(FlattenSeq(seqs), AllOf(G, N), Sum(a))
<1>1. PICK h : h \in Joins(FileStatements, seqs, N)
  BY Flattening
<1>2. /\ h[0] = <<>> /\ \A n \in 1 .. N : h[n] = h[n - 1] \o seqs[n]
      /\ FlattenSeq(seqs) = h[N]
  BY <1>1 DEF Joins
<1> DEFINE U(n) == UNION {G[i] : i \in 1 .. n}
           T == {n \in 0 .. N : Yields(h[n], U(n), SumTo(a, n))}
<1>3. 0 \in T
  <2>1. U(0) = {}
    OBVIOUS
  <2>2. SumTo(a, 0) = 0
    <3>1. 0 \in 0 .. Len(a)
      OBVIOUS
    <3> QED BY <3>1, SumToDef
  <2>3. Yields(h[0], U(0), SumTo(a, 0))
    BY <1>2, <2>1, <2>2, YieldsNone
  <2> QED BY <2>3
<1>4. ASSUME NEW n \in 1 .. N, n - 1 \in T PROVE n \in T
  <2>1. n - 1 \in 0 .. Len(a) /\ n \in 0 .. Len(a) /\ n # 0 /\ n \in 0 .. N
    OBVIOUS
  <2>2. PICK f, g : f = h[n - 1] /\ g = seqs[n]
    OBVIOUS
  <2>3. PICK m \in Int : m = SumTo(a, n - 1)
    BY <2>1, SumToDef
  <2>4. PICK k \in Int : k = a[n]
    BY <2>1
  <2>5. PICK A, B : A = U(n - 1) /\ B = G[n]
    OBVIOUS
  <2>6. Yields(f, A, m)
    BY <1>4, <2>2, <2>3, <2>5
  <2>7. Yields(g, B, k)
    BY <2>2, <2>4, <2>5
  <2>8. A \cap B = {}
    <3>1. ASSUME NEW x \in A, x \in B PROVE FALSE
      <4>1. PICK i \in 1 .. n - 1 : x \in G[i]
        BY <2>5, <3>1
      <4>2. i \in 1 .. N /\ i # n
        BY <4>1
      <4>3. G[i] \cap G[n] = {}
        BY <4>2
      <4> QED BY <2>5, <3>1, <4>1, <4>3
    <3> QED BY <3>1
  <2>9. Yields(f \o g, A \cup B, m + k)
    BY <2>6, <2>7, <2>8, YieldsBoth
  <2>10. U(n) = A \cup B
    <3>1. \A i \in 1 .. n : i \in 1 .. n - 1 \/ i = n
      OBVIOUS
    <3>2. \A i \in 1 .. n - 1 : i \in 1 .. n
      OBVIOUS
    <3>3. n \in 1 .. n
      OBVIOUS
    <3>4. U(n) \subseteq A \cup B
      BY <2>5, <3>1
    <3>5. A \subseteq U(n) /\ B \subseteq U(n)
      BY <2>5, <3>2, <3>3
    <3> QED BY <3>4, <3>5
  <2>11. SumTo(a, n) = m + k
    BY <2>1, <2>3, <2>4, SumToDef
  <2>12. h[n] = f \o g
    BY <1>2, <2>2
  <2>13. Yields(h[n], U(n), SumTo(a, n))
    BY <2>9, <2>10, <2>11, <2>12
  <2> QED BY <2>1, <2>13
<1>5. 0 .. N \subseteq T
  <2> HIDE DEF T
  <2> QED BY <1>3, <1>4, InductionUpTo
<1>6. N \in T
  <2> HIDE DEF T
  <2> QED BY <1>5
<1>7. Yields(h[N], U(N), SumTo(a, N))
  BY <1>6
<1> QED BY <1>2, <1>7 DEF Sum, AllOf

\* Quiet parts one behind another are quiet.
LEMMA QuietFlat ==
  ASSUME NEW seqs \in Seq(Seq(FileStatements)), \A i \in DOMAIN seqs : Quiet(seqs[i])
  PROVE  Quiet(FlattenSeq(seqs))
<1>1. PICK T : T = {s \in FileStatements : s.op \in {"create", "insert"}}
  OBVIOUS
<1>2. \A i \in DOMAIN seqs : seqs[i] \in Seq(T)
  <2>1. ASSUME NEW i \in DOMAIN seqs PROVE seqs[i] \in Seq(T)
    <3>1. PICK f \in Seq(FileStatements) : f = seqs[i]
      OBVIOUS
    <3>2. \A j \in 1 .. Len(f) : f[j] \in T
      BY <1>1, <3>1 DEF Quiet
    <3>3. f \in [1 .. Len(f) -> T]
      BY <3>2
    <3> QED BY <3>1, <3>3
  <2> QED BY <2>1
<1>3. seqs \in Seq(Seq(T))
  <2>1. PICK n \in Nat : n = Len(seqs)
    OBVIOUS
  <2>2. seqs \in [1 .. n -> Seq(T)]
    BY <1>2, <2>1
  <2> QED BY <2>2
<1>4. FlattenSeq(seqs) \in Seq(T)
  BY <1>3, FlattenIs
<1>5. PICK f \in Seq(T) : f = FlattenSeq(seqs)
  BY <1>4
<1>6. \A j \in DOMAIN f : f[j] \in T
  OBVIOUS
<1> QED BY <1>1, <1>5, <1>6 DEF Quiet

\* The tables of M in order, their numbers of rows and their total.
Amounts(a, M, R) ==
    /\ a \in Seq(Int) /\ Len(a) = Len(ListedTables(M))
    /\ \A j \in 1 .. Len(a) : a[j] = Given(R, ListedTables(M)[j].name)
    /\ Total(M, R) = Sum(a)
TablesIn(M) == {o \in M : o.kind = "table"}

\* Every table has one place among the listed ones.
LEMMA ListedIs ==
  ASSUME NEW M, IsFiniteSet(M), M \subseteq Objects, Distinct(M)
  PROVE  /\ Lists(ListedTables(M), TablesIn(M)) /\ TablesIn(M) \subseteq Objects
         /\ Len(ListedTables(M)) = Cardinality(TablesIn(M))
<1>1. Group({"table"})
  BY DEF Group, Alike, ObjectKinds
<1>2. {o \in M : o.kind \in {"table"}} = TablesIn(M)
  BY DEF TablesIn
<1> QED BY <1>1, <1>2, OfIs DEF ListedTables, TablesIn

\* The rows of the listed tables add up to the total.
LEMMA AmountsAre ==
  ASSUME NEW M, IsFiniteSet(M), M \subseteq Objects, Distinct(M), NEW R, Counts(R)
  PROVE  (\E a : Amounts(a, M, R)) /\ Total(M, R) \in Int
<1>1. PICK s : s = ListedTables(M)
  OBVIOUS
<1>2. PICK n \in Nat : n = Len(s)
  BY <1>1, ListedIs DEF Lists
<1>3. PICK a : a = [j \in 1 .. n |-> Given(R, s[j].name)]
  OBVIOUS
<1>4. \A j \in 1 .. n : Given(R, s[j].name) \in Int
  BY GivenIs
<1>5. a \in [1 .. n -> Int]
  BY <1>3, <1>4
<1>6. a \in Seq(Int) /\ Len(a) = n
  BY <1>5
<1>7. Total(M, R) = Sum(a)
  BY <1>1, <1>2, <1>3 DEF Total
<1>8. Amounts(a, M, R)
  BY <1>1, <1>2, <1>3, <1>6, <1>7 DEF Amounts
<1>9. Sum(a) \in Int
  BY <1>6, SumType
<1> QED BY <1>7, <1>8, <1>9

\* The rows of all tables.
LEMMA AllInsertsAre ==
  ASSUME NEW M, IsFiniteSet(M), M \subseteq Objects, Distinct(M), NEW R, Counts(R)
  PROVE  Yields(AllInserts(M, R), {}, Total(M, R)) /\ Quiet(AllInserts(M, R))
<1>1. PICK s : s = ListedTables(M)
  OBVIOUS
<1>2. s \in Seq(TablesIn(M)) /\ TablesIn(M) \subseteq Objects
  BY <1>1, ListedIs DEF Lists
<1>3. PICK n \in Nat : n = Len(s)
  BY <1>2
<1>4. PICK a : Amounts(a, M, R)
  BY AmountsAre
<1>5. a \in Seq(Int) /\ Len(a) = n /\ (\A j \in 1 .. n : a[j] = Given(R, s[j].name)) /\ Total(M, R) = Sum(a)
  BY <1>1, <1>3, <1>4 DEF Amounts
<1>6. PICK q : q = [j \in DOMAIN s |-> Inserts(R, s[j].name)]
  OBVIOUS
<1>7. DOMAIN s = 1 .. n /\ \A j \in 1 .. n : s[j].name \in Nat
  BY <1>2, <1>3 DEF Objects
<1>8. \A j \in 1 .. n : Yields(q[j], {}, a[j]) /\ Quiet(q[j])
  <2>1. ASSUME NEW j \in 1 .. n PROVE Yields(q[j], {}, a[j]) /\ Quiet(q[j])
    <3>1. PICK t \in Nat : t = s[j].name
      BY <1>7
    <3>2. Yields(Inserts(R, t), {}, Given(R, t)) /\ Quiet(Inserts(R, t))
      BY InsertsIs
    <3>3. q[j] = Inserts(R, t) /\ a[j] = Given(R, t)
      BY <1>5, <1>6, <1>7, <3>1
    <3> QED BY <3>2, <3>3
  <2> QED BY <2>1
<1>9. \A j \in 1 .. n : q[j] \in Seq(FileStatements)
  BY <1>8 DEF Yields
<1>10. q \in [1 .. n -> Seq(FileStatements)]
  BY <1>6, <1>7, <1>9
<1>11. q \in Seq(Seq(FileStatements)) /\ Len(q) = n
  BY <1>10
<1>12. PICK G : G = [j \in 1 .. n |-> {}]
  OBVIOUS
<1>13. G \in [1 .. n -> SUBSET {}] /\ (\A i \in 1 .. n : G[i] = {})
  BY <1>12
<1>14. \A i \in 1 .. n : Yields(q[i], G[i], a[i])
  BY <1>8, <1>13
<1>15. \A i, j \in 1 .. n : i # j => G[i] \cap G[j] = {}
  BY <1>13
<1>16. Yields(FlattenSeq(q), AllOf(G, n), Sum(a))
  <2>1. PICK S : S = {}
    OBVIOUS
  <2>2. G \in [1 .. n -> SUBSET S] /\ q \in Seq(Seq(FileStatements)) /\ n = Len(q) /\ a \in Seq(Int) /\ Len(a) = n
    BY <1>5, <1>11, <1>13, <2>1
  <2> QED BY <1>14, <1>15, <2>2, YieldsFlat
<1>17. AllOf(G, n) = {}
  BY <1>13 DEF AllOf
<1>18. Quiet(FlattenSeq(q))
  <2>1. \A i \in DOMAIN q : Quiet(q[i])
    <3>1. DOMAIN q = 1 .. n
      BY <1>11
    <3> QED BY <1>8, <3>1
  <2>2. q \in Seq(Seq(FileStatements))
    BY <1>11
  <2> QED BY <2>1, <2>2, QuietFlat
<1>19. AllInserts(M, R) = FlattenSeq(q)
  BY <1>1, <1>6 DEF AllInserts, ListedTables
<1> QED BY <1>5, <1>16, <1>17, <1>18, <1>19

\* Every table followed by its rows.
LEMMA TablesWithDataAre ==
  ASSUME NEW M, IsFiniteSet(M), M \subseteq Objects, Distinct(M), NEW R, Counts(R)
  PROVE  /\ Yields(TablesWithData(M, R), TablesIn(M), Total(M, R))
         /\ Quiet(TablesWithData(M, R))
<1>1. PICK s : s = ListedTables(M)
  OBVIOUS
<1>2. Lists(s, TablesIn(M)) /\ TablesIn(M) \subseteq Objects
  BY <1>1, ListedIs
<1>2a. s \in Seq(TablesIn(M))
  BY <1>2 DEF Lists
<1>3. PICK n \in Nat : n = Len(s)
  BY <1>2a
<1>4. PICK a : Amounts(a, M, R)
  BY AmountsAre
<1>5. a \in Seq(Int) /\ Len(a) = n /\ (\A j \in 1 .. n : a[j] = Given(R, s[j].name)) /\ Total(M, R) = Sum(a)
  BY <1>1, <1>3, <1>4 DEF Amounts
<1>6. PICK q : q = [j \in DOMAIN s |-> <<Create(s[j])>> \o Inserts(R, s[j].name)]
  OBVIOUS
<1>7. DOMAIN s = 1 .. n /\ \A j \in 1 .. n : s[j] \in TablesIn(M) /\ s[j] \in Objects
  BY <1>2, <1>2a, <1>3
<1>8. \A j \in 1 .. n : Yields(q[j], {s[j]}, a[j]) /\ Quiet(q[j])
  <2>1. ASSUME NEW j \in 1 .. n PROVE Yields(q[j], {s[j]}, a[j]) /\ Quiet(q[j])
    <3>1. PICK o \in Objects : o = s[j]
      BY <1>7
    <3>2. PICK t \in Nat : t = o.name
      BY DEF Objects
    <3>3. Yields(Inserts(R, t), {}, Given(R, t)) /\ Quiet(Inserts(R, t))
      BY InsertsIs
    <3>4. PICK c : c = Create(o)
      OBVIOUS
    <3>5. c \in FileStatements /\ c.op = "create" /\ c.obj = o /\ Rows(c) = 0
      BY <3>4, CreatingIs
    <3>6. PICK S : S = {o}
      OBVIOUS
    <3>7. Yields(<<c>>, S, Rows(c))
      BY <3>5, <3>6, YieldsOne
    <3>8. PICK m, f, g : m = Given(R, t) /\ f = <<c>> /\ g = Inserts(R, t)
      OBVIOUS
    <3>9. m \in Int
      BY <3>8, GivenIs
    <3>10. Yields(f, S, 0) /\ Yields(g, {}, m) /\ S \cap {} = {}
      BY <3>3, <3>5, <3>7, <3>8
    <3>11. Yields(f \o g, S \cup {}, 0 + m)
      <4>1. PICK T, z : T = {} /\ z = 0
        OBVIOUS
      <4>2. z \in Int /\ S \cap T = {} /\ Yields(f, S, z) /\ Yields(g, T, m)
        BY <3>10, <4>1
      <4>3. Yields(f \o g, S \cup T, z + m)
        BY <3>9, <4>2, YieldsBoth
      <4> QED BY <4>1, <4>3
    <3>12. f \in Seq(FileStatements) /\ g \in Seq(FileStatements) /\ Quiet(f) /\ Quiet(g)
      BY <3>3, <3>5, <3>8, <3>10 DEF Yields, Quiet
    <3>13. Quiet(f \o g)
      BY <3>12, QuietBoth
    <3>14. S \cup {} = S /\ 0 + m = m
      BY <3>9
    <3>15. q[j] = f \o g /\ a[j] = m
      BY <1>5, <1>6, <1>7, <3>1, <3>2, <3>4, <3>8
    <3> QED BY <3>1, <3>6, <3>11, <3>13, <3>14, <3>15
  <2> QED BY <2>1
<1>9. \A j \in 1 .. n : q[j] \in Seq(FileStatements)
  BY <1>8 DEF Yields
<1>10. q \in [1 .. n -> Seq(FileStatements)]
  BY <1>6, <1>7, <1>9
<1>11. q \in Seq(Seq(FileStatements)) /\ Len(q) = n
  BY <1>10
<1>12. PICK G : G = [j \in 1 .. n |-> {s[j]}]
  OBVIOUS
<1>13. G \in [1 .. n -> SUBSET TablesIn(M)] /\ (\A i \in 1 .. n : G[i] = {s[i]})
  BY <1>7, <1>12
<1>14. \A i \in 1 .. n : Yields(q[i], G[i], a[i])
  BY <1>8, <1>13
<1>15. \A i, j \in 1 .. n : i # j => G[i] \cap G[j] = {}
  <2>1. \A i, j \in 1 .. n : i # j => s[i] # s[j]
    BY <1>2, <1>7 DEF Lists
  <2> QED BY <1>13, <2>1
<1>16. Yields(FlattenSeq(q), AllOf(G, n), Sum(a))
  <2>1. PICK S : S = TablesIn(M)
    OBVIOUS
  <2>2. G \in [1 .. n -> SUBSET S] /\ q \in Seq(Seq(FileStatements)) /\ n = Len(q) /\ a \in Seq(Int) /\ Len(a) = n
    BY <1>5, <1>11, <1>13, <2>1
  <2> QED BY <1>14, <1>15, <2>2, YieldsFlat
<1>17. AllOf(G, n) = TablesIn(M)
  <2>1. \A o \in TablesIn(M) : \E j \in 1 .. n : s[j] = o
    BY <1>2, <1>7 DEF Lists
  <2>2. \A o \in TablesIn(M) : \E j \in 1 .. n : o \in G[j]
    BY <1>13, <2>1
  <2>3. \A j \in 1 .. n : G[j] \subseteq TablesIn(M)
    BY <1>13
  <2> QED BY <2>2, <2>3 DEF AllOf
<1>18. Quiet(FlattenSeq(q))
  <2>1. \A i \in DOMAIN q : Quiet(q[i])
    <3>1. DOMAIN q = 1 .. n
      BY <1>11
    <3> QED BY <1>8, <3>1
  <2>2. q \in Seq(Seq(FileStatements))
    BY <1>11
  <2> QED BY <2>1, <2>2, QuietFlat
<1>19. TablesWithData(M, R) = FlattenSeq(q)
  BY <1>1, <1>6 DEF TablesWithData, ListedTables
<1> QED BY <1>5, <1>16, <1>17, <1>18, <1>19

-----------------------------------------------------------------------------
(* The scripts *)

KindsIn(M, K) == {o \in M : o.kind \in K}
QuietPart(f, S, n) == Yields(f, S, n) /\ Quiet(f)

\* Quiet parts with different kinds of objects.
LEMMA BodyThen ==
  ASSUME NEW M, NEW K, NEW L, K \cap L = {}, NEW m \in Int, NEW n \in Int, NEW f, NEW g,
         QuietPart(f, KindsIn(M, K), m), QuietPart(g, KindsIn(M, L), n)
  PROVE  QuietPart(f \o g, KindsIn(M, K \cup L), m + n)
<1>1. PICK S, T : S = KindsIn(M, K) /\ T = KindsIn(M, L)
  OBVIOUS
<1>2. S \cap T = {}
  BY <1>1 DEF KindsIn
<1>3. S \cup T = KindsIn(M, K \cup L)
  BY <1>1 DEF KindsIn
<1>4. Yields(f, S, m) /\ Yields(g, T, n) /\ Quiet(f) /\ Quiet(g)
  BY <1>1 DEF QuietPart
<1>5. Yields(f \o g, S \cup T, m + n)
  BY <1>2, <1>4, YieldsBoth
<1>6. f \in Seq(FileStatements) /\ g \in Seq(FileStatements)
  BY <1>4 DEF Yields
<1>7. Quiet(f \o g)
  BY <1>4, <1>6, QuietBoth
<1> QED BY <1>3, <1>5, <1>7 DEF QuietPart

\* The objects of a group of kinds behind a part without them.
LEMMA BodyCreates ==
  ASSUME NEW M, IsFiniteSet(M), M \subseteq Objects, Distinct(M),
         NEW K, NEW L, K \cap L = {}, Group(L), NEW m \in Int, NEW f, QuietPart(f, KindsIn(M, K), m)
  PROVE  QuietPart(f \o Creates(M, L), KindsIn(M, K \cup L), m)
<1>1. PICK g : g = Creates(M, L)
  OBVIOUS
<1>2. PICK z : z = 0
  OBVIOUS
<1>3. QuietPart(g, KindsIn(M, L), z) /\ z \in Int
  BY <1>1, <1>2, CreatesIs DEF QuietPart, KindsIn
<1>4. QuietPart(f \o g, KindsIn(M, K \cup L), m + z)
  BY <1>3, BodyThen
<1>5. m + z = m
  BY <1>2
<1> QED BY <1>1, <1>4, <1>5

\* The rows of all tables behind a part without rows.
LEMMA BodyInserts ==
  ASSUME NEW M, IsFiniteSet(M), M \subseteq Objects, Distinct(M), NEW R, Counts(R),
         NEW K, NEW f, QuietPart(f, KindsIn(M, K), 0)
  PROVE  QuietPart(f \o AllInserts(M, R), KindsIn(M, K), Total(M, R))
<1>1. PICK g : g = AllInserts(M, R)
  OBVIOUS
<1>2. PICK m \in Int : m = Total(M, R)
  BY AmountsAre
<1>3. PICK z, L : z = 0 /\ L = {}
  OBVIOUS
<1>4. KindsIn(M, L) = {}
  BY <1>3 DEF KindsIn
<1>5. QuietPart(g, KindsIn(M, L), m) /\ z \in Int /\ K \cap L = {} /\ QuietPart(f, KindsIn(M, K), z)
  BY <1>1, <1>2, <1>3, <1>4, AllInsertsAre DEF QuietPart
<1>6. QuietPart(f \o g, KindsIn(M, K \cup L), z + m)
  BY <1>5, BodyThen
<1>7. K \cup L = K /\ z + m = m
  BY <1>3
<1> QED BY <1>1, <1>2, <1>6, <1>7

\* What the catalogue queries of each engine find.
Found(e) ==
    CASE e = "mysql" -> {"table", "view", "trigger", "event"}
      [] e = "sqlite" -> {"table", "view", "index", "trigger"}
      [] e = "clickhouse" -> {"table", "view", "mview"}
      [] e = "postgres" -> {"table", "view", "mview", "index", "fk", "trigger", "routine"}
      [] OTHER -> {"table", "view", "index", "fk", "trigger", "routine"}

\* The groups of kinds the scripts are made of.
LEMMA Groups ==
  /\ Group({"table"}) /\ Group({"view"}) /\ Group({"view", "mview"}) /\ Group({"index"})
  /\ Group({"fk"}) /\ Group({"trigger"}) /\ Group({"routine"}) /\ Group({"event"})
  BY DEF Group, Alike, ObjectKinds

\* PostgreSQL and SQL Server: the script creates what was read and inserts what was read.
LEMMA SchemaScriptIs ==
  ASSUME NEW M, IsFiniteSet(M), M \subseteq Objects, Distinct(M), NEW R, Counts(R),
         \A o \in M : o.kind \in Found("postgres") \cup Found("sqlserver")
  PROVE  QuietPart(SchemaScript(M, R), M, Total(M, R))
<1>1. PICK m \in Int : m = Total(M, R)
  BY AmountsAre
<1>2. PICK K1, K2, K3, K4, K5, K6 :
         /\ K1 = {"table"} /\ K2 = {"routine"} /\ K3 = {"view", "mview"} /\ K4 = {"index"}
         /\ K5 = {"fk"} /\ K6 = {"trigger"}
  OBVIOUS
<1>3. Group(K1) /\ Group(K2) /\ Group(K3) /\ Group(K4) /\ Group(K5) /\ Group(K6)
  BY <1>2, Groups
<1>4. PICK z : z = 0
  OBVIOUS
<1>5. PICK f1 : f1 = Creates(M, K1)
  OBVIOUS
<1>6. QuietPart(f1, KindsIn(M, K1), z) /\ z \in Int
  BY <1>3, <1>4, <1>5, CreatesIs DEF QuietPart, KindsIn
<1>7. PICK f2 : f2 = f1 \o Creates(M, K2)
  OBVIOUS
<1>8. PICK L2 : L2 = K1 \cup K2
  OBVIOUS
<1>9. QuietPart(f2, KindsIn(M, L2), z)
  <2>1. K1 \cap K2 = {}
    BY <1>2
  <2>2. QuietPart(f1 \o Creates(M, K2), KindsIn(M, K1 \cup K2), z)
    BY <1>3, <1>6, <2>1, BodyCreates
  <2> QED BY <1>7, <1>8, <2>2
<1>10. PICK f3 : f3 = f2 \o AllInserts(M, R)
  OBVIOUS
<1>11. QuietPart(f3, KindsIn(M, L2), m)
  <2>1. QuietPart(f2, KindsIn(M, L2), 0)
    BY <1>4, <1>9
  <2>2. QuietPart(f2 \o AllInserts(M, R), KindsIn(M, L2), Total(M, R))
    BY <2>1, BodyInserts
  <2> QED BY <1>1, <1>10, <2>2
<1>12. PICK f4 : f4 = f3 \o Creates(M, K3)
  OBVIOUS
<1>13. PICK L3 : L3 = L2 \cup K3
  OBVIOUS
<1>14. QuietPart(f4, KindsIn(M, L3), m)
  <2>1. L2 \cap K3 = {}
    BY <1>2, <1>8
  <2>2. QuietPart(f3 \o Creates(M, K3), KindsIn(M, L2 \cup K3), m)
    BY <1>3, <1>11, <2>1, BodyCreates
  <2> QED BY <1>12, <1>13, <2>2
<1>15. PICK f5 : f5 = f4 \o Creates(M, K4)
  OBVIOUS
<1>16. PICK L4 : L4 = L3 \cup K4
  OBVIOUS
<1>17. QuietPart(f5, KindsIn(M, L4), m)
  <2>1. L3 \cap K4 = {}
    BY <1>2, <1>8, <1>13
  <2>2. QuietPart(f4 \o Creates(M, K4), KindsIn(M, L3 \cup K4), m)
    BY <1>3, <1>14, <2>1, BodyCreates
  <2> QED BY <1>15, <1>16, <2>2
<1>18. PICK f6 : f6 = f5 \o Creates(M, K5)
  OBVIOUS
<1>19. PICK L5 : L5 = L4 \cup K5
  OBVIOUS
<1>20. QuietPart(f6, KindsIn(M, L5), m)
  <2>1. L4 \cap K5 = {}
    BY <1>2, <1>8, <1>13, <1>16
  <2>2. QuietPart(f5 \o Creates(M, K5), KindsIn(M, L4 \cup K5), m)
    BY <1>3, <1>17, <2>1, BodyCreates
  <2> QED BY <1>18, <1>19, <2>2
<1>21. QuietPart(f6 \o Creates(M, K6), KindsIn(M, L5 \cup K6), m)
  <2>1. L5 \cap K6 = {}
    BY <1>2, <1>8, <1>13, <1>16, <1>19
  <2> QED BY <1>3, <1>20, <2>1, BodyCreates
<1>22. KindsIn(M, L5 \cup K6) = M
  <2>1. Found("postgres") \cup Found("sqlserver") \subseteq L5 \cup K6
    BY <1>2, <1>8, <1>13, <1>16, <1>19 DEF Found
  <2> QED BY <2>1 DEF KindsIn
<1>23. SchemaScript(M, R) = f6 \o Creates(M, K6)
  BY <1>2, <1>5, <1>7, <1>10, <1>12, <1>15, <1>18 DEF SchemaScript
<1> QED BY <1>1, <1>21, <1>22, <1>23

\* ClickHouse.
LEMMA ClickHouseScriptIs ==
  ASSUME NEW M, IsFiniteSet(M), M \subseteq Objects, Distinct(M), NEW R, Counts(R),
         \A o \in M : o.kind \in Found("clickhouse")
  PROVE  QuietPart(ClickHouseScript(M, R), M, Total(M, R))
<1>1. PICK m \in Int : m = Total(M, R)
  BY AmountsAre
<1>2. PICK K1, K2 : K1 = {"table"} /\ K2 = {"view", "mview"}
  OBVIOUS
<1>3. Group(K1) /\ Group(K2) /\ K1 \cap K2 = {}
  BY <1>2, Groups
<1>4. PICK z : z = 0
  OBVIOUS
<1>5. PICK f1 : f1 = Creates(M, K1)
  OBVIOUS
<1>6. QuietPart(f1, KindsIn(M, K1), z) /\ z \in Int
  BY <1>3, <1>4, <1>5, CreatesIs DEF QuietPart, KindsIn
<1>7. PICK f2 : f2 = f1 \o Creates(M, K2)
  OBVIOUS
<1>8. PICK L2 : L2 = K1 \cup K2
  OBVIOUS
<1>9. QuietPart(f2, KindsIn(M, L2), z)
  <2>1. QuietPart(f1 \o Creates(M, K2), KindsIn(M, K1 \cup K2), z)
    BY <1>3, <1>6, BodyCreates
  <2> QED BY <1>7, <1>8, <2>1
<1>10. QuietPart(f2 \o AllInserts(M, R), KindsIn(M, L2), Total(M, R))
  <2>1. QuietPart(f2, KindsIn(M, L2), 0)
    BY <1>4, <1>9
  <2> QED BY <2>1, BodyInserts
<1>11. KindsIn(M, L2) = M
  <2>1. Found("clickhouse") \subseteq L2
    BY <1>2, <1>8 DEF Found
  <2> QED BY <2>1 DEF KindsIn
<1>12. ClickHouseScript(M, R) = f2 \o AllInserts(M, R)
  BY <1>2, <1>5, <1>7 DEF ClickHouseScript
<1> QED BY <1>10, <1>11, <1>12

\* What SQLite's script has between its settings.
SqliteBody(M, R) ==
    TablesWithData(M, R) \o Creates(M, {"view"}) \o Creates(M, {"index"}) \o Creates(M, {"trigger"})

\* The body of the script yields what was read.
LEMMA SqliteBodyIs ==
  ASSUME NEW M, IsFiniteSet(M), M \subseteq Objects, Distinct(M), NEW R, Counts(R),
         \A o \in M : o.kind \in Found("sqlite")
  PROVE  QuietPart(SqliteBody(M, R), M, Total(M, R))
<1>1. PICK m \in Int : m = Total(M, R)
  BY AmountsAre
<1>2. PICK K1, K2, K3, K4 : K1 = {"table"} /\ K2 = {"view"} /\ K3 = {"index"} /\ K4 = {"trigger"}
  OBVIOUS
<1>3. Group(K2) /\ Group(K3) /\ Group(K4)
  BY <1>2, Groups
<1>4. PICK f1 : f1 = TablesWithData(M, R)
  OBVIOUS
<1>5. QuietPart(f1, KindsIn(M, K1), m)
  <2>1. KindsIn(M, K1) = TablesIn(M)
    BY <1>2 DEF KindsIn, TablesIn
  <2> QED BY <1>1, <1>4, <2>1, TablesWithDataAre DEF QuietPart
<1>6. PICK f2, L2 : f2 = f1 \o Creates(M, K2) /\ L2 = K1 \cup K2
  OBVIOUS
<1>7. QuietPart(f2, KindsIn(M, L2), m)
  <2>1. K1 \cap K2 = {}
    BY <1>2
  <2>2. QuietPart(f1 \o Creates(M, K2), KindsIn(M, K1 \cup K2), m)
    BY <1>3, <1>5, <2>1, BodyCreates
  <2> QED BY <1>6, <2>2
<1>8. PICK f3, L3 : f3 = f2 \o Creates(M, K3) /\ L3 = L2 \cup K3
  OBVIOUS
<1>9. QuietPart(f3, KindsIn(M, L3), m)
  <2>1. L2 \cap K3 = {}
    BY <1>2, <1>6
  <2>2. QuietPart(f2 \o Creates(M, K3), KindsIn(M, L2 \cup K3), m)
    BY <1>3, <1>7, <2>1, BodyCreates
  <2> QED BY <1>8, <2>2
<1>10. QuietPart(f3 \o Creates(M, K4), KindsIn(M, L3 \cup K4), m)
  <2>1. L3 \cap K4 = {}
    BY <1>2, <1>6, <1>8
  <2> QED BY <1>3, <1>9, <2>1, BodyCreates
<1>11. KindsIn(M, L3 \cup K4) = M
  <2>1. Found("sqlite") \subseteq L3 \cup K4
    BY <1>2, <1>6, <1>8 DEF Found
  <2> QED BY <2>1 DEF KindsIn
<1>12. SqliteBody(M, R) = f3 \o Creates(M, K4)
  BY <1>2, <1>4, <1>6, <1>8 DEF SqliteBody
<1> QED BY <1>1, <1>10, <1>11, <1>12

\* Two statements.
LEMMA TwoAre ==
  ASSUME NEW a \in FileStatements, NEW b \in FileStatements
  PROVE  <<a>> \o <<b>> = <<a, b>>
<1>a. <<a>> \in Seq(FileStatements) /\ <<b>> \in Seq(FileStatements) /\ <<a, b>> \in Seq(FileStatements)
  OBVIOUS
<1>1. PICK u \in Seq(FileStatements) : u = <<a>>
  BY <1>a, Zenon
<1>2. PICK v \in Seq(FileStatements) : v = <<b>>
  BY <1>a, Zenon
<1>3. PICK w \in Seq(FileStatements) : w = <<a, b>>
  BY <1>a, Zenon
<1>4. PICK c \in Seq(FileStatements) : c = u \o v
  BY ConcatProperties
<1>5. /\ Len(c) = Len(u) + Len(v)
      /\ \A i \in 1 .. Len(u) + Len(v) : c[i] = IF i <= Len(u) THEN u[i] ELSE v[i - Len(u)]
  BY <1>4, ConcatProperties
<1>6. Len(u) = 1 /\ Len(v) = 1 /\ u[1] = a /\ v[1] = b /\ Len(w) = 2 /\ w[1] = a /\ w[2] = b
  BY <1>1, <1>2, <1>3
<1>7. Len(c) = 2 /\ c[1] = a /\ c[2] = b
  BY <1>5, <1>6
<1>8. \A i \in 1 .. Len(c) : c[i] = w[i]
  BY <1>6, <1>7
<1>9. c = w
  BY <1>6, <1>7, <1>8, SeqEqual
<1> QED BY <1>1, <1>2, <1>3, <1>4, <1>9

\* A statement that changes the session creates and inserts nothing.
LEMMA SettingIs ==
  ASSUME NEW x \in {"unchecked", "begin", "commit", "checked"}
  PROVE  /\ Setting(x) \in FileStatements /\ Setting(x).op = x /\ Rows(Setting(x)) = 0
         /\ Yields(<<Setting(x)>>, {}, 0)
<1>1. PICK s : s = Setting(x)
  OBVIOUS
<1>2. s \in FileStatements /\ s.op = x /\ Rows(s) = 0
  BY <1>1 DEF Setting, FileStatements, Rows
<1>3. PICK S : S = {}
  OBVIOUS
<1>4. s.op # "create"
  BY <1>2
<1>5. Yields(<<s>>, S, Rows(s))
  BY <1>2, <1>3, <1>4, YieldsOne
<1> QED BY <1>1, <1>2, <1>3, <1>5

\* What comes before and after changes nothing about what a file yields.
LEMMA YieldsBetween ==
  ASSUME NEW S, NEW m \in Int, NEW h, NEW f, NEW t, Yields(h, {}, 0), Yields(f, S, m), Yields(t, {}, 0)
  PROVE  Yields(h \o f, S, m) /\ Yields(f \o t, S, m) /\ Yields((h \o f) \o t, S, m)
<1>1. PICK T, z : T = {} /\ z = 0
  OBVIOUS
<1>2. z \in Int /\ T \cap S = {} /\ S \cap T = {} /\ Yields(h, T, z) /\ Yields(t, T, z)
  BY <1>1
<1>3. T \cup S = S /\ S \cup T = S /\ z + m = m /\ m + z = m
  BY <1>1
<1>4. Yields(h \o f, T \cup S, z + m)
  BY <1>2, YieldsBoth
<1>5. Yields(f \o t, S \cup T, m + z)
  BY <1>2, YieldsBoth
<1>6. PICK g : g = h \o f
  OBVIOUS
<1>7. Yields(g, S, m)
  BY <1>3, <1>4, <1>6
<1>8. Yields(g \o t, S \cup T, m + z)
  BY <1>2, <1>7, YieldsBoth
<1> QED BY <1>3, <1>4, <1>5, <1>6, <1>8

\* What the statements of a whole file of each engine do to the session.
Framed(e, f) ==
    /\ e = "mysql" =>
         /\ Len(f) >= 2 /\ f[1].op = "unchecked" /\ f[Len(f)].op = "checked"
         /\ \A j \in 2 .. Len(f) - 1 : f[j].op \in {"create", "insert"}
    /\ e = "sqlite" =>
         /\ Len(f) >= 4 /\ f[1].op = "unchecked" /\ f[2].op = "begin"
         /\ f[Len(f) - 1].op = "commit" /\ f[Len(f)].op = "checked"
         /\ \A j \in 3 .. Len(f) - 2 : f[j].op \in {"create", "insert"}
    /\ e \notin {"mysql", "sqlite"} => Quiet(f)

\* SQLite: the script is its body within one transaction, with foreign keys off.
LEMMA SqliteScriptIs ==
  ASSUME NEW M, IsFiniteSet(M), M \subseteq Objects, Distinct(M), NEW R, Counts(R),
         \A o \in M : o.kind \in Found("sqlite")
  PROVE  Yields(SqliteScript(M, R), M, Total(M, R)) /\ Framed("sqlite", SqliteScript(M, R))
<1>1. PICK m \in Int : m = Total(M, R)
  BY AmountsAre
<1>2. PICK s1, s2, s3, s4 : /\ s1 = Setting("unchecked") /\ s2 = Setting("begin")
                            /\ s3 = Setting("commit") /\ s4 = Setting("checked")
  OBVIOUS
<1>3. /\ s1 \in FileStatements /\ s2 \in FileStatements /\ s3 \in FileStatements /\ s4 \in FileStatements
      /\ s1.op = "unchecked" /\ s2.op = "begin" /\ s3.op = "commit" /\ s4.op = "checked"
      /\ Yields(<<s1>>, {}, 0) /\ Yields(<<s2>>, {}, 0) /\ Yields(<<s3>>, {}, 0) /\ Yields(<<s4>>, {}, 0)
  BY <1>2, SettingIs
<1>4. PICK h : h = <<s1, s2>>
  OBVIOUS
<1>5. PICK t : t = <<s3, s4>>
  OBVIOUS
<1>6. h \in Seq(FileStatements) /\ Len(h) = 2 /\ h[1] = s1 /\ h[2] = s2
  BY <1>3, <1>4
<1>7. t \in Seq(FileStatements) /\ Len(t) = 2 /\ t[1] = s3 /\ t[2] = s4
  BY <1>3, <1>5
<1>8. Yields(h, {}, 0) /\ Yields(t, {}, 0)
  <2>1. PICK u1, u2, u3, u4 : u1 = <<s1>> /\ u2 = <<s2>> /\ u3 = <<s3>> /\ u4 = <<s4>>
    OBVIOUS
  <2>2. PICK T, z : T = {} /\ z = 0
    OBVIOUS
  <2>3. /\ z \in Int /\ T \cap T = {} /\ T \cup T = T /\ z + z = z
        /\ Yields(u1, T, z) /\ Yields(u2, T, z) /\ Yields(u3, T, z) /\ Yields(u4, T, z)
    BY <1>3, <2>1, <2>2
  <2>4. Yields(u1 \o u2, T \cup T, z + z)
    BY <2>3, YieldsBoth
  <2>5. Yields(u3 \o u4, T \cup T, z + z)
    BY <2>3, YieldsBoth
  <2>6. h = u1 \o u2
    BY <1>3, <1>4, <2>1, TwoAre
  <2>7. t = u3 \o u4
    BY <1>3, <1>5, <2>1, TwoAre
  <2> QED BY <2>2, <2>3, <2>4, <2>5, <2>6, <2>7
<1>9. PICK b : b = SqliteBody(M, R)
  OBVIOUS
<1>10. Yields(b, M, m) /\ Quiet(b)
  BY <1>1, <1>9, SqliteBodyIs DEF QuietPart
<1>11. b \in Seq(FileStatements)
  BY <1>10 DEF Yields
<1>12. Yields((h \o b) \o t, M, m)
  BY <1>8, <1>10, YieldsBetween
<1>13. SqliteScript(M, R) = (h \o b) \o t
  <2>1. PICK x1, x2, x3, x4 : /\ x1 = TablesWithData(M, R) /\ x2 = Creates(M, {"view"})
                              /\ x3 = Creates(M, {"index"}) /\ x4 = Creates(M, {"trigger"})
    OBVIOUS
  <2>2. x1 \in Seq(FileStatements) /\ x2 \in Seq(FileStatements) /\ x3 \in Seq(FileStatements) /\ x4 \in Seq(FileStatements)
    BY <2>1, Groups, CreatesIs, TablesWithDataAre DEF Yields
  <2>3. PICK y2 \in Seq(FileStatements) : y2 = x1 \o x2
    BY <2>2, ConcatProperties
  <2>4. PICK y3 \in Seq(FileStatements) : y3 = y2 \o x3
    BY <2>2, ConcatProperties
  <2>5. b = y3 \o x4
    BY <1>9, <2>1, <2>3, <2>4 DEF SqliteBody
  <2>6. (h \o y3) \o x4 = h \o (y3 \o x4)
    <3>1. h \in Seq(FileStatements) /\ y3 \in Seq(FileStatements) /\ x4 \in Seq(FileStatements)
      BY <1>6, <2>2
    <3> QED BY <3>1, ConcatAssociative
  <2>7. (h \o y2) \o x3 = h \o (y2 \o x3)
    <3>1. h \in Seq(FileStatements) /\ y2 \in Seq(FileStatements) /\ x3 \in Seq(FileStatements)
      BY <1>6, <2>2
    <3> QED BY <3>1, ConcatAssociative
  <2>8. (h \o x1) \o x2 = h \o (x1 \o x2)
    <3>1. h \in Seq(FileStatements) /\ x1 \in Seq(FileStatements) /\ x2 \in Seq(FileStatements)
      BY <1>6, <2>2
    <3> QED BY <3>1, ConcatAssociative
  <2>9. (((h \o x1) \o x2) \o x3) \o x4 = h \o b
    BY <2>3, <2>4, <2>5, <2>6, <2>7, <2>8
  <2>10. SqliteScript(M, R) = ((((h \o x1) \o x2) \o x3) \o x4) \o t
    BY <1>2, <1>4, <1>5, <2>1, Zenon DEF SqliteScript
  <2> QED BY <2>9, <2>10
<1>14. PICK n \in Nat : n = Len(b)
  BY <1>11
<1>15. PICK g \in Seq(FileStatements) : g = h \o b
  BY <1>6, <1>11, ConcatProperties
<1>16. Len(g) = n + 2 /\ \A i \in 1 .. n + 2 : g[i] = IF i <= 2 THEN h[i] ELSE b[i - 2]
  <2>1. /\ Len(g) = Len(h) + Len(b)
        /\ \A i \in 1 .. Len(h) + Len(b) : g[i] = IF i <= Len(h) THEN h[i] ELSE b[i - Len(h)]
    BY <1>6, <1>11, <1>15, ConcatProperties
  <2> QED BY <1>6, <1>14, <2>1
<1>17. PICK f \in Seq(FileStatements) : f = g \o t
  BY <1>7, ConcatProperties
<1>18. Len(f) = n + 4 /\ \A i \in 1 .. n + 4 : f[i] = IF i <= n + 2 THEN g[i] ELSE t[i - (n + 2)]
  <2>1. /\ Len(f) = Len(g) + Len(t)
        /\ \A i \in 1 .. Len(g) + Len(t) : f[i] = IF i <= Len(g) THEN g[i] ELSE t[i - Len(g)]
    BY <1>7, <1>17, ConcatProperties
  <2>2. Len(g) = n + 2 /\ Len(t) = 2 /\ (n + 2) + 2 = n + 4
    BY <1>7, <1>16
  <2> QED BY <2>1, <2>2
<1>19. Framed("sqlite", f)
  <2>1. f[1] = s1 /\ f[2] = s2
    <3>1. 1 \in 1 .. n + 4 /\ 2 \in 1 .. n + 4 /\ 1 <= n + 2 /\ 2 <= n + 2 /\ 1 \in 1 .. n + 2 /\ 2 \in 1 .. n + 2
      OBVIOUS
    <3> QED BY <1>6, <1>16, <1>18, <3>1
  <2>2. f[n + 3] = s3 /\ f[n + 4] = s4
    <3>1. /\ n + 3 \in 1 .. n + 4 /\ n + 4 \in 1 .. n + 4 /\ ~(n + 3 <= n + 2) /\ ~(n + 4 <= n + 2)
          /\ (n + 3) - (n + 2) = 1 /\ (n + 4) - (n + 2) = 2
      OBVIOUS
    <3> QED BY <1>7, <1>18, <3>1
  <2>3. ASSUME NEW j \in 3 .. n + 2 PROVE f[j].op \in {"create", "insert"}
    <3>1. j \in 1 .. n + 4 /\ j <= n + 2 /\ j \in 1 .. n + 2 /\ ~(j <= 2) /\ j - 2 \in 1 .. n
      OBVIOUS
    <3>2. f[j] = b[j - 2]
      BY <1>16, <1>18, <3>1
    <3>3. j - 2 \in DOMAIN b
      BY <1>11, <1>14, <3>1
    <3> QED BY <1>10, <3>2, <3>3 DEF Quiet
  <2>4. Len(f) >= 4 /\ Len(f) - 1 = n + 3 /\ Len(f) = n + 4 /\ Len(f) - 2 = n + 2
    BY <1>18
  <2> QED BY <1>3, <2>1, <2>2, <2>3, <2>4 DEF Framed
<1> QED BY <1>1, <1>12, <1>13, <1>15, <1>17, <1>19

CreatedIn(f, K) == Cardinality({j \in DOMAIN f : f[j].op = "create" /\ f[j].obj.kind \in K})

\* The number of objects of some kinds in a file is the number of those it yields.
LEMMA CountIs ==
  ASSUME NEW f, NEW S, NEW n, Yields(f, S, n), S \subseteq Objects, NEW K
  PROVE  CreatedIn(f, K) = Size(S, K)
<1>1. PICK J : J = {j \in DOMAIN f : f[j].op = "create" /\ f[j].obj.kind \in K}
  OBVIOUS
<1>2. PICK T : T = {o \in S : o.kind \in K}
  OBVIOUS
<1>3. f \in Seq(FileStatements)
  BY DEF Yields
<1>4. \A j \in J : f[j] = Create(f[j].obj) /\ f[j].op = "create"
  BY <1>1, <1>3 DEF FileStatements, Create
<1>5. \A j \in J : f[j].obj \in T
  BY <1>1, <1>2 DEF Yields
<1>6. PICK g : g = [j \in J |-> f[j].obj]
  OBVIOUS
<1>7. g \in [J -> T]
  BY <1>5, <1>6
<1>8. \A j, k \in J : g[j] = g[k] => j = k
  <2>1. ASSUME NEW j \in J, NEW k \in J, g[j] = g[k] PROVE j = k
    <3>1. f[j] = f[k] /\ f[j].op = "create"
      BY <1>4, <1>6, <2>1
    <3>2. j \in DOMAIN f /\ k \in DOMAIN f
      BY <1>1
    <3> QED BY <3>1, <3>2 DEF Yields
  <2> QED BY <2>1
<1>9. \A o \in T : \E j \in J : g[j] = o
  <2>1. ASSUME NEW o \in T PROVE \E j \in J : g[j] = o
    <3>1. o \in S /\ o \in Objects /\ o.kind \in K
      BY <1>2
    <3>2. PICK j \in DOMAIN f : f[j] = Create(o)
      BY <3>1 DEF Yields
    <3>3. f[j].op = "create" /\ f[j].obj = o
      BY <3>1, <3>2, CreatingIs
    <3>4. j \in J
      BY <1>1, <3>1, <3>3
    <3> QED BY <1>6, <3>3, <3>4
  <2> QED BY <2>1
<1>10. g \in Bijection(J, T)
  BY <1>7, <1>8, <1>9 DEF Bijection, Injection, Surjection, IsInjective
<1>11. IsFiniteSet(J)
  <2>1. PICK m \in Nat : m = Len(f)
    BY <1>3
  <2>2. PICK I : I = 1 .. m
    OBVIOUS
  <2>3. IsFiniteSet(I)
    BY <2>2, FS_Interval
  <2>4. J \in SUBSET I
    BY <1>1, <1>3, <2>1, <2>2
  <2> QED BY <2>3, <2>4, FS_Subset
<1>12. Cardinality(T) = Cardinality(J)
  BY <1>10, <1>11, FS_Bijection DEF ExistsBijection
<1> QED BY <1>1, <1>2, <1>12 DEF CreatedIn, Size

-----------------------------------------------------------------------------
(* MySQL writes while it reads *)

\* h is s followed by members of T, as many as t has.
Behind(h, s, t, T) ==
    /\ Len(h) = Len(s) + Len(t)
    /\ \A i \in 1 .. Len(s) : h[i] = s[i]
    /\ \A i \in Len(s) + 1 .. Len(s) + Len(t) : h[i] \in T

\* Two lists of different things are a list of all of them.
LEMMA ListsThen ==
  ASSUME NEW S, NEW T, S \cap T = {}, NEW s, NEW t, Lists(s, S), Lists(t, T)
  PROVE  Lists(s \o t, S \cup T) /\ Behind(s \o t, s, t, T)
<1>1. PICK W : W = S \cup T
  OBVIOUS
<1>2. s \in Seq(W) /\ t \in Seq(W) /\ s \in Seq(S) /\ t \in Seq(T)
  <2>1. s \in Seq(S) /\ t \in Seq(T)
    BY DEF Lists
  <2>2. S \subseteq W /\ T \subseteq W
    BY <1>1
  <2> QED BY <2>1, <2>2, SeqMonotonic
<1>3. PICK p \in Nat : p = Len(s)
  BY <1>2
<1>4. PICK q \in Nat : q = Len(t)
  BY <1>2
<1>5. PICK h \in Seq(W) : h = s \o t
  BY <1>2, ConcatProperties
<1>6. Len(h) = p + q /\ \A i \in 1 .. p + q : h[i] = IF i <= p THEN s[i] ELSE t[i - p]
  BY <1>2, <1>3, <1>4, <1>5, ConcatProperties
<1>7. DOMAIN s = 1 .. p /\ DOMAIN t = 1 .. q /\ DOMAIN h = 1 .. p + q
  BY <1>2, <1>3, <1>4, <1>6
<1>8. \A i \in 1 .. p : i \in 1 .. p + q /\ h[i] = s[i] /\ s[i] \in S
  BY <1>2, <1>6, <1>7
<1>9. \A i \in 1 .. q : p + i \in 1 .. p + q /\ h[p + i] = t[i] /\ t[i] \in T
  <2>1. \A i \in 1 .. q : p + i \in 1 .. p + q /\ ~(p + i <= p) /\ (p + i) - p = i
    OBVIOUS
  <2>2. \A i \in 1 .. q : t[i] \in T
    BY <1>2, <1>7
  <2> QED BY <1>6, <2>1, <2>2
<1>10. \A i \in 1 .. p + q : i \in 1 .. p \/ \E k \in 1 .. q : i = p + k
  <2>1. ASSUME NEW i \in 1 .. p + q, ~(i \in 1 .. p) PROVE \E k \in 1 .. q : i = p + k
    <3>1. i - p \in 1 .. q /\ i = p + (i - p)
      BY <2>1
    <3> QED BY <3>1
  <2> QED BY <2>1
<1>11. \A o \in W : \E j \in DOMAIN h : h[j] = o
  <2>1. \A o \in S : \E j \in 1 .. p : s[j] = o
    BY <1>7 DEF Lists
  <2>2. \A o \in T : \E j \in 1 .. q : t[j] = o
    BY <1>7 DEF Lists
  <2>3. \A o \in S : \E j \in DOMAIN h : h[j] = o
    BY <1>7, <1>8, <2>1
  <2>4. \A o \in T : \E j \in DOMAIN h : h[j] = o
    BY <1>7, <1>9, <2>2
  <2> QED BY <1>1, <2>3, <2>4
<1>12. ASSUME NEW j \in DOMAIN h, NEW k \in DOMAIN h, h[j] = h[k] PROVE j = k
  <2>0. j \in 1 .. p + q /\ k \in 1 .. p + q
    BY <1>7
  <2>1. CASE j \in 1 .. p /\ k \in 1 .. p
    <3>1. s[j] = s[k]
      BY <1>8, <1>12, <2>1
    <3> QED BY <1>7, <2>1, <3>1 DEF Lists
  <2>2. CASE j \in 1 .. p /\ ~(k \in 1 .. p)
    <3>1. PICK c \in 1 .. q : k = p + c
      BY <1>10, <2>0, <2>2
    <3>2. h[j] \in S /\ h[k] \in T
      BY <1>8, <1>9, <2>2, <3>1
    <3> QED BY <1>12, <3>2
  <2>3. CASE ~(j \in 1 .. p) /\ k \in 1 .. p
    <3>1. PICK c \in 1 .. q : j = p + c
      BY <1>10, <2>0, <2>3
    <3>2. h[k] \in S /\ h[j] \in T
      BY <1>8, <1>9, <2>3, <3>1
    <3> QED BY <1>12, <3>2
  <2>4. CASE ~(j \in 1 .. p) /\ ~(k \in 1 .. p)
    <3>1. PICK c \in 1 .. q : j = p + c
      BY <1>10, <2>0, <2>4
    <3>2. PICK d \in 1 .. q : k = p + d
      BY <1>10, <2>0, <2>4
    <3>3. t[c] = t[d]
      BY <1>9, <1>12, <3>1, <3>2
    <3>4. c = d
      BY <1>7, <3>3 DEF Lists
    <3> QED BY <3>1, <3>2, <3>4
  <2> QED BY <2>1, <2>2, <2>3, <2>4
<1>13. Lists(h, W)
  BY <1>11, <1>12 DEF Lists
<1>14. \A i \in p + 1 .. p + q : h[i] \in T
  <2>1. ASSUME NEW i \in p + 1 .. p + q PROVE h[i] \in T
    <3>1. i - p \in 1 .. q /\ i = p + (i - p)
      OBVIOUS
    <3>2. PICK c \in 1 .. q : i = p + c
      BY <3>1
    <3> QED BY <1>9, <3>2
  <2> QED BY <2>1
<1>15. Behind(h, s, t, T)
  BY <1>3, <1>4, <1>6, <1>8, <1>14 DEF Behind
<1> QED BY <1>1, <1>5, <1>13, <1>15

\* MySQL goes through everything that was read, the tables first.
LEMMA MysqlOrderIs ==
  ASSUME NEW M, IsFiniteSet(M), M \subseteq Objects, Distinct(M),
         \A o \in M : o.kind \in Found("mysql")
  PROVE  /\ Lists(MysqlOrder(M), M) /\ Len(ListedTables(M)) <= Len(MysqlOrder(M))
         /\ \A j \in DOMAIN MysqlOrder(M) :
              /\ MysqlOrder(M)[j].kind = "table" <=> j \in DOMAIN ListedTables(M)
              /\ j \in DOMAIN ListedTables(M) => MysqlOrder(M)[j] = ListedTables(M)[j]
<1>1. PICK q, v, t, e : /\ q = ListedTables(M) /\ v = Of(M, {"view"}) /\ t = Of(M, {"trigger"})
                        /\ e = Of(M, {"event"})
  OBVIOUS
<1>2. PICK A, B, C, D : /\ A = TablesIn(M) /\ B = KindsIn(M, {"view"})
                        /\ C = KindsIn(M, {"trigger"}) /\ D = KindsIn(M, {"event"})
  OBVIOUS
<1>3. Lists(q, A) /\ Lists(v, B) /\ Lists(t, C) /\ Lists(e, D)
  BY <1>1, <1>2, ListedIs, OfIs, Groups DEF KindsIn
<1>4. /\ A \cap B = {} /\ (A \cup B) \cap C = {} /\ ((A \cup B) \cup C) \cap D = {}
      /\ ((A \cup B) \cup C) \cup D = M
  BY <1>2 DEF TablesIn, KindsIn, Found
<1>5. PICK h2 : h2 = q \o v
  OBVIOUS
<1>6. PICK h3 : h3 = h2 \o t
  OBVIOUS
<1>7. PICK h4 : h4 = h3 \o e
  OBVIOUS
<1>8. PICK A2, A3 : A2 = A \cup B /\ A3 = A2 \cup C
  OBVIOUS
<1>9. Lists(h2, A2) /\ Behind(h2, q, v, B)
  <2>1. Lists(q \o v, A \cup B) /\ Behind(q \o v, q, v, B)
    BY <1>3, <1>4, ListsThen
  <2> QED BY <1>5, <1>8, <2>1
<1>10. Lists(h3, A3) /\ Behind(h3, h2, t, C)
  <2>1. A2 \cap C = {}
    BY <1>4, <1>8
  <2>2. Lists(h2 \o t, A2 \cup C) /\ Behind(h2 \o t, h2, t, C)
    BY <1>3, <1>9, <2>1, ListsThen
  <2> QED BY <1>6, <1>8, <2>2
<1>11. Lists(h4, A3 \cup D) /\ Behind(h4, h3, e, D)
  <2>1. A3 \cap D = {}
    BY <1>4, <1>8
  <2>2. Lists(h3 \o e, A3 \cup D) /\ Behind(h3 \o e, h3, e, D)
    BY <1>3, <1>10, <2>1, ListsThen
  <2> QED BY <1>7, <2>2
<1>12. A3 \cup D = M
  BY <1>4, <1>8
<1>13. MysqlOrder(M) = h4
  BY <1>1, <1>5, <1>6, <1>7 DEF MysqlOrder
<1>14. PICK a, b, c, d \in Nat : a = Len(q) /\ b = Len(v) /\ c = Len(t) /\ d = Len(e)
  BY <1>3 DEF Lists
<1>15. Len(h2) = a + b /\ Len(h3) = a + b + c /\ Len(h4) = a + b + c + d
  BY <1>9, <1>10, <1>11, <1>14 DEF Behind
<1>16. DOMAIN q = 1 .. a /\ DOMAIN h4 = 1 .. a + b + c + d
  <2>1. h4 \in Seq(M) /\ q \in Seq(A)
    BY <1>3, <1>11, <1>12 DEF Lists
  <2> QED BY <1>14, <1>15, <2>1
<1>17. ASSUME NEW j \in 1 .. a PROVE h4[j] = q[j] /\ h4[j].kind = "table"
  <2>1. j \in 1 .. Len(h2) /\ j \in 1 .. Len(h3) /\ j \in 1 .. Len(q)
    BY <1>14, <1>15
  <2>2. h4[j] = q[j]
    BY <1>9, <1>10, <1>11, <2>1 DEF Behind
  <2>3. q[j] \in A
    BY <1>3, <2>1 DEF Lists
  <2> QED BY <1>2, <2>2, <2>3 DEF TablesIn
<1>18. ASSUME NEW j \in 1 .. a + b + c + d, ~(j \in 1 .. a) PROVE h4[j].kind # "table"
  <2>1. CASE j <= a + b
    <3>1. j \in Len(q) + 1 .. Len(q) + Len(v) /\ j \in 1 .. Len(h2) /\ j \in 1 .. Len(h3)
      BY <1>14, <1>15, <1>18, <2>1
    <3>2. h4[j] \in B
      BY <1>9, <1>10, <1>11, <3>1 DEF Behind
    <3> QED BY <1>2, <3>2 DEF KindsIn
  <2>2. CASE ~(j <= a + b) /\ j <= a + b + c
    <3>1. j \in Len(h2) + 1 .. Len(h2) + Len(t) /\ j \in 1 .. Len(h3)
      BY <1>14, <1>15, <1>18, <2>2
    <3>2. h4[j] \in C
      BY <1>10, <1>11, <3>1 DEF Behind
    <3> QED BY <1>2, <3>2 DEF KindsIn
  <2>3. CASE ~(j <= a + b) /\ ~(j <= a + b + c)
    <3>1. j \in Len(h3) + 1 .. Len(h3) + Len(e)
      BY <1>14, <1>15, <1>18, <2>3
    <3>2. h4[j] \in D
      BY <1>11, <3>1 DEF Behind
    <3> QED BY <1>2, <3>2 DEF KindsIn
  <2> QED BY <2>1, <2>2, <2>3
<1>19. Len(ListedTables(M)) <= Len(MysqlOrder(M))
  BY <1>1, <1>13, <1>14, <1>15
<1> QED BY <1>1, <1>11, <1>12, <1>13, <1>16, <1>17, <1>18, <1>19

\* Q is R with n rows for t.
Noted(Q, R, t, n) ==
    /\ Counts(Q) /\ DOMAIN Q = DOMAIN R \cup {t} /\ Given(Q, t) = n
    /\ \A u : u # t => Given(Q, u) = Given(R, u)

\* Noting the rows of a table.
LEMMA WithIs ==
  ASSUME NEW R, Counts(R), NEW t, NEW n \in Nat
  PROVE  Noted(With(R, t, n), R, t, n)
<1>1. PICK Q : Q = With(R, t, n)
  OBVIOUS
<1>2. Q = [u \in DOMAIN R \cup {t} |-> IF u = t THEN n ELSE R[u]]
  BY <1>1 DEF With
<1>3. \A u \in DOMAIN R : R[u] \in Nat
  BY DEF Counts
<1>4. Q \in [DOMAIN R \cup {t} -> Nat] /\ DOMAIN Q = DOMAIN R \cup {t}
  BY <1>2, <1>3
<1>5. Given(Q, t) = n
  BY <1>2, <1>4 DEF Given
<1>6. \A u : u # t => Given(Q, u) = Given(R, u)
  BY <1>2, <1>4 DEF Given
<1> QED BY <1>1, <1>4, <1>5, <1>6 DEF Counts, Noted

\* The rows of one more table.
LEMMA TotalWith ==
  ASSUME NEW M, IsFiniteSet(M), M \subseteq Objects, Distinct(M), NEW R, Counts(R), NEW n \in Nat,
         NEW i \in DOMAIN ListedTables(M), ListedTables(M)[i].name \notin DOMAIN R
  PROVE  Total(M, With(R, ListedTables(M)[i].name, n)) = Total(M, R) + n
<1>1. PICK s : s = ListedTables(M)
  OBVIOUS
<1>2. PICK t : t = s[i].name
  OBVIOUS
<1>3. PICK Q : Q = With(R, t, n)
  OBVIOUS
<1>4. Counts(Q) /\ Given(Q, t) = n /\ \A u : u # t => Given(Q, u) = Given(R, u)
  <2>1. Counts(R) /\ n \in Nat
    OBVIOUS
  <2>2. Noted(With(R, t, n), R, t, n)
    BY <2>1, WithIs
  <2> QED BY <1>3, <2>2 DEF Noted
<1>5. PICK a : Amounts(a, M, R)
  BY AmountsAre
<1>6. PICK b : Amounts(b, M, Q)
  BY <1>4, AmountsAre
<1>7. Lists(s, TablesIn(M))
  BY <1>1, ListedIs
<1>8. s \in Seq(TablesIn(M))
  BY <1>7 DEF Lists
<1>9. PICK m \in Nat : m = Len(s)
  BY <1>8
<1>10. /\ a \in Seq(Int) /\ Len(a) = m /\ (\A j \in 1 .. m : a[j] = Given(R, s[j].name))
       /\ Total(M, R) = Sum(a)
  BY <1>1, <1>5, <1>9 DEF Amounts
<1>11. /\ b \in Seq(Int) /\ Len(b) = m /\ (\A j \in 1 .. m : b[j] = Given(Q, s[j].name))
       /\ Total(M, Q) = Sum(b)
  BY <1>1, <1>6, <1>9 DEF Amounts
<1>12. i \in 1 .. m /\ DOMAIN s = 1 .. m
  BY <1>1, <1>8, <1>9
<1>13. \A j \in 1 .. m : j # i => s[j].name # t
  <2>1. ASSUME NEW j \in 1 .. m, s[j].name = t PROVE j = i
    <3>1. s[j] \in TablesIn(M) /\ s[i] \in TablesIn(M)
      BY <1>8, <1>12
    <3>2. s[j] \in M /\ s[i] \in M /\ s[j].kind = s[i].kind
      BY <3>1 DEF TablesIn
    <3>3. s[j] = s[i]
      BY <1>2, <2>1, <3>2 DEF Distinct, Alike
    <3> QED BY <1>7, <1>12, <3>3 DEF Lists
  <2> QED BY <2>1
<1>14. PICK c \in Seq(Int) : c = [a EXCEPT ![i] = n]
  <2>1. a \in Seq(Int) /\ i \in 1 .. Len(a) /\ n \in Int
    BY <1>10, <1>12
  <2> QED BY <2>1, ExceptSeq
<1>15. Len(c) = m /\ \A j \in 1 .. m : c[j] = IF j = i THEN n ELSE a[j]
  <2>1. a \in Seq(Int) /\ i \in 1 .. Len(a) /\ n \in Int
    BY <1>10, <1>12
  <2>2. /\ Len([a EXCEPT ![i] = n]) = Len(a)
        /\ \A j \in 1 .. Len(a) : [a EXCEPT ![i] = n][j] = IF j = i THEN n ELSE a[j]
    BY <2>1, ExceptSeq
  <2> QED BY <1>10, <1>14, <2>2
<1>16. \A j \in 1 .. m : b[j] = c[j]
  <2>1. ASSUME NEW j \in 1 .. m PROVE b[j] = c[j]
    <3>1. CASE j = i
      BY <1>2, <1>4, <1>11, <1>15, <3>1
    <3>2. CASE j # i
      BY <1>4, <1>10, <1>11, <1>13, <1>15, <3>2
    <3> QED BY <3>1, <3>2
  <2> QED BY <2>1
<1>17. b = c
  BY <1>11, <1>15, <1>16, SeqEqual
<1>18. a[i] = 0
  BY <1>1, <1>2, <1>10, <1>12 DEF Given
<1>19. Sum([a EXCEPT ![i] = n]) = Sum(a) - a[i] + n
  <2>1. a \in Seq(Int) /\ i \in 1 .. Len(a) /\ n \in Int
    BY <1>10, <1>12
  <2> QED BY <2>1, SumUpdate
<1>20. PICK x \in Int : x = Sum(a)
  BY <1>10, SumType
<1>21. Total(M, Q) = x + n
  BY <1>11, <1>14, <1>17, <1>18, <1>19, <1>20
<1> QED BY <1>1, <1>2, <1>3, <1>10, <1>20, <1>21

\* Before the first table nothing was read.
LEMMA TotalNone ==
  ASSUME NEW M, IsFiniteSet(M), M \subseteq Objects, Distinct(M), NEW R, DOMAIN R = {}, Counts(R)
  PROVE  Total(M, R) = 0
<1>1. PICK a : Amounts(a, M, R)
  BY AmountsAre
<1>2. a \in Seq(Int) /\ (\A j \in 1 .. Len(a) : a[j] = 0) /\ Total(M, R) = Sum(a)
  BY <1>1 DEF Amounts, Given
<1> QED BY <1>2, SumZero

Preceding(M, k) == {MysqlOrder(M)[j] : j \in 1 .. k - 1}
\* f holds what comes before the k-th object, and the rows noted in R.
SoFar(M, R, f, k) ==
    /\ Counts(R) /\ k \in Nat \ {0} /\ k <= Len(MysqlOrder(M)) + 1
    /\ Yields(f, Preceding(M, k), Total(M, R))
    /\ Len(f) >= 1 /\ f[1].op = "unchecked"
    /\ \A j \in 2 .. Len(f) : f[j].op \in {"create", "insert"}
    /\ \A t \in DOMAIN R : \E o \in Preceding(M, k) : o.kind = "table" /\ o.name = t

\* A file begins with its setting.
LEMMA SoFarStart ==
  ASSUME NEW M, IsFiniteSet(M), M \subseteq Objects, Distinct(M), NEW R, DOMAIN R = {}, Counts(R),
         \A o \in M : o.kind \in Found("mysql")
  PROVE  SoFar(M, R, <<Setting("unchecked")>>, 1)
<1>1. PICK x : x = "unchecked"
  OBVIOUS
<1>2. PICK s : s = Setting(x)
  OBVIOUS
<1>3. s \in FileStatements /\ s.op = x /\ Yields(<<s>>, {}, 0)
  BY <1>1, <1>2, SettingIs
<1>4. PICK f : f = <<s>>
  OBVIOUS
<1>5. Len(f) = 1 /\ f[1] = s /\ \A j \in 2 .. 1 : FALSE
  BY <1>4
<1>6. Preceding(M, 1) = {}
  BY DEF Preceding
<1>7. Total(M, R) = 0
  BY TotalNone
<1>8. Len(MysqlOrder(M)) \in Nat
  BY MysqlOrderIs DEF Lists
<1>9. PICK k \in Nat : k = 1
  OBVIOUS
<1>10. Yields(f, Preceding(M, k), Total(M, R))
  BY <1>3, <1>4, <1>6, <1>7, <1>9
<1>11. SoFar(M, R, f, k)
  BY <1>1, <1>3, <1>5, <1>8, <1>9, <1>10 DEF SoFar
<1> QED BY <1>1, <1>2, <1>4, <1>9, <1>11

\* One more object, with its rows if it is a table.
LEMMA SoFarNext ==
  ASSUME NEW M, IsFiniteSet(M), M \subseteq Objects, Distinct(M),
         \A o \in M : o.kind \in Found("mysql"),
         NEW R, NEW f, NEW k, SoFar(M, R, f, k), k <= Len(MysqlOrder(M)),
         NEW n \in Nat, NEW g, Yields(g, {}, n), Quiet(g),
         NEW Q, Counts(Q), Total(M, Q) = Total(M, R) + n,
         \A t \in DOMAIN Q : t \in DOMAIN R
            \/ (MysqlOrder(M)[k].kind = "table" /\ t = MysqlOrder(M)[k].name)
  PROVE  SoFar(M, Q, (f \o <<Create(MysqlOrder(M)[k])>>) \o g, k + 1)
<1>1. PICK h : h = MysqlOrder(M)
  OBVIOUS
<1>2. Lists(h, M)
  BY <1>1, MysqlOrderIs
<1>3. PICK L \in Nat : L = Len(h) /\ DOMAIN h = 1 .. L
  BY <1>2 DEF Lists
<1>4. k \in Nat /\ k >= 1 /\ k <= L /\ k \in 1 .. L /\ k \in DOMAIN h
  BY <1>1, <1>3 DEF SoFar
<1>5. PICK o \in M : o = h[k]
  BY <1>2, <1>4 DEF Lists
<1>6. PICK c : c = Create(o)
  OBVIOUS
<1>7. c \in FileStatements /\ c.op = "create" /\ c.obj = o /\ Rows(c) = 0
  BY <1>6, CreatingIs
<1>8. PICK z \in Int : z = 0
  OBVIOUS
<1>9. PICK O : O = {o}
  OBVIOUS
<1>10. Yields(<<c>>, O, z)
  <2>1. Yields(<<c>>, O, Rows(c))
    BY <1>7, <1>9, YieldsOne
  <2> QED BY <1>7, <1>8, <2>1
<1>11. PICK A : A = Preceding(M, k)
  OBVIOUS
<1>12. A \cap O = {}
  <2>1. \A j \in 1 .. k - 1 : j \in DOMAIN h /\ j # k
    BY <1>3, <1>4
  <2>2. \A j \in 1 .. k - 1 : h[j] # h[k]
    BY <1>2, <1>4, <2>1 DEF Lists
  <2> QED BY <1>1, <1>5, <1>9, <1>11, <2>2 DEF Preceding
<1>13. PICK B : B = Preceding(M, k + 1)
  OBVIOUS
<1>14. B = A \cup O
  <2>1. \A j \in 1 .. (k + 1) - 1 : j \in 1 .. k - 1 \/ j = k
    BY <1>4
  <2>2. \A j \in 1 .. k - 1 : j \in 1 .. (k + 1) - 1
    BY <1>4
  <2>3. k \in 1 .. (k + 1) - 1
    BY <1>4
  <2>4. A = {h[j] : j \in 1 .. k - 1} /\ B = {h[j] : j \in 1 .. (k + 1) - 1}
    BY <1>1, <1>11, <1>13 DEF Preceding
  <2> QED BY <1>5, <1>9, <2>1, <2>2, <2>3, <2>4
<1>15. PICK x \in Int : x = Total(M, R)
  BY AmountsAre DEF SoFar
<1>16. Yields(f, A, x)
  BY <1>11, <1>15 DEF SoFar
<1>17. PICK f2 : f2 = f \o <<c>>
  OBVIOUS
<1>18. Yields(f2, B, x + z)
  <2>1. Yields(f \o <<c>>, A \cup O, x + z)
    BY <1>10, <1>12, <1>16, YieldsBoth
  <2> QED BY <1>14, <1>17, <2>1
<1>19. PICK f3 : f3 = f2 \o g
  OBVIOUS
<1>20. Yields(f3, B, Total(M, Q))
  <2>0. PICK N : N = {}
    OBVIOUS
  <2>1. PICK y \in Int : y = x + z
    BY <1>8
  <2>2. n \in Int /\ Yields(f2, B, y) /\ Yields(g, N, n) /\ B \cap N = {}
    BY <1>18, <2>0, <2>1
  <2>3. Yields(f2 \o g, B \cup N, y + n)
    BY <2>1, <2>2, YieldsBoth
  <2>4. B \cup N = B /\ y + n = Total(M, Q)
    BY <1>8, <1>15, <2>0, <2>1
  <2> QED BY <1>19, <2>3, <2>4
<1>21. f \in Seq(FileStatements) /\ <<c>> \in Seq(FileStatements) /\ g \in Seq(FileStatements)
       /\ f2 \in Seq(FileStatements) /\ f3 \in Seq(FileStatements)
  BY <1>10, <1>16, <1>18, <1>20 DEF Yields
<1>22. PICK p, r \in Nat : p = Len(f) /\ r = Len(g)
  <2>1. Len(f) \in Nat /\ Len(g) \in Nat
    BY <1>21
  <2> QED BY <2>1
<1>23. Len(f2) = p + 1 /\ \A j \in 1 .. p + 1 : f2[j] = IF j <= p THEN f[j] ELSE c
  BY <1>17, <1>21, <1>22
<1>24. Len(f3) = p + 1 + r /\ \A j \in 1 .. p + 1 + r : f3[j] = IF j <= p + 1 THEN f2[j] ELSE g[j - (p + 1)]
  <2>1. f2 \in Seq(FileStatements) /\ g \in Seq(FileStatements)
    BY <1>21
  <2>2. /\ Len(f2 \o g) = Len(f2) + Len(g)
        /\ \A j \in 1 .. Len(f2) + Len(g) :
              (f2 \o g)[j] = IF j <= Len(f2) THEN f2[j] ELSE g[j - Len(f2)]
    BY <2>1, ConcatProperties
  <2> QED BY <1>19, <1>22, <1>23, <2>2
<1>25. p >= 1 /\ f[1].op = "unchecked" /\ \A j \in 2 .. p : f[j].op \in {"create", "insert"}
  BY <1>22 DEF SoFar
<1>26. Len(f3) >= 1 /\ f3[1].op = "unchecked"
  <2>1. 1 \in 1 .. p + 1 + r /\ 1 \in 1 .. p + 1 /\ 1 <= p
    BY <1>22, <1>25
  <2> QED BY <1>22, <1>23, <1>24, <1>25, <2>1
<1>27. ASSUME NEW j \in 2 .. p + 1 + r PROVE f3[j].op \in {"create", "insert"}
  <2>1. CASE j <= p
    <3>1. j \in 1 .. p + 1 + r /\ j \in 1 .. p + 1 /\ j <= p + 1 /\ j \in 2 .. p
      BY <1>22, <2>1
    <3> QED BY <1>23, <1>24, <1>25, <3>1
  <2>2. CASE j = p + 1
    <3>1. j \in 1 .. p + 1 + r /\ j \in 1 .. p + 1 /\ j <= p + 1 /\ ~(j <= p)
      BY <1>22, <2>2
    <3>2. f3[j] = c
      BY <1>23, <1>24, <3>1
    <3> QED BY <1>7, <3>2
  <2>3. CASE ~(j <= p) /\ j # p + 1
    <3>1. j \in 1 .. p + 1 + r /\ ~(j <= p + 1) /\ j - (p + 1) \in 1 .. r
      BY <1>22, <2>3
    <3>2. f3[j] = g[j - (p + 1)]
      BY <1>24, <3>1
    <3>3. j - (p + 1) \in DOMAIN g
      BY <1>21, <1>22, <3>1
    <3> QED BY <3>2, <3>3 DEF Quiet
  <2> QED BY <2>1, <2>2, <2>3
<1>28. \A t \in DOMAIN Q : \E b \in B : b.kind = "table" /\ b.name = t
  <2>1. \A t \in DOMAIN R : \E b \in A : b.kind = "table" /\ b.name = t
    BY <1>11 DEF SoFar
  <2>2. \A t \in DOMAIN Q : t \in DOMAIN R \/ (o.kind = "table" /\ t = o.name)
    BY <1>1, <1>5
  <2> QED BY <1>9, <1>14, <2>1, <2>2
<1>29. PICK i \in Nat \ {0} : i = k + 1 /\ i <= L + 1
  BY <1>4
<1>30. SoFar(M, Q, f3, i)
  BY <1>1, <1>3, <1>13, <1>20, <1>24, <1>26, <1>27, <1>28, <1>29 DEF SoFar
<1> QED BY <1>1, <1>5, <1>6, <1>17, <1>19, <1>29, <1>30

\* The footer ends it.
LEMMA SoFarEnd ==
  ASSUME NEW M, IsFiniteSet(M), M \subseteq Objects, Distinct(M),
         \A o \in M : o.kind \in Found("mysql"),
         NEW R, NEW f, NEW k, SoFar(M, R, f, k), ~(k <= Len(MysqlOrder(M)))
  PROVE  /\ Yields(Append(f, Setting("checked")), M, Total(M, R))
         /\ Framed("mysql", Append(f, Setting("checked")))
<1>1. PICK h : h = MysqlOrder(M)
  OBVIOUS
<1>2. Lists(h, M)
  BY <1>1, MysqlOrderIs
<1>3. PICK L \in Nat : L = Len(h) /\ DOMAIN h = 1 .. L
  BY <1>2 DEF Lists
<1>4. k = L + 1
  BY <1>1, <1>3 DEF SoFar
<1>5. Preceding(M, k) = M
  <2>1. Preceding(M, k) = {h[j] : j \in 1 .. L}
    BY <1>1, <1>3, <1>4 DEF Preceding
  <2>2. \A j \in 1 .. L : h[j] \in M
    BY <1>2, <1>3 DEF Lists
  <2>3. \A o \in M : \E j \in 1 .. L : h[j] = o
    BY <1>2, <1>3 DEF Lists
  <2> QED BY <2>1, <2>2, <2>3
<1>6. PICK x \in Int : x = Total(M, R)
  BY AmountsAre DEF SoFar
<1>7. Yields(f, M, x)
  BY <1>5, <1>6 DEF SoFar
<1>8. PICK y : y = "checked"
  OBVIOUS
<1>9. PICK s : s = Setting(y)
  OBVIOUS
<1>10. s \in FileStatements /\ s.op = y /\ Yields(<<s>>, {}, 0)
  BY <1>8, <1>9, SettingIs
<1>11. PICK z \in Int : z = 0
  OBVIOUS
<1>12. PICK N : N = {}
  OBVIOUS
<1>13. Yields(<<s>>, N, z)
  BY <1>10, <1>11, <1>12
<1>14. Yields(f \o <<s>>, M \cup N, x + z)
  <2>1. M \cap N = {}
    BY <1>12
  <2> QED BY <1>7, <1>13, <2>1, YieldsBoth
<1>15. M \cup N = M /\ x + z = x
  BY <1>11, <1>12
<1>16. f \in Seq(FileStatements)
  BY <1>7 DEF Yields
<1>17. Append(f, s) = f \o <<s>>
  BY <1>10, <1>16, AppendProperties
<1>18. PICK g : g = Append(f, s)
  OBVIOUS
<1>19. Yields(g, M, x)
  BY <1>14, <1>15, <1>17, <1>18
<1>20. PICK p \in Nat : p = Len(f)
  BY <1>16
<1>21. Len(g) = p + 1 /\ (\A j \in 1 .. p : g[j] = f[j]) /\ g[p + 1] = s
  BY <1>10, <1>16, <1>18, <1>20
<1>22. p >= 1 /\ f[1].op = "unchecked" /\ \A j \in 2 .. p : f[j].op \in {"create", "insert"}
  BY <1>20 DEF SoFar
<1>23. Framed("mysql", g)
  <2>1. Len(g) >= 2 /\ 1 \in 1 .. p
    BY <1>20, <1>21, <1>22
  <2>2. g[1].op = "unchecked" /\ g[Len(g)].op = "checked"
    BY <1>8, <1>10, <1>21, <1>22, <2>1
  <2>3. ASSUME NEW j \in 2 .. Len(g) - 1 PROVE g[j].op \in {"create", "insert"}
    <3>1. j \in 1 .. p /\ j \in 2 .. p
      BY <1>20, <1>21
    <3> QED BY <1>21, <1>22, <3>1
  <2> QED BY <2>1, <2>2, <2>3 DEF Framed
<1> QED BY <1>6, <1>8, <1>9, <1>18, <1>19, <1>23

-----------------------------------------------------------------------------
(* What the import makes of a file *)

\* What the pieces of a file are, and those that leave its frame alone.
ImportStatements ==
    [op : {"create", "insert", "head", "inner", "end", "unchecked", "begin", "commit", "checked"},
     obj : Objects \cup Nat \cup {o.link[2] : o \in Objects}, n : Nat]
Middle == {"create", "insert", "head", "inner", "end"}

\* The frame of a file is still one around what its objects came apart into.
Cutting(e, f) ==
    /\ e = "mysql" =>
         /\ Len(f) >= 2 /\ f[1].op = "unchecked" /\ f[Len(f)].op = "checked"
         /\ \A j \in 2 .. Len(f) - 1 : f[j].op \in Middle
    /\ e = "sqlite" =>
         /\ Len(f) >= 4 /\ f[1].op = "unchecked" /\ f[2].op = "begin"
         /\ f[Len(f) - 1].op = "commit" /\ f[Len(f)].op = "checked"
         /\ \A j \in 3 .. Len(f) - 2 : f[j].op \in Middle
    /\ e \notin {"mysql", "sqlite"} => \A j \in DOMAIN f : f[j].op \in Middle

\* A body comes apart into pieces of the middle; every other statement stays.
LEMMA FragmentsAre ==
  ASSUME NEW e, NEW s \in FileStatements
  PROVE  /\ Fragments(e, s) \in Seq(ImportStatements)
         /\ s.op # "create" => Fragments(e, s) = <<s>>
         /\ s.op \in {"create", "insert"} =>
               \A j \in 1 .. Len(Fragments(e, s)) : Fragments(e, s)[j].op \in Middle
<1>1. s \in ImportStatements
  BY DEF FileStatements, ImportStatements
<1>2. CASE ~(s.op = "create" /\ CutApart(e, s.obj))
  <2>1. Fragments(e, s) = <<s>>
    BY <1>2, Zenon DEF Fragments
  <2>2. PICK t : t = <<s>>
    OBVIOUS
  <2>3. t \in Seq(ImportStatements) /\ Len(t) = 1 /\ t[1] = s
    BY <1>1, <2>2
  <2> QED BY <2>1, <2>2, <2>3 DEF Middle
<1>3. CASE s.op = "create" /\ CutApart(e, s.obj)
  <2>1. PICK o \in Objects : o = s.obj
    BY <1>3 DEF FileStatements
  <2>2. PICK b \in Seq(BodyParts) : b = o.body
    BY DEF Objects
  <2>3. PICK h : h = [op |-> "head", obj |-> o, n |-> 0]
    OBVIOUS
  <2>4. h \in ImportStatements /\ h.op = "head"
    BY <2>3 DEF ImportStatements
  <2>5. PICK t : t = [j \in DOMAIN b |-> IF b[j] = "insert" THEN Insert(o.link[2], 1) ELSE Setting(b[j])]
    OBVIOUS
  <2>6. ASSUME NEW j \in DOMAIN b PROVE t[j] \in ImportStatements /\ t[j].op \in Middle
    <3>1. b[j] \in BodyParts
      OBVIOUS
    <3>2. CASE b[j] = "insert"
      <4>1. t[j] = [op |-> "insert", obj |-> o.link[2], n |-> 1]
        BY <2>5, <3>2 DEF Insert
      <4> QED BY <4>1 DEF ImportStatements, Middle
    <3>3. CASE b[j] # "insert"
      <4>1. t[j] = [op |-> b[j], obj |-> 0, n |-> 0]
        BY <2>5, <3>3 DEF Setting
      <4>2. b[j] = "inner" \/ b[j] = "end"
        BY <3>1, <3>3 DEF BodyParts
      <4> QED BY <4>1, <4>2 DEF ImportStatements, Middle
    <3> QED BY <3>2, <3>3
  <2>7. PICK N \in Nat : N = Len(b) /\ DOMAIN b = 1 .. N
    OBVIOUS
  <2>8. t \in Seq(ImportStatements) /\ Len(t) = N
    <3>1. t \in [1 .. N -> ImportStatements]
      BY <2>5, <2>6, <2>7
    <3> QED BY <2>7, <3>1
  <2>9. PICK g : g = <<h>>
    OBVIOUS
  <2>10. g \in Seq(ImportStatements) /\ Len(g) = 1 /\ g[1] = h
    BY <2>4, <2>9
  <2>11a. g \in Seq(ImportStatements) /\ t \in Seq(ImportStatements)
    BY <2>8, <2>10
  <2>11b. /\ g \o t \in Seq(ImportStatements) /\ Len(g \o t) = Len(g) + Len(t)
          /\ \A i \in 1 .. Len(g) + Len(t) :
                (g \o t)[i] = IF i <= Len(g) THEN g[i] ELSE t[i - Len(g)]
    BY <2>11a, ConcatProperties
  <2>12. PICK w : w = g \o t
    OBVIOUS
  <2>11. /\ w \in Seq(ImportStatements) /\ Len(w) = 1 + N
         /\ \A i \in 1 .. 1 + N : w[i] = IF i <= 1 THEN g[i] ELSE t[i - 1]
    BY <2>8, <2>10, <2>11b, <2>12
  <2>13. ASSUME NEW i \in 1 .. 1 + N PROVE w[i].op \in Middle
    <3>1. CASE i = 1
      BY <2>4, <2>10, <2>11, <3>1 DEF Middle
    <3>2. CASE i # 1
      <4>1. i - 1 \in DOMAIN b /\ ~(i <= 1)
        BY <2>7, <3>2
      <4>2. w[i] = t[i - 1]
        BY <2>11, <4>1
      <4> QED BY <2>6, <4>1, <4>2
    <3> QED BY <3>1, <3>2
  <2>14. Fragments(e, s) = w
    <3>1. Fragments(e, s) = <<[op |-> "head", obj |-> s.obj, n |-> 0]>>
             \o [j \in DOMAIN s.obj.body |-> IF s.obj.body[j] = "insert" THEN Insert(s.obj.link[2], 1)
                                             ELSE Setting(s.obj.body[j])]
      BY <1>3, Zenon DEF Fragments
    <3> QED BY <2>1, <2>2, <2>3, <2>5, <2>9, <2>12, <3>1
  <2> QED BY <1>3, <2>11, <2>13, <2>14
<1> QED BY <1>2, <1>3

\* The pieces of every statement of a file.
PiecesOf(e, f) == [i \in DOMAIN f |-> Fragments(e, f[i])]

\* The pieces of a file, and where those of its statements are.
LEMMA FragmentsOfFile ==
  ASSUME NEW e, NEW f \in Seq(FileStatements)
  PROVE  /\ AllFragments(e, f) \in Seq(ImportStatements)
         /\ PiecesOf(e, f) \in Seq(Seq(ImportStatements)) /\ Len(PiecesOf(e, f)) = Len(f)
         /\ Places(PiecesOf(e, f), Len(f), AllFragments(e, f)) # {}
<1>1. PICK q : q = PiecesOf(e, f)
  OBVIOUS
<1>2. PICK N \in Nat : N = Len(f) /\ DOMAIN f = 1 .. N
  OBVIOUS
<1>3. q \in [1 .. N -> Seq(ImportStatements)]
  BY <1>1, <1>2, FragmentsAre DEF PiecesOf
<1>4. q \in Seq(Seq(ImportStatements)) /\ Len(q) = N
  BY <1>2, <1>3
<1>5. PICK g : g = FlattenSeq(q)
  OBVIOUS
<1>6. g \in Seq(ImportStatements) /\ Places(q, N, g) # {}
  BY <1>4, <1>5, PlacesExist
<1>7. AllFragments(e, f) = g
  BY <1>1, <1>5 DEF AllFragments, PiecesOf
<1> QED BY <1>1, <1>2, <1>4, <1>6, <1>7

\* What cutting leaves of the frame: its statements stay whole where they are.
LEMMA CutFramed ==
  ASSUME NEW e, NEW f \in Seq(FileStatements), Framed(e, f)
  PROVE  Cutting(e, AllFragments(e, f))
<1>1. PICK q, g : q = PiecesOf(e, f) /\ g = AllFragments(e, f)
  OBVIOUS
<1>2. PICK N \in Nat : N = Len(f) /\ DOMAIN f = 1 .. N
  OBVIOUS
<1>3. g \in Seq(ImportStatements) /\ q \in Seq(Seq(ImportStatements)) /\ Len(q) = N
  BY <1>1, <1>2, FragmentsOfFile
<1>4. PICK ends : ends \in Places(q, N, g)
  BY <1>1, <1>2, FragmentsOfFile
<1>5. PICK L \in Nat : L = Len(g) /\ DOMAIN g = 1 .. L
  BY <1>3
<1>6. /\ ends \in [0 .. N -> Nat] /\ ends[0] = 0 /\ ends[N] = L
      /\ \A k \in 1 .. N : /\ ends[k] = ends[k - 1] + Len(q[k]) /\ ends[k] <= L
                           /\ \A j \in 1 .. Len(q[k]) : g[ends[k - 1] + j] = q[k][j]
  BY <1>4, <1>5 DEF Places
<1>7. \A k \in 1 .. N : q[k] = Fragments(e, f[k]) /\ f[k] \in FileStatements
  BY <1>1, <1>2 DEF PiecesOf
\* A statement of the frame is one piece.
<1>8. ASSUME NEW k \in 1 .. N, f[k].op \notin {"create", "insert"}
      PROVE  Len(q[k]) = 1 /\ ends[k] = ends[k - 1] + 1 /\ g[ends[k]] = f[k] /\ ends[k - 1] \in Nat
  <2>1. q[k] = <<f[k]>>
    BY <1>7, <1>8, FragmentsAre
  <2>2. k - 1 \in 0 .. N
    OBVIOUS
  <2>3. ends[k - 1] \in Nat
    <3>1. ends \in [0 .. N -> Nat]
      BY <1>6
    <3> QED BY <2>2, <3>1
  <2>4. PICK t, c : t = q[k] /\ c = f[k]
    OBVIOUS
  <2>5. t = <<c>>
    BY <2>1, <2>4
  <2>6. Len(t) = 1 /\ t[1] = c
    BY <2>5
  <2>7. 1 \in 1 .. Len(q[k])
    BY <2>4, <2>6
  <2>8. g[ends[k - 1] + 1] = q[k][1] /\ ends[k] = ends[k - 1] + 1
    BY <1>6, <2>4, <2>6, <2>7
  <2> QED BY <2>3, <2>4, <2>6, <2>8
\* Every other place is one of a piece of the middle.
<1>9. ASSUME NEW i \in 1 .. L
      PROVE  \E k \in 1 .. N : /\ \E j \in 1 .. Len(q[k]) : i = ends[k - 1] + j
                               /\ f[k].op \in {"create", "insert"} => g[i].op \in Middle
  <2>0. \E k \in 1 .. N : \E j \in 1 .. Len(q[k]) : i = ends[k - 1] + j /\ g[i] = q[k][j]
    <3>1. PICK W : W = ImportStatements
      OBVIOUS
    <3>2. q \in Seq(Seq(W)) /\ N = Len(q) /\ ends \in Places(q, N, g)
      BY <1>3, <1>4, <3>1
    <3>3. FromParts(q, N, g, ends)
      BY <3>2, PlacesCover
    <3>4. i \in 1 .. Len(g)
      BY <1>5
    <3> QED BY <3>3, <3>4 DEF FromParts
  <2>1. PICK k \in 1 .. N : \E j \in 1 .. Len(q[k]) : i = ends[k - 1] + j /\ g[i] = q[k][j]
    BY <2>0
  <2>2. f[k].op \in {"create", "insert"} => \A j \in 1 .. Len(q[k]) : q[k][j].op \in Middle
    BY <1>7, FragmentsAre
  <2> QED BY <2>1, <2>2
<1>10. CASE e = "mysql"
  <2>1. /\ N >= 2 /\ f[1].op = "unchecked" /\ f[N].op = "checked"
        /\ \A k \in 2 .. N - 1 : f[k].op \in {"create", "insert"}
    BY <1>2, <1>10 DEF Framed
  <2>2. Len(q[1]) = 1 /\ ends[1] = 1 /\ g[1] = f[1]
    <3>1. 1 \in 1 .. N /\ 1 - 1 = 0
      BY <2>1
    <3>2. Len(q[1]) = 1 /\ ends[1] = ends[1 - 1] + 1 /\ g[ends[1]] = f[1]
      BY <1>8, <2>1, <3>1
    <3>3. ends[1] = 1
      BY <1>6, <3>1, <3>2
    <3> QED BY <3>2, <3>3
  <2>3. Len(q[N]) = 1 /\ L = ends[N - 1] + 1 /\ g[L] = f[N] /\ ends[N - 1] \in Nat
    <3>1. N \in 1 .. N
      BY <2>1
    <3> QED BY <1>6, <1>8, <2>1, <3>1
  <2>4. L >= 2
    <3>1. L # 1
      BY <2>1, <2>2, <2>3
    <3> QED BY <2>3, <3>1
  <2>5. ASSUME NEW i \in 2 .. L - 1 PROVE g[i].op \in Middle
    <3>1. i \in 1 .. L
      OBVIOUS
    <3>2. PICK k \in 1 .. N : /\ \E j \in 1 .. Len(q[k]) : i = ends[k - 1] + j
                              /\ f[k].op \in {"create", "insert"} => g[i].op \in Middle
      BY <1>9, <3>1
    <3>3. PICK j \in 1 .. Len(q[k]) : i = ends[k - 1] + j
      BY <3>2
    <3>4. k # 1
      <4> SUFFICES ASSUME k = 1 PROVE FALSE
        OBVIOUS
      <4>1. j = 1 /\ k - 1 = 0
        BY <2>2, <3>3
      <4> QED BY <1>6, <3>3, <4>1
    <3>5. k # N
      <4> SUFFICES ASSUME k = N PROVE FALSE
        OBVIOUS
      <4>1. j = 1
        BY <2>3, <3>3
      <4>2. i = ends[N - 1] + 1
        BY <3>3, <4>1
      <4> QED BY <2>3, <4>2
    <3>6. k \in 2 .. N - 1
      BY <3>4, <3>5
    <3> QED BY <2>1, <3>2, <3>6
  <2> QED BY <1>1, <1>5, <1>10, <2>1, <2>2, <2>3, <2>4, <2>5 DEF Cutting
<1>11. CASE e = "sqlite"
  <2>1. /\ N >= 4 /\ f[1].op = "unchecked" /\ f[2].op = "begin"
        /\ f[N - 1].op = "commit" /\ f[N].op = "checked"
        /\ \A k \in 3 .. N - 2 : f[k].op \in {"create", "insert"}
    BY <1>2, <1>11 DEF Framed
  <2>2. Len(q[1]) = 1 /\ ends[1] = 1 /\ g[1] = f[1]
    <3>1. 1 \in 1 .. N /\ 1 - 1 = 0
      BY <2>1
    <3>2. Len(q[1]) = 1 /\ ends[1] = ends[1 - 1] + 1 /\ g[ends[1]] = f[1]
      BY <1>8, <2>1, <3>1
    <3>3. ends[1] = 1
      BY <1>6, <3>1, <3>2
    <3> QED BY <3>2, <3>3
  <2>3. Len(q[2]) = 1 /\ ends[2] = 2 /\ g[2] = f[2]
    <3>1. 2 \in 1 .. N /\ 2 - 1 = 1
      BY <2>1
    <3>2. Len(q[2]) = 1 /\ ends[2] = ends[2 - 1] + 1 /\ g[ends[2]] = f[2]
      BY <1>8, <2>1, <3>1
    <3> QED BY <2>2, <3>1, <3>2
  <2>4. Len(q[N]) = 1 /\ L = ends[N - 1] + 1 /\ g[L] = f[N]
    <3>1. N \in 1 .. N
      BY <2>1
    <3> QED BY <1>6, <1>8, <2>1, <3>1
  <2>5. Len(q[N - 1]) = 1 /\ ends[N - 1] = ends[N - 2] + 1 /\ g[ends[N - 1]] = f[N - 1]
        /\ ends[N - 2] \in Nat
    <3>1. PICK m \in 1 .. N : m = N - 1
      BY <2>1
    <3>2. Len(q[m]) = 1 /\ ends[m] = ends[m - 1] + 1 /\ g[ends[m]] = f[m] /\ ends[m - 1] \in Nat
      BY <1>8, <2>1, <3>1
    <3>3. m - 1 = N - 2
      BY <3>1
    <3> QED BY <3>1, <3>2, <3>3
  <2>6. L - 1 = ends[N - 1] /\ L - 1 = ends[N - 2] + 1 /\ g[L - 1] = f[N - 1] /\ L >= 2
    <3>1. PICK z \in Nat : z = ends[N - 2]
      BY <2>5
    <3>2. ends[N - 1] = z + 1 /\ L = (z + 1) + 1
      BY <2>4, <2>5, <3>1
    <3>3. L - 1 = ends[N - 1] /\ L - 1 = z + 1 /\ L >= 2
      BY <3>2
    <3> QED BY <2>5, <3>1, <3>3
  <2>7. L >= 4
    <3>1. L # 2
      BY <2>1, <2>3, <2>4
    <3>2. L - 1 # 2
      BY <2>1, <2>3, <2>6
    <3> QED BY <2>6, <3>1, <3>2
  <2>8. ASSUME NEW i \in 3 .. L - 2 PROVE g[i].op \in Middle
    <3>1. i \in 1 .. L
      OBVIOUS
    <3>2. PICK k \in 1 .. N : /\ \E j \in 1 .. Len(q[k]) : i = ends[k - 1] + j
                              /\ f[k].op \in {"create", "insert"} => g[i].op \in Middle
      BY <1>9, <3>1
    <3>3. PICK j \in 1 .. Len(q[k]) : i = ends[k - 1] + j
      BY <3>2
    <3>4. k # 1
      <4> SUFFICES ASSUME k = 1 PROVE FALSE
        OBVIOUS
      <4>1. j = 1 /\ k - 1 = 0
        BY <2>2, <3>3
      <4> QED BY <1>6, <3>3, <4>1
    <3>5. k # 2
      <4> SUFFICES ASSUME k = 2 PROVE FALSE
        OBVIOUS
      <4>1. j = 1 /\ k - 1 = 1
        BY <2>3, <3>3
      <4> QED BY <2>2, <3>3, <4>1
    <3>6. k # N
      <4> SUFFICES ASSUME k = N PROVE FALSE
        OBVIOUS
      <4>1. j = 1
        BY <2>4, <3>3
      <4>2. i = ends[N - 1] + 1
        BY <3>3, <4>1
      <4> QED BY <2>4, <4>2
    <3>7. k # N - 1
      <4> SUFFICES ASSUME k = N - 1 PROVE FALSE
        OBVIOUS
      <4>1. j = 1 /\ k - 1 = N - 2
        BY <2>5, <3>3
      <4>2. i = ends[N - 2] + 1
        BY <3>3, <4>1
      <4> QED BY <2>6, <4>2
    <3>8. k \in 3 .. N - 2
      BY <3>4, <3>5, <3>6, <3>7
    <3> QED BY <2>1, <3>2, <3>8
  <2> QED BY <1>1, <1>5, <1>11, <2>1, <2>2, <2>3, <2>4, <2>6, <2>7, <2>8 DEF Cutting
<1>12. CASE e \notin {"mysql", "sqlite"}
  <2>1. \A k \in 1 .. N : f[k].op \in {"create", "insert"}
    BY <1>2, <1>12 DEF Framed, Quiet
  <2>2. \A i \in 1 .. L : g[i].op \in Middle
    BY <1>9, <2>1
  <2> QED BY <1>1, <1>5, <1>12, <2>2 DEF Cutting
<1> QED BY <1>10, <1>11, <1>12

-----------------------------------------------------------------------------
(* The invariant *)

\* The catalogue has objects with different names, what was read is told apart by kind.
Known ==
    /\ dbtype \in Engines
    /\ IsFiniteSet(cat) /\ cat \subseteq Objects /\ \A o, p \in cat : o.name = p.name => o = p
    /\ IsFiniteSet(meta) /\ meta \subseteq Objects /\ Distinct(meta)
    /\ columned \subseteq Nat /\ Counts(rowsRead) /\ nth \in Nat \ {0}
\* Every object that was read is of a kind that one of the queries so far reads.
ReadSoFar(e, M, k) == \A o \in M : \E j \in DOMAIN Queries(e) : j < k /\ o.kind \in Queries(e)[j]
Gathering ==
    /\ exporting = "idle" => nth = 1
    /\ exporting \in {"idle", "read"} => DOMAIN rowsRead = {} /\ ReadSoFar(dbtype, meta, nth)
    /\ exporting \notin {"idle", "read"} => \A o \in meta : o.kind \in Found(dbtype)
    /\ exporting \in {"data", "fetch"} => dbtype # "mysql"
    /\ exporting \in {"idle", "read", "data", "fetch"} => file = <<>>
\* Only ClickHouse's exports are cancelled, and those that are never reach the script.
Cancelling ==
    /\ token \in {"none", "registered", "cancelled"} /\ early \in BOOLEAN
    /\ token # "none" => dbtype = "clickhouse" /\ exporting \notin {"idle", "done"}
    /\ early => \/ exporting \in {"read", "data", "fetch"} /\ token = "cancelled"
                \/ exporting = "done" /\ result = ExportError /\ file = <<>>
\* The file holds what was read and what the report says.
Whole == Yields(file, meta, Total(meta, rowsRead)) /\ Framed(dbtype, file)
ExportReport ==
    [kind |-> "ok", tables |-> Size(meta, {"table"}), views |-> Size(meta, {"view", "mview"}),
     triggers |-> Size(meta, {"trigger"}), rows |-> Total(meta, rowsRead)]
Writing ==
    /\ exporting \in {"idle", "read", "data", "fetch", "write", "flush", "done"}
    /\ exporting = "write" /\ dbtype = "mysql" => SoFar(meta, rowsRead, file, nth)
    /\ exporting = "flush" => Whole
    /\ exporting # "done" => result = NoResult
    /\ exporting = "done" => result = ExportError \/ (result = ExportReport /\ Whole)
    /\ file \in Seq(FileStatements)
\* Every statement that ran is counted and the first failures are recorded.
Importing ==
    /\ statements \in Seq(ImportStatements)
    /\ doing \in {"idle", "run", "done"} /\ (exporting # "done" => doing = "idle")
    /\ line \in Nat \ {0} /\ line <= Len(statements) + 1
    /\ doing = "idle" => line = 1
    /\ doing = "done" => line = Len(statements) + 1
    /\ ok \in Nat /\ failed \in Nat /\ ok + failed = line - 1
    /\ wrong \in Seq(Nat) /\ Len(wrong) = failed
    /\ failures \in Seq(Nat) /\ Len(failures) = Less(MaxRecorded, failed)
    /\ \A k \in 1 .. Len(failures) : failures[k] = wrong[k]
\* The session before the i-th of n statements: an END may have ended SQLite's transaction.
SessionOk(e, i, n, s) ==
    \E tx, un \in BOOLEAN :
        /\ s = [tx |-> tx, unchecked |-> un]
        /\ un = (e \in {"mysql", "sqlite"} /\ i \in 2 .. n)
        /\ tx => e = "sqlite" /\ i \in 3 .. n - 1
SessionKept ==
    /\ broken \in Nat
    /\ doing = "idle" => session = Clean
    /\ doing # "idle" /\ result.kind = "ok" /\ broken = 0 =>
          Cutting(dbtype, statements) /\ SessionOk(dbtype, line, Len(statements), session)
FileInv == Known /\ Gathering /\ Cancelling /\ Writing /\ Importing /\ SessionKept
\* The queries q read kinds of K, every query others than the ones before it.
Covered(q, K) ==
    \A j \in DOMAIN q : q[j] \cap ObjectKinds \subseteq K /\ q[j] \subseteq ObjectKinds \cup {"columns", "keys"}
Apart(q) ==
    \A j, k \in DOMAIN q : j < k =>
        \A a \in q[j], b \in q[k] : a \in ObjectKinds /\ b \in ObjectKinds => ~Alike(a, b)

\* The queries of SQL Server.
LEMMA SqlserverQueries ==
  ASSUME NEW q, q = SqlserverReads \o SqlserverReadsMore
  PROVE  /\ q \in Seq(SUBSET (ObjectKinds \cup {"columns", "keys"})) /\ Len(q) = 7
         /\ q[1] = {"table", "view"} /\ q[2] = {"columns"} /\ q[3] = {"keys"} /\ q[4] = {"index"}
         /\ q[5] = {"fk"} /\ q[6] = {"trigger"} /\ q[7] = {"routine"}
<1>1. PICK T : T = SUBSET (ObjectKinds \cup {"columns", "keys"})
  OBVIOUS
<1>2. PICK a : a = SqlserverReads
  OBVIOUS
<1>3. PICK b : b = SqlserverReadsMore
  OBVIOUS
<1>4. a = <<{"table", "view"}, {"columns"}, {"keys"}>>
  BY <1>2 DEF SqlserverReads
<1>5. b = <<{"index"}, {"fk"}, {"trigger"}, {"routine"}>>
  BY <1>3 DEF SqlserverReadsMore
<1>6. a \in Seq(T)
  BY <1>1, <1>4 DEF ObjectKinds
<1>7. b \in Seq(T)
  BY <1>1, <1>5 DEF ObjectKinds
<1>8. Len(a) = 3 /\ a[1] = {"table", "view"} /\ a[2] = {"columns"} /\ a[3] = {"keys"}
  BY <1>4
<1>9. /\ Len(b) = 4 /\ b[1] = {"index"} /\ b[2] = {"fk"} /\ b[3] = {"trigger"}
      /\ b[4] = {"routine"}
  BY <1>5
<1>10. q = a \o b
  BY <1>2, <1>3
<1>11. q \in Seq(T) /\ Len(q) = 7 /\ \A j \in 1 .. 7 : q[j] = IF j <= 3 THEN a[j] ELSE b[j - 3]
  <2>1. /\ a \o b \in Seq(T) /\ Len(a \o b) = Len(a) + Len(b)
        /\ \A j \in 1 .. Len(a) + Len(b) :
              (a \o b)[j] = IF j <= Len(a) THEN a[j] ELSE b[j - Len(a)]
    BY <1>6, <1>7, ConcatProperties
  <2>2. PICK h : h = a \o b
    OBVIOUS
  <2>3. /\ h \in Seq(T) /\ Len(h) = 3 + 4
        /\ \A j \in 1 .. 3 + 4 : h[j] = IF j <= 3 THEN a[j] ELSE b[j - 3]
    BY <1>8, <1>9, <2>1, <2>2
  <2>4. q = h
    BY <1>10, <2>2
  <2> QED BY <2>3, <2>4
<1>12. q[1] = a[1] /\ q[2] = a[2] /\ q[3] = a[3] /\ q[4] = b[1] /\ q[5] = b[2] /\ q[6] = b[3]
       /\ q[7] = b[4]
  <2>1. 1 \in 1 .. 7 /\ 2 \in 1 .. 7 /\ 3 \in 1 .. 7 /\ 4 \in 1 .. 7 /\ 5 \in 1 .. 7
        /\ 6 \in 1 .. 7 /\ 7 \in 1 .. 7
    OBVIOUS
  <2> QED BY <1>11, <2>1
<1> QED BY <1>1, <1>8, <1>9, <1>11, <1>12

\* No kind is read twice, and what the queries of an engine read is what its script writes.
LEMMA QueriesAre ==
  ASSUME NEW e \in Engines
  PROVE  /\ Queries(e) \in Seq(SUBSET (ObjectKinds \cup {"columns", "keys"}))
         /\ Covered(Queries(e), Found(e)) /\ Apart(Queries(e))
<1>1. CASE e = "mysql"
  <2>1. PICK q : q = MysqlReads
    OBVIOUS
  <2>2. q = <<{"table", "view"}, {"trigger"}, {"event"}>>
    BY <2>1 DEF MysqlReads
  <2>3. q \in Seq(SUBSET (ObjectKinds \cup {"columns", "keys"}))
    BY <2>2 DEF ObjectKinds
  <2>4. DOMAIN q = {1, 2, 3} /\ q[1] = {"table", "view"} /\ q[2] = {"trigger"} /\ q[3] = {"event"}
    BY <2>2
  <2>5. Apart(q)
    BY <2>4 DEF Apart, Alike
  <2>6. Found(e) = {"table", "view", "trigger", "event"} /\ Queries(e) = q
    BY <1>1, <2>1 DEF Found, Queries
  <2>7. Covered(q, Found(e))
    BY <2>4, <2>6 DEF Covered, ObjectKinds
  <2> QED BY <2>3, <2>5, <2>6, <2>7
<1>2. CASE e = "sqlite"
  <2>1. PICK q : q = SqliteReads
    OBVIOUS
  <2>2. q = <<{"table", "view", "index", "trigger"}, {"columns"}>>
    BY <2>1 DEF SqliteReads
  <2>3. q \in Seq(SUBSET (ObjectKinds \cup {"columns", "keys"}))
    BY <2>2 DEF ObjectKinds
  <2>4. DOMAIN q = {1, 2} /\ q[1] = {"table", "view", "index", "trigger"} /\ q[2] = {"columns"}
    BY <2>2
  <2>5. Apart(q)
    BY <2>4 DEF Apart, Alike, ObjectKinds
  <2>6. Found(e) = {"table", "view", "index", "trigger"} /\ Queries(e) = q
    BY <1>2, <2>1 DEF Found, Queries
  <2>7. Covered(q, Found(e))
    BY <2>4, <2>6 DEF Covered, ObjectKinds
  <2> QED BY <2>3, <2>5, <2>6, <2>7
<1>3. CASE e = "clickhouse"
  <2>1. PICK q : q = ClickHouseReads
    OBVIOUS
  <2>2. q = <<{"table", "view", "mview"}>>
    BY <2>1 DEF ClickHouseReads
  <2>3. q \in Seq(SUBSET (ObjectKinds \cup {"columns", "keys"}))
    BY <2>2 DEF ObjectKinds
  <2>4. DOMAIN q = {1} /\ q[1] = {"table", "view", "mview"}
    BY <2>2
  <2>5. Apart(q)
    BY <2>4 DEF Apart
  <2>6. Found(e) = {"table", "view", "mview"} /\ Queries(e) = q
    BY <1>3, <2>1 DEF Found, Queries
  <2>7. Covered(q, Found(e))
    BY <2>4, <2>6 DEF Covered, ObjectKinds
  <2> QED BY <2>3, <2>5, <2>6, <2>7
<1>4. CASE e = "postgres"
  <2>1. PICK q : q = PostgresReads
    OBVIOUS
  <2>2. q = <<{"table", "view", "mview"}, {"columns"}, {"keys"}, {"index"}, {"fk"}, {"trigger"},
              {"routine"}>>
    BY <2>1 DEF PostgresReads
  <2>3. q \in Seq(SUBSET (ObjectKinds \cup {"columns", "keys"}))
    BY <2>2 DEF ObjectKinds
  <2>4. /\ DOMAIN q = 1 .. 7 /\ q[1] = {"table", "view", "mview"} /\ q[2] = {"columns"}
        /\ q[3] = {"keys"} /\ q[4] = {"index"} /\ q[5] = {"fk"} /\ q[6] = {"trigger"}
        /\ q[7] = {"routine"}
    BY <2>2
  <2>5. \A j \in 1 .. 7 : j = 1 \/ j = 2 \/ j = 3 \/ j = 4 \/ j = 5 \/ j = 6 \/ j = 7
    OBVIOUS
  <2>6. Apart(q)
    BY <2>4, <2>5 DEF Apart, Alike, ObjectKinds
  <2>7. /\ Found(e) = {"table", "view", "mview", "index", "fk", "trigger", "routine"}
        /\ Queries(e) = q
    BY <1>4, <2>1 DEF Found, Queries
  <2>8. Covered(q, Found(e))
    BY <2>4, <2>5, <2>7 DEF Covered, ObjectKinds
  <2> QED BY <2>3, <2>6, <2>7, <2>8
<1>5. CASE e = "sqlserver"
  <2>1. PICK q : q = SqlserverReads \o SqlserverReadsMore
    OBVIOUS
  <2>2. /\ q \in Seq(SUBSET (ObjectKinds \cup {"columns", "keys"})) /\ Len(q) = 7
        /\ q[1] = {"table", "view"} /\ q[2] = {"columns"} /\ q[3] = {"keys"} /\ q[4] = {"index"}
        /\ q[5] = {"fk"} /\ q[6] = {"trigger"} /\ q[7] = {"routine"}
    BY <2>1, SqlserverQueries
  <2>3. q \in Seq(SUBSET (ObjectKinds \cup {"columns", "keys"}))
    BY <2>2
  <2>4. /\ DOMAIN q = 1 .. 7 /\ q[1] = {"table", "view"} /\ q[2] = {"columns"}
        /\ q[3] = {"keys"} /\ q[4] = {"index"} /\ q[5] = {"fk"} /\ q[6] = {"trigger"}
        /\ q[7] = {"routine"}
    BY <2>2
  <2>5. \A j \in 1 .. 7 : j = 1 \/ j = 2 \/ j = 3 \/ j = 4 \/ j = 5 \/ j = 6 \/ j = 7
    OBVIOUS
  <2>6. Apart(q)
    BY <2>4, <2>5 DEF Apart, Alike, ObjectKinds
  <2>7. /\ Found(e) = {"table", "view", "index", "fk", "trigger", "routine"}
        /\ Queries(e) = q
    BY <1>5, <2>1 DEF Found, Queries
  <2>8. Covered(q, Found(e))
    BY <2>4, <2>5, <2>7 DEF Covered, ObjectKinds
  <2> QED BY <2>3, <2>6, <2>7, <2>8
<1> QED BY <1>1, <1>2, <1>3, <1>4, <1>5 DEF Engines

\* What one more query reads is told apart from what was read before.
LEMMA ReadMore ==
  ASSUME NEW e \in Engines, NEW k \in Nat \ {0}, k <= Len(Queries(e)),
         NEW M, IsFiniteSet(M), M \subseteq Objects, Distinct(M), ReadSoFar(e, M, k),
         NEW C, IsFiniteSet(C), C \subseteq Objects, \A o, p \in C : o.name = p.name => o = p
  PROVE  LET N == M \cup {o \in C : o.kind \in Queries(e)[k]}
         IN  IsFiniteSet(N) /\ N \subseteq Objects /\ Distinct(N) /\ ReadSoFar(e, N, k + 1)
<1>1. PICK q : q = Queries(e)
  OBVIOUS
<1>2. q \in Seq(SUBSET (ObjectKinds \cup {"columns", "keys"})) /\ Apart(q)
  BY <1>1, QueriesAre
<1>3. PICK B : B = {o \in C : o.kind \in q[k]}
  OBVIOUS
<1>4. IsFiniteSet(B) /\ B \subseteq Objects /\ B \subseteq C
  BY <1>3, FS_Subset
<1>5. PICK N : N = M \cup B
  OBVIOUS
<1>6. IsFiniteSet(N) /\ N \subseteq Objects
  BY <1>4, <1>5, FS_Union
<1>7. k \in DOMAIN q
  BY <1>1, <1>2
<1>8. ReadSoFar(e, N, k + 1)
  <2>1. \A o \in M : \E j \in DOMAIN q : j < k + 1 /\ o.kind \in q[j]
    <3>1. \A j \in DOMAIN q : j < k => j < k + 1
      BY <1>2
    <3> QED BY <1>1, <3>1 DEF ReadSoFar
  <2>2. \A o \in B : k \in DOMAIN q /\ k < k + 1 /\ o.kind \in q[k]
    BY <1>3, <1>7
  <2> QED BY <1>1, <1>5, <2>1, <2>2 DEF ReadSoFar
<1>9. ASSUME NEW o \in M, NEW p \in B PROVE ~Alike(o.kind, p.kind)
  <2>1. PICK j \in DOMAIN q : j < k /\ o.kind \in q[j]
    BY <1>1 DEF ReadSoFar
  <2>2. p.kind \in q[k]
    BY <1>3
  <2>3. o.kind \in ObjectKinds /\ p.kind \in ObjectKinds
    BY <1>4 DEF Objects
  <2> QED BY <1>2, <1>7, <2>1, <2>2, <2>3 DEF Apart
<1>10. \A a, b : Alike(a, b) => Alike(b, a)
  BY DEF Alike
<1>11. Distinct(N)
  <2>1. ASSUME NEW o \in N, NEW p \in N, o.name = p.name, Alike(o.kind, p.kind) PROVE o = p
    <3>1. CASE o \in M /\ p \in M
      BY <2>1, <3>1 DEF Distinct
    <3>2. CASE o \in B /\ p \in B
      BY <1>4, <2>1, <3>2
    <3>3. CASE o \in M /\ p \in B
      BY <1>9, <2>1, <3>3
    <3>4. CASE o \in B /\ p \in M
      BY <1>9, <1>10, <2>1, <3>4
    <3> QED BY <1>5, <3>1, <3>2, <3>3, <3>4
  <2> QED BY <2>1 DEF Distinct
<1> QED BY <1>1, <1>3, <1>5, <1>6, <1>8, <1>11

\* After the last query every kind that was read is one the script writes.
LEMMA ReadAll ==
  ASSUME NEW e \in Engines, NEW k, NEW M, M \subseteq Objects, ReadSoFar(e, M, k)
  PROVE  \A o \in M : o.kind \in Found(e)
<1>1. PICK q : q = Queries(e)
  OBVIOUS
<1>2. Covered(q, Found(e))
  BY <1>1, QueriesAre
<1>3. ASSUME NEW o \in M PROVE o.kind \in Found(e)
  <2>1. PICK j \in DOMAIN q : o.kind \in q[j]
    BY <1>1 DEF ReadSoFar
  <2>2. o.kind \in ObjectKinds
    BY DEF Objects
  <2> QED BY <1>2, <2>1, <2>2 DEF Covered
<1> QED BY <1>3

-----------------------------------------------------------------------------
(* The initial state and the export *)

\* Nothing has been read, written or imported.
LEMMA FileInvInit == FileInit => FileInv
<1> SUFFICES ASSUME FileInit PROVE FileInv
  OBVIOUS
<1>1. PICK w \in Catalogues : dbtype = w[1] /\ cat = w[2]
  BY DEF FileInit
<1>2. /\ w[1] \in {"mysql", "sqlite", "clickhouse", "postgres", "sqlserver"}
      /\ IsFiniteSet(w[2]) /\ w[2] \subseteq Objects
      /\ \A o, p \in w[2] : o.name = p.name => o = p
  BY CataloguesAreLegal
<1>3. /\ exporting = "idle" /\ nth = 1 /\ meta = {} /\ columned = {} /\ rowsRead = <<>>
      /\ file = <<>> /\ result = NoResult /\ token = "none" /\ early = FALSE
  BY DEF FileInit
<1>4. /\ doing = "idle" /\ statements = <<>> /\ line = 1 /\ ok = 0 /\ failed = 0 /\ failures = <<>> /\ wrong = <<>>
      /\ session = Clean /\ broken = 0
  BY DEF FileInit
<1>5. DOMAIN rowsRead = {} /\ Counts(rowsRead)
  BY <1>3 DEF Counts
<1>6. Known
  <2>1. IsFiniteSet(meta) /\ meta \subseteq Objects /\ Distinct(meta)
    BY <1>3, FS_EmptySet DEF Distinct
  <2> QED BY <1>1, <1>2, <1>3, <1>5, <2>1 DEF Known, Engines
<1>7. Gathering
  <2>1. ReadSoFar(dbtype, meta, nth)
    BY <1>3 DEF ReadSoFar
  <2> QED BY <1>3, <1>5, <2>1 DEF Gathering
<1>8. Cancelling
  BY <1>3 DEF Cancelling
<1>9. Writing
  <2>1. file \in Seq(FileStatements)
    BY <1>3
  <2> QED BY <1>3, <2>1 DEF Writing
<1>10. Importing
  <2>1. statements \in Seq(ImportStatements) /\ Len(statements) = 0
    BY <1>4
  <2>2. /\ wrong \in Seq(Nat) /\ Len(wrong) = 0 /\ failures \in Seq(Nat) /\ Len(failures) = 0
    BY <1>4
  <2>3. Less(MaxRecorded, 0) = 0
    BY FileLimits DEF Less
  <2> QED BY <1>3, <1>4, <2>1, <2>2, <2>3 DEF Importing
<1>11. SessionKept
  BY <1>3, <1>4 DEF SessionKept, NoResult
<1> QED BY <1>6, <1>7, <1>8, <1>9, <1>10, <1>11 DEF FileInv

\* While an export runs no import does, and its connection is clean.
LEMMA ImportWaits ==
  ASSUME Importing, SessionKept, exporting # "done", UNCHANGED import, broken' \in Nat
  PROVE  Importing' /\ SessionKept'
<1>1. /\ doing' = doing /\ statements' = statements /\ line' = line /\ ok' = ok
      /\ failed' = failed /\ failures' = failures /\ wrong' = wrong /\ session' = session
  BY DEF import
<1>2. doing' = "idle" /\ session' = Clean
  BY <1>1 DEF Importing, SessionKept
<1>3. Importing'
  BY <1>1, <1>2 DEF Importing
<1>4. SessionKept'
  BY <1>2 DEF SessionKept
<1> QED BY <1>3, <1>4

\* Every row count of a table that is there is a number.
LEMMA RowsOfIs ==
  ASSUME Known, NEW t, t \in Present
  PROVE  RowsOf(t) \in Nat
<1>1. \E p \in cat : p.name = t
  BY DEF Present
<1>2. PICK o : o = CHOOSE p \in cat : p.name = t
  OBVIOUS
<1>3. o \in cat
  BY <1>1, <1>2
<1>4. o.rows \in Nat
  BY <1>3 DEF Known, Objects
<1>5. RowsOf(t) = Less(o.rows, MaxRows)
  BY <1>2 DEF RowsOf
<1> QED BY <1>4, <1>5, FileLimits DEF Less

\* Starting an export.
LEMMA StartExportKeeps ==
  ASSUME FileInv, StartExport
  PROVE  FileInv'
<1>1. /\ exporting = "idle" /\ exporting' = "read" /\ UNCHANGED import /\ dbtype' = dbtype
      /\ cat' = cat /\ nth' = nth /\ meta' = meta /\ columned' = columned
      /\ rowsRead' = rowsRead /\ file' = file /\ result' = result /\ early' = early
      /\ broken' = broken
  BY DEF StartExport
<1>2. Known'
  BY <1>1 DEF FileInv, Known
<1>3. Gathering'
  BY <1>1 DEF FileInv, Gathering
<1>4. Cancelling'
  <2>1. token' \in IF dbtype = "clickhouse" THEN {"none", "registered"} ELSE {"none"}
    BY DEF StartExport
  <2>2. early = FALSE
    BY <1>1 DEF FileInv, Cancelling
  <2> QED BY <1>1, <2>1, <2>2 DEF Cancelling
<1>5. Writing'
  BY <1>1 DEF FileInv, Writing
<1>6. Importing' /\ SessionKept'
  <2>1. file' \in Seq(FileStatements) /\ broken' \in Nat
    BY <1>1 DEF FileInv, Writing, SessionKept
  <2> QED BY <1>1, <2>1, ImportWaits DEF FileInv
<1> QED BY <1>2, <1>3, <1>4, <1>5, <1>6 DEF FileInv

\* A query of the catalogue.
LEMMA ReadCatalogueKeeps ==
  ASSUME FileInv, ReadCatalogue, UNCHANGED <<dbtype, cat, include_data, import, changes, broken>>
  PROVE  FileInv'
<1>1. /\ exporting = "read" /\ nth <= Len(Queries(dbtype)) /\ nth' = nth + 1
      /\ meta' = meta \cup {o \in cat : o.kind \in Queries(dbtype)[nth]}
      /\ exporting' = exporting /\ rowsRead' = rowsRead /\ file' = file /\ result' = result
      /\ token' = token /\ early' = early /\ dbtype' = dbtype /\ cat' = cat /\ broken' = broken
      /\ UNCHANGED import
  BY DEF ReadCatalogue
<1>2. PICK e \in Engines : e = dbtype
  BY DEF FileInv, Known
<1>3. PICK k \in Nat \ {0} : k = nth
  BY DEF FileInv, Known
<1>4. PICK M : M = meta
  OBVIOUS
<1>5. PICK C : C = cat
  OBVIOUS
<1>6. /\ IsFiniteSet(M) /\ M \subseteq Objects /\ Distinct(M) /\ ReadSoFar(e, M, k)
      /\ IsFiniteSet(C) /\ C \subseteq Objects /\ \A o, p \in C : o.name = p.name => o = p
  BY <1>1, <1>2, <1>3, <1>4, <1>5 DEF FileInv, Known, Gathering
<1>7. k <= Len(Queries(e))
  BY <1>1, <1>2, <1>3
<1>8. PICK N : N = M \cup {o \in C : o.kind \in Queries(e)[k]}
  OBVIOUS
<1>9. IsFiniteSet(N) /\ N \subseteq Objects /\ Distinct(N) /\ ReadSoFar(e, N, k + 1)
  BY <1>6, <1>7, <1>8, ReadMore
<1>10. meta' = N
  BY <1>1, <1>2, <1>3, <1>4, <1>5, <1>8
<1>11. columned' \subseteq Nat
  <2>1. {o.name : o \in {p \in cat : p.kind = "table"}} \subseteq Nat
    BY DEF FileInv, Known, Objects
  <2>2. columned \subseteq Nat
    BY DEF FileInv, Known
  <2> QED BY <2>1, <2>2 DEF ReadCatalogue
<1>12. Known'
  <2>1. nth' \in Nat \ {0}
    BY <1>1, <1>3
  <2> QED BY <1>1, <1>9, <1>10, <1>11, <2>1 DEF FileInv, Known
<1>13. Gathering'
  <2>1. ReadSoFar(dbtype', meta', nth')
    BY <1>1, <1>2, <1>3, <1>9, <1>10
  <2> QED BY <1>1, <2>1 DEF FileInv, Gathering
<1>14. Cancelling'
  BY <1>1 DEF FileInv, Cancelling
<1>15. Writing'
  BY <1>1 DEF FileInv, Writing
<1>16. Importing' /\ SessionKept'
  <2>1. file' \in Seq(FileStatements) /\ broken' \in Nat
    BY <1>1 DEF FileInv, Writing, SessionKept
  <2> QED BY <1>1, <2>1, ImportWaits DEF FileInv
<1> QED BY <1>12, <1>13, <1>14, <1>15, <1>16 DEF FileInv

\* The end of the catalogue: MySQL begins to write.
LEMMA CatalogueReadKeeps ==
  ASSUME FileInv, CatalogueRead, UNCHANGED <<dbtype, cat, include_data, import, changes, broken>>
  PROVE  FileInv'
<1>1. /\ exporting = "read" /\ nth' = 1
      /\ exporting' = IF dbtype = "mysql" THEN "write" ELSE "data"
      /\ file' = IF dbtype = "mysql" THEN <<Setting("unchecked")>> ELSE file
      /\ meta' = meta /\ columned' = columned /\ rowsRead' = rowsRead /\ result' = result
      /\ token' = token /\ early' = early /\ dbtype' = dbtype /\ cat' = cat /\ broken' = broken
      /\ UNCHANGED import
  BY DEF CatalogueRead
<1>2. Known'
  BY <1>1 DEF FileInv, Known
<1>3. \A o \in meta : o.kind \in Found(dbtype)
  <2>1. PICK e \in Engines : e = dbtype
    BY DEF FileInv, Known
  <2>2. PICK M, k : M = meta /\ k = nth
    OBVIOUS
  <2>3. M \subseteq Objects /\ ReadSoFar(e, M, k)
    BY <1>1, <2>1, <2>2 DEF FileInv, Known, Gathering
  <2>4. \A o \in M : o.kind \in Found(e)
    BY <2>3, ReadAll
  <2> QED BY <2>1, <2>2, <2>4
<1>4. Gathering'
  BY <1>1, <1>3 DEF FileInv, Gathering
<1>5. Cancelling'
  BY <1>1 DEF FileInv, Cancelling
<1>6. dbtype = "mysql" => SoFar(meta, rowsRead, <<Setting("unchecked")>>, 1)
  <2> SUFFICES ASSUME dbtype = "mysql" PROVE SoFar(meta, rowsRead, <<Setting("unchecked")>>, 1)
    OBVIOUS
  <2>1. PICK M : M = meta
    OBVIOUS
  <2>2. PICK R : R = rowsRead
    OBVIOUS
  <2>3. /\ IsFiniteSet(M) /\ M \subseteq Objects /\ Distinct(M) /\ Counts(R) /\ DOMAIN R = {}
        /\ \A o \in M : o.kind \in Found("mysql")
    BY <1>1, <1>3, <2>1, <2>2 DEF FileInv, Known, Gathering
  <2>4. SoFar(M, R, <<Setting("unchecked")>>, 1)
    BY <2>3, SoFarStart
  <2> QED BY <2>1, <2>2, <2>4
<1>7. file' \in Seq(FileStatements)
  <2>1. file \in Seq(FileStatements)
    BY DEF FileInv, Writing
  <2>2. Setting("unchecked") \in FileStatements
    BY SettingIs
  <2>3. <<Setting("unchecked")>> \in Seq(FileStatements)
    BY <2>2
  <2> QED BY <1>1, <2>1, <2>3
<1>8. Writing'
  <2>1. exporting' = "write" /\ dbtype' = "mysql" => SoFar(meta', rowsRead', file', nth')
    BY <1>1, <1>6
  <2>2. result = NoResult
    BY <1>1 DEF FileInv, Writing
  <2> QED BY <1>1, <1>7, <2>1, <2>2 DEF Writing
<1>9. Importing' /\ SessionKept'
  <2>1. broken' \in Nat
    BY <1>1 DEF FileInv, SessionKept
  <2> QED BY <1>1, <1>7, <2>1, ImportWaits DEF FileInv
<1> QED BY <1>2, <1>4, <1>5, <1>8, <1>9 DEF FileInv

\* Reading the rows of all tables at once.
LEMMA ReadAllRowsKeeps ==
  ASSUME FileInv, ReadAllRows, UNCHANGED <<dbtype, cat, include_data, import, changes, broken>>
  PROVE  FileInv'
<1>1. /\ exporting = "data" /\ dbtype # "clickhouse" /\ exporting' = "write" /\ nth' = 1
      /\ meta' = meta /\ columned' = columned /\ file' = file /\ result' = result
      /\ token' = token /\ early' = early /\ dbtype' = dbtype /\ cat' = cat /\ broken' = broken
      /\ UNCHANGED import
  BY DEF ReadAllRows
<1>2. Counts(rowsRead')
  <2>1. CASE include_data
    <3>1. WithColumns \subseteq Present /\ rowsRead' = [t \in WithColumns |-> RowsOf(t)]
      BY <2>1 DEF ReadAllRows
    <3>2. \A t \in WithColumns : RowsOf(t) \in Nat
      BY <3>1, RowsOfIs DEF FileInv
    <3> QED BY <3>1, <3>2 DEF Counts
  <2>2. CASE ~include_data
    <3>1. rowsRead' = <<>>
      BY <2>2 DEF ReadAllRows
    <3> QED BY <3>1 DEF Counts
  <2> QED BY <2>1, <2>2
<1>3. Known'
  BY <1>1, <1>2 DEF FileInv, Known
<1>4. Gathering'
  BY <1>1 DEF FileInv, Gathering
<1>5. Cancelling'
  BY <1>1 DEF FileInv, Cancelling
<1>6. Writing'
  BY <1>1 DEF FileInv, Writing, Gathering
<1>7. Importing' /\ SessionKept'
  <2>1. file' \in Seq(FileStatements) /\ broken' \in Nat
    BY <1>1 DEF FileInv, Writing, SessionKept
  <2> QED BY <1>1, <2>1, ImportWaits DEF FileInv
<1> QED BY <1>3, <1>4, <1>5, <1>6, <1>7 DEF FileInv

\* ClickHouse: the query for the rows of the next table.
LEMMA BeginTableKeeps ==
  ASSUME FileInv, BeginTable, UNCHANGED <<dbtype, cat, include_data, import, changes, broken>>
  PROVE  FileInv'
<1>1. /\ exporting = "data" /\ dbtype = "clickhouse" /\ exporting' = "fetch" /\ nth' = nth
      /\ meta' = meta /\ columned' = columned /\ rowsRead' = rowsRead /\ file' = file
      /\ result' = result /\ token' = token /\ early' = early /\ dbtype' = dbtype /\ cat' = cat
      /\ broken' = broken /\ UNCHANGED import
  BY DEF BeginTable
<1>2. Known'
  BY <1>1 DEF FileInv, Known
<1>3. Gathering'
  BY <1>1 DEF FileInv, Gathering
<1>4. Cancelling'
  BY <1>1 DEF FileInv, Cancelling
<1>5. Writing'
  BY <1>1 DEF FileInv, Writing
<1>6. Importing' /\ SessionKept'
  <2>1. file' \in Seq(FileStatements) /\ broken' \in Nat
    BY <1>1 DEF FileInv, Writing, SessionKept
  <2> QED BY <1>1, <2>1, ImportWaits DEF FileInv
<1> QED BY <1>2, <1>3, <1>4, <1>5, <1>6 DEF FileInv

\* ClickHouse: the rows of one table have been read.
LEMMA TableReadKeeps ==
  ASSUME FileInv, TableRead, UNCHANGED <<dbtype, cat, include_data, import, changes, broken>>
  PROVE  FileInv'
<1>1. /\ exporting = "fetch" /\ exporting' = "data" /\ nth' = nth + 1
      /\ meta' = meta /\ columned' = columned /\ file' = file
      /\ result' = result /\ token' = token /\ early' = early /\ dbtype' = dbtype /\ cat' = cat
      /\ broken' = broken /\ UNCHANGED import
  BY DEF TableRead
<1>2. PICK t : t = ListedTables(meta)[nth].name
  OBVIOUS
<1>3. t \in Present /\ rowsRead' = With(rowsRead, t, RowsOf(t))
  BY <1>2 DEF TableRead
<1>4. PICK n \in Nat : n = RowsOf(t)
  BY <1>3, RowsOfIs DEF FileInv
<1>5. PICK R : R = rowsRead
  OBVIOUS
<1>6. Counts(R)
  BY <1>5 DEF FileInv, Known
<1>7. Counts(rowsRead')
  <2>1. Noted(With(R, t, n), R, t, n)
    BY <1>6, WithIs
  <2> QED BY <1>3, <1>4, <1>5, <2>1 DEF Noted
<1>8. Known'
  <2>1. nth' \in Nat \ {0}
    BY <1>1 DEF FileInv, Known
  <2> QED BY <1>1, <1>7, <2>1 DEF FileInv, Known
<1>9. Gathering'
  BY <1>1 DEF FileInv, Gathering
<1>10. Cancelling'
  BY <1>1 DEF FileInv, Cancelling
<1>11. Writing'
  BY <1>1 DEF FileInv, Writing
<1>12. Importing' /\ SessionKept'
  <2>1. file' \in Seq(FileStatements) /\ broken' \in Nat
    BY <1>1 DEF FileInv, Writing, SessionKept
  <2> QED BY <1>1, <2>1, ImportWaits DEF FileInv
<1> QED BY <1>8, <1>9, <1>10, <1>11, <1>12 DEF FileInv

\* ClickHouse: all rows have been read and nobody cancelled.
LEMMA DataOverKeeps ==
  ASSUME FileInv, DataOver, UNCHANGED <<dbtype, cat, include_data, import, changes, broken>>
  PROVE  FileInv'
<1>1. /\ exporting = "data" /\ dbtype = "clickhouse" /\ token # "cancelled"
      /\ exporting' = "write" /\ nth' = 1
      /\ meta' = meta /\ columned' = columned /\ rowsRead' = rowsRead /\ file' = file
      /\ result' = result /\ token' = token /\ early' = early /\ dbtype' = dbtype /\ cat' = cat
      /\ broken' = broken /\ UNCHANGED import
  BY DEF DataOver, Cancelled
<1>2. Known'
  BY <1>1 DEF FileInv, Known
<1>3. Gathering'
  BY <1>1 DEF FileInv, Gathering
<1>4. Cancelling'
  BY <1>1 DEF FileInv, Cancelling
<1>5. Writing'
  BY <1>1 DEF FileInv, Writing
<1>6. Importing' /\ SessionKept'
  <2>1. file' \in Seq(FileStatements) /\ broken' \in Nat
    BY <1>1 DEF FileInv, Writing, SessionKept
  <2> QED BY <1>1, <2>1, ImportWaits DEF FileInv
<1> QED BY <1>2, <1>3, <1>4, <1>5, <1>6 DEF FileInv

\* The scripts of the buffered engines hold what was read.
LEMMA ScriptIs ==
  ASSUME NEW e \in Engines, e # "mysql", NEW M, IsFiniteSet(M), M \subseteq Objects, Distinct(M),
         NEW R, Counts(R), \A o \in M : o.kind \in Found(e),
         NEW f, f = CASE e = "sqlite" -> SqliteScript(M, R)
                      [] e = "clickhouse" -> ClickHouseScript(M, R)
                      [] OTHER -> SchemaScript(M, R)
  PROVE  Yields(f, M, Total(M, R)) /\ Framed(e, f)
<1>1. CASE e = "sqlite"
  <2>1. f = SqliteScript(M, R)
    BY <1>1
  <2>2. \A o \in M : o.kind \in Found("sqlite")
    BY <1>1
  <2>3. Yields(SqliteScript(M, R), M, Total(M, R)) /\ Framed("sqlite", SqliteScript(M, R))
    BY <2>2, SqliteScriptIs
  <2> QED BY <1>1, <2>1, <2>3
<1>2. CASE e = "clickhouse"
  <2>1. f = ClickHouseScript(M, R)
    BY <1>2
  <2>2. \A o \in M : o.kind \in Found("clickhouse")
    BY <1>2
  <2>3. QuietPart(ClickHouseScript(M, R), M, Total(M, R))
    BY <2>2, ClickHouseScriptIs
  <2>4. QuietPart(f, M, Total(M, R))
    BY <2>1, <2>3
  <2> QED BY <1>2, <2>4 DEF QuietPart, Framed
<1>3. CASE e \in {"postgres", "sqlserver"}
  <2>1. f = SchemaScript(M, R)
    BY <1>3
  <2>2. \A o \in M : o.kind \in Found("postgres") \cup Found("sqlserver")
    BY <1>3
  <2>3. QuietPart(SchemaScript(M, R), M, Total(M, R))
    BY <2>2, SchemaScriptIs
  <2>4. QuietPart(f, M, Total(M, R))
    BY <2>1, <2>3
  <2> QED BY <1>3, <2>4 DEF QuietPart, Framed
<1> QED BY <1>1, <1>2, <1>3 DEF Engines

\* Writing the script.
LEMMA WriteScriptKeeps ==
  ASSUME FileInv, WriteScript, UNCHANGED <<dbtype, cat, include_data, import, changes, broken>>
  PROVE  FileInv'
<1>1. /\ exporting = "write" /\ dbtype # "mysql" /\ exporting' = "flush" /\ nth' = nth
      /\ meta' = meta /\ columned' = columned /\ rowsRead' = rowsRead
      /\ result' = result /\ token' = token /\ early' = early /\ dbtype' = dbtype /\ cat' = cat
      /\ broken' = broken /\ UNCHANGED import
      /\ file' = CASE dbtype = "sqlite" -> SqliteScript(meta, rowsRead)
                   [] dbtype = "clickhouse" -> ClickHouseScript(meta, rowsRead)
                   [] OTHER -> SchemaScript(meta, rowsRead)
  BY DEF WriteScript
<1>2. PICK e \in Engines : e = dbtype
  BY DEF FileInv, Known
<1>3. PICK M : M = meta
  OBVIOUS
<1>4. PICK R : R = rowsRead
  OBVIOUS
<1>5. PICK f : f = file'
  OBVIOUS
<1>6. /\ e # "mysql" /\ IsFiniteSet(M) /\ M \subseteq Objects /\ Distinct(M) /\ Counts(R)
      /\ \A o \in M : o.kind \in Found(e)
  BY <1>1, <1>2, <1>3, <1>4 DEF FileInv, Known, Gathering
<1>7. f = CASE e = "sqlite" -> SqliteScript(M, R)
            [] e = "clickhouse" -> ClickHouseScript(M, R)
            [] OTHER -> SchemaScript(M, R)
  BY <1>1, <1>2, <1>3, <1>4, <1>5
<1>8. Yields(f, M, Total(M, R)) /\ Framed(e, f)
  BY <1>6, <1>7, ScriptIs
<1>9. Whole'
  BY <1>1, <1>2, <1>3, <1>4, <1>5, <1>8 DEF Whole
<1>10. file' \in Seq(FileStatements)
  BY <1>5, <1>8 DEF Yields
<1>11. Known'
  BY <1>1 DEF FileInv, Known
<1>12. Gathering'
  BY <1>1 DEF FileInv, Gathering
<1>13. Cancelling'
  BY <1>1 DEF FileInv, Cancelling
<1>14. Writing'
  BY <1>1, <1>9, <1>10 DEF FileInv, Writing
<1>15. Importing' /\ SessionKept'
  <2>1. broken' \in Nat
    BY <1>1 DEF FileInv, SessionKept
  <2> QED BY <1>1, <1>10, <2>1, ImportWaits DEF FileInv
<1> QED BY <1>11, <1>12, <1>13, <1>14, <1>15 DEF FileInv

\* MySQL: an object without rows.
LEMMA ObjectAlone ==
  ASSUME NEW M, IsFiniteSet(M), M \subseteq Objects, Distinct(M),
         \A o \in M : o.kind \in Found("mysql"),
         NEW R, NEW f, NEW k, SoFar(M, R, f, k), k <= Len(MysqlOrder(M))
  PROVE  SoFar(M, R, (f \o <<Create(MysqlOrder(M)[k])>>) \o <<>>, k + 1)
<1>1. PICK n \in Nat : n = 0
  OBVIOUS
<1>2. PICK g : g = <<>>
  OBVIOUS
<1>3. Yields(g, {}, n) /\ Quiet(g)
  BY <1>1, <1>2, YieldsNone
<1>4. Counts(R)
  BY DEF SoFar
<1>5. PICK x \in Int : x = Total(M, R)
  BY <1>4, AmountsAre
<1>6. Total(M, R) = Total(M, R) + n
  BY <1>1, <1>5
<1>7. SoFar(M, R, (f \o <<Create(MysqlOrder(M)[k])>>) \o g, k + 1)
  BY <1>3, <1>4, <1>6, SoFarNext
<1> QED BY <1>2, <1>7

\* MySQL: a table and its rows.
LEMMA TableAndRows ==
  ASSUME NEW M, IsFiniteSet(M), M \subseteq Objects, Distinct(M),
         \A o \in M : o.kind \in Found("mysql"),
         NEW R, NEW f, NEW k, SoFar(M, R, f, k), k <= Len(MysqlOrder(M)),
         NEW o, o = MysqlOrder(M)[k], o.kind = "table", NEW n \in Nat,
         NEW P, P = [t \in {o.name} |-> n]
  PROVE  SoFar(M, With(R, o.name, n), (f \o <<Create(o)>>) \o Inserts(P, o.name), k + 1)
<1>1. PICK h : h = MysqlOrder(M)
  OBVIOUS
<1>2. PICK q : q = ListedTables(M)
  OBVIOUS
<1>3. /\ Lists(h, M)
      /\ \A j \in DOMAIN h : h[j].kind = "table" => j \in DOMAIN q /\ h[j] = q[j]
  BY <1>1, <1>2, MysqlOrderIs
<1>4. k \in DOMAIN h /\ k \in Nat
  BY <1>1, <1>3 DEF SoFar, Lists
<1>5. o = h[k] /\ o \in M /\ k \in DOMAIN q /\ q[k] = o
  BY <1>1, <1>3, <1>4 DEF Lists
<1>6. PICK t \in Nat : t = o.name
  BY <1>5 DEF Objects
<1>7. Counts(P) /\ Given(P, t) = n
  BY <1>6 DEF Counts, Given
<1>8. PICK g : g = Inserts(P, t)
  OBVIOUS
<1>9. Yields(g, {}, n) /\ Quiet(g)
  <2>1. Yields(Inserts(P, t), {}, Given(P, t)) /\ Quiet(Inserts(P, t))
    BY <1>7, InsertsIs
  <2> QED BY <1>7, <1>8, <2>1
<1>10. t \notin DOMAIN R
  <2>1. ASSUME t \in DOMAIN R PROVE FALSE
    <3>1. PICK p \in Preceding(M, k) : p.kind = "table" /\ p.name = t
      BY <2>1 DEF SoFar
    <3>2. PICK j \in 1 .. k - 1 : p = h[j]
      BY <1>1, <3>1 DEF Preceding
    <3>3. j \in DOMAIN h /\ j # k
      BY <1>3, <1>4, <3>2 DEF Lists
    <3>4. p \in M
      BY <1>3, <3>2, <3>3 DEF Lists
    <3>5. p = o
      BY <1>5, <1>6, <3>1, <3>4 DEF Distinct, Alike
    <3> QED BY <1>3, <1>4, <1>5, <3>2, <3>3, <3>5 DEF Lists
  <2> QED BY <2>1
<1>11. Counts(R)
  BY DEF SoFar
<1>12. PICK Q : Q = With(R, t, n)
  OBVIOUS
<1>13. Noted(Q, R, t, n)
  <2>1. Noted(With(R, t, n), R, t, n)
    BY <1>11, WithIs
  <2> QED BY <1>12, <2>1
<1>14. Total(M, Q) = Total(M, R) + n
  <2>1. k \in DOMAIN ListedTables(M) /\ ListedTables(M)[k].name = t
    BY <1>2, <1>5, <1>6
  <2>2. ListedTables(M)[k].name \notin DOMAIN R
    BY <1>10, <2>1
  <2>3. Total(M, With(R, ListedTables(M)[k].name, n)) = Total(M, R) + n
    BY <1>11, <2>1, <2>2, TotalWith
  <2> QED BY <1>12, <2>1, <2>3
<1>15. Counts(Q) /\ DOMAIN Q = DOMAIN R \cup {t}
  BY <1>13 DEF Noted
<1>16. \A u \in DOMAIN Q : u \in DOMAIN R
          \/ (MysqlOrder(M)[k].kind = "table" /\ u = MysqlOrder(M)[k].name)
  BY <1>6, <1>15
<1>17. SoFar(M, Q, (f \o <<Create(MysqlOrder(M)[k])>>) \o g, k + 1)
  BY <1>9, <1>14, <1>15, <1>16, SoFarNext
<1> QED BY <1>6, <1>8, <1>12, <1>17

\* MySQL writes one object.
LEMMA WriteObjectKeeps ==
  ASSUME FileInv, WriteObject, UNCHANGED <<dbtype, cat, include_data, import, changes, broken>>
  PROVE  FileInv'
<1>1. /\ exporting = "write" /\ dbtype = "mysql" /\ nth <= Len(MysqlOrder(meta))
      /\ exporting' = exporting /\ nth' = nth + 1
      /\ meta' = meta /\ columned' = columned
      /\ result' = result /\ token' = token /\ early' = early /\ dbtype' = dbtype /\ cat' = cat
      /\ broken' = broken /\ UNCHANGED import
  BY DEF WriteObject
<1>2. PICK o : o = MysqlOrder(meta)[nth]
  OBVIOUS
<1>3. PICK rows \in BOOLEAN : rows = (o.kind = "table" /\ include_data)
  OBVIOUS
<1>4. /\ o.name \in Present
      /\ file' = (file \o <<Create(o)>>)
                    \o IF rows THEN Inserts([t \in {o.name} |-> RowsOf(t)], o.name) ELSE <<>>
      /\ rowsRead' = IF rows THEN With(rowsRead, o.name, RowsOf(o.name)) ELSE rowsRead
  BY <1>2, <1>3 DEF WriteObject
<1>5. PICK M : M = meta
  OBVIOUS
<1>6. PICK R : R = rowsRead
  OBVIOUS
<1>7. PICK f : f = file
  OBVIOUS
<1>8. PICK k : k = nth
  OBVIOUS
<1>9. /\ IsFiniteSet(M) /\ M \subseteq Objects /\ Distinct(M)
      /\ \A p \in M : p.kind \in Found("mysql")
      /\ SoFar(M, R, f, k) /\ k <= Len(MysqlOrder(M)) /\ o = MysqlOrder(M)[k]
  BY <1>1, <1>2, <1>5, <1>6, <1>7, <1>8 DEF FileInv, Known, Gathering, Writing
<1>10. PICK n \in Nat : n = RowsOf(o.name)
  BY <1>4, RowsOfIs DEF FileInv
<1>11. SoFar(meta', rowsRead', file', nth')
  <2>1. CASE rows
    <3>1. PICK P : P = [t \in {o.name} |-> n]
      OBVIOUS
    <3>2. P = [t \in {o.name} |-> RowsOf(t)]
      BY <1>10, <3>1
    <3>3. o.kind = "table"
      BY <1>3, <2>1
    <3>4. SoFar(M, With(R, o.name, n), (f \o <<Create(o)>>) \o Inserts(P, o.name), k + 1)
      BY <1>9, <3>1, <3>3, TableAndRows
    <3>5. file' = (f \o <<Create(o)>>) \o Inserts(P, o.name)
      BY <1>4, <1>7, <2>1, <3>2
    <3>6. rowsRead' = With(R, o.name, n)
      BY <1>4, <1>6, <1>10, <2>1
    <3> QED BY <1>1, <1>5, <1>8, <3>4, <3>5, <3>6
  <2>2. CASE ~rows
    <3>1. SoFar(M, R, (f \o <<Create(MysqlOrder(M)[k])>>) \o <<>>, k + 1)
      BY <1>9, ObjectAlone
    <3>2. SoFar(M, R, (f \o <<Create(o)>>) \o <<>>, k + 1)
      BY <1>9, <3>1
    <3>3. file' = (f \o <<Create(o)>>) \o <<>> /\ rowsRead' = R
      BY <1>4, <1>6, <1>7, <2>2
    <3> QED BY <1>1, <1>5, <1>8, <3>2, <3>3
  <2> QED BY <2>1, <2>2
<1>12. file' \in Seq(FileStatements) /\ Counts(rowsRead') /\ nth' \in Nat \ {0}
  BY <1>11 DEF SoFar, Yields
<1>13. Known'
  BY <1>1, <1>12 DEF FileInv, Known
<1>14. Gathering'
  BY <1>1 DEF FileInv, Gathering
<1>15. Cancelling'
  BY <1>1 DEF FileInv, Cancelling
<1>16. Writing'
  BY <1>1, <1>11, <1>12 DEF FileInv, Writing
<1>17. Importing' /\ SessionKept'
  <2>1. broken' \in Nat
    BY <1>1 DEF FileInv, SessionKept
  <2> QED BY <1>1, <1>12, <2>1, ImportWaits DEF FileInv
<1> QED BY <1>13, <1>14, <1>15, <1>16, <1>17 DEF FileInv

\* MySQL ends its file.
LEMMA WriteFooterKeeps ==
  ASSUME FileInv, WriteFooter, UNCHANGED <<dbtype, cat, include_data, import, changes, broken>>
  PROVE  FileInv'
<1>1. /\ exporting = "write" /\ dbtype = "mysql" /\ nth > Len(MysqlOrder(meta))
      /\ exporting' = "flush" /\ file' = Append(file, Setting("checked")) /\ nth' = nth
      /\ meta' = meta /\ columned' = columned /\ rowsRead' = rowsRead
      /\ result' = result /\ token' = token /\ early' = early /\ dbtype' = dbtype /\ cat' = cat
      /\ broken' = broken /\ UNCHANGED import
  BY DEF WriteFooter
<1>2. PICK M : M = meta
  OBVIOUS
<1>3. PICK R : R = rowsRead
  OBVIOUS
<1>4. PICK f : f = file
  OBVIOUS
<1>5. PICK k : k = nth
  OBVIOUS
<1>6. /\ IsFiniteSet(M) /\ M \subseteq Objects /\ Distinct(M)
      /\ \A p \in M : p.kind \in Found("mysql")
  BY <1>1, <1>2, <1>3, <1>4, <1>5 DEF FileInv, Known, Gathering, Writing
<1>6a. SoFar(M, R, f, k)
  BY <1>1, <1>2, <1>3, <1>4, <1>5 DEF FileInv, Writing
<1>7. ~(k <= Len(MysqlOrder(M)))
  <2>1. Lists(MysqlOrder(M), M)
    BY <1>6, MysqlOrderIs
  <2>2. Len(MysqlOrder(M)) \in Nat /\ k \in Nat
    BY <1>6a, <2>1 DEF Lists, SoFar
  <2> QED BY <1>1, <1>2, <1>5, <2>2
<1>8. /\ Yields(Append(f, Setting("checked")), M, Total(M, R))
      /\ Framed("mysql", Append(f, Setting("checked")))
  BY <1>6, <1>6a, <1>7, SoFarEnd
<1>9. Yields(file', M, Total(M, R)) /\ Framed("mysql", file')
  BY <1>1, <1>4, <1>8
<1>10. Whole'
  BY <1>1, <1>2, <1>3, <1>9 DEF Whole
<1>11. file' \in Seq(FileStatements)
  BY <1>9 DEF Yields
<1>12. Known'
  BY <1>1 DEF FileInv, Known
<1>13. Gathering'
  BY <1>1 DEF FileInv, Gathering
<1>14. Cancelling'
  BY <1>1 DEF FileInv, Cancelling
<1>15. Writing'
  BY <1>1, <1>10, <1>11 DEF FileInv, Writing
<1>16. Importing' /\ SessionKept'
  <2>1. broken' \in Nat
    BY <1>1 DEF FileInv, SessionKept
  <2> QED BY <1>1, <1>11, <2>1, ImportWaits DEF FileInv
<1> QED BY <1>12, <1>13, <1>14, <1>15, <1>16 DEF FileInv

\* The file is complete.
LEMMA FlushKeeps ==
  ASSUME FileInv, Flush, UNCHANGED <<dbtype, cat, include_data, import, changes, broken>>
  PROVE  FileInv'
<1>1. /\ exporting = "flush" /\ exporting' = "done" /\ token' = "none"
      /\ nth' = nth /\ file' = file
      /\ meta' = meta /\ columned' = columned /\ rowsRead' = rowsRead
      /\ early' = early /\ dbtype' = dbtype /\ cat' = cat /\ broken' = broken /\ UNCHANGED import
  BY DEF Flush
<1>2. result' = ExportReport
  BY DEF Flush, ExportReport
<1>3. Known'
  BY <1>1 DEF FileInv, Known
<1>4. Gathering'
  BY <1>1 DEF FileInv, Gathering
<1>5. Cancelling'
  BY <1>1 DEF FileInv, Cancelling
<1>6. Writing'
  <2>1. Whole'
    BY <1>1 DEF FileInv, Writing, Whole
  <2>2. ExportReport' = ExportReport
    BY <1>1 DEF ExportReport
  <2>3. file' \in Seq(FileStatements)
    BY <1>1 DEF FileInv, Writing
  <2> QED BY <1>1, <1>2, <2>1, <2>2, <2>3 DEF Writing
<1>7. Importing' /\ SessionKept'
  <2>1. file' \in Seq(FileStatements) /\ broken' \in Nat
    BY <1>1 DEF FileInv, Writing, SessionKept
  <2> QED BY <1>1, <2>1, ImportWaits DEF FileInv
<1> QED BY <1>3, <1>4, <1>5, <1>6, <1>7 DEF FileInv

\* An export that ends with an error.
LEMMA AbortKeeps ==
  ASSUME FileInv, Abort, exporting \notin {"idle", "done"}, broken' \in Nat
  PROVE  FileInv'
<1>1. /\ result' = ExportError /\ exporting' = "done" /\ token' = "none"
      /\ nth' = nth /\ file' = file
      /\ meta' = meta /\ columned' = columned /\ rowsRead' = rowsRead
      /\ early' = early /\ dbtype' = dbtype /\ cat' = cat /\ UNCHANGED import
  BY DEF Abort
<1>2. Known'
  BY <1>1 DEF FileInv, Known
<1>3. Gathering'
  <2>1. \A o \in meta : o.kind \in Found(dbtype)
    <3>1. CASE exporting = "read"
      <4>1. PICK e \in Engines : e = dbtype
        BY DEF FileInv, Known
      <4>2. PICK M : M = meta
        OBVIOUS
      <4>3. PICK k : k = nth
        OBVIOUS
      <4>4. M \subseteq Objects /\ ReadSoFar(e, M, k)
        BY <3>1, <4>1, <4>2, <4>3 DEF FileInv, Known, Gathering
      <4>5. \A o \in M : o.kind \in Found(e)
        BY <4>4, ReadAll
      <4> QED BY <4>1, <4>2, <4>5
    <3>2. CASE exporting # "read"
      BY <3>2 DEF FileInv, Gathering
    <3> QED BY <3>1, <3>2
  <2> QED BY <1>1, <2>1 DEF Gathering
<1>4. Cancelling'
  <2>1. early => file = <<>>
    BY DEF FileInv, Cancelling, Gathering
  <2> QED BY <1>1, <2>1 DEF FileInv, Cancelling
<1>5. Writing'
  BY <1>1 DEF FileInv, Writing
<1>6. Importing' /\ SessionKept'
  <2>1. file' \in Seq(FileStatements)
    BY <1>1 DEF FileInv, Writing
  <2> QED BY <1>1, <2>1, ImportWaits DEF FileInv
<1> QED BY <1>2, <1>3, <1>4, <1>5, <1>6 DEF FileInv

\* A cancel.
LEMMA CancelKeeps ==
  ASSUME FileInv, Cancel
  PROVE  FileInv'
<1>1. /\ token = "registered" /\ token' = "cancelled"
      /\ early' = (exporting \in {"read", "data", "fetch"})
      /\ exporting' = exporting /\ nth' = nth /\ file' = file /\ result' = result
      /\ meta' = meta /\ columned' = columned /\ rowsRead' = rowsRead
      /\ dbtype' = dbtype /\ cat' = cat /\ UNCHANGED import /\ broken' = broken
  BY DEF Cancel
<1>2. Known'
  BY <1>1 DEF FileInv, Known
<1>3. Gathering'
  BY <1>1 DEF FileInv, Gathering
<1>4. Cancelling'
  BY <1>1 DEF FileInv, Cancelling
<1>5. Writing'
  BY <1>1 DEF FileInv, Writing, Whole, ExportReport
<1>6. Importing' /\ SessionKept'
  <2>1. file' \in Seq(FileStatements) /\ broken' \in Nat
    BY <1>1 DEF FileInv, Writing, SessionKept
  <2>2. exporting # "done"
    BY <1>1 DEF FileInv, Cancelling
  <2> QED BY <1>1, <2>1, <2>2, ImportWaits DEF FileInv
<1> QED BY <1>2, <1>3, <1>4, <1>5, <1>6 DEF FileInv

\* Another client changes the catalogue.
LEMMA AlterKeeps ==
  ASSUME FileInv, Alter
  PROVE  FileInv'
<1>1. /\ exporting \notin {"idle", "done"} /\ UNCHANGED <<dbtype, include_data, export, import, broken>>
  BY DEF Alter
<1>2. /\ exporting' = exporting /\ nth' = nth /\ file' = file /\ result' = result
      /\ meta' = meta /\ columned' = columned /\ rowsRead' = rowsRead
      /\ token' = token /\ early' = early
      /\ dbtype' = dbtype /\ UNCHANGED import /\ broken' = broken
  BY <1>1 DEF export
<1>3. IsFiniteSet(cat) /\ cat \subseteq Objects /\ \A o, p \in cat : o.name = p.name => o = p
  BY DEF FileInv, Known
<1>4. IsFiniteSet(cat') /\ cat' \subseteq Objects /\ \A o, p \in cat' : o.name = p.name => o = p
  <2>1. CASE \E o \in cat : cat' = cat \ {o}
    <3>1. PICK o \in cat : cat' = cat \ {o}
      BY <2>1
    <3>2. IsFiniteSet(cat \ {o})
      BY <1>3, FS_RemoveElement
    <3> QED BY <1>3, <3>1, <3>2
  <2>2. CASE \E o \in {p \in cat : p.kind = "table"}, n \in {9} \ Present :
                cat' = cat \cup {[o EXCEPT !.name = n]}
    <3>1. PICK o \in cat, n \in {9} \ Present : cat' = cat \cup {[o EXCEPT !.name = n]}
      BY <2>2
    <3>2. PICK q : q = [o EXCEPT !.name = n]
      OBVIOUS
    <3>3. o \in Objects /\ n \in Nat
      BY <1>3
    <3>4. q \in Objects /\ q.name = n
      BY <3>2, <3>3 DEF Objects
    <3>5. \A p \in cat : p.name # n
      BY <3>1 DEF Present
    <3>6. IsFiniteSet(cat \cup {q})
      BY <1>3, FS_AddElement
    <3>7. cat' = cat \cup {q}
      BY <3>1, <3>2
    <3> QED BY <1>3, <3>4, <3>5, <3>6, <3>7
  <2> QED BY <2>1, <2>2 DEF Alter
<1>5. Known'
  BY <1>2, <1>4 DEF FileInv, Known
<1>6. Gathering'
  BY <1>2 DEF FileInv, Gathering
<1>7. Cancelling'
  BY <1>2 DEF FileInv, Cancelling
<1>8. Writing'
  BY <1>2 DEF FileInv, Writing, Whole, ExportReport
<1>9. Importing' /\ SessionKept'
  <2>1. file' \in Seq(FileStatements) /\ broken' \in Nat
    BY <1>2 DEF FileInv, Writing, SessionKept
  <2> QED BY <1>1, <2>1, ImportWaits DEF FileInv
<1> QED BY <1>5, <1>6, <1>7, <1>8, <1>9 DEF FileInv

-----------------------------------------------------------------------------
(* The import *)

\* An import changes nothing about the export.
LEMMA ExportStays ==
  ASSUME FileInv, UNCHANGED <<dbtype, cat, include_data, export>>
  PROVE  /\ Known' /\ Gathering' /\ Cancelling' /\ Writing'
         /\ dbtype' = dbtype /\ file' = file /\ result' = result /\ exporting' = exporting
<1>1. /\ exporting' = exporting /\ nth' = nth /\ file' = file /\ result' = result
      /\ meta' = meta /\ columned' = columned /\ rowsRead' = rowsRead
      /\ token' = token /\ early' = early /\ dbtype' = dbtype /\ cat' = cat
  BY DEF export
<1>2. Known'
  BY <1>1 DEF FileInv, Known
<1>3. Gathering'
  BY <1>1 DEF FileInv, Gathering
<1>4. Cancelling'
  BY <1>1 DEF FileInv, Cancelling
<1>5. Writing'
  BY <1>1 DEF FileInv, Writing, Whole, ExportReport
<1> QED BY <1>1, <1>2, <1>3, <1>4, <1>5

\* Starting an import: what was a whole file is cut into pieces within its frame.
LEMMA StartImportKeeps ==
  ASSUME FileInv, StartImport
  PROVE  FileInv'
<1>1. /\ exporting = "done" /\ doing = "idle" /\ doing' = "run" /\ line' = line /\ ok' = ok
      /\ failed' = failed /\ failures' = failures /\ wrong' = wrong /\ session' = session
      /\ broken' = broken /\ UNCHANGED <<dbtype, cat, include_data, export>>
      /\ statements' = AllFragments(dbtype, file) /\ statements' # <<>>
  BY DEF StartImport
<1>2. /\ Known' /\ Gathering' /\ Cancelling' /\ Writing'
      /\ dbtype' = dbtype /\ file' = file /\ result' = result /\ exporting' = exporting
  BY <1>1, ExportStays
<1>3. PICK e, g : e = dbtype /\ g = file
  OBVIOUS
<1>4. PICK f : f = AllFragments(e, g)
  OBVIOUS
<1>5. g \in Seq(FileStatements)
  BY <1>3 DEF FileInv, Writing
<1>6. f \in Seq(ImportStatements)
  BY <1>4, <1>5, FragmentsOfFile
<1>7. statements' = f /\ Len(f) \in Nat
  BY <1>1, <1>3, <1>4, <1>6
<1>8. line' = 1 /\ session' = Clean
  BY <1>1 DEF FileInv, Importing, SessionKept
<1>9. Importing'
  BY <1>1, <1>2, <1>6, <1>7, <1>8 DEF FileInv, Importing
<1>10. ASSUME result'.kind = "ok"
       PROVE  Cutting(dbtype', statements') /\ SessionOk(dbtype', line', Len(statements'), session')
  <2>1. result # ExportError
    BY <1>2, <1>10 DEF ExportError
  <2>2. Framed(e, g)
    BY <1>1, <1>3, <2>1 DEF FileInv, Writing, Whole
  <2>3. Cutting(e, f)
    BY <1>4, <1>5, <2>2, CutFramed
  <2>4. PICK n \in Nat : n = Len(f)
    BY <1>7
  <2>5. ~(1 \in 2 .. n)
    BY <2>4
  <2>6. SessionOk(e, 1, n, Clean)
    <3>1. Clean = [tx |-> FALSE, unchecked |-> FALSE]
      BY DEF Clean
    <3>2. FALSE \in BOOLEAN /\ FALSE = (e \in {"mysql", "sqlite"} /\ 1 \in 2 .. n)
      BY <2>5
    <3> QED BY <3>1, <3>2 DEF SessionOk
  <2>7. dbtype' = e
    BY <1>2, <1>3
  <2> QED BY <1>7, <1>8, <2>3, <2>4, <2>6, <2>7
<1>11. SessionKept'
  BY <1>1, <1>10 DEF FileInv, SessionKept
<1> QED BY <1>2, <1>9, <1>11 DEF FileInv

\* What one piece of a framed file does to the session.
LEMMA SessionMoves ==
  ASSUME NEW e, NEW f \in Seq(ImportStatements), Cutting(e, f), NEW i \in Nat \ {0}, i <= Len(f)
  PROVE  /\ f[i].op = "begin" => e = "sqlite" /\ i = 2 /\ Len(f) >= 4
         /\ f[i].op = "commit" => e = "sqlite" /\ i = Len(f) - 1 /\ Len(f) >= 4
         /\ f[i].op = "unchecked" => e \in {"mysql", "sqlite"} /\ i = 1 /\ Len(f) >= 2
         /\ f[i].op = "checked" => e \in {"mysql", "sqlite"} /\ i = Len(f) /\ Len(f) >= 2
         /\ f[i].op \in Middle =>
               /\ e = "mysql" => i # 1 /\ i # Len(f)
               /\ e = "sqlite" => i # 1 /\ i # 2 /\ i # Len(f) - 1 /\ i # Len(f)
<1>1. PICK n \in Nat : n = Len(f)
  OBVIOUS
<1>2. i \in DOMAIN f /\ i \in 1 .. n
  BY <1>1
<1>2a. PICK x : x = f[i].op
  OBVIOUS
<1>3. CASE e = "mysql"
  <2>1. /\ n >= 2 /\ f[1].op = "unchecked" /\ f[n].op = "checked"
        /\ \A j \in 2 .. n - 1 : f[j].op \in Middle
    BY <1>1, <1>3 DEF Cutting, Middle
  <2>2. i = 1 \/ i = n \/ i \in 2 .. n - 1
    BY <1>1, <1>2
  <2>3. /\ i = 1 => x = "unchecked"
        /\ i = n => x = "checked"
        /\ i \in 2 .. n - 1 => x \in Middle
    BY <1>2a, <2>1
  <2> QED BY <1>1, <1>2a, <1>3, <2>1, <2>2, <2>3 DEF Middle
<1>4. CASE e = "sqlite"
  <2>1. /\ n >= 4 /\ f[1].op = "unchecked" /\ f[2].op = "begin" /\ f[n - 1].op = "commit"
        /\ f[n].op = "checked" /\ \A j \in 3 .. n - 2 : f[j].op \in Middle
    BY <1>1, <1>4 DEF Cutting, Middle
  <2>2. i = 1 \/ i = 2 \/ i = n - 1 \/ i = n \/ i \in 3 .. n - 2
    BY <1>1, <1>2
  <2>3. /\ i = 1 => x = "unchecked"
        /\ i = 2 => x = "begin"
        /\ i = n - 1 => x = "commit"
        /\ i = n => x = "checked"
        /\ i \in 3 .. n - 2 => x \in Middle
    BY <1>2a, <2>1
  <2>4. n >= 4
    BY <2>1
  <2>5. /\ x = "begin" => i = 2
        /\ x = "commit" => i = n - 1
        /\ x = "unchecked" => i = 1
        /\ x = "checked" => i = n
        /\ x \in Middle => i # 1 /\ i # 2 /\ i # n - 1 /\ i # n
    BY <1>1, <1>2, <2>2, <2>3, <2>4 DEF Middle
  <2> QED BY <1>1, <1>2a, <1>4, <2>4, <2>5 DEF Middle
<1>5. CASE e \notin {"mysql", "sqlite"}
  <2>1. f[i].op \in Middle
    BY <1>2, <1>5 DEF Cutting, Middle
  <2> QED BY <1>2a, <1>5, <2>1 DEF Middle
<1> QED BY <1>3, <1>4, <1>5

\* Changing one setting of a session leaves the other.
LEMMA SessionsAre ==
  ASSUME NEW a, NEW b, NEW s, s = [tx |-> a, unchecked |-> b], NEW x
  PROVE  /\ [s EXCEPT !.tx = x] = [tx |-> x, unchecked |-> b]
         /\ [s EXCEPT !.unchecked = x] = [tx |-> a, unchecked |-> x]
<1>1. [s EXCEPT !.tx = x] = [tx |-> x, unchecked |-> b]
  OBVIOUS
<1>2. [s EXCEPT !.unchecked = x] = [tx |-> a, unchecked |-> x]
  OBVIOUS
<1> QED BY <1>1, <1>2

\* The piece at i takes the session from where it is before i to where it is behind.
LEMMA SessionStep ==
  ASSUME NEW e, NEW f \in Seq(ImportStatements), Cutting(e, f), NEW i \in Nat \ {0}, i <= Len(f),
         NEW s, SessionOk(e, i, Len(f), s)
  PROVE  /\ f[i].op = "begin" =>
               ~s.tx /\ SessionOk(e, i + 1, Len(f), [s EXCEPT !.tx = TRUE])
         /\ f[i].op \in {"commit", "end"} => SessionOk(e, i + 1, Len(f), [s EXCEPT !.tx = FALSE])
         /\ f[i].op = "commit" /\ ~s.tx => SessionOk(e, i + 1, Len(f), s)
         /\ f[i].op = "unchecked" => SessionOk(e, i + 1, Len(f), [s EXCEPT !.unchecked = TRUE])
         /\ f[i].op = "checked" => SessionOk(e, i + 1, Len(f), [s EXCEPT !.unchecked = FALSE])
         /\ f[i].op \in Middle => SessionOk(e, i + 1, Len(f), s)
<1>1. PICK n \in Nat : n = Len(f)
  OBVIOUS
<1>2. PICK tx \in BOOLEAN, un \in BOOLEAN :
        /\ s = [tx |-> tx, unchecked |-> un]
        /\ un = (e \in {"mysql", "sqlite"} /\ i \in 2 .. n)
        /\ tx => e = "sqlite" /\ i \in 3 .. n - 1
  BY <1>1 DEF SessionOk
<1>3. PICK un2 \in BOOLEAN : un2 = (e \in {"mysql", "sqlite"} /\ i + 1 \in 2 .. n)
  OBVIOUS
<1>4. \A x \in BOOLEAN : (x => e = "sqlite" /\ i + 1 \in 3 .. n - 1)
                            => SessionOk(e, i + 1, n, [tx |-> x, unchecked |-> un2])
  BY <1>3 DEF SessionOk
<1>5. /\ f[i].op = "begin" => e = "sqlite" /\ i = 2 /\ n >= 4
      /\ f[i].op = "commit" => e = "sqlite" /\ i = n - 1 /\ n >= 4
      /\ f[i].op = "unchecked" => e \in {"mysql", "sqlite"} /\ i = 1 /\ n >= 2
      /\ f[i].op = "checked" => e \in {"mysql", "sqlite"} /\ i = n /\ n >= 2
      /\ f[i].op \in Middle =>
            /\ e = "mysql" => i # 1 /\ i # n
            /\ e = "sqlite" => i # 1 /\ i # 2 /\ i # n - 1 /\ i # n
  BY <1>1, SessionMoves
<1>6. i <= n /\ s.tx = tx
  BY <1>1, <1>2
<1>7. \A x : /\ [s EXCEPT !.tx = x] = [tx |-> x, unchecked |-> un]
             /\ [s EXCEPT !.unchecked = x] = [tx |-> tx, unchecked |-> x]
  BY <1>2, SessionsAre
<1>8. f[i].op = "begin" => ~s.tx /\ SessionOk(e, i + 1, n, [s EXCEPT !.tx = TRUE])
  <2> SUFFICES ASSUME f[i].op = "begin"
               PROVE  ~s.tx /\ SessionOk(e, i + 1, n, [s EXCEPT !.tx = TRUE])
    OBVIOUS
  <2>1. e = "sqlite" /\ i = 2 /\ n >= 4
    BY <1>5
  <2>2. ~(i \in 3 .. n - 1) /\ i \in 2 .. n /\ i + 1 \in 3 .. n - 1 /\ i + 1 \in 2 .. n
    BY <2>1
  <2>3. ~tx /\ un /\ un2
    BY <1>2, <1>3, <2>1, <2>2
  <2>4. un = un2 /\ [s EXCEPT !.tx = TRUE] = [tx |-> TRUE, unchecked |-> un]
    BY <1>7, <2>3
  <2>5. SessionOk(e, i + 1, n, [tx |-> TRUE, unchecked |-> un2])
    BY <1>4, <2>1, <2>2
  <2> QED BY <1>6, <2>3, <2>4, <2>5
<1>9. f[i].op \in {"commit", "end"} =>
         /\ SessionOk(e, i + 1, n, [s EXCEPT !.tx = FALSE])
         /\ ~s.tx => SessionOk(e, i + 1, n, s)
  <2> SUFFICES ASSUME f[i].op \in {"commit", "end"}
               PROVE  /\ SessionOk(e, i + 1, n, [s EXCEPT !.tx = FALSE])
                      /\ ~s.tx => SessionOk(e, i + 1, n, s)
    OBVIOUS
  <2>1. e \in {"mysql", "sqlite"} => i # 1 /\ i # n
    BY <1>5 DEF Middle
  <2>2. e \in {"mysql", "sqlite"} => i \in 2 .. n /\ i + 1 \in 2 .. n
    BY <1>6, <2>1
  <2>3. un <=> un2
    BY <1>2, <1>3, <2>2
  <2>4. un = un2 /\ [s EXCEPT !.tx = FALSE] = [tx |-> FALSE, unchecked |-> un]
    BY <1>7, <2>3
  <2>5. SessionOk(e, i + 1, n, [tx |-> FALSE, unchecked |-> un2])
    BY <1>4
  <2>6. ~s.tx => s = [tx |-> FALSE, unchecked |-> un]
    BY <1>2, <1>6
  <2> QED BY <2>4, <2>5, <2>6
<1>10. f[i].op = "unchecked" => SessionOk(e, i + 1, n, [s EXCEPT !.unchecked = TRUE])
  <2> SUFFICES ASSUME f[i].op = "unchecked"
               PROVE  SessionOk(e, i + 1, n, [s EXCEPT !.unchecked = TRUE])
    OBVIOUS
  <2>1. e \in {"mysql", "sqlite"} /\ i = 1 /\ n >= 2
    BY <1>5
  <2>2. ~(i \in 3 .. n - 1) /\ i + 1 \in 2 .. n
    BY <2>1
  <2>3. ~tx /\ un2
    BY <1>2, <1>3, <2>1, <2>2
  <2>4. tx = FALSE /\ un2 = TRUE
    BY <2>3
  <2>5. SessionOk(e, i + 1, n, [tx |-> FALSE, unchecked |-> un2])
    BY <1>4
  <2> QED BY <1>7, <2>4, <2>5
<1>11. f[i].op = "checked" => SessionOk(e, i + 1, n, [s EXCEPT !.unchecked = FALSE])
  <2> SUFFICES ASSUME f[i].op = "checked"
               PROVE  SessionOk(e, i + 1, n, [s EXCEPT !.unchecked = FALSE])
    OBVIOUS
  <2>1. e \in {"mysql", "sqlite"} /\ i = n /\ n >= 2
    BY <1>5
  <2>2. ~(i \in 3 .. n - 1) /\ ~(i + 1 \in 2 .. n)
    BY <2>1
  <2>3. ~tx /\ ~un2
    BY <1>2, <1>3, <2>1, <2>2
  <2>4. tx = FALSE /\ un2 = FALSE
    BY <2>3
  <2>5. SessionOk(e, i + 1, n, [tx |-> FALSE, unchecked |-> un2])
    BY <1>4
  <2> QED BY <1>7, <2>4, <2>5
<1>12. f[i].op \in Middle => SessionOk(e, i + 1, n, s)
  <2> SUFFICES ASSUME f[i].op \in Middle PROVE SessionOk(e, i + 1, n, s)
    OBVIOUS
  <2>1. /\ e = "mysql" => i # 1 /\ i # n
        /\ e = "sqlite" => i # 1 /\ i # 2 /\ i # n - 1 /\ i # n
    BY <1>5
  <2>2. e \in {"mysql", "sqlite"} => i \in 2 .. n /\ i + 1 \in 2 .. n
    BY <1>6, <2>1
  <2>3. e = "sqlite" => i + 1 \in 3 .. n - 1
    BY <1>6, <2>1
  <2>4. un <=> un2
    BY <1>2, <1>3, <2>2
  <2>5. un = un2
    BY <2>4
  <2>6. tx => e = "sqlite" /\ i + 1 \in 3 .. n - 1
    BY <1>2, <2>3
  <2>7. SessionOk(e, i + 1, n, [tx |-> tx, unchecked |-> un2])
    BY <1>4, <2>6
  <2> QED BY <1>2, <2>5, <2>7
<1> QED BY <1>1, <1>8, <1>9, <1>10, <1>11, <1>12

\* A failure is recorded while there is room.
LEMMA FailureNoted ==
  ASSUME NEW F \in Seq(Nat), NEW W \in Seq(Nat), Len(F) = Less(MaxRecorded, Len(W)),
         \A k \in 1 .. Len(F) : F[k] = W[k], NEW n \in Nat
  PROVE  /\ Recorded(F, n) \in Seq(Nat)
         /\ Len(Recorded(F, n)) = Less(MaxRecorded, Len(W) + 1)
         /\ \A k \in 1 .. Len(Recorded(F, n)) : Recorded(F, n)[k] = Append(W, n)[k]
<1>1. PICK p \in Nat : p = Len(F)
  OBVIOUS
<1>2. PICK q \in Nat : q = Len(W)
  OBVIOUS
<1>3. PICK m \in Nat : m = MaxRecorded
  BY FileLimits
<1>4. p = IF m < q THEN m ELSE q
  BY <1>1, <1>2, <1>3 DEF Less
<1>5. PICK V : V = Append(W, n)
  OBVIOUS
<1>6. V \in Seq(Nat) /\ Len(V) = q + 1 /\ (\A k \in 1 .. q : V[k] = W[k]) /\ V[q + 1] = n
  BY <1>2, <1>5
<1>7. PICK G : G = Recorded(F, n)
  OBVIOUS
<1>8. CASE p < m
  <2>1. p = q
    BY <1>4, <1>8
  <2>2. G = Append(F, n)
    BY <1>1, <1>3, <1>7, <1>8 DEF Recorded
  <2>3. G \in Seq(Nat) /\ Len(G) = p + 1 /\ (\A k \in 1 .. p : G[k] = F[k]) /\ G[p + 1] = n
    BY <1>1, <2>2
  <2>4. Less(MaxRecorded, Len(W) + 1) = p + 1
    BY <1>2, <1>3, <1>8, <2>1 DEF Less
  <2>5. ASSUME NEW k \in 1 .. p + 1 PROVE G[k] = V[k]
    <3>1. CASE k \in 1 .. p
      BY <1>1, <1>6, <2>1, <2>3, <3>1
    <3>2. CASE k = p + 1
      BY <1>6, <2>1, <2>3, <3>2
    <3> QED BY <3>1, <3>2
  <2> QED BY <1>5, <1>7, <2>3, <2>4, <2>5
<1>9. CASE ~(p < m)
  <2>1. p = m /\ m <= q
    BY <1>4, <1>9
  <2>2. G = F
    BY <1>1, <1>3, <1>7, <1>9 DEF Recorded
  <2>3. Less(MaxRecorded, Len(W) + 1) = p
    BY <1>2, <1>3, <2>1 DEF Less
  <2>4. \A k \in 1 .. p : k \in 1 .. q /\ F[k] = W[k]
    BY <1>1, <2>1
  <2>5. \A k \in 1 .. p : G[k] = V[k]
    BY <1>6, <2>2, <2>4
  <2>6. G \in Seq(Nat) /\ Len(G) = p
    BY <1>1, <2>2
  <2> QED BY <1>5, <1>7, <2>3, <2>5, <2>6
<1> QED BY <1>8, <1>9

\* While an import runs after a whole export, its session is where the pieces have it.
LEMMA SessionIs ==
  ASSUME FileInv, doing = "run", result.kind = "ok", broken = 0
  PROVE  /\ Cutting(dbtype, statements) /\ SessionOk(dbtype, line, Len(statements), session)
         /\ line \in Nat \ {0} /\ statements \in Seq(ImportStatements)
  BY DEF FileInv, Importing, SessionKept

\* What a piece is.
LEMMA PieceIs ==
  ASSUME NEW f \in Seq(ImportStatements), NEW i \in Nat \ {0}, i <= Len(f)
  PROVE  f[i].op \in Middle \cup {"begin", "commit", "unchecked", "checked"}
<1>1. f[i] \in ImportStatements
  OBVIOUS
<1> QED BY <1>1 DEF ImportStatements, Middle

\* A statement that is accepted.
LEMMA RunOkKeeps ==
  ASSUME FileInv, RunOk, UNCHANGED <<dbtype, cat, include_data, export, changes>>
  PROVE  FileInv'
<1>1. /\ doing = "run" /\ line <= Len(statements) /\ session' = SessionAfter(statements[line])
      /\ ok' = ok + 1 /\ line' = line + 1 /\ doing' = doing /\ failed' = failed
      /\ statements' = statements
      /\ failures' = failures /\ wrong' = wrong /\ broken' = broken
      /\ UNCHANGED <<dbtype, cat, include_data, export>>
  BY DEF RunOk
<1>2. /\ Known' /\ Gathering' /\ Cancelling' /\ Writing'
      /\ dbtype' = dbtype /\ file' = file /\ result' = result /\ exporting' = exporting
  BY <1>1, ExportStays
<1>3. Importing'
  <2>1. Len(statements) \in Nat
    BY DEF FileInv, Importing
  <2>2. line \in Nat \ {0} /\ ok \in Nat /\ failed \in Nat /\ ok + failed = line - 1
    BY DEF FileInv, Importing
  <2>3. line' \in Nat \ {0} /\ line' <= Len(statements') + 1 /\ ok' \in Nat /\ ok' + failed' = line' - 1
    BY <1>1, <1>2, <2>1, <2>2
  <2> QED BY <1>1, <1>2, <2>3 DEF FileInv, Importing
<1>4. SessionKept'
  <2>1. ASSUME result'.kind = "ok", broken' = 0
        PROVE  /\ Cutting(dbtype', statements')
               /\ SessionOk(dbtype', line', Len(statements'), session')
    <3>1. /\ Cutting(dbtype, statements) /\ SessionOk(dbtype, line, Len(statements), session)
          /\ line \in Nat \ {0} /\ statements \in Seq(ImportStatements)
      BY <1>1, <1>2, <2>1, SessionIs
    <3>2. PICK e, s : e = dbtype /\ s = session
      OBVIOUS
    <3>3. PICK f \in Seq(ImportStatements) : f = statements
      BY <3>1
    <3>4. PICK i \in Nat \ {0} : i = line
      BY <3>1
    <3>5. Cutting(e, f) /\ i <= Len(f) /\ SessionOk(e, i, Len(f), s)
      BY <1>1, <3>1, <3>2, <3>3, <3>4
    <3>6. /\ f[i].op = "begin" => SessionOk(e, i + 1, Len(f), [s EXCEPT !.tx = TRUE])
          /\ f[i].op \in {"commit", "end"} => SessionOk(e, i + 1, Len(f), [s EXCEPT !.tx = FALSE])
          /\ f[i].op = "unchecked" => SessionOk(e, i + 1, Len(f), [s EXCEPT !.unchecked = TRUE])
          /\ f[i].op = "checked" => SessionOk(e, i + 1, Len(f), [s EXCEPT !.unchecked = FALSE])
          /\ f[i].op \in Middle => SessionOk(e, i + 1, Len(f), s)
      BY <3>5, SessionStep
    <3>7. f[i].op \in Middle \cup {"begin", "commit", "unchecked", "checked"}
      BY <3>5, PieceIs
    <3>8. session' = CASE f[i].op = "begin" -> [s EXCEPT !.tx = TRUE]
                       [] f[i].op \in {"commit", "end"} -> [s EXCEPT !.tx = FALSE]
                       [] f[i].op = "unchecked" -> [s EXCEPT !.unchecked = TRUE]
                       [] f[i].op = "checked" -> [s EXCEPT !.unchecked = FALSE]
                       [] OTHER -> s
      BY <1>1, <3>2, <3>3, <3>4 DEF SessionAfter
    <3>9. SessionOk(e, i + 1, Len(f), session')
      <4>1. CASE f[i].op = "begin"
        BY <3>6, <3>8, <4>1
      <4>2. CASE f[i].op \in {"commit", "end"}
        BY <3>6, <3>8, <4>2
      <4>3. CASE f[i].op = "unchecked"
        BY <3>6, <3>8, <4>3
      <4>4. CASE f[i].op = "checked"
        BY <3>6, <3>8, <4>4
      <4>5. CASE f[i].op \in {"create", "insert", "head", "inner"}
        BY <3>6, <3>8, <4>5 DEF Middle
      <4> QED BY <3>7, <4>1, <4>2, <4>3, <4>4, <4>5 DEF Middle
    <3> QED BY <1>1, <1>2, <3>2, <3>3, <3>4, <3>5, <3>9
  <2> QED BY <1>1, <2>1 DEF FileInv, SessionKept
<1> QED BY <1>2, <1>3, <1>4 DEF FileInv

\* A statement that fails.
LEMMA RunFailsKeeps ==
  ASSUME FileInv, RunFails, UNCHANGED <<dbtype, cat, include_data, export, changes>>
  PROVE  FileInv'
<1>1. /\ doing = "run" /\ line <= Len(statements) /\ session' = session
      /\ failed' = failed + 1 /\ failures' = Recorded(failures, line) /\ wrong' = Append(wrong, line)
      /\ ok' = ok /\ line' = line + 1 /\ doing' = doing /\ statements' = statements
      /\ UNCHANGED <<dbtype, cat, include_data, export>>
  BY DEF RunFails
<1>2. /\ Known' /\ Gathering' /\ Cancelling' /\ Writing'
      /\ dbtype' = dbtype /\ file' = file /\ result' = result /\ exporting' = exporting
  BY <1>1, ExportStays
<1>3. Importing'
  <2>1. Len(statements) \in Nat
    BY DEF FileInv, Importing
  <2>2. line \in Nat \ {0} /\ ok \in Nat /\ failed \in Nat /\ ok + failed = line - 1
    BY DEF FileInv, Importing
  <2>3. line' \in Nat \ {0} /\ line' <= Len(statements') + 1 /\ failed' \in Nat /\ ok' + failed' = line' - 1
    BY <1>1, <1>2, <2>1, <2>2
  <2>4. PICK F \in Seq(Nat) : F = failures
    BY DEF FileInv, Importing
  <2>5. PICK W \in Seq(Nat) : W = wrong
    BY DEF FileInv, Importing
  <2>6. PICK n \in Nat : n = line
    BY <2>2
  <2>7. Len(W) = failed /\ Len(F) = Less(MaxRecorded, Len(W)) /\ \A k \in 1 .. Len(F) : F[k] = W[k]
    BY <2>4, <2>5 DEF FileInv, Importing
  <2>8. /\ Recorded(F, n) \in Seq(Nat)
        /\ Len(Recorded(F, n)) = Less(MaxRecorded, Len(W) + 1)
        /\ \A k \in 1 .. Len(Recorded(F, n)) : Recorded(F, n)[k] = Append(W, n)[k]
    BY <2>7, FailureNoted
  <2>9. PICK G : G = Recorded(F, n)
    OBVIOUS
  <2>10. PICK V : V = Append(W, n)
    OBVIOUS
  <2>11. V \in Seq(Nat) /\ Len(V) = failed + 1
    BY <2>7, <2>10
  <2>12. /\ G \in Seq(Nat) /\ Len(G) = Less(MaxRecorded, failed + 1)
         /\ \A k \in 1 .. Len(G) : G[k] = V[k]
    BY <2>7, <2>8, <2>9, <2>10
  <2>13. failures' = G /\ wrong' = V
    BY <1>1, <2>4, <2>5, <2>6, <2>9, <2>10
  <2>14. /\ wrong' \in Seq(Nat) /\ Len(wrong') = failed' /\ failures' \in Seq(Nat)
         /\ Len(failures') = Less(MaxRecorded, failed')
         /\ \A k \in 1 .. Len(failures') : failures'[k] = wrong'[k]
    BY <1>1, <2>11, <2>12, <2>13
  <2>15. /\ doing' \in {"idle", "run", "done"} /\ (exporting' # "done" => doing' = "idle")
         /\ doing' # "idle" /\ doing' # "done" /\ ok' \in Nat
         /\ statements' \in Seq(ImportStatements)
    BY <1>1, <1>2, <2>2 DEF FileInv, Importing
  <2> QED BY <2>3, <2>14, <2>15 DEF Importing
<1>4. SessionKept'
  <2>1. broken' \in Nat
    BY DEF RunFails, Breaks, FileInv, SessionKept
  <2>2. ASSUME result'.kind = "ok", broken' = 0
        PROVE  /\ Cutting(dbtype', statements')
               /\ SessionOk(dbtype', line', Len(statements'), session')
    <3>1. ~Accepted(statements[line]) /\ broken = 0
      <4>1. CASE Breaks
        <5>1. broken' = broken + 1 /\ broken \in Nat
          BY <4>1 DEF Breaks, FileInv, SessionKept
        <5> QED BY <2>2, <5>1
      <4>2. CASE ~Accepted(statements[line]) /\ UNCHANGED broken
        BY <2>2, <4>2
      <4> QED BY <4>1, <4>2 DEF RunFails
    <3>2. /\ Cutting(dbtype, statements) /\ SessionOk(dbtype, line, Len(statements), session)
          /\ line \in Nat \ {0} /\ statements \in Seq(ImportStatements)
      BY <1>1, <1>2, <2>2, <3>1, SessionIs
    <3>3. PICK e, s : e = dbtype /\ s = session
      OBVIOUS
    <3>4. PICK f \in Seq(ImportStatements) : f = statements
      BY <3>2
    <3>5. PICK i \in Nat \ {0} : i = line
      BY <3>2
    <3>6. Cutting(e, f) /\ i <= Len(f) /\ SessionOk(e, i, Len(f), s)
      BY <1>1, <3>2, <3>3, <3>4, <3>5
    <3>7. /\ f[i].op = "begin" => ~s.tx
          /\ f[i].op = "commit" /\ ~s.tx => SessionOk(e, i + 1, Len(f), s)
          /\ f[i].op \in Middle => SessionOk(e, i + 1, Len(f), s)
      BY <3>6, SessionStep
    <3>8. f[i].op \in Middle \cup {"begin", "commit", "unchecked", "checked"}
      BY <3>6, PieceIs
    <3>9. SessionOk(e, i + 1, Len(f), s)
      <4>1. ~Accepted(f[i]) /\ s = session
        BY <3>1, <3>3, <3>4, <3>5
      <4>2. CASE f[i].op = "begin"
        BY <3>7, <4>1, <4>2 DEF Accepted
      <4>3. CASE f[i].op = "commit"
        <5>1. ~s.tx
          BY <4>1, <4>3 DEF Accepted
        <5> QED BY <3>7, <4>3, <5>1
      <4>4. CASE f[i].op \in {"unchecked", "checked"}
        BY <4>1, <4>4 DEF Accepted
      <4>5. CASE f[i].op \in Middle
        BY <3>7, <4>5
      <4> QED BY <3>8, <4>2, <4>3, <4>4, <4>5
    <3> QED BY <1>1, <1>2, <3>3, <3>4, <3>5, <3>6, <3>9
  <2> QED BY <1>1, <2>1, <2>2 DEF FileInv, SessionKept
<1> QED BY <1>2, <1>3, <1>4 DEF FileInv

\* The end of an import.
LEMMA EndImportKeeps ==
  ASSUME FileInv, EndImport, UNCHANGED <<dbtype, cat, include_data, export, changes>>
  PROVE  FileInv'
<1>1. /\ doing = "run" /\ line > Len(statements) /\ doing' = "done" /\ line' = line /\ ok' = ok
      /\ statements' = statements
      /\ failed' = failed /\ failures' = failures /\ wrong' = wrong /\ session' = session
      /\ broken' = broken /\ UNCHANGED <<dbtype, cat, include_data, export>>
  BY DEF EndImport
<1>2. /\ Known' /\ Gathering' /\ Cancelling' /\ Writing'
      /\ dbtype' = dbtype /\ file' = file /\ result' = result /\ exporting' = exporting
  BY <1>1, ExportStays
<1>3. Importing'
  <2>1. Len(statements) \in Nat /\ line \in Nat /\ line <= Len(statements) + 1
    BY DEF FileInv, Importing
  <2>2. line = Len(statements) + 1
    BY <1>1, <2>1
  <2> QED BY <1>1, <1>2, <2>2 DEF FileInv, Importing
<1>4. SessionKept'
  BY <1>1, <1>2 DEF FileInv, SessionKept
<1> QED BY <1>2, <1>3, <1>4 DEF FileInv

-----------------------------------------------------------------------------
(* What a user relies on *)

\* Every step keeps the invariant.
LEMMA FileInvNext == FileInv /\ [FileNext]_fileVars => FileInv'
<1> SUFFICES ASSUME FileInv, [FileNext]_fileVars PROVE FileInv'
  OBVIOUS
<1>1. CASE StartExport
  BY <1>1, StartExportKeeps
<1>2. CASE Export
  <2>1. UNCHANGED <<dbtype, cat, include_data, import, changes, broken>>
    BY <1>2 DEF Export
  <2>2. CASE ReadCatalogue
    BY <2>1, <2>2, ReadCatalogueKeeps
  <2>3. CASE CatalogueRead
    BY <2>1, <2>3, CatalogueReadKeeps
  <2>4. CASE ReadAllRows
    BY <2>1, <2>4, ReadAllRowsKeeps
  <2>5. CASE BeginTable
    BY <2>1, <2>5, BeginTableKeeps
  <2>6. CASE TableRead
    BY <2>1, <2>6, TableReadKeeps
  <2>7. CASE DataOver
    BY <2>1, <2>7, DataOverKeeps
  <2>8. CASE WriteScript
    BY <2>1, <2>8, WriteScriptKeeps
  <2>9. CASE WriteObject
    BY <2>1, <2>9, WriteObjectKeeps
  <2>10. CASE WriteFooter
    BY <2>1, <2>10, WriteFooterKeeps
  <2>11. CASE Flush
    BY <2>1, <2>11, FlushKeeps
  <2> QED BY <1>2, <2>2, <2>3, <2>4, <2>5, <2>6, <2>7, <2>8, <2>9, <2>10, <2>11 DEF Export
<1>3. broken \in Nat
  BY DEF FileInv, SessionKept
<1>4. CASE Aborts
  <2>1. exporting \in {"data", "fetch", "write"}
    BY <1>4 DEF Aborts, Missing, RowsMissing, TableMissing, ObjectMissing
  <2>2. broken' \in Nat
    BY <1>3, <1>4 DEF Aborts
  <2>3. Abort
    BY <1>4 DEF Aborts
  <2> QED BY <2>1, <2>2, <2>3, AbortKeeps
<1>5. CASE Fails
  <2>1. exporting \notin {"idle", "done"} /\ Abort
    BY <1>5 DEF Fails
  <2>2. broken' \in Nat
    BY <1>3, <1>5 DEF Fails, Breaks
  <2> QED BY <2>1, <2>2, AbortKeeps
<1>6. CASE Cancel
  BY <1>6, CancelKeeps
<1>7. CASE Alter
  BY <1>7, AlterKeeps
<1>8. CASE StartImport
  BY <1>8, StartImportKeeps
<1>9. CASE Import
  <2>1. UNCHANGED <<dbtype, cat, include_data, export, changes>>
    BY <1>9 DEF Import
  <2>2. CASE RunOk
    BY <2>1, <2>2, RunOkKeeps
  <2>3. CASE RunFails
    BY <2>1, <2>3, RunFailsKeeps
  <2>4. CASE EndImport
    BY <2>1, <2>4, EndImportKeeps
  <2> QED BY <1>9, <2>2, <2>3, <2>4 DEF Import
<1>10. CASE UNCHANGED fileVars
  <2>1. UNCHANGED <<dbtype, cat, include_data, export>> /\ UNCHANGED import /\ broken' = broken
    BY <1>10 DEF fileVars
  <2>2. /\ Known' /\ Gathering' /\ Cancelling' /\ Writing'
        /\ dbtype' = dbtype /\ file' = file /\ result' = result /\ exporting' = exporting
    BY <2>1, ExportStays
  <2>3. /\ doing' = doing /\ statements' = statements /\ line' = line /\ ok' = ok
        /\ failed' = failed /\ failures' = failures /\ wrong' = wrong /\ session' = session
    BY <2>1 DEF import
  <2>4. Importing'
    BY <2>2, <2>3 DEF FileInv, Importing
  <2>5. SessionKept'
    BY <2>1, <2>2, <2>3 DEF FileInv, SessionKept
  <2> QED BY <2>2, <2>4, <2>5 DEF FileInv
<1> QED BY <1>1, <1>2, <1>4, <1>5, <1>6, <1>7, <1>8, <1>9, <1>10 DEF FileNext

\* A successful export's report is what the file holds.
LEMMA ReportTrue ==
  ASSUME FileInv
  PROVE  ExportHonest
<1> SUFFICES ASSUME result.kind = "ok"
             PROVE  /\ result.tables = Written({"table"}) /\ result.views = Written({"view", "mview"})
                    /\ result.triggers = Written({"trigger"}) /\ result.rows = RowsIn(file)
                    /\ \A o \in meta : \E j \in DOMAIN file : file[j] = Create(o)
  BY DEF ExportHonest
<1>1. result # ExportError /\ result # NoResult
  BY DEF ExportError, NoResult
<1>2. result = ExportReport /\ Whole
  BY <1>1 DEF FileInv, Writing
<1>3. PICK f : f = file
  OBVIOUS
<1>4. PICK S : S = meta
  OBVIOUS
<1>5. PICK n : n = Total(meta, rowsRead)
  OBVIOUS
<1>6. Yields(f, S, n) /\ S \subseteq Objects
  BY <1>2, <1>3, <1>4, <1>5 DEF Whole, FileInv, Known
<1>7. \A K : CreatedIn(f, K) = Size(S, K)
  BY <1>6, CountIs
<1>8. \A K : Written(K) = Size(meta, K)
  BY <1>3, <1>4, <1>7 DEF Written, CreatedIn
<1>9. /\ result.tables = Size(meta, {"table"}) /\ result.views = Size(meta, {"view", "mview"})
      /\ result.triggers = Size(meta, {"trigger"}) /\ result.rows = n
  BY <1>2, <1>5 DEF ExportReport
<1>10. RowsIn(file) = n /\ \A o \in meta : \E j \in DOMAIN file : file[j] = Create(o)
  BY <1>3, <1>4, <1>6 DEF Yields
<1>11. result.tables = Written({"table"})
  BY <1>8, <1>9
<1>12. result.views = Written({"view", "mview"})
  BY <1>8, <1>9
<1>13. result.triggers = Written({"trigger"})
  BY <1>8, <1>9
<1> QED BY <1>9, <1>10, <1>11, <1>12, <1>13

\* The first failures are those that are listed.
LEMMA ImportTrue ==
  ASSUME FileInv
  PROVE  ImportHonest
<1> SUFFICES ASSUME doing = "done"
             PROVE  /\ ok + failed = Len(statements) /\ failed = Len(wrong)
                    /\ failures = SubSeq(wrong, 1, Less(MaxRecorded, failed))
  BY DEF ImportHonest
<1>1. /\ line = Len(statements) + 1 /\ ok \in Nat /\ failed \in Nat /\ ok + failed = line - 1
      /\ wrong \in Seq(Nat) /\ Len(wrong) = failed /\ failures \in Seq(Nat)
      /\ Len(failures) = Less(MaxRecorded, failed) /\ \A k \in 1 .. Len(failures) : failures[k] = wrong[k]
  BY DEF FileInv, Importing
<1>2. Len(statements) \in Nat
  BY DEF FileInv, Importing
<1>3. ok + failed = Len(statements)
  BY <1>1, <1>2
<1>4. PICK m \in Nat : m = Less(MaxRecorded, failed) /\ m <= failed
  BY <1>1, FileLimits DEF Less
<1>5. PICK W \in Seq(Nat) : W = wrong
  BY <1>1
<1>6. PICK F \in Seq(Nat) : F = failures
  BY <1>1
<1>7. m <= Len(W) /\ Len(F) = m /\ \A k \in 1 .. m : F[k] = W[k]
  BY <1>1, <1>4, <1>5, <1>6
<1>8. F = SubSeq(W, 1, m)
  <2>1. PICK G \in Seq(Nat) : G = SubSeq(W, 1, m)
    BY <1>7
  <2>2. Len(G) = m /\ \A k \in 1 .. m : G[k] = W[k]
    BY <1>7, <2>1
  <2>3. F = G
    BY <1>7, <2>2, SeqEqual
  <2> QED BY <2>1, <2>3
<1> QED BY <1>1, <1>3, <1>4, <1>5, <1>6, <1>8

\* Every state of the invariant is one users can rely on.
LEMMA FileInvHonest == FileInv => FileHonest
<1> SUFFICES ASSUME FileInv PROVE FileHonest
  OBVIOUS
<1>1. FileTypeOK
  <2>1. Len(failures) <= MaxRecorded
    <3>1. failed \in Nat /\ Len(failures) = Less(MaxRecorded, failed)
      BY DEF FileInv, Importing
    <3> QED BY <3>1, FileLimits DEF Less
  <2> QED BY <2>1 DEF FileInv, Writing, Importing, Known, Cancelling, FileTypeOK
<1>2. CancelStops
  BY DEF FileInv, CancelStops, Cancelling, Gathering, Writing, NoResult, ExportError
<1>3. SessionClean
  <2> SUFFICES ASSUME doing = "done", result.kind = "ok", broken = 0 PROVE session = Clean
    BY DEF SessionClean
  <2>1. SessionOk(dbtype, line, Len(statements), session) /\ line = Len(statements) + 1
    BY DEF FileInv, SessionKept, Importing
  <2>2. PICK n \in Nat : n = Len(statements)
    BY DEF FileInv, Importing
  <2>3. ~(n + 1 \in 3 .. n - 1) /\ ~(n + 1 \in 2 .. n)
    OBVIOUS
  <2>4. PICK tx \in BOOLEAN, un \in BOOLEAN :
          /\ session = [tx |-> tx, unchecked |-> un]
          /\ un = (dbtype \in {"mysql", "sqlite"} /\ n + 1 \in 2 .. n)
          /\ tx => dbtype = "sqlite" /\ n + 1 \in 3 .. n - 1
    BY <2>1, <2>2 DEF SessionOk
  <2>5. tx = FALSE /\ un = FALSE
    BY <2>3, <2>4
  <2> QED BY <2>4, <2>5 DEF Clean
<1> QED BY <1>1, <1>2, <1>3, ReportTrue, ImportTrue DEF FileHonest

\* An export reports what its file holds and only succeeds with a whole file, a cancelled
\* export writes nothing into its file, an import counts every statement it cut and lists
\* its first failures, and the connection that ran a whole file is clean: for every
\* catalogue, every change by other clients and every failing call, and however the bodies
\* of triggers, events and routines come apart (sql_file.rs, sqlite.rs, sql_script.rs:115).
THEOREM FilesHonest == FileSpec => []FileHonest
<1>1. FileInit => FileInv
  BY FileInvInit
<1>2. FileInv /\ [FileNext]_fileVars => FileInv'
  BY FileInvNext
<1>3. FileInv => FileHonest
  BY FileInvHonest
<1> QED BY <1>1, <1>2, <1>3, PTL DEF FileSpec
=============================================================================

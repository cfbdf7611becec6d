----------------------------- MODULE SqlScript -----------------------------
(***************************************************************************)
(* Cutting an SQL file into statements, and the text the exports write     *)
(* (db/sql_script.rs; split_sqlserver_batches, the ClickHouse splitter and *)
(* the literals of commands/sql_file.rs).  A text is a sequence of tokens: *)
(* the characters a splitter looks at, a two-character comment mark as one *)
(* token, "$" for a complete dollar-quote tag, "GO" for such a line, the   *)
(* words INSERT and FORMAT, and "x" for everything else.  The splitters    *)
(* are the loops of the code, one token per step.                          *)
(***************************************************************************)
EXTENDS Integers, SequencesExt

CONSTANT Scripts   \* possible files: <<engine, statements>>

VARIABLES
    dialect, stmts,    \* what was exported: by which engine, and the statements
    text, pos,         \* the file and the next token
    inside, escaped,   \* inside of what, and whether the next token is escaped
    cur, out           \* the statement being collected and those cut off

scriptVars == <<dialect, stmts, text, pos, inside, escaped, cur, out>>

Tokens ==
    {"x", "nl", ";", "GO", "insert", "format", "(", ")", "quote", "dquote", "backtick",
     "[", "]", "backslash", "--", "#", "/*", "*/", "$"}

\* A statement is [data, lead, hash, rows, body, quoted]: whether it is an INSERT, whether
\* a comment precedes it, whether an operator with a "#" is in it, the contents of its
\* literals, and the statements of its body with theirs, from the second one to the END:
\* each of them ends with a semicolon.  Only PostgreSQL puts bodies in dollar quotes.
Texts == Seq(Seq(Tokens))
Exportable ==
    [data : BOOLEAN, lead : BOOLEAN, hash : BOOLEAN, rows : Texts, body : Seq(Texts),
     quoted : BOOLEAN]
Readable(e, ss) ==
    /\ e \in {"mysql", "postgres", "sqlite", "sqlserver", "clickhouse"}
    /\ ss \in Seq(Exportable)
    /\ \A i \in DOMAIN ss :
          /\ (ss[i].body # <<>> \/ ss[i].quoted) => ~ss[i].data /\ e # "clickhouse"
          /\ (ss[i].hash \/ ss[i].quoted) => e = "postgres"
          \* the tag of a dollar quote does not occur in the body
          /\ ss[i].quoted => \A j \in DOMAIN ss[i].body : \A k \in DOMAIN ss[i].body[j] :
                "$" \notin ToSet(ss[i].body[j][k])
ASSUME ScriptsAreReadable == \A s \in Scripts : Readable(s[1], s[2])

--------------------------------------------------------------------------------
(* Writing.                                                                *)

\* Each token c of a content as F(c).
Encoded(content, F(_)) == FlattenSeq([i \in DOMAIN content |-> F(content[i])])
Quoted(content) == <<"quote">> \o content \o <<"quote">>

\* string_literal of the MySQL dialect, and ClickHouse's Values: backslash escapes.
MysqlLiteral(content) ==
    Quoted(Encoded(content, LAMBDA c : IF c \in {"quote", "backslash"} THEN <<"backslash", c>>
                                       ELSE IF c = "nl" THEN <<"backslash", "x">> ELSE <<c>>))
\* quote(), REPLACE and pg_str: only quotes are doubled, a backslash is nothing special.
DoubledLiteral(content) ==
    Quoted(Encoded(content, LAMBDA c : IF c = "quote" THEN <<c, c>> ELSE <<c>>))
\* quote_nullable: an E'' literal with doubled backslashes.
PostgresLiteral(content) ==
    <<"x">> \o Quoted(Encoded(content, LAMBDA c : IF c \in {"quote", "backslash"} THEN <<c, c>> ELSE <<c>>))

Literal(e, data, content) ==
    CASE e \in {"mysql", "clickhouse"} -> MysqlLiteral(content)
      [] e = "postgres" /\ data -> PostgresLiteral(content)
      [] OTHER -> DoubledLiteral(content)

\* VALUES (...), (...)
Values(e, s) ==
    FlattenSeq([i \in DOMAIN s.rows |-> <<"(">> \o Literal(e, s.data, s.rows[i]) \o <<")">>])

Lead(s) == IF s.lead THEN <<"/*", "quote", "x", ";", "*/", "nl">> ELSE <<>>
Beginning(e, s) ==
    IF e = "clickhouse" /\ s.data THEN <<"insert", "format", "nl">>
    ELSE IF s.hash THEN <<"x", "#">> ELSE <<"x">>
\* BEGIN ...; ...; END
Body(e, s) ==
    LET more == FlattenSeq([j \in DOMAIN s.body |->
                    <<";", "nl", "x">> \o Values(e, [s EXCEPT !.rows = s.body[j]])])
    IN  IF s.quoted THEN <<"$">> \o more \o <<"$">> ELSE more
\* The statement as the server should see it.
Statement(e, s) ==
    Lead(s) \o Beginning(e, s) \o Values(e, s) \o Body(e, s)
      \o (IF e = "sqlserver" THEN <<";">> ELSE <<>>)
Terminator(e, s) ==
    CASE e = "sqlserver" -> <<"nl", "GO", "nl">>
      [] e = "clickhouse" /\ s.data -> <<"nl", ";", "nl">>
      [] OTHER -> <<";", "nl">>
\* What stands between the semicolons: a body in no quotes comes apart, except in a batch
\* of SQL Server.
Piece(texts) ==
    [data |-> FALSE, lead |-> FALSE, hash |-> FALSE, rows |-> texts, body |-> <<>>,
     quoted |-> FALSE]
Pieces(e, s) ==
    IF s.quoted \/ e = "sqlserver" THEN <<s>>
    ELSE <<[s EXCEPT !.body = <<>>]>> \o [j \in DOMAIN s.body |-> Piece(s.body[j])]
AllPieces(e, ss) == FlattenSeq([i \in DOMAIN ss |-> Pieces(e, ss[i])])
\* The file.  A statement whose body comes apart reads like its pieces, one by one.
Script(e, ps) ==
    FlattenSeq([i \in DOMAIN ps |-> Statement(e, ps[i]) \o Terminator(e, ps[i])])

--------------------------------------------------------------------------------
(* Reading.                                                                *)

ScriptInit ==
    /\ \E s \in Scripts : dialect = s[1] /\ stmts = s[2]
                       /\ text = Script(s[1], AllPieces(s[1], s[2]))
    /\ pos = 1 /\ inside = "out" /\ escaped = FALSE /\ cur = <<>> /\ out = <<>>

Quotes == [single |-> "quote", double |-> "dquote", tick |-> "backtick", bracket |-> "]"]
Opens == [single |-> "quote", double |-> "dquote", tick |-> "backtick", bracket |-> "["]
QuotesOf(e) ==
    IF e = "sqlserver" THEN {"single", "double", "bracket"} ELSE {"single", "double", "tick"}

\* str::trim
Trimmed(s) ==
    LET kept(c) == c # "nl"
    IN  IF SelectInSeq(s, kept) = 0 THEN <<>>
        ELSE SubSeq(s, SelectInSeq(s, kept), SelectLastInSeq(s, kept))

\* The mode behind a token outside of quotes and comments.
Entered(e, c) ==
    IF \E q \in QuotesOf(e) : Opens[q] = c THEN CHOOSE q \in QuotesOf(e) : Opens[q] = c
    ELSE IF c = "--" \/ (c = "#" /\ e # "sqlserver") THEN "line"
    ELSE IF c = "/*" THEN "block"
    ELSE IF c = "$" /\ e # "sqlserver" THEN "dollar" ELSE "out"

\* ... and inside of them.
Left(m, c) ==
    CASE m = "line" -> IF c = "nl" THEN "out" ELSE "line"
      [] m = "block" -> IF c = "*/" THEN "out" ELSE "block"
      [] m = "dollar" -> IF c = "$" THEN "out" ELSE "dollar"
      [] OTHER -> IF c = Quotes[m] THEN "out" ELSE m

\* Faulty: a backslash in a quoted text is a character like any other.
StartsNoEscape(e, m, c) == FALSE
\* A backslash escapes the next character of a quoted text, except in SQL Server's
\* batches, where nothing is escaped.
StartsEscape(e, m, c) == c = "backslash" /\ m \in {"single", "double"} /\ e # "sqlserver"

\* The semicolon at pos stands alone on its line.
LineTerminator ==
    /\ pos = 1 \/ text[pos - 1] = "nl"
    /\ pos = Len(text) \/ text[pos + 1] = "nl"
\* The token at j belongs to a comment.
Commented(s, j) ==
    \E a \in 1 .. j, b \in j .. Len(s) :
        /\ <<s[a], s[b]>> \in {<<"/*", "*/">>, <<"--", "nl">>, <<"#", "nl">>}
        /\ \A k \in a .. (b - 1) : s[k] # s[b]
\* INSERT, behind nothing but comments, ... FORMAT: its data may contain semicolons.
Payload(s) ==
    \E k \in DOMAIN s :
        /\ s[k] = "insert" /\ ~Commented(s, k)
        /\ \A j \in 1 .. (k - 1) : s[j] = "nl" \/ Commented(s, j)
        /\ \E j \in k .. Len(s) : s[j] = "format"
\* What separates statements: a GO line, or a semicolon.
Separator(e) == IF e = "sqlserver" THEN "GO" ELSE ";"
Cuts(c) ==
    /\ inside = "out" /\ ~escaped /\ c = Separator(dialect)
    /\ (dialect = "clickhouse" /\ Payload(cur)) => LineTerminator

Collected == IF Trimmed(cur) = <<>> THEN out ELSE Append(out, Trimmed(cur))

Step ==
    /\ pos <= Len(text) /\ pos' = pos + 1 /\ UNCHANGED <<dialect, stmts, text>>
    /\ LET c == text[pos]
       IN  IF escaped THEN cur' = Append(cur, c) /\ escaped' = FALSE /\ UNCHANGED <<inside, out>>
           ELSE IF Cuts(c) THEN cur' = <<>> /\ out' = Collected /\ UNCHANGED <<inside, escaped>>
           ELSE /\ cur' = Append(cur, c) /\ UNCHANGED out
                /\ escaped' = StartsEscape(dialect, inside, c)
                /\ inside' = IF inside = "out" THEN Entered(dialect, c) ELSE Left(inside, c)

\* What remains behind the last terminator is a statement too.
Finish ==
    /\ pos = Len(text) + 1 /\ pos' = pos + 1
    /\ out' = Collected /\ cur' = <<>> /\ UNCHANGED <<dialect, stmts, text, inside, escaped>>

ScriptNext == Step \/ Finish

ScriptSpec == ScriptInit /\ [][ScriptNext]_scriptVars

--------------------------------------------------------------------------------
(* The rows of a ClickHouse block are counted in its text.                 *)

CountsHere(s) == ~s.quoted
NoRows == [quoted |-> FALSE, esc |-> FALSE, depth |-> 0, n |-> 0]
Counted(s, c) ==
    IF s.esc THEN [s EXCEPT !.esc = FALSE]
    ELSE IF s.quoted /\ c = "backslash" THEN [s EXCEPT !.esc = TRUE]
    ELSE IF c = "quote" THEN [s EXCEPT !.quoted = ~@]
    ELSE IF c = "(" /\ CountsHere(s)
         THEN [s EXCEPT !.depth = @ + 1, !.n = IF s.depth = 0 THEN @ + 1 ELSE @]
    ELSE IF c = ")" /\ CountsHere(s) /\ s.depth > 0 THEN [s EXCEPT !.depth = @ - 1]
    ELSE s
\* count_clickhouse_values_rows
CountRows(values) ==
    LET state[i \in 0 .. Len(values)] ==
            IF i = 0 THEN NoRows ELSE Counted(state[i - 1], values[i])
    IN  state[Len(values)].n

--------------------------------------------------------------------------------
(* Properties.                                                             *)

\* How many backslashes end at each place.
Backslashes(content) ==
    LET run[i \in 0 .. Len(content)] ==
            IF i = 0 THEN 0 ELSE IF content[i] = "backslash" THEN run[i - 1] + 1 ELSE 0
    IN  run
\* The literals of SQLite, and of PostgreSQL's DDL, know no escapes; the splitter sees one
\* where an odd number of backslashes stands before a quote or the end of the literal.
Shifted(content) ==
    \E i \in 0 .. Len(content) :
        /\ i = Len(content) \/ content[i + 1] = "quote"
        /\ Backslashes(content)[i] % 2 = 1
\* The statement is not read as it is meant: for such a literal, or for a "#" that begins
\* no comment.
Misread(e, s) ==
    \/ s.hash
    \/ (e = "sqlite" \/ (e = "postgres" /\ ~s.data)) /\ \E j \in DOMAIN s.rows : Shifted(s.rows[j])

Run == AllPieces(dialect, stmts)
\* The import has cut the text into the statements that were exported, and their bodies
\* into statements, up to the first one that is misread.
SameStatements ==
    pos = Len(text) + 2 =>
        \A n \in 0 .. Len(Run) : (\A i \in 1 .. n : ~Misread(dialect, Run[i])) =>
            /\ n <= Len(out)
            /\ \A i \in 1 .. n : out[i] = Trimmed(Statement(dialect, Run[i]))
            /\ n = Len(Run) => n = Len(out)

\* insert_rows of a ClickHouse export is the number of rows in the file.
RowsCounted ==
    \A i \in DOMAIN stmts :
        (dialect = "clickhouse" /\ stmts[i].data)
            => CountRows(Values(dialect, stmts[i])) = Len(stmts[i].rows)

\* Importing what was exported runs the exported statements whole and each on its own,
\* whatever quotes, backslashes, semicolons and line ends the values, comments and quoted
\* bodies contain, with two exceptions, which reach no further than this: a body in no
\* quotes is cut at its own semicolons, outside of SQL Server; and behind a literal with an
\* unpaired backslash that does not escape, or a "#" that is an operator, nothing is promised.
\* The rows reported for ClickHouse are those of the file, whatever parentheses and quotes
\* they contain.
RoundTrip == SameStatements /\ RowsCounted
================================================================================

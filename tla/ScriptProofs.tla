---------------------------- MODULE ScriptProofs ----------------------------
(***************************************************************************)
(* Proofs about the text of SQL files (SqlScript), for every file an       *)
(* export can write.                                                       *)
(*                                                                         *)
(* Reading without cutting is a path through the splitter's modes; the     *)
(* literals, comments and statements of an export are paths from outside   *)
(* of quotes to outside of them, so the splitter is where the writer was   *)
(* (Splitting) and cuts only where the writer put a terminator, a body in  *)
(* no quotes at its own semicolons.  A literal with an unpaired backslash  *)
(* that does not escape, or an operator taken for a comment, leads away    *)
(* from the writer; from there on nothing is said but that what was cut    *)
(* off before stays.  The counter of rows is followed likewise.            *)
(***************************************************************************)
EXTENDS SqlScript, Induction, FiniteSetTheorems, TLAPS

-----------------------------------------------------------------------------
(* Reading the exported literals *)

\* Inside of what the splitter is and whether the next token is escaped; outside of
\* everything; and in a literal.
Insides == {"out", "line", "block", "dollar", "single", "double", "tick", "bracket"}
Status == Insides \X BOOLEAN
Outside == <<"out", FALSE>>
InQuotes == <<"single", FALSE>>

\* How the splitter reads a token at which it does not cut.
After(e, m, x, c) ==
    IF x THEN <<m, FALSE>>
    ELSE <<IF m = "out" THEN Entered(e, c) ELSE Left(m, c), StartsEscape(e, m, c)>>
Moves(e) ==
    [q \in {p \in Status \X Tokens : ~(p[1] = Outside /\ p[2] = Separator(e))} |->
        After(e, q[1][1], q[1][2], q[2])]
Reads(e, a, w, b) == Path(Status, Moves(e), a, w, b)

\* The dialects.
Engine == {"mysql", "postgres", "sqlite", "sqlserver", "clickhouse"}

\* How a token is read at which the splitter does not cut.
LEMMA MovesTo ==
  ASSUME NEW e, NEW a \in Status, NEW c \in Tokens, a = Outside => c # Separator(e)
  PROVE  <<a, c>> \in DOMAIN Moves(e) /\ Moves(e)[<<a, c>>] = After(e, a[1], a[2], c)
<1>1. PICK q : q = <<a, c>>
  OBVIOUS
<1>2. q[1] = a /\ q[2] = c /\ q \in Status \X Tokens
  BY <1>1
<1>3. q \in DOMAIN Moves(e) /\ Moves(e)[q] = After(e, q[1][1], q[1][2], q[2])
  BY <1>2 DEF Moves
<1> QED BY <1>1, <1>2, <1>3

\* One token is read.
LEMMA ReadsToken ==
  ASSUME NEW e, NEW a \in Status, NEW b \in Status, NEW c \in Tokens,
         a = Outside => c # Separator(e), After(e, a[1], a[2], c) = b
  PROVE  Reads(e, a, <<c>>, b)
  BY MovesTo, PathOne DEF Reads

\* One token outside of quotes and comments.
LEMMA ReadsOut ==
  ASSUME NEW e \in Engine, NEW c \in Tokens, c # Separator(e),
         c \notin {"quote", "dquote", "backtick", "[", "--", "#", "/*", "$"}
  PROVE  Reads(e, Outside, <<c>>, Outside)
<1>1. Outside \in Status /\ Outside[1] = "out" /\ Outside[2] = FALSE
  BY DEF Outside, Status, Insides
<1>2. Entered(e, c) = "out"
  BY DEF Entered, Engine, QuotesOf, Opens
<1>3. StartsEscape(e, "out", c) = FALSE
  BY DEF StartsEscape
<1>4. After(e, "out", FALSE, c) = Outside
  BY <1>2, <1>3 DEF After, Outside
<1> QED BY <1>1, <1>4, ReadsToken

\* A quote begins and ends a quoted text.
LEMMA ReadsQuote ==
  ASSUME NEW e \in Engine
  PROVE  Reads(e, Outside, <<"quote">>, InQuotes) /\ Reads(e, InQuotes, <<"quote">>, Outside)
<1>1. /\ Outside \in Status /\ Outside[1] = "out" /\ Outside[2] = FALSE
      /\ InQuotes \in Status /\ InQuotes[1] = "single" /\ InQuotes[2] = FALSE /\ InQuotes # Outside
  BY DEF Outside, InQuotes, Status, Insides
<1>2. Entered(e, "quote") = "single"
  BY DEF Entered, Engine, QuotesOf, Opens
<1>3. Left("single", "quote") = "out"
  BY DEF Left, Quotes
<1>4. \A m \in Insides : StartsEscape(e, m, "quote") = FALSE
  BY DEF StartsEscape
<1>5. After(e, "out", FALSE, "quote") = InQuotes /\ After(e, "single", FALSE, "quote") = Outside
  BY <1>2, <1>3, <1>4 DEF After, Outside, InQuotes, Insides
<1>6. "quote" # Separator(e) /\ "quote" \in Tokens
  BY DEF Separator, Tokens
<1> QED BY <1>1, <1>5, <1>6, ReadsToken

\* Any other token of a quoted text.
LEMMA ReadsIn ==
  ASSUME NEW e \in Engine, NEW c \in Tokens, c # "quote", c = "backslash" => e = "sqlserver"
  PROVE  Reads(e, InQuotes, <<c>>, InQuotes)
<1>1. /\ InQuotes \in Status /\ InQuotes[1] = "single" /\ InQuotes[2] = FALSE /\ InQuotes # Outside
  BY DEF Outside, InQuotes, Status, Insides
<1>2. Left("single", c) = "single"
  BY DEF Left, Quotes
<1>3. StartsEscape(e, "single", c) = FALSE
  BY DEF StartsEscape
<1>4. After(e, "single", FALSE, c) = InQuotes
  BY <1>2, <1>3 DEF After, InQuotes
<1> QED BY <1>1, <1>4, ReadsToken

\* An escaped token of a quoted text.
LEMMA ReadsEscaped ==
  ASSUME NEW e \in Engine, e # "sqlserver", NEW c \in Tokens
  PROVE  Reads(e, InQuotes, <<"backslash", c>>, InQuotes)
<1> DEFINE Escaped == <<"single", TRUE>>
<1>1. /\ InQuotes \in Status /\ InQuotes[1] = "single" /\ InQuotes[2] = FALSE /\ InQuotes # Outside
      /\ Escaped \in Status /\ Escaped[1] = "single" /\ Escaped[2] = TRUE /\ Escaped # Outside
  BY DEF Outside, InQuotes, Status, Insides
<1>2. Left("single", "backslash") = "single"
  BY DEF Left, Quotes
<1>3. StartsEscape(e, "single", "backslash") = TRUE
  BY DEF StartsEscape
<1>4. After(e, "single", FALSE, "backslash") = Escaped /\ After(e, "single", TRUE, c) = InQuotes
  BY <1>2, <1>3 DEF After, InQuotes
<1> HIDE DEF Escaped
<1>5. "backslash" \in Tokens
  BY DEF Tokens
<1>6. Reads(e, InQuotes, <<"backslash">>, Escaped)
  BY <1>1, <1>4, <1>5, ReadsToken
<1>7. Reads(e, Escaped, <<c>>, InQuotes)
  BY <1>1, <1>4, ReadsToken
<1>8. <<"backslash">> \in Seq(Tokens) /\ <<c>> \in Seq(Tokens)
  BY <1>5, OneToken
<1>9. Reads(e, InQuotes, <<"backslash">> \o <<c>>, InQuotes)
  BY <1>6, <1>7, <1>8, PathThen DEF Reads
<1>10. <<"backslash">> \o <<c>> = <<"backslash", c>>
  BY <1>5, TwoTokens
<1> QED BY <1>9, <1>10

\* A doubled quote ends the quoted text and begins it again.
LEMMA ReadsDoubled ==
  ASSUME NEW e \in Engine
  PROVE  Reads(e, InQuotes, <<"quote", "quote">>, InQuotes)
<1>1. "quote" \in Tokens
  BY DEF Tokens
<1>2. <<"quote">> \in Seq(Tokens)
  BY <1>1, OneToken
<1>3. Reads(e, InQuotes, <<"quote">> \o <<"quote">>, InQuotes)
  BY <1>2, ReadsQuote, PathThen DEF Reads
<1>4. <<"quote">> \o <<"quote">> = <<"quote", "quote">>
  BY <1>1, TwoTokens
<1> QED BY <1>3, <1>4

\* Texts that begin and end with status a, one behind the other.
LEMMA ReadsAll ==
  ASSUME NEW e, NEW a \in Status, NEW seqs \in Seq(Seq(Tokens)),
         \A i \in DOMAIN seqs : Reads(e, a, seqs[i], a)
  PROVE  Reads(e, a, FlattenSeq(seqs), a)
  BY PathAll DEF Reads

\* What a token becomes in a literal whose backslashes escape, and in one whose quotes,
\* or quotes and backslashes, are doubled.
Backslashed(c) ==
    IF c \in {"quote", "backslash"} THEN <<"backslash", c>>
    ELSE IF c = "nl" THEN <<"backslash", "x">> ELSE <<c>>
Doubled(D, c) == IF c \in D THEN <<c, c>> ELSE <<c>>

\* Such a token is read as part of the literal.
LEMMA ReadsBackslashed ==
  ASSUME NEW e \in Engine, e # "sqlserver", NEW c \in Tokens
  PROVE  Backslashed(c) \in Seq(Tokens) /\ Reads(e, InQuotes, Backslashed(c), InQuotes)
<1>1. "backslash" \in Tokens /\ "x" \in Tokens
  BY DEF Tokens
<1>2. CASE c \in {"quote", "backslash"}
  <2>1. Backslashed(c) = <<"backslash", c>>
    BY <1>2 DEF Backslashed
  <2>2. <<"backslash", c>> \in Seq(Tokens)
    BY <1>1, TwoTokens
  <2> QED BY <2>1, <2>2, ReadsEscaped
<1>3. CASE c = "nl"
  <2>1. Backslashed(c) = <<"backslash", "x">>
    BY <1>3 DEF Backslashed
  <2>2. <<"backslash", "x">> \in Seq(Tokens)
    BY <1>1, TwoTokens
  <2> QED BY <1>1, <2>1, <2>2, ReadsEscaped
<1>4. CASE c \notin {"quote", "backslash", "nl"}
  <2>1. Backslashed(c) = <<c>>
    BY <1>4 DEF Backslashed
  <2>2. <<c>> \in Seq(Tokens)
    BY OneToken
  <2> QED BY <1>4, <2>1, <2>2, ReadsIn
<1> QED BY <1>2, <1>3, <1>4

\* So is a doubled one, where a backslash is doubled or nothing special.
LEMMA ReadsDoubledTokens ==
  ASSUME NEW e \in Engine, NEW D, "quote" \in D, D \subseteq {"quote", "backslash"}, NEW c \in Tokens,
         c = "backslash" => ((e = "sqlserver" /\ c \notin D) \/ (e # "sqlserver" /\ c \in D))
  PROVE  Doubled(D, c) \in Seq(Tokens) /\ Reads(e, InQuotes, Doubled(D, c), InQuotes)
<1>1. CASE c = "quote"
  <2>1. Doubled(D, c) = <<c, c>>
    BY <1>1 DEF Doubled
  <2>2. <<c, c>> \in Seq(Tokens)
    BY TwoTokens
  <2>3. Reads(e, InQuotes, <<c, c>>, InQuotes)
    BY <1>1, ReadsDoubled
  <2> QED BY <2>1, <2>2, <2>3
<1>2. CASE c = "backslash" /\ c \in D
  <2>1. Doubled(D, c) = <<c, c>>
    BY <1>2 DEF Doubled
  <2>2. <<c, c>> \in Seq(Tokens)
    BY TwoTokens
  <2>3. Reads(e, InQuotes, <<c, c>>, InQuotes)
    BY <1>2, ReadsEscaped
  <2> QED BY <2>1, <2>2, <2>3
<1>3. CASE c # "quote" /\ c \notin D
  <2>1. Doubled(D, c) = <<c>>
    BY <1>3 DEF Doubled
  <2>2. <<c>> \in Seq(Tokens)
    BY OneToken
  <2> QED BY <1>3, <2>1, <2>2, ReadsIn
<1> QED BY <1>1, <1>2, <1>3

\* string_literal, token by token.
LEMMA MysqlLiteralIs ==
  ASSUME NEW w
  PROVE  MysqlLiteral(w) = Quoted(FlattenSeq([i \in DOMAIN w |-> Backslashed(w[i])]))
  BY DEF MysqlLiteral, Encoded, Backslashed

\* quote(), REPLACE and pg_str, token by token.
LEMMA DoubledLiteralIs ==
  ASSUME NEW w
  PROVE  DoubledLiteral(w) = Quoted(FlattenSeq([i \in DOMAIN w |-> Doubled({"quote"}, w[i])]))
<1>1. [i \in DOMAIN w |-> Doubled({"quote"}, w[i])]
        = [i \in DOMAIN w |-> IF w[i] = "quote" THEN <<w[i], w[i]>> ELSE <<w[i]>>]
  BY DEF Doubled
<1> QED BY <1>1 DEF DoubledLiteral, Encoded

\* quote_nullable, token by token.
LEMMA PostgresLiteralIs ==
  ASSUME NEW w
  PROVE  PostgresLiteral(w) =
           <<"x">> \o Quoted(FlattenSeq([i \in DOMAIN w |-> Doubled({"quote", "backslash"}, w[i])]))
  BY DEF PostgresLiteral, Encoded, Doubled

\* A quoted text is read from outside to outside when its content is read inside.
LEMMA ReadsQuoted ==
  ASSUME NEW e \in Engine, NEW w \in Seq(Tokens), Reads(e, InQuotes, w, InQuotes)
  PROVE  Quoted(w) \in Seq(Tokens) /\ Reads(e, Outside, Quoted(w), Outside)
<1>1. "quote" \in Tokens
  BY DEF Tokens
<1>2. <<"quote">> \in Seq(Tokens)
  BY <1>1, OneToken
<1>3. PICK q : q = <<"quote">>
  OBVIOUS
<1>4. q \in Seq(Tokens) /\ Reads(e, Outside, q, InQuotes) /\ Reads(e, InQuotes, q, Outside)
  BY <1>2, <1>3, ReadsQuote
<1>5. q \o w \in Seq(Tokens) /\ Reads(e, Outside, q \o w, InQuotes)
  BY <1>4, Concatenated, PathThen DEF Reads
<1>6. (q \o w) \o q \in Seq(Tokens) /\ Reads(e, Outside, (q \o w) \o q, Outside)
  BY <1>4, <1>5, Concatenated, PathThen DEF Reads
<1>7. Quoted(w) = (q \o w) \o q
  BY <1>3 DEF Quoted
<1> QED BY <1>6, <1>7

\* The contents that are written so that they can be read.
Writable(e, data, w) ==
    /\ w \in Seq(Tokens)
    /\ (e = "sqlite" \/ (e = "postgres" /\ ~data)) => ~Shifted(w)

\* Within a literal, behind r backslashes.
Behind(r) == IF r % 2 = 1 THEN <<"single", TRUE>> ELSE InQuotes
NextRun(r, c) == IF c = "backslash" THEN r + 1 ELSE 0

\* A token of a literal without escapes, read by a splitter that sees some.
LEMMA ReadsUnescaped ==
  ASSUME NEW e \in Engine, e # "sqlserver", NEW c \in Tokens, NEW r \in Nat,
         c = "quote" => r % 2 # 1
  PROVE  /\ Doubled({"quote"}, c) \in Seq(Tokens)
         /\ Reads(e, Behind(r), Doubled({"quote"}, c), Behind(NextRun(r, c)))
<1>1. PICK x : x = <<"single", TRUE>>
  OBVIOUS
<1>2. /\ InQuotes \in Status /\ InQuotes[1] = "single" /\ InQuotes[2] = FALSE /\ InQuotes # Outside
      /\ x \in Status /\ x[1] = "single" /\ x[2] = TRUE /\ x # Outside
  BY <1>1 DEF Outside, InQuotes, Status, Insides
<1>3. <<c>> \in Seq(Tokens) /\ Behind(0) = InQuotes
  BY OneToken DEF Behind
<1>4. CASE r % 2 = 1
  <2>1. Behind(r) = x /\ c # "quote"
    BY <1>1, <1>4 DEF Behind
  <2>2. Behind(NextRun(r, c)) = InQuotes
    <3>1. (r + 1) % 2 # 1
      BY <1>4
    <3> QED BY <1>3, <3>1 DEF Behind, NextRun
  <2>3. After(e, "single", TRUE, c) = InQuotes
    BY DEF After, InQuotes
  <2>4. Doubled({"quote"}, c) = <<c>>
    BY <2>1 DEF Doubled
  <2>5. Reads(e, x, <<c>>, InQuotes)
    BY <1>2, <2>3, ReadsToken
  <2> QED BY <1>3, <2>1, <2>2, <2>4, <2>5
<1>5. CASE r % 2 # 1
  <2>1. Behind(r) = InQuotes
    BY <1>5 DEF Behind
  <2>2. CASE c = "quote"
    <3>1. Doubled({"quote"}, c) = <<"quote", "quote">> /\ NextRun(r, c) = 0
      BY <2>2 DEF Doubled, NextRun
    <3>2. <<"quote", "quote">> \in Seq(Tokens)
      BY <2>2, TwoTokens
    <3> QED BY <1>3, <2>1, <3>1, <3>2, ReadsDoubled
  <2>3. CASE c = "backslash"
    <3>1. Doubled({"quote"}, c) = <<c>> /\ NextRun(r, c) = r + 1 /\ (r + 1) % 2 = 1
      BY <1>5, <2>3 DEF Doubled, NextRun
    <3>2. Behind(NextRun(r, c)) = x
      BY <1>1, <3>1 DEF Behind
    <3>3. Left("single", "backslash") = "single" /\ StartsEscape(e, "single", "backslash") = TRUE
      BY DEF Left, Quotes, StartsEscape
    <3>4. After(e, "single", FALSE, c) = x
      BY <1>1, <2>3, <3>3 DEF After
    <3>5. Reads(e, InQuotes, <<c>>, x)
      BY <1>2, <3>4, ReadsToken
    <3> QED BY <1>3, <2>1, <3>1, <3>2, <3>5
  <2>4. CASE c # "quote" /\ c # "backslash"
    <3>1. Doubled({"quote"}, c) = <<c>> /\ NextRun(r, c) = 0
      BY <2>4 DEF Doubled, NextRun
    <3>2. Reads(e, InQuotes, <<c>>, InQuotes)
      BY <2>4, ReadsIn
    <3> QED BY <1>3, <2>1, <3>1, <3>2
  <2> QED BY <2>2, <2>3, <2>4
<1> QED BY <1>4, <1>5

\* The runs of backslashes are counted from the beginning on.
LEMMA BackslashesAre ==
  ASSUME NEW w \in Seq(Tokens), NEW N \in Nat, N = Len(w)
  PROVE  \E r \in [0 .. N -> Nat] :
            r = Backslashes(w) /\ r[0] = 0 /\ \A i \in 1 .. N : r[i] = NextRun(r[i - 1], w[i])
<1> DEFINE step == [n \in 1 .. N |-> [v \in Nat |-> NextRun(v, w[n])]]
           F(g) == [i \in 0 .. N |-> IF i = 0 THEN 0
                                    ELSE IF w[i] = "backslash" THEN g[i - 1] + 1 ELSE 0]
           run == CHOOSE g : g = F(g)
<1>1. step \in Steps(1 .. N, Nat) /\ 0 \in Nat
  <2>1. \A n \in 1 .. N, v \in Nat : NextRun(v, w[n]) \in Nat
    BY DEF NextRun
  <2> QED BY <2>1 DEF Steps
<1>2. PICK h \in IteratesUpTo(N, Nat, 0, step) : TRUE
  <2> HIDE DEF step
  <2> QED BY <1>1, RecursionUpTo
<1>3. h \in [0 .. N -> Nat] /\ h[0] = 0 /\ \A n \in 1 .. N : h[n] = NextRun(h[n - 1], w[n])
  <2>1. h \in [0 .. N -> Nat] /\ h[0] = 0 /\ \A n \in 1 .. N : h[n] = step[n][h[n - 1]]
    <3> HIDE DEF step
    <3> QED BY <1>2 DEF IteratesUpTo
  <2>2. \A n \in 1 .. N : n - 1 \in 0 .. N
    OBVIOUS
  <2>3. \A n \in 1 .. N : step[n][h[n - 1]] = NextRun(h[n - 1], w[n])
    BY <2>1, <2>2
  <2> QED BY <2>1, <2>3
<1>4. h = F(h)
  <2>1. ASSUME NEW i \in 0 .. N PROVE h[i] = F(h)[i]
    BY <1>3 DEF NextRun
  <2>2. h = [i \in 0 .. N |-> h[i]] /\ F(h) = [i \in 0 .. N |-> F(h)[i]]
    BY <1>3
  <2> HIDE DEF F
  <2> QED BY <2>1, <2>2
<1>5. run = F(run)
  <2> HIDE DEF F
  <2> QED BY <1>4
<1>6. Backslashes(w) = run
  BY Zenon DEF Backslashes
<1> HIDE DEF run
<1>7. \A i \in 0 .. N : run[i] = IF i = 0 THEN 0
                                ELSE IF w[i] = "backslash" THEN run[i - 1] + 1 ELSE 0
  BY <1>5
<1> DEFINE U == {i \in 0 .. N : run[i] = h[i]}
<1>8. 0 \in U
  BY <1>3, <1>7
<1> HIDE DEF F
<1>9. ASSUME NEW i \in 1 .. N, i - 1 \in U PROVE i \in U
  <2>1. run[i - 1] = h[i - 1] /\ i \in 0 .. N /\ i # 0
    BY <1>9
  <2>2. run[i] = IF w[i] = "backslash" THEN run[i - 1] + 1 ELSE 0
    BY <1>7, <2>1
  <2>3. h[i] = NextRun(h[i - 1], w[i])
    BY <1>3
  <2>4. run[i] = h[i]
    BY <2>1, <2>2, <2>3 DEF NextRun
  <2> QED BY <2>1, <2>4
<1>10. \A i \in 0 .. N : run[i] = h[i]
  <2> HIDE DEF U
  <2>1. 0 .. N \subseteq U
    BY <1>8, <1>9, InductionUpTo
  <2> QED BY <2>1 DEF U
<1>11. run = h
  <2>1. run = [i \in 0 .. N |-> run[i]]
    BY <1>5 DEF F
  <2>2. h = [i \in 0 .. N |-> h[i]]
    BY <1>3
  <2> QED BY <1>10, <2>1, <2>2
<1> QED BY <1>3, <1>6, <1>11

\* A literal without escapes is read to its end where no backslash is taken for one.
LEMMA ReadsUnshifted ==
  ASSUME NEW e \in Engine, e # "sqlserver", NEW w \in Seq(Tokens), ~Shifted(w)
  PROVE  LET v == FlattenSeq([i \in DOMAIN w |-> Doubled({"quote"}, w[i])])
         IN  v \in Seq(Tokens) /\ Reads(e, InQuotes, v, InQuotes)
<1>1. PICK N \in Nat : N = Len(w)
  OBVIOUS
<1>2. PICK r \in [0 .. N -> Nat] :
        r = Backslashes(w) /\ r[0] = 0 /\ \A i \in 1 .. N : r[i] = NextRun(r[i - 1], w[i])
  BY <1>1, BackslashesAre
<1>3. /\ r[N] % 2 # 1
      /\ \A i \in 1 .. N : w[i] = "quote" => r[i - 1] % 2 # 1
  <2>1. \A i \in 0 .. N : (i = N \/ w[i + 1] = "quote") => r[i] % 2 # 1
    BY <1>1, <1>2 DEF Shifted
  <2>2. \A i \in 1 .. N : i - 1 \in 0 .. N /\ (i - 1) + 1 = i
    OBVIOUS
  <2> QED BY <2>1, <2>2
<1>4. PICK q : q = [i \in DOMAIN w |-> Doubled({"quote"}, w[i])]
  OBVIOUS
<1>5. PICK g : g = [i \in 0 .. N |-> Behind(r[i])]
  OBVIOUS
<1>6. ASSUME NEW i \in 1 .. N
      PROVE  q[i] \in Seq(Tokens) /\ Reads(e, g[i - 1], q[i], g[i])
  <2>1. PICK c \in Tokens, n \in Nat : c = w[i] /\ n = r[i - 1]
    BY <1>1, <1>2
  <2>2. /\ Doubled({"quote"}, c) \in Seq(Tokens)
        /\ Reads(e, Behind(n), Doubled({"quote"}, c), Behind(NextRun(n, c)))
    BY <1>3, <2>1, ReadsUnescaped
  <2>3. q[i] = Doubled({"quote"}, c) /\ g[i - 1] = Behind(n) /\ g[i] = Behind(NextRun(n, c))
    BY <1>1, <1>2, <1>4, <1>5, <2>1
  <2> QED BY <2>2, <2>3
<1>7. q \in Seq(Seq(Tokens)) /\ N = Len(q)
  <2>1. q = [i \in 1 .. N |-> q[i]]
    BY <1>1, <1>4
  <2>2. q \in [1 .. N -> Seq(Tokens)]
    BY <1>6, <2>1
  <2> QED BY <2>2
<1>8. g \in [0 .. N -> Status] /\ g[0] = InQuotes /\ g[N] = InQuotes
  <2>1. \A n \in Nat : Behind(n) \in Status
    BY DEF Behind, InQuotes, Status, Insides
  <2>2. Behind(0) = InQuotes /\ Behind(r[N]) = InQuotes
    BY <1>3 DEF Behind
  <2> QED BY <1>2, <1>5, <2>1, <2>2
<1>9. Path(Status, Moves(e), g[0], FlattenSeq(q), g[N])
  <2>1. \A i \in 1 .. N : Path(Status, Moves(e), g[i - 1], q[i], g[i])
    BY <1>6 DEF Reads
  <2>2. PICK f : f = Moves(e)
    OBVIOUS
  <2>3. Path(Status, f, g[0], FlattenSeq(q), g[N])
    BY <1>7, <1>8, <2>1, <2>2, PathFlat
  <2> QED BY <2>2, <2>3
<1>10. FlattenSeq(q) \in Seq(Tokens)
  BY <1>7, FlattenIs
<1> QED BY <1>4, <1>8, <1>9, <1>10 DEF Reads

\* The splitter reads an exported literal from its first token to its last without
\* cutting, and is outside of quotes behind it: format_cell_for_export and the other
\* literals escape what ends a quoted text.
LEMMA ReadsLiteral ==
  ASSUME NEW e \in Engine, NEW data \in BOOLEAN, NEW w, Writable(e, data, w)
  PROVE  Literal(e, data, w) \in Seq(Tokens) /\ Reads(e, Outside, Literal(e, data, w), Outside)
<1>1. w \in Seq(Tokens) /\ \A i \in DOMAIN w : w[i] \in Tokens
  BY DEF Writable
<1>2. InQuotes \in Status
  BY DEF InQuotes, Status, Insides
<1>3. ASSUME NEW q, q \in Seq(Seq(Tokens)), \A i \in DOMAIN q : Reads(e, InQuotes, q[i], InQuotes)
      PROVE  /\ Quoted(FlattenSeq(q)) \in Seq(Tokens)
             /\ Reads(e, Outside, Quoted(FlattenSeq(q)), Outside)
  <2>1. FlattenSeq(q) \in Seq(Tokens)
    BY <1>3, FlattenIs
  <2>2. Reads(e, InQuotes, FlattenSeq(q), InQuotes)
    BY <1>2, <1>3, ReadsAll
  <2> QED BY <2>1, <2>2, ReadsQuoted
<1>4. CASE e \in {"mysql", "clickhouse"}
  <2>1. PICK q : q = [i \in DOMAIN w |-> Backslashed(w[i])]
    OBVIOUS
  <2>2. \A i \in DOMAIN w :
          /\ Backslashed(w[i]) \in Seq(Tokens)
          /\ Reads(e, InQuotes, Backslashed(w[i]), InQuotes)
    BY <1>1, <1>4, ReadsBackslashed
  <2>3. q \in Seq(Seq(Tokens)) /\ DOMAIN q = DOMAIN w
    BY <1>1, <2>1, <2>2
  <2>4. \A i \in DOMAIN q : Reads(e, InQuotes, q[i], InQuotes)
    BY <2>1, <2>2, <2>3
  <2>5. Literal(e, data, w) = Quoted(FlattenSeq(q))
    BY <1>4, <2>1, MysqlLiteralIs DEF Literal
  <2> QED BY <1>3, <2>3, <2>4, <2>5
<1>5. CASE e = "postgres" /\ data
  <2>1. PICK q : q = [i \in DOMAIN w |-> Doubled({"quote", "backslash"}, w[i])]
    OBVIOUS
  <2>2. \A i \in DOMAIN w :
          /\ Doubled({"quote", "backslash"}, w[i]) \in Seq(Tokens)
          /\ Reads(e, InQuotes, Doubled({"quote", "backslash"}, w[i]), InQuotes)
    BY <1>1, <1>5, ReadsDoubledTokens
  <2>3. q \in Seq(Seq(Tokens)) /\ DOMAIN q = DOMAIN w
    BY <1>1, <2>1, <2>2
  <2>4. \A i \in DOMAIN q : Reads(e, InQuotes, q[i], InQuotes)
    BY <2>1, <2>2, <2>3
  <2>5. PICK x, v : x = <<"x">> /\ v = Quoted(FlattenSeq(q))
    OBVIOUS
  <2>6. Literal(e, data, w) = x \o v
    BY <1>5, <2>1, <2>5, PostgresLiteralIs DEF Literal
  <2>7. v \in Seq(Tokens) /\ Reads(e, Outside, v, Outside)
    BY <1>3, <2>3, <2>4, <2>5
  <2>8. "x" \in Tokens /\ "x" # Separator(e)
    BY DEF Tokens, Separator
  <2>9. x \in Seq(Tokens) /\ Reads(e, Outside, x, Outside)
    BY <2>5, <2>8, OneToken, ReadsOut
  <2> QED BY <2>6, <2>7, <2>9, Concatenated, PathThen DEF Reads
<1>6. CASE e \notin {"mysql", "clickhouse"} /\ ~(e = "postgres" /\ data)
  <2>1. PICK q : q = [i \in DOMAIN w |-> Doubled({"quote"}, w[i])]
    OBVIOUS
  <2>2. Literal(e, data, w) = Quoted(FlattenSeq(q))
    BY <1>6, <2>1, DoubledLiteralIs DEF Literal
  <2>3. CASE e # "sqlserver"
    <3>1. ~Shifted(w)
      BY <1>6, <2>3 DEF Writable, Engine
    <3>2. FlattenSeq(q) \in Seq(Tokens) /\ Reads(e, InQuotes, FlattenSeq(q), InQuotes)
      BY <1>1, <2>1, <2>3, <3>1, ReadsUnshifted
    <3> QED BY <2>2, <3>2, ReadsQuoted
  <2>4. CASE e = "sqlserver"
    <3>1. \A i \in DOMAIN w :
            /\ Doubled({"quote"}, w[i]) \in Seq(Tokens)
            /\ Reads(e, InQuotes, Doubled({"quote"}, w[i]), InQuotes)
      BY <1>1, <2>4, ReadsDoubledTokens
    <3>2. q \in Seq(Seq(Tokens)) /\ DOMAIN q = DOMAIN w
      BY <1>1, <2>1, <3>1
    <3>3. \A i \in DOMAIN q : Reads(e, InQuotes, q[i], InQuotes)
      BY <2>1, <3>1, <3>2
    <3> QED BY <1>3, <2>2, <3>2, <3>3
  <2> QED BY <2>3, <2>4
<1> QED BY <1>4, <1>5, <1>6

\* The values of a statement, the comment before it and what it begins with.
LEMMA ReadsValues ==
  ASSUME NEW e \in Engine, NEW s, s.data \in BOOLEAN, s.rows \in Seq(Seq(Tokens)),
         \A i \in DOMAIN s.rows : Writable(e, s.data, s.rows[i])
  PROVE  Values(e, s) \in Seq(Tokens) /\ Reads(e, Outside, Values(e, s), Outside)
<1>1. PICK q : q = [i \in DOMAIN s.rows |-> <<"(">> \o Literal(e, s.data, s.rows[i]) \o <<")">>]
  OBVIOUS
<1>2. \A i \in DOMAIN s.rows : q[i] \in Seq(Tokens) /\ Reads(e, Outside, q[i], Outside)
  <2>1. SUFFICES ASSUME NEW i \in DOMAIN s.rows
                 PROVE  q[i] \in Seq(Tokens) /\ Reads(e, Outside, q[i], Outside)
    OBVIOUS
  <2>2. PICK a, v, b : a = <<"(">> /\ v = Literal(e, s.data, s.rows[i]) /\ b = <<")">>
    OBVIOUS
  <2>3. {"(", ")"} \subseteq Tokens /\ Separator(e) \notin {"(", ")"}
    BY DEF Tokens, Separator
  <2>4. a \in Seq(Tokens) /\ Reads(e, Outside, a, Outside)
    BY <2>2, <2>3, OneToken, ReadsOut
  <2>5. b \in Seq(Tokens) /\ Reads(e, Outside, b, Outside)
    BY <2>2, <2>3, OneToken, ReadsOut
  <2>6. v \in Seq(Tokens) /\ Reads(e, Outside, v, Outside)
    BY <2>2, ReadsLiteral
  <2>7. a \o v \in Seq(Tokens) /\ Reads(e, Outside, a \o v, Outside)
    BY <2>4, <2>6, Concatenated, PathThen DEF Reads
  <2>8. (a \o v) \o b \in Seq(Tokens) /\ Reads(e, Outside, (a \o v) \o b, Outside)
    BY <2>5, <2>7, Concatenated, PathThen DEF Reads
  <2>9. q[i] = (a \o v) \o b
    BY <1>1, <2>2
  <2> QED BY <2>8, <2>9
<1>3. q \in Seq(Seq(Tokens)) /\ DOMAIN q = DOMAIN s.rows
  <2>1. PICK n \in Nat : DOMAIN s.rows = 1 .. n
    OBVIOUS
  <2>2. q \in [1 .. n -> Seq(Tokens)]
    BY <1>1, <1>2, <2>1
  <2> QED BY <2>1, <2>2
<1>4. Outside \in Status
  BY DEF Outside, Status, Insides
<1>5. FlattenSeq(q) \in Seq(Tokens)
  BY <1>3, FlattenIs
<1>6. Reads(e, Outside, FlattenSeq(q), Outside)
  BY <1>2, <1>3, <1>4, ReadsAll
<1>7. Values(e, s) = FlattenSeq(q)
  BY <1>1 DEF Values
<1> QED BY <1>5, <1>6, <1>7

\* Six tokens.
LEMMA SixTokens ==
  ASSUME NEW S, NEW a \in S, NEW b \in S, NEW c \in S, NEW d \in S, NEW x \in S, NEW y \in S
  PROVE  <<a, b, c, d, x, y>> \in Seq(S)
  OBVIOUS

\* Within a block comment, and the comment an export may write before a statement.
InComment == <<"block", FALSE>>
Note == <<"/*", "quote", "x", ";", "*/", "nl">>

\* The comment is read to its end, whatever quotes and semicolons it contains.
LEMMA ReadsNote ==
  ASSUME NEW e \in Engine
  PROVE  Note \in Seq(Tokens) /\ Reads(e, Outside, Note, Outside)
<1>1. /\ Outside \in Status /\ Outside[1] = "out" /\ Outside[2] = FALSE
      /\ InComment \in Status /\ InComment[1] = "block" /\ InComment[2] = FALSE /\ InComment # Outside
  BY DEF Outside, InComment, Status, Insides
<1>2. Entered(e, "/*") = "block" /\ Entered(e, "nl") = "out" /\ Left("block", "*/") = "out"
  BY DEF Entered, Engine, QuotesOf, Opens, Left
<1>3. \A c \in {"quote", "x", ";"} : Left("block", c) = "block"
  BY DEF Left
<1>4. \A m \in {"out", "block"}, c \in Tokens : StartsEscape(e, m, c) = FALSE
  BY DEF StartsEscape
<1>5. {"/*", "quote", "x", ";", "*/", "nl"} \subseteq Tokens /\ Separator(e) \notin {"/*", "nl"}
  BY DEF Tokens, Separator
<1>6. /\ After(e, "out", FALSE, "/*") = InComment /\ After(e, "block", FALSE, "*/") = Outside
      /\ After(e, "out", FALSE, "nl") = Outside
  BY <1>2, <1>4, <1>5 DEF After, Outside, InComment
<1>7. \A c \in {"quote", "x", ";"} : After(e, "block", FALSE, c) = InComment
  BY <1>3, <1>4, <1>5 DEF After, InComment
<1>8. PICK h : h = [i \in 0 .. 6 |-> IF i \in {0, 5, 6} THEN Outside ELSE InComment]
  OBVIOUS
<1>9. h \in [0 .. 6 -> Status] /\ h[0] = Outside /\ h[6] = Outside
  BY <1>1, <1>8
<1>9a. h[1] = InComment /\ h[2] = InComment /\ h[3] = InComment /\ h[4] = InComment /\ h[5] = Outside
  BY <1>8
<1>10. PICK w : w = Note
  OBVIOUS
<1>11. /\ w[1] = "/*" /\ w[2] = "quote" /\ w[3] = "x" /\ w[4] = ";" /\ w[5] = "*/" /\ w[6] = "nl"
       /\ Len(w) = 6
  BY <1>10 DEF Note
<1>12. w \in Seq(Tokens)
  <2>1. /\ "/*" \in Tokens /\ "quote" \in Tokens /\ "x" \in Tokens /\ ";" \in Tokens
        /\ "*/" \in Tokens /\ "nl" \in Tokens
    BY DEF Tokens
  <2> QED BY <1>10, <2>1, SixTokens DEF Note
<1>13. ASSUME NEW i \in 1 .. 6
       PROVE  <<h[i - 1], w[i]>> \in DOMAIN Moves(e) /\ h[i] = Moves(e)[<<h[i - 1], w[i]>>]
  <2>1. PICK a, c, b : a = h[i - 1] /\ c = w[i] /\ b = h[i]
    OBVIOUS
  <2>2. /\ a = Outside \/ a = InComment
        /\ c \in Tokens /\ (a = Outside => c # Separator(e))
        /\ After(e, a[1], a[2], c) = b
    <3>1. CASE i = 1
      <4>1. i - 1 = 0
        BY <3>1
      <4>2. a = h[0] /\ c = w[1] /\ b = h[1]
        BY <2>1, <3>1, <4>1
      <4>3. a = Outside /\ c = "/*" /\ b = InComment
        BY <1>9, <1>9a, <1>11, <4>2
      <4> QED BY <1>1, <1>5, <1>6, <4>3
    <3>2. CASE i \in {2, 3, 4}
      <4>0. \A n \in {2, 3, 4} : h[n - 1] = InComment /\ h[n] = InComment
        BY <1>9a
      <4>1. a = InComment /\ c \in {"quote", "x", ";"} /\ b = InComment
        BY <1>11, <2>1, <3>2, <4>0
      <4> QED BY <1>1, <1>5, <1>7, <4>1
    <3>3. CASE i = 5
      <4>1. i - 1 = 4
        BY <3>3
      <4>2. a = h[4] /\ c = w[5] /\ b = h[5]
        BY <2>1, <3>3, <4>1
      <4>3. a = InComment /\ c = "*/" /\ b = Outside
        BY <1>9, <1>9a, <1>11, <4>2
      <4> QED BY <1>1, <1>5, <1>6, <4>3
    <3>4. CASE i = 6
      <4>1. i - 1 = 5
        BY <3>4
      <4>2. a = h[5] /\ c = w[6] /\ b = h[6]
        BY <2>1, <3>4, <4>1
      <4>3. a = Outside /\ c = "nl" /\ b = Outside
        BY <1>9, <1>9a, <1>11, <4>2
      <4> QED BY <1>1, <1>5, <1>6, <4>3
    <3> QED BY <3>1, <3>2, <3>3, <3>4
  <2>3. a \in Status
    BY <1>1, <2>2
  <2> QED BY <2>1, <2>2, <2>3, MovesTo
<1>14. Reads(e, Outside, w, Outside)
  BY <1>9, <1>11, <1>13 DEF Reads, Path
<1> QED BY <1>10, <1>12, <1>14

-----------------------------------------------------------------------------
(* What is left of a text without the line ends around it *)

\* The text between the first and the last token that is not a line end.
LEMMA TrimmedIs ==
  ASSUME NEW s \in Seq(Tokens), NEW a \in 1 .. Len(s), NEW b \in 1 .. Len(s),
         s[a] # "nl", s[b] # "nl",
         \A i \in 1 .. Len(s) : s[i] # "nl" => a <= i /\ i <= b
  PROVE  Trimmed(s) = SubSeq(s, a, b)
<1> DEFINE I == {i \in 1 .. Len(s) : s[i] # "nl"}
<1>1. a \in I /\ b \in I /\ \A i \in I : a <= i /\ i <= b
  OBVIOUS
<1>2. a \in Int /\ b \in Int /\ I \subseteq Int
  OBVIOUS
<1>3. Min(I) = a /\ Max(I) = b
  <2> HIDE DEF I
  <2>1. \A x \in I : (\A y \in I : x <= y) => x = a
    BY <1>1, <1>2
  <2>2. \A x \in I : (\A y \in I : x >= y) => x = b
    BY <1>1, <1>2
  <2> QED BY <1>1, <1>2, <2>1, <2>2 DEF Min, Max
<1>4. SelectInSeq(s, LAMBDA c : c # "nl") = a
  BY <1>1, <1>3 DEF SelectInSeq
<1>5. SelectLastInSeq(s, LAMBDA c : c # "nl") = b
  BY <1>1, <1>3 DEF SelectLastInSeq
<1>6. a # 0
  OBVIOUS
<1> QED BY <1>4, <1>5, <1>6 DEF Trimmed

\* Nothing is left of line ends.
LEMMA TrimmedNone ==
  ASSUME NEW s \in Seq(Tokens), \A i \in 1 .. Len(s) : s[i] = "nl"
  PROVE  Trimmed(s) = <<>>
<1>1. {i \in 1 .. Len(s) : s[i] # "nl"} = {}
  OBVIOUS
<1>2. SelectInSeq(s, LAMBDA c : c # "nl") = 0
  BY <1>1 DEF SelectInSeq
<1> QED BY <1>2 DEF Trimmed

\* Line ends before and behind a text make no difference.
LEMMA TrimmedAround ==
  ASSUME NEW s \in Seq(Tokens), NEW p \in Seq({"nl"}), NEW q \in Seq({"nl"}),
         \E i \in 1 .. Len(s) : s[i] # "nl"
  PROVE  Trimmed(p \o (s \o q)) = Trimmed(s) /\ Trimmed(s) # <<>>
<1>1. PICK m \in Nat, n \in Nat, l \in Nat : m = Len(p) /\ n = Len(s) /\ l = Len(q)
  OBVIOUS
<1> DEFINE I == {i \in 1 .. n : s[i] # "nl"}
<1>2. I # {} /\ I \subseteq Nat /\ I \subseteq 0 .. n
  BY <1>1
<1>3. PICK a \in I : \A i \in I : a <= i
  <2> HIDE DEF I
  <2> QED BY <1>2, SmallestOf
<1>4. PICK b \in I : \A i \in I : i <= b
  <2> HIDE DEF I
  <2> QED BY <1>2, LargestOf
<1>5. /\ a \in 1 .. n /\ b \in 1 .. n /\ s[a] # "nl" /\ s[b] # "nl" /\ a <= b
      /\ \A i \in 1 .. n : s[i] # "nl" => a <= i /\ i <= b
  BY <1>3, <1>4
<1> HIDE DEF I
<1>6. Trimmed(s) = SubSeq(s, a, b)
  BY <1>1, <1>5, TrimmedIs
<1>7. "nl" \in Tokens
  BY DEF Tokens
<1>8. p \in Seq(Tokens) /\ q \in Seq(Tokens)
  BY <1>7
<1>9. PICK u : u = s \o q
  OBVIOUS
<1>10. /\ u \in Seq(Tokens) /\ Len(u) = n + l
       /\ (\A i \in 1 .. n : u[i] = s[i]) /\ \A i \in 1 .. l : u[n + i] = "nl"
  BY <1>1, <1>8, <1>9
<1>11. PICK t : t = p \o u
  OBVIOUS
<1>12. t \in Seq(Tokens) /\ Len(t) = m + (n + l)
  <2>1. t \in Seq(Tokens) /\ Len(t) = Len(p) + Len(u)
    BY <1>8, <1>10, <1>11, ConcatProperties
  <2> QED BY <1>1, <1>10, <2>1
<1>13. (\A i \in 1 .. m : t[i] = "nl") /\ \A i \in 1 .. (n + l) : t[m + i] = u[i]
  BY <1>1, <1>8, <1>10, <1>11
<1>14. \A i \in 1 .. n : t[m + i] = s[i]
  BY <1>10, <1>13
<1>15. \A i \in 1 .. Len(t) : t[i] # "nl" => m + a <= i /\ i <= m + b
  <2>1. SUFFICES ASSUME NEW i \in 1 .. (m + (n + l)), t[i] # "nl" PROVE m + a <= i /\ i <= m + b
    BY <1>12
  <2>2. ~(i <= m)
    BY <1>13, <2>1
  <2>3. PICK j \in 1 .. (n + l) : i = m + j
    <3>1. i - m \in 1 .. (n + l) /\ i = m + (i - m)
      BY <2>2
    <3> QED BY <3>1
  <2>4. u[j] # "nl"
    BY <1>13, <2>1, <2>3
  <2>5. j <= n
    <3>1. ASSUME ~(j <= n) PROVE FALSE
      <4>1. j - n \in 1 .. l /\ j = n + (j - n)
        BY <3>1
      <4> QED BY <1>10, <2>4, <4>1
    <3> QED BY <3>1
  <2>6. s[j] # "nl"
    BY <1>10, <2>4, <2>5
  <2> QED BY <1>5, <2>3, <2>5, <2>6
<1>16. m + a \in 1 .. Len(t) /\ m + b \in 1 .. Len(t) /\ t[m + a] # "nl" /\ t[m + b] # "nl"
  BY <1>5, <1>12, <1>14
<1>17. Trimmed(t) = SubSeq(t, m + a, m + b)
  BY <1>12, <1>15, <1>16, TrimmedIs
<1>18. SubSeq(t, m + a, m + b) = SubSeq(s, a, b)
  <2>1. PICK x, y : x = SubSeq(t, m + a, m + b) /\ y = SubSeq(s, a, b)
    OBVIOUS
  <2>2. /\ y \in Seq(Tokens) /\ Len(y) = b - a + 1
        /\ \A i \in 1 .. (b - a + 1) : y[i] = s[a + i - 1]
    BY <1>1, <1>5, <2>1
  <2>3. /\ x \in Seq(Tokens) /\ Len(x) = b - a + 1
        /\ \A i \in 1 .. (b - a + 1) : x[i] = t[m + a + i - 1]
    BY <1>5, <1>12, <1>16, <2>1
  <2>4. \A i \in 1 .. (b - a + 1) : t[m + a + i - 1] = s[a + i - 1]
    <3>1. SUFFICES ASSUME NEW i \in 1 .. (b - a + 1) PROVE t[m + a + i - 1] = s[a + i - 1]
      OBVIOUS
    <3>2. a + i - 1 \in 1 .. n /\ m + a + i - 1 = m + (a + i - 1)
      BY <1>5
    <3> QED BY <1>14, <3>2
  <2>5. x = y
    <3>1. Len(x) = Len(y) /\ \A i \in 1 .. Len(x) : x[i] = y[i]
      BY <2>2, <2>3, <2>4
    <3> QED BY <2>2, <2>3, <3>1, SeqEqual
  <2> QED BY <2>1, <2>5
<1>19. SubSeq(s, a, b) # <<>>
  <2>1. Len(SubSeq(s, a, b)) = b - a + 1
    BY <1>1, <1>5
  <2> QED BY <1>5, <2>1
<1> QED BY <1>6, <1>9, <1>11, <1>17, <1>18, <1>19

-----------------------------------------------------------------------------
(* The statements of a file *)

\* Whether the text of a piece can be read: its literals are, and its body, if it has one,
\* is a batch's or in dollar quotes.
Sound(e, s) ==
    /\ e \in Engine /\ s \in Exportable /\ ~s.hash
    /\ \A i \in DOMAIN s.rows : Writable(e, s.data, s.rows[i])
    /\ s.quoted => ~s.data /\ e = "postgres" /\ \A j \in DOMAIN s.body : \A k \in DOMAIN s.body[j] :
                                   "$" \notin ToSet(s.body[j][k])
    /\ ~s.quoted => s.body = <<>> \/ e = "sqlserver"

\* What is between a statement and the terminator.
Gap(e, s) == IF e = "sqlserver" \/ (e = "clickhouse" /\ s.data) THEN <<"nl">> ELSE <<>>

\* What a statement ends with.
Ending(e) == IF e = "sqlserver" THEN <<";">> ELSE <<>>

\* A statement of a body.
Inner(e, s, t) == <<";", "nl", "x">> \o Values(e, [s EXCEPT !.rows = t])

\* In a batch of SQL Server a semicolon is read like any other token.
LEMMA ReadsBatch ==
  ASSUME NEW s, Sound("sqlserver", s), NEW t \in Texts
  PROVE  /\ Inner("sqlserver", s, t) \in Seq(Tokens)
         /\ Reads("sqlserver", Outside, Inner("sqlserver", s, t), Outside)
<1>1. PICK e : e = "sqlserver"
  OBVIOUS
<1>2. e \in Engine /\ s \in Exportable
  BY <1>1 DEF Sound
<1>3. PICK z : z = [s EXCEPT !.rows = t]
  OBVIOUS
<1>4. z.rows = t /\ z.data \in BOOLEAN
  BY <1>2, <1>3 DEF Exportable
<1>5. \A i \in DOMAIN t : Writable(e, z.data, t[i])
  BY <1>1 DEF Writable, Texts
<1>6. Values(e, z) \in Seq(Tokens) /\ Reads(e, Outside, Values(e, z), Outside)
  <2>1. z.rows \in Seq(Seq(Tokens)) /\ \A i \in DOMAIN z.rows : Writable(e, z.data, z.rows[i])
    BY <1>4, <1>5 DEF Texts
  <2> QED BY <1>2, <1>4, <2>1, ReadsValues
<1>7. \A c \in {";", "nl", "x"} :
         c \in Tokens /\ <<c>> \in Seq(Tokens) /\ Reads(e, Outside, <<c>>, Outside)
  <2>1. SUFFICES ASSUME NEW c \in {";", "nl", "x"}
                 PROVE  c \in Tokens /\ <<c>> \in Seq(Tokens) /\ Reads(e, Outside, <<c>>, Outside)
    OBVIOUS
  <2>2. c \in Tokens /\ c # Separator(e)
    BY <1>1 DEF Tokens, Separator
  <2> QED BY <1>2, <2>2, OneToken, ReadsOut
<1>8. PICK a, b, c : a = <<";">> /\ b = <<"nl">> /\ c = <<"x">>
  OBVIOUS
<1>9. /\ a \in Seq(Tokens) /\ Reads(e, Outside, a, Outside)
      /\ b \in Seq(Tokens) /\ Reads(e, Outside, b, Outside)
      /\ c \in Seq(Tokens) /\ Reads(e, Outside, c, Outside)
  BY <1>7, <1>8
<1>10. a \o b \in Seq(Tokens) /\ Reads(e, Outside, a \o b, Outside)
  BY <1>9, Concatenated, PathThen DEF Reads
<1>11. (a \o b) \o c \in Seq(Tokens) /\ Reads(e, Outside, (a \o b) \o c, Outside)
  BY <1>9, <1>10, Concatenated, PathThen DEF Reads
<1>12. PICK x, v : x = (a \o b) \o c /\ v = Values(e, z)
  OBVIOUS
<1>13. x \o v \in Seq(Tokens) /\ Reads(e, Outside, x \o v, Outside)
  BY <1>6, <1>11, <1>12, Concatenated, PathThen DEF Reads
<1>14. x = <<";", "nl", "x">>
  BY <1>7, <1>8, <1>12, ThreeTokens
<1> QED BY <1>1, <1>3, <1>12, <1>13, <1>14 DEF Inner

\* The tokens that do not end a dollar quote.
Quotable == Tokens \ {"$"}
InDollars == <<"dollar", FALSE>>

\* Whatever stands in dollar quotes is read to their end.
LEMMA ReadsDollars ==
  ASSUME NEW e \in Engine, e # "sqlserver", NEW w \in Seq(Quotable)
  PROVE  /\ <<"$">> \o w \o <<"$">> \in Seq(Tokens)
         /\ Reads(e, Outside, <<"$">> \o w \o <<"$">>, Outside)
<1>1. /\ Outside \in Status /\ Outside[1] = "out" /\ Outside[2] = FALSE
      /\ InDollars \in Status /\ InDollars[1] = "dollar" /\ InDollars[2] = FALSE /\ InDollars # Outside
  BY DEF Outside, InDollars, Status, Insides
<1>2. "$" \in Tokens /\ "$" # Separator(e)
  BY DEF Tokens, Separator
<1>3. Entered(e, "$") = "dollar" /\ Left("dollar", "$") = "out"
  BY DEF Entered, QuotesOf, Opens, Left
<1>4. \A m \in {"out", "dollar"}, c \in Tokens : StartsEscape(e, m, c) = FALSE
  BY DEF StartsEscape
<1>5. After(e, "out", FALSE, "$") = InDollars /\ After(e, "dollar", FALSE, "$") = Outside
  BY <1>2, <1>3, <1>4 DEF After, InDollars, Outside
<1>6. PICK d : d = <<"$">>
  OBVIOUS
<1>7. /\ d \in Seq(Tokens) /\ Reads(e, Outside, d, InDollars) /\ Reads(e, InDollars, d, Outside)
  BY <1>1, <1>2, <1>5, <1>6, OneToken, ReadsToken
<1>8. w \in Seq(Tokens) /\ \A i \in DOMAIN w : w[i] \in Tokens /\ w[i] # "$"
  BY DEF Quotable
<1>9. Reads(e, InDollars, w, InDollars)
  <2>1. PICK q : q = [i \in DOMAIN w |-> <<w[i]>>]
    OBVIOUS
  <2>2. PICK n \in Nat : n = Len(w)
    OBVIOUS
  <2>3. PICK h : h = [i \in 0 .. n |-> InDollars]
    OBVIOUS
  <2>4. PICK f : f = Moves(e)
    OBVIOUS
  <2>5. \A i \in 1 .. n : <<h[i - 1], w[i]>> \in DOMAIN f /\ h[i] = f[<<h[i - 1], w[i]>>]
    <3>1. SUFFICES ASSUME NEW i \in 1 .. n
                   PROVE  <<h[i - 1], w[i]>> \in DOMAIN f /\ h[i] = f[<<h[i - 1], w[i]>>]
      OBVIOUS
    <3>2. PICK c \in Tokens : c = w[i] /\ c # "$"
      BY <1>8, <2>2
    <3>3. h[i - 1] = InDollars /\ h[i] = InDollars
      BY <2>3
    <3>4. After(e, "dollar", FALSE, c) = InDollars
      <4>1. Left("dollar", c) = "dollar"
        BY <3>2 DEF Left
      <4> QED BY <1>4, <4>1 DEF After, InDollars
    <3>5. <<InDollars, c>> \in DOMAIN Moves(e) /\ Moves(e)[<<InDollars, c>>] = InDollars
      BY <1>1, <3>4, MovesTo
    <3> QED BY <2>4, <3>2, <3>3, <3>5
  <2>6. h \in [0 .. n -> Status] /\ h[0] = InDollars /\ h[n] = InDollars
    BY <1>1, <2>3
  <2>7. Path(Status, f, InDollars, w, InDollars)
    BY <2>2, <2>5, <2>6 DEF Path
  <2> QED BY <2>4, <2>7 DEF Reads
<1>10. d \o w \in Seq(Tokens) /\ Reads(e, Outside, d \o w, InDollars)
  BY <1>7, <1>8, <1>9, Concatenated, PathThen DEF Reads
<1>11. (d \o w) \o d \in Seq(Tokens) /\ Reads(e, Outside, (d \o w) \o d, Outside)
  BY <1>7, <1>10, Concatenated, PathThen DEF Reads
<1> QED BY <1>6, <1>11

\* What the literals add to their contents, and what statements add to those.
Marks == {"quote", "backslash", "x"}
Signs == Marks \cup {"(", ")", ";", "nl"}

\* A literal consists of its content and these.
LEMMA LiteralIn ==
  ASSUME NEW S, Marks \subseteq S, NEW w \in Seq(S), NEW e, NEW data
  PROVE  Literal(e, data, w) \in Seq(S)
<1>1. "quote" \in S /\ "backslash" \in S /\ "x" \in S
  BY DEF Marks
<1>2. ASSUME NEW q, q \in Seq(Seq(S)) PROVE Quoted(FlattenSeq(q)) \in Seq(S)
  <2>1. PICK f \in Seq(S) : f = FlattenSeq(q)
    BY <1>2, FlattenIs
  <2>2. PICK d : d = <<"quote">>
    OBVIOUS
  <2>3. d \in Seq(S)
    BY <1>1, <2>2, OneToken
  <2>4. (d \o f) \o d \in Seq(S)
    BY <2>3, Concatenated
  <2> QED BY <2>1, <2>2, <2>4 DEF Quoted
<1>3. ASSUME NEW D PROVE [i \in DOMAIN w |-> Doubled(D, w[i])] \in Seq(Seq(S))
  <2>1. \A i \in DOMAIN w : Doubled(D, w[i]) \in Seq(S)
    <3>1. SUFFICES ASSUME NEW i \in DOMAIN w PROVE Doubled(D, w[i]) \in Seq(S)
      OBVIOUS
    <3>2. PICK c \in S : c = w[i]
      OBVIOUS
    <3>3. <<c>> \in Seq(S) /\ <<c, c>> \in Seq(S)
      BY OneToken, TwoTokens
    <3> QED BY <3>2, <3>3 DEF Doubled
  <2> QED BY <2>1
<1>4. [i \in DOMAIN w |-> Backslashed(w[i])] \in Seq(Seq(S))
  <2>1. \A i \in DOMAIN w : Backslashed(w[i]) \in Seq(S)
    <3>1. SUFFICES ASSUME NEW i \in DOMAIN w PROVE Backslashed(w[i]) \in Seq(S)
      OBVIOUS
    <3>2. PICK c \in S : c = w[i]
      OBVIOUS
    <3>3. <<c>> \in Seq(S) /\ <<"backslash", c>> \in Seq(S) /\ <<"backslash", "x">> \in Seq(S)
      BY <1>1, OneToken, TwoTokens
    <3> QED BY <3>2, <3>3 DEF Backslashed
  <2> QED BY <2>1
<1>5. MysqlLiteral(w) \in Seq(S)
  BY <1>2, <1>4, MysqlLiteralIs
<1>6. DoubledLiteral(w) \in Seq(S)
  BY <1>2, <1>3, DoubledLiteralIs
<1>7. PostgresLiteral(w) \in Seq(S)
  <2>1. PICK v \in Seq(S) : v = Quoted(FlattenSeq([i \in DOMAIN w |-> Doubled({"quote", "backslash"}, w[i])]))
    BY <1>2, <1>3
  <2>2. PICK x : x = <<"x">>
    OBVIOUS
  <2>3. x \o v \in Seq(S)
    BY <1>1, <2>2, OneToken, Concatenated
  <2> QED BY <2>1, <2>2, <2>3, PostgresLiteralIs
<1> QED BY <1>5, <1>6, <1>7 DEF Literal

\* So do the values of a statement.
LEMMA ValuesIn ==
  ASSUME NEW S, Signs \subseteq S, NEW s, s.rows \in Seq(Seq(S)), NEW e
  PROVE  Values(e, s) \in Seq(S)
<1>1. Marks \subseteq S /\ "(" \in S /\ ")" \in S
  BY DEF Signs
<1>2. PICK t \in Seq(Seq(S)) : t = s.rows
  OBVIOUS
<1>3. PICK q : q = [i \in DOMAIN t |-> <<"(">> \o Literal(e, s.data, t[i]) \o <<")">>]
  OBVIOUS
<1>4. \A i \in DOMAIN t : q[i] \in Seq(S)
  <2>1. SUFFICES ASSUME NEW i \in DOMAIN t PROVE q[i] \in Seq(S)
    OBVIOUS
  <2>2. PICK w \in Seq(S) : w = t[i]
    OBVIOUS
  <2>3. PICK a, v, b : a = <<"(">> /\ v = Literal(e, s.data, t[i]) /\ b = <<")">>
    OBVIOUS
  <2>4. a \in Seq(S) /\ b \in Seq(S)
    BY <1>1, <2>3, OneToken
  <2>4a. v \in Seq(S)
    BY <1>1, <2>2, <2>3, LiteralIn
  <2>5. (a \o v) \o b \in Seq(S)
    BY <2>4, <2>4a, Concatenated
  <2> QED BY <1>3, <2>3, <2>5
<1>5. q \in Seq(Seq(S))
  <2>1. PICK n \in Nat : DOMAIN t = 1 .. n
    OBVIOUS
  <2>2. q \in [1 .. n -> Seq(S)]
    BY <1>3, <1>4, <2>1
  <2> QED BY <2>2
<1>6. FlattenSeq(q) \in Seq(S)
  BY <1>5, FlattenIs
<1> QED BY <1>2, <1>3, <1>6 DEF Values

\* Short texts.
LEMMA ListsOf ==
  ASSUME NEW S, NEW a \in S, NEW b \in S, NEW c \in S
  PROVE  <<>> \in Seq(S) /\ <<a>> \in Seq(S) /\ <<a, b>> \in Seq(S) /\ <<a, b, c>> \in Seq(S)
OBVIOUS

\* And the statements of a body.
LEMMA InnerIn ==
  ASSUME NEW S, Signs \subseteq S, NEW e, NEW s, s \in Exportable, NEW t \in Seq(Seq(S))
  PROVE  Inner(e, s, t) \in Seq(S)
<1>1. PICK z : z = [s EXCEPT !.rows = t]
  OBVIOUS
<1>2. z.rows = t
  BY <1>1 DEF Exportable
<1>3. PICK f \in Seq(S) : f = Values(e, z)
  BY <1>2, ValuesIn
<1>4. PICK x : x = <<";", "nl", "x">>
  OBVIOUS
<1>5. x \in Seq(S)
  <2>1. ";" \in S /\ "nl" \in S /\ "x" \in S
    BY DEF Signs, Marks
  <2>2. PICK a, b, c : a = ";" /\ b = "nl" /\ c = "x"
    OBVIOUS
  <2>3. <<a, b, c>> \in Seq(S)
    BY <2>1, <2>2, ListsOf
  <2> QED BY <1>4, <2>2, <2>3
<1>6. x \o f \in Seq(S)
  BY <1>5, Concatenated
<1> QED BY <1>1, <1>3, <1>4, <1>6 DEF Inner

\* What is exported for a statement: itself, then what separates it from the next one.
Chunk(e, s) == Statement(e, s) \o Terminator(e, s)

\* Every exported statement is a text, whether it can be read or not.
LEMMA ChunkIn ==
  ASSUME NEW e, NEW s \in Exportable
  PROVE  Chunk(e, s) \in Seq(Tokens)
<1>1. Signs \subseteq Tokens
  BY DEF Signs, Marks, Tokens
<1>2. s.rows \in Texts /\ s.body \in Seq(Texts)
  BY DEF Exportable
<1>3. PICK v \in Seq(Tokens) : v = Values(e, s)
  BY <1>1, <1>2, ValuesIn DEF Texts
<1>4. PICK l \in Seq(Tokens) : l = Lead(s)
  <2>1. /\ "/*" \in Tokens /\ "quote" \in Tokens /\ "x" \in Tokens /\ ";" \in Tokens
        /\ "*/" \in Tokens /\ "nl" \in Tokens
    BY DEF Tokens
  <2>3. <<"/*", "quote", "x", ";", "*/", "nl">> \in Seq(Tokens)
    BY <2>1, SixTokens
  <2>4. <<>> \in Seq(Tokens)
    OBVIOUS
  <2> QED BY <2>3, <2>4 DEF Lead
<1>5. {"insert", "format", "nl", "x", "#", ";", "GO", "$"} \subseteq Tokens
  BY DEF Tokens
<1>5a. PICK T : T = Tokens
  OBVIOUS
<1>5b. /\ <<"insert", "format", "nl">> \in Seq(T) /\ <<"x", "#">> \in Seq(T) /\ <<"x">> \in Seq(T)
       /\ <<";">> \in Seq(T) /\ <<>> \in Seq(T) /\ <<"nl", "GO", "nl">> \in Seq(T)
       /\ <<"nl", ";", "nl">> \in Seq(T) /\ <<";", "nl">> \in Seq(T)
  <2>1. /\ "insert" \in T /\ "format" \in T /\ "nl" \in T /\ "x" \in T /\ "#" \in T
        /\ ";" \in T /\ "GO" \in T
    BY <1>5, <1>5a
  <2>2. PICK i, f, n, x, h, p, g : /\ i = "insert" /\ f = "format" /\ n = "nl" /\ x = "x" /\ h = "#"
                                   /\ p = ";" /\ g = "GO"
    OBVIOUS
  <2>3. i \in T /\ f \in T /\ n \in T /\ x \in T /\ h \in T /\ p \in T /\ g \in T
    BY <2>1, <2>2
  <2>4. <<i, f, n>> \in Seq(T) /\ <<x, h>> \in Seq(T) /\ <<x>> \in Seq(T)
    BY <2>3, ListsOf
  <2>5. <<p>> \in Seq(T) /\ <<>> \in Seq(T) /\ <<n, g, n>> \in Seq(T)
    BY <2>3, ListsOf
  <2>6. <<n, p, n>> \in Seq(T) /\ <<p, n>> \in Seq(T)
    BY <2>3, ListsOf
  <2> QED BY <2>2, <2>4, <2>5, <2>6
<1>6. PICK b \in Seq(Tokens) : b = Beginning(e, s)
  <2>1. Beginning(e, s) \in {<<"insert", "format", "nl">>, <<"x", "#">>, <<"x">>}
    BY DEF Beginning
  <2>2. Beginning(e, s) \in Seq(T)
    BY <1>5b, <2>1
  <2> QED BY <1>5a, <2>2
<1>7. PICK y \in Seq(Tokens) : y = Body(e, s)
  <2>1. PICK t \in Seq(Texts) : t = s.body
    BY <1>2
  <2>2. PICK q : q = [j \in DOMAIN t |-> Inner(e, s, t[j])]
    OBVIOUS
  <2>3. \A j \in DOMAIN t : Inner(e, s, t[j]) \in Seq(Tokens)
    <3>1. SUFFICES ASSUME NEW j \in DOMAIN t PROVE Inner(e, s, t[j]) \in Seq(Tokens)
      OBVIOUS
    <3>2. PICK u \in Seq(Seq(Tokens)) : u = t[j]
      BY DEF Texts
    <3>3. Inner(e, s, u) \in Seq(Tokens)
      BY <1>1, InnerIn
    <3> QED BY <3>2, <3>3
  <2>4. q \in Seq(Seq(Tokens))
    <3>1. PICK n \in Nat : DOMAIN t = 1 .. n
      BY <2>1
    <3>2. q \in [1 .. n -> Seq(Tokens)]
      BY <2>2, <2>3, <3>1
    <3> QED BY <3>2
  <2>5. PICK f \in Seq(Tokens) : f = FlattenSeq(q)
    BY <2>4, FlattenIs
  <2>6. PICK d : d = <<"$">>
    OBVIOUS
  <2>7. (d \o f) \o d \in Seq(Tokens)
    BY <1>5, <2>6, OneToken, Concatenated
  <2>8. Body(e, s) = IF s.quoted THEN (d \o f) \o d ELSE f
    BY <2>1, <2>2, <2>5, <2>6 DEF Body, Inner
  <2> QED BY <2>7, <2>8
<1>8. PICK x \in Seq(Tokens) : x = IF e = "sqlserver" THEN <<";">> ELSE <<>>
  BY <1>5a, <1>5b
<1>9. PICK z \in Seq(Tokens) : z = Terminator(e, s)
  <2>1. Terminator(e, s) \in {<<"nl", "GO", "nl">>, <<"nl", ";", "nl">>, <<";", "nl">>}
    BY DEF Terminator
  <2>2. Terminator(e, s) \in Seq(T)
    BY <1>5b, <2>1
  <2> QED BY <1>5a, <2>2
<1>10. (((l \o b) \o v) \o y) \o x \in Seq(Tokens)
  <2>1. PICK u \in Seq(Tokens) : u = l \o b
    BY Concatenated
  <2>2. PICK w \in Seq(Tokens) : w = u \o v
    BY Concatenated
  <2>3. PICK m \in Seq(Tokens) : m = w \o y
    BY Concatenated
  <2> QED BY <2>1, <2>2, <2>3, Concatenated
<1>11. PICK k \in Seq(Tokens) : k = Statement(e, s)
  BY <1>3, <1>4, <1>6, <1>7, <1>8, <1>10 DEF Statement
<1> QED BY <1>9, <1>11, Concatenated DEF Chunk

\* So a body is read from outside of quotes to outside of them.
LEMMA ReadsBody ==
  ASSUME NEW e, NEW s, Sound(e, s)
  PROVE  Body(e, s) \in Seq(Tokens) /\ Reads(e, Outside, Body(e, s), Outside)
<1>1. e \in Engine /\ s \in Exportable /\ Outside \in Status
  BY DEF Sound, Outside, Status, Insides
<1>2. PICK b : b = s.body
  OBVIOUS
<1>3. b \in Seq(Texts) /\ s.quoted \in BOOLEAN
  BY <1>1, <1>2 DEF Exportable
<1>4. PICK q : q = [j \in DOMAIN b |-> Inner(e, s, b[j])]
  OBVIOUS
<1>5. Body(e, s) = IF s.quoted THEN <<"$">> \o FlattenSeq(q) \o <<"$">> ELSE FlattenSeq(q)
  BY <1>2, <1>4 DEF Body, Inner
<1>6. PICK n \in Nat : DOMAIN b = 1 .. n /\ n = Len(b)
  BY <1>3
<1>7. CASE s.quoted
  <2>1. ~s.data /\ e = "postgres"
    BY <1>7 DEF Sound
  <2>2. ASSUME NEW j \in 1 .. n PROVE q[j] \in Seq(Quotable)
    <3>1. PICK t \in Texts : t = b[j]
      BY <1>3, <1>6
    <3>2. \A k \in DOMAIN t : "$" \notin ToSet(t[k])
      BY <1>2, <1>6, <1>7, <3>1 DEF Sound
    <3>3. ASSUME NEW k \in DOMAIN t PROVE t[k] \in Seq(Quotable)
      <4>1. PICK w \in Seq(Tokens) : w = t[k]
        BY <3>1 DEF Texts
      <4>2. \A i \in DOMAIN w : w[i] # "$"
        BY <3>2, <4>1 DEF ToSet
      <4>3. \A i \in DOMAIN w : w[i] \in Quotable
        BY <4>1, <4>2 DEF Quotable
      <4> QED BY <4>1, <4>3
    <3>4. t \in Seq(Seq(Quotable))
      <4>1. PICK m \in Nat : DOMAIN t = 1 .. m /\ t = [k \in 1 .. m |-> t[k]]
        BY <3>1 DEF Texts
      <4>2. t \in [1 .. m -> Seq(Quotable)]
        BY <3>3, <4>1
      <4> QED BY <4>2
    <3>4a. Signs \subseteq Quotable
      BY DEF Signs, Marks, Quotable, Tokens
    <3>5. Inner("postgres", s, t) \in Seq(Quotable)
      BY <1>1, <3>4, <3>4a, InnerIn
    <3> QED BY <1>4, <1>6, <2>1, <3>1, <3>5
  <2>3. q \in Seq(Seq(Quotable))
    <3>1. q \in [1 .. n -> Seq(Quotable)]
      BY <1>4, <1>6, <2>2
    <3> QED BY <3>1
  <2>4. PICK f \in Seq(Quotable) : f = FlattenSeq(q)
    BY <2>3, FlattenIs
  <2>5. <<"$">> \o f \o <<"$">> \in Seq(Tokens) /\ Reads(e, Outside, <<"$">> \o f \o <<"$">>, Outside)
    BY <1>1, <2>1, ReadsDollars
  <2> QED BY <1>5, <1>7, <2>4, <2>5
<1>8. CASE ~s.quoted
  <2>1. ASSUME NEW j \in 1 .. n PROVE q[j] \in Seq(Tokens) /\ Reads(e, Outside, q[j], Outside)
    <3>1. b # <<>>
      BY <1>6
    <3>2. e = "sqlserver"
      BY <1>2, <1>8, <3>1 DEF Sound
    <3>3. PICK t \in Texts : t = b[j]
      BY <1>3, <1>6
    <3>4. Sound("sqlserver", s)
      BY <3>2
    <3>5. Inner(e, s, t) \in Seq(Tokens) /\ Reads(e, Outside, Inner(e, s, t), Outside)
      BY <3>2, <3>4, ReadsBatch
    <3> QED BY <1>4, <1>6, <3>3, <3>5
  <2>2. q \in Seq(Seq(Tokens)) /\ DOMAIN q = 1 .. n
    <3>1. q \in [1 .. n -> Seq(Tokens)]
      BY <1>4, <1>6, <2>1
    <3> QED BY <3>1
  <2>3. FlattenSeq(q) \in Seq(Tokens)
    BY <2>2, FlattenIs
  <2>4. Reads(e, Outside, FlattenSeq(q), Outside)
    BY <1>1, <2>1, <2>2, ReadsAll
  <2> QED BY <1>5, <1>8, <2>3, <2>4
<1> QED BY <1>3, <1>7, <1>8

\* One sequence of tokens and another after it, kept closed so that regrouping is
\* an argument about an associative operation and not about sequences.
Glued(a, b) == a \o b

\* Two sequences of tokens one after the other are one.
LEMMA GluedIn ==
  ASSUME NEW S, NEW p \in Seq(S), NEW q \in Seq(S)
  PROVE  Glued(p, q) \in Seq(S)
BY DEF Glued

\* Of three sequences it does not matter which two are put together first.
LEMMA GluedBoth ==
  ASSUME NEW S, NEW p \in Seq(S), NEW q \in Seq(S), NEW r \in Seq(S)
  PROVE  Glued(Glued(p, q), r) = Glued(p, Glued(q, r))
BY ConcatAssociative DEF Glued

\* Five sequences, the parts of a statement, read from the left or from the right.
LEMMA Regrouped ==
  ASSUME NEW S, NEW a \in Seq(S), NEW b \in Seq(S), NEW c \in Seq(S),
         NEW d \in Seq(S), NEW g \in Seq(S)
  PROVE  Glued(Glued(Glued(Glued(a, b), c), d), g)
           = Glued(a, Glued(b, Glued(c, Glued(d, g))))
<1>1. PICK ab \in Seq(S), dg \in Seq(S) : ab = Glued(a, b) /\ dg = Glued(d, g)
  BY GluedIn
<1>2. PICK abc \in Seq(S), cdg \in Seq(S) : abc = Glued(ab, c) /\ cdg = Glued(c, dg)
  BY <1>1, GluedIn
<1>3. Glued(Glued(abc, d), g) = Glued(abc, dg)
  BY <1>1, GluedBoth
<1>4. Glued(Glued(ab, c), dg) = Glued(ab, cdg)
  BY <1>2, GluedBoth
<1>5. Glued(Glued(a, b), cdg) = Glued(a, Glued(b, cdg))
  BY GluedBoth
<1> QED BY <1>1, <1>2, <1>3, <1>4, <1>5

\* A statement is read from outside of quotes to outside of them without a cut, begins
\* as it should, and is more than line ends.
LEMMA ReadsStatement ==
  ASSUME NEW e, NEW s, Sound(e, s)
  PROVE  /\ Statement(e, s) \in Seq(Tokens) /\ Reads(e, Outside, Statement(e, s), Outside)
         /\ \E i \in 1 .. Len(Statement(e, s)) : Statement(e, s)[i] # "nl"
         /\ \E w \in Seq(Tokens) : Statement(e, s) = Lead(s) \o (Beginning(e, s) \o w)
<1>1. e \in Engine /\ Outside \in Status
  BY DEF Sound, Outside, Status, Insides
<1>2. PICK l, b, v, x : l = Lead(s) /\ b = Beginning(e, s) /\ v = Values(e, s) /\ x = Ending(e)
  OBVIOUS
<1>3. l \in Seq(Tokens) /\ Reads(e, Outside, l, Outside)
  <2>1. <<>> \in Seq(Tokens) /\ Reads(e, Outside, <<>>, Outside)
    BY <1>1, PathNone DEF Reads
  <2>2. Note \in Seq(Tokens) /\ Reads(e, Outside, Note, Outside)
    BY <1>1, ReadsNote
  <2> QED BY <1>2, <2>1, <2>2 DEF Lead, Note
<1>4. b \in Seq(Tokens) /\ Reads(e, Outside, b, Outside) /\ Len(b) >= 1 /\ b[1] # "nl"
  <2>1. {"insert", "format", "nl", "x"} \subseteq Tokens
    BY DEF Tokens
  <2>2. \A c \in {"insert", "format", "nl", "x"} :
           <<c>> \in Seq(Tokens) /\ Reads(e, Outside, <<c>>, Outside)
    <3>1. SUFFICES ASSUME NEW c \in {"insert", "format", "nl", "x"}
                   PROVE  <<c>> \in Seq(Tokens) /\ Reads(e, Outside, <<c>>, Outside)
      OBVIOUS
    <3>2. c \in Tokens /\ c # Separator(e)
      BY <2>1 DEF Separator
    <3> QED BY <1>1, <3>2, OneToken, ReadsOut
  <2>3. CASE b = <<"x">>
    <3>1. <<"x">> \in Seq(Tokens) /\ Reads(e, Outside, <<"x">>, Outside)
      BY <2>2
    <3>2. Len(<<"x">>) = 1 /\ <<"x">>[1] = "x"
      OBVIOUS
    <3> QED BY <2>3, <3>1, <3>2
  <2>4. CASE b = <<"insert", "format", "nl">>
    <3>1. PICK i, f, n : i = <<"insert">> /\ f = <<"format">> /\ n = <<"nl">>
      OBVIOUS
    <3>2. /\ i \in Seq(Tokens) /\ Reads(e, Outside, i, Outside)
          /\ f \in Seq(Tokens) /\ Reads(e, Outside, f, Outside)
          /\ n \in Seq(Tokens) /\ Reads(e, Outside, n, Outside)
      BY <2>2, <3>1
    <3>3. i \o f \in Seq(Tokens) /\ Reads(e, Outside, i \o f, Outside)
      BY <3>2, Concatenated, PathThen DEF Reads
    <3>4. (i \o f) \o n \in Seq(Tokens) /\ Reads(e, Outside, (i \o f) \o n, Outside)
      BY <3>2, <3>3, Concatenated, PathThen DEF Reads
    <3>5. (i \o f) \o n = b
      BY <2>1, <2>4, <3>1, ThreeTokens
    <3>6. Len(<<"insert", "format", "nl">>) = 3 /\ <<"insert", "format", "nl">>[1] = "insert"
      OBVIOUS
    <3> QED BY <2>4, <3>4, <3>5, <3>6
  <2>5. s.hash = FALSE
    BY DEF Sound, Exportable
  <2> QED BY <1>2, <2>3, <2>4, <2>5 DEF Beginning
<1>5. v \in Seq(Tokens) /\ Reads(e, Outside, v, Outside)
  <2>1. s.data \in BOOLEAN /\ s.rows \in Seq(Seq(Tokens))
    BY DEF Sound, Exportable, Texts
  <2> QED BY <1>1, <1>2, <2>1, ReadsValues DEF Sound
<1>5a. PICK y : y = Body(e, s)
  OBVIOUS
<1>5b. y \in Seq(Tokens) /\ Reads(e, Outside, y, Outside)
  BY <1>5a, ReadsBody
<1>6. x \in Seq(Tokens) /\ Reads(e, Outside, x, Outside)
  <2>1. <<>> \in Seq(Tokens) /\ Reads(e, Outside, <<>>, Outside)
    BY <1>1, PathNone DEF Reads
  <2>2. e = "sqlserver" => <<";">> \in Seq(Tokens) /\ Reads(e, Outside, <<";">>, Outside)
    <3>1. ";" \in Tokens
      BY DEF Tokens
    <3>2. e = "sqlserver" => ";" # Separator(e)
      BY DEF Separator
    <3> QED BY <1>1, <3>1, <3>2, OneToken, ReadsOut
  <2> QED BY <1>2, <2>1, <2>2 DEF Ending
<1>7a. PICK z : z = y \o x
  OBVIOUS
<1>7b. z \in Seq(Tokens) /\ Reads(e, Outside, z, Outside)
  BY <1>5b, <1>6, <1>7a, Concatenated, PathThen DEF Reads
<1>7. PICK w : w = v \o z
  OBVIOUS
<1>8. w \in Seq(Tokens) /\ Reads(e, Outside, w, Outside)
  BY <1>5, <1>7b, <1>7, Concatenated, PathThen DEF Reads
<1>9. b \o w \in Seq(Tokens) /\ Reads(e, Outside, b \o w, Outside)
  BY <1>4, <1>8, Concatenated, PathThen DEF Reads
<1>10. l \o (b \o w) \in Seq(Tokens) /\ Reads(e, Outside, l \o (b \o w), Outside)
  BY <1>3, <1>9, Concatenated, PathThen DEF Reads
<1>11. Statement(e, s) = l \o (b \o w)
  <2>1. Statement(e, s) = (((l \o b) \o v) \o y) \o x
    BY <1>2, <1>5a DEF Statement, Ending
  <2>2. /\ l \in Seq(Tokens) /\ b \in Seq(Tokens) /\ v \in Seq(Tokens)
        /\ y \in Seq(Tokens) /\ x \in Seq(Tokens)
    BY <1>3, <1>4, <1>5, <1>5b, <1>6
  <2>3. Glued(Glued(Glued(Glued(l, b), v), y), x) = Glued(l, Glued(b, Glued(v, Glued(y, x))))
    BY <2>2, Regrouped
  <2>4. Glued(Glued(Glued(Glued(l, b), v), y), x) = (((l \o b) \o v) \o y) \o x
    BY DEF Glued
  <2>5. Glued(l, Glued(b, Glued(v, Glued(y, x)))) = l \o (b \o (v \o (y \o x)))
    BY DEF Glued
  <2> QED BY <1>7, <1>7a, <2>1, <2>3, <2>4, <2>5
<1>12. \E i \in 1 .. Len(l \o (b \o w)) : (l \o (b \o w))[i] # "nl"
  <2>1. (b \o w)[1] = b[1] /\ Len(b \o w) >= 1
    BY <1>4, <1>8
  <2>2. (l \o (b \o w))[Len(l) + 1] = (b \o w)[1] /\ Len(l) + 1 \in 1 .. Len(l \o (b \o w))
    BY <1>3, <1>9, <2>1
  <2> QED BY <1>4, <2>1, <2>2
<1> QED BY <1>2, <1>8, <1>10, <1>11, <1>12

\* A statement that begins with another word than INSERT has no payload, whatever its
\* comment and its literals contain.
LEMMA NoPayload ==
  ASSUME NEW s, NEW p \in Seq({"nl"}), NEW w \in Seq(Tokens), NEW t,
         t = p \o (Lead(s) \o (<<"x">> \o w))
  PROVE  ~Payload(t)
<1>1. PICK m \in Nat, n \in Nat : m = Len(p) /\ n = Len(w)
  OBVIOUS
<1>2. "nl" \in Tokens /\ "x" \in Tokens
  BY DEF Tokens
<1>3. PICK l : l = Lead(s)
  OBVIOUS
<1>3a. PICK k : k = Len(l)
  OBVIOUS
<1>3b. l = <<>> \/ l = Note
  BY <1>3 DEF Lead, Note
<1>4. l \in Seq(Tokens) /\ k \in Nat /\ (k = 0 \/ k = 6)
  <2>1. /\ "/*" \in Tokens /\ "quote" \in Tokens /\ "x" \in Tokens /\ ";" \in Tokens
        /\ "*/" \in Tokens /\ "nl" \in Tokens
    BY DEF Tokens
  <2>2. CASE l = <<>>
    <3>1. Len(<<>>) = 0 /\ <<>> \in Seq(Tokens)
      OBVIOUS
    <3> QED BY <1>3a, <2>2, <3>1
  <2>3. CASE l = Note
    <3>1. Note \in Seq(Tokens) /\ Len(Note) = 6
      BY <2>1, SixTokens DEF Note
    <3> QED BY <1>3a, <2>3, <3>1
  <2> QED BY <1>3b, <2>2, <2>3
<1>4a. k = 6 => l = Note
  <2>1. l = <<>> => Len(l) = 0
    OBVIOUS
  <2> QED BY <1>3a, <1>3b, <2>1
<1>4b. /\ Note[1] = "/*" /\ Note[2] = "quote" /\ Note[3] = "x" /\ Note[4] = ";"
       /\ Note[5] = "*/" /\ Note[6] = "nl"
  BY DEF Note
<1>5. PICK v : v = <<"x">> \o w
  OBVIOUS
<1>5a. PICK n1 \in Nat, n2 \in Nat : n1 = n + 1 /\ n2 = k + n1
  BY <1>1, <1>4
<1>6. v \in Seq(Tokens) /\ Len(v) = n1 /\ v[1] = "x"
  <2>1. PICK x : x = <<"x">>
    OBVIOUS
  <2>2. x \in Seq(Tokens) /\ Len(x) = 1 /\ x[1] = "x"
    BY <1>2, <2>1
  <2> QED BY <1>1, <1>5, <1>5a, <2>1, <2>2, ConcatProperties
<1>7. PICK u : u = l \o v
  OBVIOUS
<1>8. /\ u \in Seq(Tokens) /\ Len(u) = n2
      /\ (\A i \in 1 .. k : u[i] = l[i]) /\ u[k + 1] = "x"
  <2>1. 1 \in 1 .. n1
    BY <1>5a
  <2>2. /\ u \in Seq(Tokens) /\ Len(u) = k + n1
        /\ (\A i \in 1 .. k : u[i] = l[i]) /\ \A i \in 1 .. n1 : u[k + i] = v[i]
    <3>1. /\ l \o v \in Seq(Tokens) /\ Len(l \o v) = Len(l) + Len(v)
          /\ (\A i \in 1 .. Len(l) : (l \o v)[i] = l[i])
          /\ \A i \in 1 .. Len(v) : (l \o v)[Len(l) + i] = v[i]
      <4>1. l \in Seq(Tokens) /\ v \in Seq(Tokens)
        BY <1>4, <1>6
      <4> QED BY <4>1, Joined
    <3> QED BY <1>3a, <1>6, <1>7, <3>1
  <2> QED BY <1>5a, <1>6, <2>1, <2>2
<1>9. t = p \o u /\ p \in Seq(Tokens)
  BY <1>2, <1>3, <1>5, <1>7
<1>10. /\ t \in Seq(Tokens) /\ Len(t) = m + n2
       /\ (\A i \in 1 .. m : t[i] = "nl") /\ \A i \in 1 .. n2 : t[m + i] = u[i]
  <2>2. /\ t \in Seq(Tokens) /\ Len(t) = m + n2
        /\ (\A i \in 1 .. m : t[i] = p[i]) /\ \A i \in 1 .. n2 : t[m + i] = u[i]
    <3>1. /\ p \o u \in Seq(Tokens) /\ Len(p \o u) = Len(p) + Len(u)
          /\ (\A i \in 1 .. Len(p) : (p \o u)[i] = p[i])
          /\ \A i \in 1 .. Len(u) : (p \o u)[Len(p) + i] = u[i]
      <4>1. p \in Seq(Tokens) /\ u \in Seq(Tokens)
        BY <1>8, <1>9
      <4> QED BY <4>1, Joined
    <3> QED BY <1>1, <1>8, <1>9, <3>1
  <2>3. \A i \in 1 .. m : p[i] = "nl"
    BY <1>1
  <2> QED BY <2>2, <2>3
<1>11. PICK x \in Nat : x = m + k + 1
  BY <1>1, <1>4
<1>12. x \in 1 .. Len(t) /\ t[x] = "x"
  <2>1. k + 1 \in 1 .. n2 /\ x = m + (k + 1) /\ x \in 1 .. (m + n2)
    BY <1>1, <1>4, <1>5a, <1>11
  <2> QED BY <1>1, <1>8, <1>10, <1>11, <2>1
<1>13. \A i \in 1 .. (x - 1) : i <= m \/ \E j \in 1 .. k : i = m + j
  <2>1. SUFFICES ASSUME NEW i \in 1 .. (x - 1), ~(i <= m) PROVE \E j \in 1 .. k : i = m + j
    OBVIOUS
  <2>2. i - m \in 1 .. k /\ i = m + (i - m)
    BY <1>1, <1>4, <1>11, <2>1
  <2> QED BY <2>2
<1>14. \A j \in 1 .. k : t[m + j] = l[j]
  <2>1. \A j \in 1 .. k : j \in 1 .. n2
    BY <1>4, <1>5a
  <2> QED BY <1>8, <1>10, <2>1
<1>15. \A j \in 1 .. k : l[j] \in {"nl", "/*", "quote", "x", ";", "*/"} /\ (l[j] = "/*" => j = 1)
  <2>1. SUFFICES ASSUME NEW j \in 1 .. k
                 PROVE  l[j] \in {"nl", "/*", "quote", "x", ";", "*/"} /\ (l[j] = "/*" => j = 1)
    OBVIOUS
  <2>2. k = 6
    BY <1>4, <2>1
  <2>3. /\ l[1] = "/*" /\ l[2] = "quote" /\ l[3] = "x" /\ l[4] = ";" /\ l[5] = "*/"
        /\ l[6] = "nl"
    BY <1>4a, <1>4b, <2>2
  <2>4. j = 1 \/ j = 2 \/ j = 3 \/ j = 4 \/ j = 5 \/ j = 6
    BY <2>1, <2>2
  <2> QED BY <2>3, <2>4
<1>15a. PICK W : W = {"nl", "/*", "quote", "x", ";", "*/"}
  OBVIOUS
<1>15b. \A j \in 1 .. k : l[j] \in W
  BY <1>15, <1>15a
<1>16. \A i \in 1 .. (x - 1) : t[i] \in W
  <2>1. SUFFICES ASSUME NEW i \in 1 .. (x - 1) PROVE t[i] \in W
    OBVIOUS
  <2>2. CASE i <= m
    <3>1. i \in 1 .. m
      BY <1>1, <2>2
    <3> QED BY <1>10, <1>15a, <3>1
  <2>3. CASE \E j \in 1 .. k : i = m + j
    BY <1>14, <1>15b, <2>3
  <2> QED BY <1>13, <2>2, <2>3
<1>17. \A i \in 1 .. (x - 1) : t[i] = "/*" => k = 6 /\ i = m + 1
  <2>1. SUFFICES ASSUME NEW i \in 1 .. (x - 1), t[i] = "/*" PROVE k = 6 /\ i = m + 1
    OBVIOUS
  <2>2. CASE i <= m
    BY <1>10, <2>1, <2>2
  <2>3. CASE \E j \in 1 .. k : i = m + j
    <3>1. PICK j \in 1 .. k : i = m + j
      BY <2>3
    <3>2. l[j] = "/*"
      BY <1>14, <2>1, <3>1
    <3>3. j = 1
      BY <1>15, <3>2
    <3> QED BY <1>4, <3>1, <3>3
  <2> QED BY <1>13, <2>2, <2>3
<1>18. ~Commented(t, x)
  <2>1. SUFFICES ASSUME Commented(t, x) PROVE FALSE
    OBVIOUS
  <2>2. PICK a \in 1 .. x, b \in x .. Len(t) :
          /\ <<t[a], t[b]>> \in {<<"/*", "*/">>, <<"--", "nl">>, <<"#", "nl">>}
          /\ \A i \in a .. (b - 1) : t[i] # t[b]
    BY <2>1 DEF Commented
  <2>3. \/ t[a] = "/*" /\ t[b] = "*/"
        \/ t[a] \in {"--", "#"}
    BY <2>2
  <2>4. t[a] \in {"nl", "/*", "quote", "x", ";", "*/"}
    <3>1. a = x \/ a \in 1 .. (x - 1)
      BY <1>12
    <3> QED BY <1>12, <1>15a, <1>16, <3>1
  <2>5. t[a] = "/*" /\ t[b] = "*/" /\ a \in 1 .. (x - 1)
    <3>1. t[a] = "/*" /\ t[b] = "*/"
      BY <2>3, <2>4
    <3>2. a # x
      BY <1>12, <3>1
    <3> QED BY <1>11, <3>1, <3>2
  <2>6. k = 6 /\ a = m + 1
    BY <1>17, <2>5
  <2>7. t[m + 5] = "*/"
    <3>1. l[5] = "*/"
      BY <1>4a, <1>4b, <2>6
    <3>2. 5 \in 1 .. k
      BY <2>6
    <3> QED BY <1>14, <3>1, <3>2
  <2>8. m + 5 \in a .. (b - 1)
    <3>1. b >= x /\ b \in Nat
      BY <1>10, <1>11
    <3>2. x = m + 7
      BY <1>11, <2>6
    <3> QED BY <1>1, <2>6, <3>1, <3>2
  <2> QED BY <2>2, <2>5, <2>7, <2>8
<1>19. SUFFICES ASSUME Payload(t) PROVE FALSE
  OBVIOUS
<1>20. PICK i \in 1 .. Len(t) :
         t[i] = "insert" /\ \A j \in 1 .. (i - 1) : t[j] = "nl" \/ Commented(t, j)
  <2>1. DOMAIN t = 1 .. Len(t)
    BY <1>10
  <2> QED BY <1>19, <2>1 DEF Payload
<1>21. ~(i < x)
  <2>1. i < x => i \in 1 .. (x - 1)
    BY <1>11
  <2> QED BY <1>15a, <1>16, <1>20, <2>1
<1>22. i # x
  BY <1>12, <1>20
<1>23. x \in 1 .. (i - 1)
  BY <1>11, <1>12, <1>21, <1>22
<1> QED BY <1>12, <1>18, <1>20, <1>23

\* What is exported up to the separator.
Entire(e, s) == Statement(e, s) \o Gap(e, s)
\* The readings of a text from outside to outside.
Readings(e, w) ==
    {h \in [0 .. Len(w) -> Status] :
        /\ h[0] = Outside /\ h[Len(w)] = Outside
        /\ \A i \in 1 .. Len(w) :
             <<h[i - 1], w[i]>> \in DOMAIN Moves(e) /\ h[i] = Moves(e)[<<h[i - 1], w[i]>>]}
\* What is collected before a statement.
LineBefore(k) == IF k = 0 THEN <<>> ELSE <<"nl">>

\* So is its body, and a chunk is the body, what separates statements and a line end.
LEMMA ChunkIs ==
  ASSUME NEW e, NEW s, Sound(e, s)
  PROVE  /\ Entire(e, s) \in Seq(Tokens) /\ Chunk(e, s) \in Seq(Tokens)
         /\ Readings(e, Entire(e, s)) # {}
         /\ Chunk(e, s) = Entire(e, s) \o <<Separator(e), "nl">>
<1>1. PICK a, g : a = Statement(e, s) /\ g = Gap(e, s)
  OBVIOUS
<1>2. a \in Seq(Tokens) /\ Reads(e, Outside, a, Outside) /\ e \in Engine
  BY <1>1, ReadsStatement DEF Sound
<1>3. "nl" \in Tokens /\ Separator(e) \in Tokens /\ Separator(e) # "nl"
  BY DEF Tokens, Separator
<1>4. g \in Seq(Tokens) /\ Reads(e, Outside, g, Outside)
  <2>1. <<>> \in Seq(Tokens) /\ Reads(e, Outside, <<>>, Outside)
    <3>1. Outside \in Status
      BY DEF Outside, Status, Insides
    <3> QED BY <3>1, PathNone DEF Reads
  <2>2. <<"nl">> \in Seq(Tokens) /\ Reads(e, Outside, <<"nl">>, Outside)
    BY <1>2, <1>3, OneToken, ReadsOut
  <2> QED BY <1>1, <2>1, <2>2 DEF Gap
<1>5. PICK b : b = a \o g
  OBVIOUS
<1>6. b \in Seq(Tokens) /\ Reads(e, Outside, b, Outside)
  BY <1>2, <1>4, <1>5, Concatenated, PathThen DEF Reads
<1>7. b = Entire(e, s)
  BY <1>1, <1>5 DEF Entire
<1>8. Readings(e, b) # {}
  BY <1>6 DEF Reads, Path, Readings
<1>9. PICK c : c = <<Separator(e), "nl">>
  OBVIOUS
<1>10. c \in Seq(Tokens)
  BY <1>3, <1>9, TwoTokens
<1>11. Terminator(e, s) = g \o c
  <2>1. CASE g = <<>>
    <3>1. Terminator(e, s) = <<";", "nl">> /\ Separator(e) = ";"
      <4>1. <<"nl">> # <<>>
        OBVIOUS
      <4> QED BY <1>1, <2>1, <4>1 DEF Gap, Terminator, Separator
    <3>2. <<>> \o c = c
      BY <1>10, ConcatEmptySeq
    <3> QED BY <1>9, <2>1, <3>1, <3>2
  <2>2. CASE g = <<"nl">>
    <3>1. Terminator(e, s) = <<"nl", Separator(e), "nl">>
      <4>1. <<"nl">> # <<>>
        OBVIOUS
      <4> QED BY <1>1, <2>2, <4>1 DEF Gap, Terminator, Separator
    <3>2. <<"nl">> \o c = <<"nl", Separator(e), "nl">>
      <4>1. PICK u, v, w : u = <<"nl">> /\ v = <<Separator(e)>> /\ w = <<"nl">>
        OBVIOUS
      <4>2. u \in Seq(Tokens) /\ v \in Seq(Tokens) /\ w \in Seq(Tokens)
        BY <1>3, <4>1, OneToken
      <4>3. (u \o v) \o w = u \o (v \o w)
        BY <4>2, ConcatAssociative
      <4>4. v \o w = c
        BY <1>3, <1>9, <4>1, TwoTokens
      <4>5. (u \o v) \o w = <<"nl", Separator(e), "nl">>
        BY <1>3, <4>1, ThreeTokens
      <4> QED BY <4>1, <4>3, <4>4, <4>5
    <3> QED BY <2>2, <3>1, <3>2
  <2> QED BY <1>1, <2>1, <2>2 DEF Gap
<1>12. Chunk(e, s) = b \o c
  <2>1. Chunk(e, s) = a \o (g \o c)
    BY <1>1, <1>11 DEF Chunk
  <2>2. (a \o g) \o c = a \o (g \o c)
    BY <1>2, <1>4, <1>10, ConcatAssociative
  <2> QED BY <1>5, <2>1, <2>2
<1>13. b \o c \in Seq(Tokens)
  BY <1>6, <1>10, Concatenated
<1> QED BY <1>6, <1>7, <1>8, <1>9, <1>12, <1>13

\* Where the tokens of a chunk are.
LEMMA ChunkTokens ==
  ASSUME NEW e, NEW s, Sound(e, s), NEW n, n = Len(Entire(e, s)), NEW b, b = Chunk(e, s)
  PROVE  /\ n \in Nat /\ Len(b) = n + 2 /\ b[n + 1] = Separator(e) /\ b[n + 2] = "nl"
         /\ \A i \in 1 .. n : b[i] = Entire(e, s)[i]
<1>1. PICK v, w : v = Entire(e, s) /\ w = <<Separator(e), "nl">>
  OBVIOUS
<1>2. "nl" \in Tokens /\ Separator(e) \in Tokens
  BY DEF Tokens, Separator
<1>3. v \in Seq(Tokens) /\ b = v \o w
  BY <1>1, ChunkIs
<1>4. w \in Seq(Tokens) /\ Len(w) = 2 /\ w[1] = Separator(e) /\ w[2] = "nl"
  <2>1. w \in Seq(Tokens)
    BY <1>1, <1>2, TwoTokens
  <2> QED BY <1>1, <2>1
<1>5. /\ Len(v \o w) = Len(v) + Len(w)
      /\ (\A i \in 1 .. Len(v) : (v \o w)[i] = v[i])
      /\ \A i \in 1 .. Len(w) : (v \o w)[Len(v) + i] = w[i]
  <2>1. v \in Seq(Tokens) /\ w \in Seq(Tokens)
    BY <1>3, <1>4
  <2> QED BY <2>1, Joined
<1>6. n = Len(v) /\ n \in Nat
  BY <1>1, <1>3
<1>7. 1 \in 1 .. Len(w) /\ 2 \in 1 .. Len(w)
  BY <1>4
<1>8. (v \o w)[n + 1] = Separator(e) /\ (v \o w)[n + 2] = "nl"
  BY <1>4, <1>5, <1>6, <1>7
<1> QED BY <1>1, <1>3, <1>4, <1>5, <1>6, <1>8

\* What is collected of a chunk is its statement.
LEMMA ChunkCollected ==
  ASSUME NEW e, NEW s, Sound(e, s), NEW k
  PROVE  /\ Trimmed(LineBefore(k) \o Entire(e, s)) = Trimmed(Statement(e, s))
         /\ Trimmed(Statement(e, s)) # <<>>
<1>1. PICK a, g, p : a = Statement(e, s) /\ g = Gap(e, s) /\ p = LineBefore(k)
  OBVIOUS
<1>2. a \in Seq(Tokens) /\ \E i \in 1 .. Len(a) : a[i] # "nl"
  BY <1>1, ReadsStatement
<1>3. g \in Seq({"nl"}) /\ p \in Seq({"nl"})
  <2>1. <<>> \in Seq({"nl"}) /\ <<"nl">> \in Seq({"nl"})
    OBVIOUS
  <2> QED BY <1>1, <2>1 DEF Gap, LineBefore
<1>4. Trimmed(p \o (a \o g)) = Trimmed(a) /\ Trimmed(a) # <<>>
  BY <1>2, <1>3, TrimmedAround
<1> QED BY <1>1, <1>4 DEF Entire

\* ClickHouse: the body of an INSERT ends with a line of its own; other statements have
\* no payload.
LEMMA ChunkCut ==
  ASSUME NEW s, Sound("clickhouse", s), NEW k
  PROVE  /\ s.data => LET b == Entire("clickhouse", s) IN Len(b) \in Nat \ {0} /\ b[Len(b)] = "nl"
         /\ ~s.data => ~Payload(LineBefore(k) \o Entire("clickhouse", s))
<1>1. PICK a, g, p, e : e = "clickhouse" /\ a = Statement(e, s) /\ g = Gap(e, s) /\ p = LineBefore(k)
  OBVIOUS
<1>2. a \in Seq(Tokens) /\ \E w \in Seq(Tokens) : a = Lead(s) \o (Beginning(e, s) \o w)
  BY <1>1, ReadsStatement
<1>3. s.data \in BOOLEAN /\ s.hash = FALSE
  BY DEF Sound, Exportable
<1>4. CASE s.data
  <2>1. g = <<"nl">>
    BY <1>1, <1>4 DEF Gap
  <2>2. "nl" \in Tokens
    BY DEF Tokens
  <2>3. g \in Seq(Tokens) /\ Len(g) = 1 /\ g[1] = "nl"
    BY <2>1, <2>2
  <2>4. Len(a) \in Nat /\ Len(a \o g) = Len(a) + 1 /\ (a \o g)[Len(a) + 1] = "nl"
    <3>1. a \in Seq(Tokens) /\ g \in Seq(Tokens)
      BY <1>2, <2>3
    <3>2. /\ Len(a \o g) = Len(a) + Len(g)
          /\ \A i \in 1 .. Len(g) : (a \o g)[Len(a) + i] = g[i]
      BY <3>1, Joined
    <3> QED BY <2>3, <3>1, <3>2
  <2>5. Entire(e, s) = a \o g
    BY <1>1 DEF Entire
  <2> QED BY <1>1, <1>4, <2>4, <2>5
<1>5. CASE ~s.data
  <2>1. g = <<>> /\ Beginning(e, s) = <<"x">>
    BY <1>1, <1>3, <1>5 DEF Gap, Beginning
  <2>2. Entire(e, s) = a
    <3>1. a \o <<>> = a
      BY <1>2, ConcatEmptySeq
    <3> QED BY <1>1, <2>1, <3>1 DEF Entire
  <2>3. PICK w \in Seq(Tokens) : a = Lead(s) \o (<<"x">> \o w)
    BY <1>2, <2>1
  <2>4. p \in Seq({"nl"})
    <3>1. <<>> \in Seq({"nl"}) /\ <<"nl">> \in Seq({"nl"})
      OBVIOUS
    <3> QED BY <1>1, <3>1 DEF LineBefore
  <2>5. ~Payload(p \o a)
    BY <2>3, <2>4, NoPayload
  <2> QED BY <1>1, <1>5, <2>2, <2>5
<1> QED BY <1>3, <1>4, <1>5

-----------------------------------------------------------------------------
(* The splitter *)

\* The chunks of a file, and how many there are.
Chunks(e, ss) == [i \in DOMAIN ss |-> Chunk(e, ss[i])]
Count == Len(Run)
\* The first n statements as the import should see them.
Expected(n) == [i \in 1 .. n |-> Trimmed(Statement(dialect, Run[i]))]

\* Of the statement k + 1 the first o tokens are collected, and read along h.
Collecting(ends, k, o, h) ==
    /\ k < Count /\ Sound(dialect, Run[k + 1]) /\ o \in 0 .. Len(Entire(dialect, Run[k + 1]))
    /\ h \in Readings(dialect, Entire(dialect, Run[k + 1]))
    /\ pos = ends[k] + o + 1 /\ <<inside, escaped>> = h[o]
    /\ cur = LineBefore(k) \o SubSeq(Entire(dialect, Run[k + 1]), 1, o)
\* The line end behind a separator is left.
Separated(ends, k) ==
    /\ k # 0 /\ Sound(dialect, Run[k]) /\ pos = ends[k] /\ cur = <<>> /\ <<inside, escaped>> = Outside
\* Everything is read, or the rest is dealt with, too.
Ended(k) ==
    /\ k = Count /\ pos = Len(text) + 1 /\ cur = LineBefore(k) /\ <<inside, escaped>> = Outside
Through(k) == k = Count /\ pos = Len(text) + 2
\* The statement k + 1 is misread: what was cut off before it stays.
Lost(k) ==
    /\ k < Count /\ Misread(dialect, Run[k + 1])
    /\ \E S : out \in Seq(S) /\ k <= Len(out) /\ \A i \in 1 .. k : out[i] = Expected(k)[i]

\* What was exported, and that each piece of it can be read or is misread.
Sounding(e) == {p \in Exportable : Sound(e, p) \/ Misread(e, p)}
Exported ==
    /\ dialect \in Engine /\ stmts \in Seq(Exportable) /\ Run \in Seq(Sounding(dialect))
    /\ text = Script(dialect, Run)

\* The statements cut off are those exported so far, and the splitter is where it should
\* be in the next one, or behind a statement that is misread.
OnTrack ==
    \E ends \in Places(Chunks(dialect, Run), Count, text), k \in 0 .. Count :
        /\ out = Expected(k)
        /\ \/ \E o, h : Collecting(ends, k, o, h)
           \/ Separated(ends, k) \/ Ended(k) \/ Through(k)
OffTrack == \E k \in 0 .. Count : Lost(k)
Splitting == OnTrack \/ OffTrack

\* The chunks are sequences of tokens, and their places in the file are known.
LEMMA ExportedIs ==
  ASSUME Exported
  PROVE  /\ Count \in Nat /\ DOMAIN Run = 1 .. Count
         /\ Chunks(dialect, Run) \in Seq(Seq(Tokens)) /\ Len(Chunks(dialect, Run)) = Count
         /\ text = FlattenSeq(Chunks(dialect, Run)) /\ text \in Seq(Tokens)
         /\ Places(Chunks(dialect, Run), Count, text) # {}
<1>1. Count \in Nat /\ DOMAIN Run = 1 .. Count
  BY DEF Exported, Count
<1>2a. PICK b : b = Chunks(dialect, Run)
  OBVIOUS
<1>2b. PICK N \in Nat : N = Count
  BY <1>1
<1>2. b = Chunks(dialect, Run) /\ N = Count
  BY <1>2a, <1>2b
<1>3. \A i \in 1 .. N : Chunk(dialect, Run[i]) \in Seq(Tokens)
  <2>1. ASSUME NEW i \in 1 .. N PROVE Chunk(dialect, Run[i]) \in Seq(Tokens)
    <3>1. PICK R, T : R = Run /\ T = Sounding(dialect)
      OBVIOUS
    <3>2. R[i] \in T
      BY <1>1, <1>2, <2>1, <3>1 DEF Exported
    <3>3. PICK s \in Exportable : s = Run[i]
      BY <3>1, <3>2 DEF Sounding
    <3>3a. PICK e : e = dialect
      OBVIOUS
    <3>4. Chunk(e, s) \in Seq(Tokens)
      BY ChunkIn
    <3> QED BY <3>3, <3>3a, <3>4
  <2> QED BY <2>1
<1>4. b = [i \in 1 .. N |-> Chunk(dialect, Run[i])]
  BY <1>1, <1>2 DEF Chunks
<1>5. b \in [1 .. N -> Seq(Tokens)]
  BY <1>3, <1>4
<1>6. b \in Seq(Seq(Tokens)) /\ Len(b) = N
  BY <1>5
<1>7. text = FlattenSeq(b)
  BY <1>1, <1>2, <1>4 DEF Exported, Script, Chunk
<1>8. PICK t : t = text
  OBVIOUS
<1>9. t \in Seq(Tokens) /\ Places(b, N, t) # {}
  BY <1>6, <1>7, <1>8, PlacesExist
<1> QED BY <1>1, <1>2, <1>6, <1>7, <1>8, <1>9

\* A step within a statement: the token is read as Moves says, and nothing is cut.
LEMMA StepMoves ==
  ASSUME NEW q \in Status, <<inside, escaped>> = q, NEW c, text[pos] = c,
         <<q, c>> \in DOMAIN Moves(dialect), Step
  PROVE  /\ <<inside, escaped>>' = Moves(dialect)[<<q, c>>]
         /\ cur' = Append(cur, c) /\ out' = out /\ pos' = pos + 1
<1>1. q[1] = inside /\ q[2] = escaped /\ escaped \in BOOLEAN
  BY DEF Status
<1>2. /\ ~(q = Outside /\ c = Separator(dialect))
      /\ Moves(dialect)[<<q, c>>] = After(dialect, q[1], q[2], c)
  <2>1. PICK p : p = <<q, c>>
    OBVIOUS
  <2>2. p \in DOMAIN Moves(dialect) /\ p[1] = q /\ p[2] = c
    BY <2>1
  <2>3. ~(p[1] = Outside /\ p[2] = Separator(dialect))
        /\ Moves(dialect)[p] = After(dialect, p[1][1], p[1][2], p[2])
    BY <2>2 DEF Moves
  <2> QED BY <2>1, <2>2, <2>3
<1>3. CASE escaped
  <2>1. cur' = Append(cur, c) /\ escaped' = FALSE /\ inside' = inside /\ out' = out /\ pos' = pos + 1
    BY <1>3 DEF Step
  <2>2. Moves(dialect)[<<q, c>>] = <<inside, FALSE>>
    BY <1>1, <1>2, <1>3 DEF After
  <2> QED BY <2>1, <2>2
<1>4. CASE ~escaped
  <2>1. ~Cuts(c)
    <3>1. q = <<inside, FALSE>>
      BY <1>1, <1>4
    <3> QED BY <1>2, <3>1 DEF Cuts, Outside
  <2>2. /\ cur' = Append(cur, c) /\ out' = out /\ pos' = pos + 1
        /\ escaped' = StartsEscape(dialect, inside, c)
        /\ inside' = IF inside = "out" THEN Entered(dialect, c) ELSE Left(inside, c)
    BY <1>4, <2>1 DEF Step
  <2>3. Moves(dialect)[<<q, c>>] =
          <<IF inside = "out" THEN Entered(dialect, c) ELSE Left(inside, c),
            StartsEscape(dialect, inside, c)>>
    BY <1>1, <1>2, <1>4 DEF After
  <2> QED BY <2>2, <2>3
<1> QED BY <1>1, <1>3, <1>4

\* The first o + 1 tokens of a text, behind another one.
LEMMA OneMore ==
  ASSUME NEW S, NEW v \in Seq(S), NEW w \in Seq(S), NEW o \in 0 .. Len(w), o # Len(w)
  PROVE  Append(v \o SubSeq(w, 1, o), w[o + 1]) = v \o SubSeq(w, 1, o + 1)
<1>1. PICK a, b : a = SubSeq(w, 1, o) /\ b = SubSeq(w, 1, o + 1)
  OBVIOUS
<1>2. /\ a \in Seq(S) /\ b \in Seq(S) /\ Len(a) = o /\ Len(b) = o + 1 /\ w[o + 1] \in S
      /\ (\A i \in 1 .. o : a[i] = w[i]) /\ \A i \in 1 .. o + 1 : b[i] = w[i]
  BY <1>1
<1>3. b = Append(a, w[o + 1])
  BY <1>2
<1>4. PICK c \in S : c = w[o + 1]
  BY <1>2
<1>5. Append(v \o a, c) = v \o Append(a, c)
  <2>1. PICK d : d = <<c>>
    OBVIOUS
  <2>2. d \in Seq(S)
    BY <2>1
  <2>3. v \o a \in Seq(S)
    BY <1>2
  <2>4. (v \o a) \o d = v \o (a \o d)
    <3>1. a \in Seq(S)
      BY <1>2
    <3> QED BY <2>2, <3>1, ConcatAssociative
  <2>5. Append(v \o a, c) = (v \o a) \o <<c>> /\ Append(a, c) = a \o <<c>>
    BY <1>2, <2>3, AppendIsConcat
  <2> QED BY <2>1, <2>4, <2>5
<1> QED BY <1>1, <1>3, <1>4, <1>5

\* The tokens of a chunk in the file.
LEMMA FileTokens ==
  ASSUME Exported, NEW ends \in Places(Chunks(dialect, Run), Count, text), NEW k \in 1 .. Count,
         Sound(dialect, Run[k]), NEW w, w = Entire(dialect, Run[k]), NEW n, n = Len(w)
  PROVE  /\ n \in Nat /\ w \in Seq(Tokens) /\ ends[k - 1] \in Nat /\ ends[k] = ends[k - 1] + n + 2
         /\ ends[k] <= Len(text)
         /\ text[ends[k - 1] + n + 1] = Separator(dialect) /\ text[ends[k]] = "nl"
         /\ \A i \in 1 .. n : text[ends[k - 1] + i] = w[i]
<1>0. PICK e : e = dialect
  OBVIOUS
<1>1. PICK s : s = Run[k]
  OBVIOUS
<1>2. Sound(e, s)
  BY <1>0, <1>1
<1>3. PICK b : b = Chunk(e, s)
  OBVIOUS
<1>4. w \in Seq(Tokens)
  <2>1. Entire(e, s) \in Seq(Tokens)
    BY <1>2, ChunkIs
  <2> QED BY <1>0, <1>1, <2>1
<1>5. /\ n \in Nat /\ Len(b) = n + 2 /\ b[n + 1] = Separator(e) /\ b[n + 2] = "nl"
      /\ \A i \in 1 .. n : b[i] = w[i]
  <2>1. w = Entire(e, s) /\ n = Len(Entire(e, s))
    BY <1>0, <1>1
  <2>1a. PICK m, c : m = Len(Entire(e, s)) /\ c = Chunk(e, s)
    OBVIOUS
  <2>1b. /\ m \in Nat /\ Len(c) = m + 2 /\ c[m + 1] = Separator(e) /\ c[m + 2] = "nl"
         /\ \A i \in 1 .. m : c[i] = Entire(e, s)[i]
    BY <1>2, <2>1a, ChunkTokens, SMTT(30)
  <2>2. /\ n \in Nat /\ Len(b) = n + 2 /\ b[n + 1] = Separator(e) /\ b[n + 2] = "nl"
        /\ \A i \in 1 .. n : b[i] = Entire(e, s)[i]
    BY <1>3, <2>1, <2>1a, <2>1b
  <2> QED BY <2>1, <2>2
<1>6. Chunks(dialect, Run)[k] = b
  BY <1>0, <1>1, <1>3, ExportedIs DEF Chunks
<1>7. /\ ends[k] = ends[k - 1] + Len(b) /\ ends[k] <= Len(text)
      /\ \A j \in 1 .. Len(b) : text[ends[k - 1] + j] = b[j]
  BY <1>6 DEF Places
<1>8. ends[k - 1] \in Nat
  <2>1. ends \in [0 .. Count -> Nat] /\ Count \in Nat
    BY ExportedIs DEF Places
  <2> QED BY <2>1
<1>9. ends[k] = ends[k - 1] + n + 2
  <2>1. ends[k] = ends[k - 1] + Len(b) /\ Len(b) = n + 2 /\ n \in Nat
    BY <1>5, <1>7
  <2>2. ends[k] = ends[k - 1] + (n + 2)
    BY <2>1
  <2> QED BY <1>8, <2>1, <2>2
<1>10. text[ends[k - 1] + n + 1] = Separator(e) /\ text[ends[k]] = "nl"
  <2>1. n + 1 \in 1 .. Len(b) /\ n + 2 \in 1 .. Len(b)
    BY <1>5
  <2>2. text[ends[k - 1] + (n + 1)] = b[n + 1] /\ text[ends[k - 1] + (n + 2)] = b[n + 2]
    BY <1>7, <2>1
  <2>3. ends[k - 1] + (n + 1) = ends[k - 1] + n + 1 /\ ends[k - 1] + (n + 2) = ends[k]
    BY <1>5, <1>8, <1>9
  <2> QED BY <1>5, <2>2, <2>3
<1>11. \A i \in 1 .. n : text[ends[k - 1] + i] = w[i]
  <2>1. \A i \in 1 .. n : i \in 1 .. Len(b)
    BY <1>5
  <2> QED BY <1>5, <1>7, <2>1
<1> QED BY <1>0, <1>4, <1>5, <1>7, <1>8, <1>9, <1>10, <1>11

\* The splitter in the middle of a statement: one token more is collected, or it is cut
\* off.
LEMMA CollectingSteps ==
  ASSUME Exported, NEW ends \in Places(Chunks(dialect, Run), Count, text), NEW k \in 0 .. Count,
         NEW o, NEW h, Collecting(ends, k, o, h), out = Expected(k), Step
  PROVE  \/ out' = out /\ Collecting(ends, k, o + 1, h)'
         \/ k + 1 \in 0 .. Count /\ out' = Expected(k + 1) /\ Separated(ends, k + 1)'
<1>1. Count \in Nat /\ k \in Nat /\ k < Count /\ k + 1 \in 1 .. Count /\ (k + 1) - 1 = k
  BY ExportedIs DEF Collecting
<1>2. PICK e, s, w, n : e = dialect /\ s = Run[k + 1] /\ w = Entire(dialect, Run[k + 1]) /\ n = Len(w)
  OBVIOUS
<1>3. /\ n \in Nat /\ w \in Seq(Tokens) /\ ends[k] \in Nat /\ ends[k + 1] = ends[k] + n + 2
      /\ ends[k + 1] <= Len(text)
      /\ text[ends[k] + n + 1] = Separator(e) /\ text[ends[k + 1]] = "nl"
      /\ \A i \in 1 .. n : text[ends[k] + i] = w[i]
  <2>1. w = Entire(dialect, Run[k + 1]) /\ n = Len(w) /\ k + 1 \in 1 .. Count /\ Sound(dialect, Run[k + 1])
    BY <1>1, <1>2 DEF Collecting
  <2>2. /\ n \in Nat /\ w \in Seq(Tokens) /\ ends[(k + 1) - 1] \in Nat
        /\ ends[k + 1] = ends[(k + 1) - 1] + n + 2 /\ ends[k + 1] <= Len(text)
        /\ text[ends[(k + 1) - 1] + n + 1] = Separator(dialect) /\ text[ends[k + 1]] = "nl"
        /\ \A i \in 1 .. n : text[ends[(k + 1) - 1] + i] = w[i]
    BY <2>1, FileTokens
  <2> QED BY <1>1, <1>2, <2>2
<1>4. /\ o \in 0 .. n /\ h \in Readings(e, w) /\ pos = ends[k] + o + 1 /\ <<inside, escaped>> = h[o]
      /\ cur = LineBefore(k) \o SubSeq(w, 1, o)
  BY <1>2 DEF Collecting
<1>5. /\ h \in [0 .. n -> Status] /\ h[0] = Outside /\ h[n] = Outside
      /\ \A i \in 1 .. n : <<h[i - 1], w[i]>> \in DOMAIN Moves(e) /\ h[i] = Moves(e)[<<h[i - 1], w[i]>>]
  BY <1>2, <1>4 DEF Readings
<1>6. UNCHANGED <<dialect, stmts, text>> /\ pos' = pos + 1
  BY DEF Step
<1>7. Sound(e, s)
  BY <1>1, <1>2 DEF Collecting
<1>8. LineBefore(k) \in Seq(Tokens) /\ LineBefore(k) \in Seq({"nl"})
  <2>1. "nl" \in Tokens
    BY DEF Tokens
  <2>2. <<>> \in Seq(Tokens) /\ <<"nl">> \in Seq(Tokens) /\ <<>> \in Seq({"nl"}) /\ <<"nl">> \in Seq({"nl"})
    BY <2>1
  <2> QED BY <2>2 DEF LineBefore
<1>9. CASE o # n
  <2>1. PICK c, q : c = w[o + 1] /\ q = h[o]
    OBVIOUS
  <2>2. o + 1 \in 1 .. n /\ (o + 1) - 1 = o /\ o + 1 \in 0 .. n
    BY <1>3, <1>4, <1>9
  <2>3. text[pos] = c
    <3>1. text[ends[k] + (o + 1)] = w[o + 1]
      BY <1>3, <2>2
    <3>2. pos = ends[k] + (o + 1)
      <4>1. o \in Nat /\ ends[k] \in Nat /\ pos = ends[k] + o + 1
        BY <1>3, <1>4
      <4> QED BY <4>1
    <3> QED BY <2>1, <3>1, <3>2
  <2>4. <<q, c>> \in DOMAIN Moves(e) /\ h[o + 1] = Moves(e)[<<q, c>>]
    BY <1>5, <2>1, <2>2
  <2>5. q \in Status /\ <<inside, escaped>> = q
    BY <1>4, <1>5, <2>1
  <2>6. /\ <<inside, escaped>>' = h[o + 1] /\ cur' = Append(cur, c) /\ out' = out
    <3>1. <<q, c>> \in DOMAIN Moves(dialect)
      BY <1>2, <2>4
    <3>2. q \in Status /\ <<inside, escaped>> = q
      BY <2>5
    <3>3. /\ <<inside, escaped>>' = Moves(dialect)[<<q, c>>]
          /\ cur' = Append(cur, c) /\ out' = out /\ pos' = pos + 1
      BY <2>3, <3>1, <3>2, StepMoves
    <3> QED BY <1>2, <2>4, <3>3
  <2>7. cur' = LineBefore(k) \o SubSeq(w, 1, o + 1)
    <3>1. w \in Seq(Tokens) /\ o \in 0 .. Len(w) /\ o # Len(w)
      BY <1>2, <1>3, <1>4, <1>9
    <3>2. Append(LineBefore(k) \o SubSeq(w, 1, o), w[o + 1]) = LineBefore(k) \o SubSeq(w, 1, o + 1)
      BY <1>8, <3>1, OneMore
    <3> QED BY <1>4, <2>1, <2>6, <3>2
  <2>8. pos' = ends[k] + (o + 1) + 1
    <3>1. o \in Nat /\ ends[k] \in Nat /\ pos = ends[k] + o + 1
      BY <1>3, <1>4
    <3> QED BY <1>6, <3>1
  <2>9. /\ Count' = Count /\ Entire(dialect, Run[k + 1])' = w /\ dialect' = e /\ Sound(dialect, Run[k + 1])'
    <3>1. Run' = Run
      BY <1>6 DEF Run
    <3> QED BY <1>2, <1>6, <1>7, <3>1 DEF Count
  <2>10. Collecting(ends, k, o + 1, h)'
    <3>1. k < Count' /\ o + 1 \in 0 .. Len(w)
      BY <1>1, <1>2, <2>2, <2>9
    <3> QED BY <1>4, <2>6, <2>7, <2>8, <2>9, <3>1 DEF Collecting
  <2> QED BY <2>6, <2>10
<1>10. CASE o = n
  <2>1. inside = "out" /\ escaped = FALSE
    <3>1. <<inside, escaped>> = Outside
      BY <1>4, <1>5, <1>10
    <3> QED BY <3>1 DEF Outside
  <2>2. cur = LineBefore(k) \o w
    <3>1. SubSeq(w, 1, n) = w
      BY <1>2, <1>3
    <3> QED BY <1>4, <1>10, <3>1
  <2>3. pos = ends[k] + n + 1 /\ text[pos] = Separator(e)
    BY <1>3, <1>4, <1>10
  <2>4. Cuts(text[pos])
    <3>1. SUFFICES ASSUME e = "clickhouse", Payload(cur) PROVE LineTerminator
      BY <1>2, <2>1, <2>3 DEF Cuts
    <3>2. Sound("clickhouse", s) /\ w = Entire("clickhouse", s) /\ s.data \in BOOLEAN
      BY <1>2, <1>7, <3>1 DEF Sound, Exportable
    <3>3. /\ s.data => n # 0 /\ w[n] = "nl"
          /\ ~s.data => ~Payload(LineBefore(k) \o w)
      BY <1>2, <3>2, ChunkCut
    <3>4. n # 0 /\ w[n] = "nl"
      BY <2>2, <3>1, <3>2, <3>3
    <3>5. text[pos - 1] = "nl"
      <4>1. n \in 1 .. n
        BY <1>3, <3>4
      <4>2. pos - 1 = ends[k] + n
        BY <1>3, <2>3
      <4> QED BY <1>3, <3>4, <4>1, <4>2
    <3>6. text[pos + 1] = "nl"
      <4>1. pos + 1 = ends[k + 1]
        BY <1>3, <2>3
      <4> QED BY <1>3, <4>1
    <3> QED BY <3>5, <3>6 DEF LineTerminator
  <2>5. cur' = <<>> /\ out' = Collected /\ inside' = inside /\ escaped' = escaped
    BY <2>1, <2>4 DEF Step
  <2>6. PICK x : x = Trimmed(Statement(e, s))
    OBVIOUS
  <2>7. Trimmed(cur) = x /\ x # <<>>
    <3>1. Trimmed(LineBefore(k) \o Entire(e, s)) = Trimmed(Statement(e, s)) /\ Trimmed(Statement(e, s)) # <<>>
      BY <1>7, ChunkCollected
    <3> QED BY <1>2, <2>2, <2>6, <3>1
  <2>8. out' = Append(Expected(k), x)
    BY <2>5, <2>7 DEF Collected
  <2>9. out' = Expected(k + 1)
    <3>1. PICK E : E = [i \in 1 .. k + 1 |-> Trimmed(Statement(e, Run[i]))]
      OBVIOUS
    <3>2. Expected(k + 1) = E /\ Expected(k) = [i \in 1 .. k |-> E[i]] /\ E[k + 1] = x
      <4>1. \A i \in 1 .. k : i \in 1 .. k + 1
        BY <1>1
      <4>2. k + 1 \in 1 .. k + 1
        BY <1>1
      <4> QED BY <1>2, <2>6, <3>1, <4>1, <4>2 DEF Expected
    <3>3. DOMAIN E = 1 .. k + 1 /\ E = [i \in 1 .. k + 1 |-> E[i]]
      BY <3>1
    <3>4. Append([i \in 1 .. k |-> E[i]], x) = E
      BY <1>1, <3>2, <3>3
    <3> QED BY <2>8, <3>2, <3>4
  <2>9a. Sound(dialect, Run[k + 1])'
    <3>1. Run' = Run
      BY <1>6 DEF Run
    <3> QED BY <1>2, <1>6, <1>7, <3>1
  <2>10. Separated(ends, k + 1)'
    <3>1. pos' = ends[k + 1]
      BY <1>3, <1>6, <2>3
    <3>2. inside' = "out" /\ escaped' = FALSE
      BY <2>1, <2>5
    <3>3. <<inside, escaped>>' = Outside
      BY <3>2 DEF Outside
    <3>4. k + 1 # 0
      BY <1>1
    <3> QED BY <2>5, <2>9a, <3>1, <3>3, <3>4 DEF Separated
  <2>11. k + 1 \in 0 .. Count
    BY <1>1
  <2> QED BY <2>9, <2>10, <2>11
<1> QED BY <1>9, <1>10

\* The line end behind a separator is collected, and the next statement begins, or the
\* file has ended.
LEMMA SeparatedSteps ==
  ASSUME Exported, NEW ends \in Places(Chunks(dialect, Run), Count, text), NEW k \in 0 .. Count,
         Separated(ends, k), Step
  PROVE  out' = out /\ ((\E o, h : Collecting(ends, k, o, h)') \/ Ended(k)' \/ (k < Count /\ Misread(dialect, Run[k + 1])))
<1>1. Count \in Nat /\ k \in Nat /\ k \in 1 .. Count /\ pos = ends[k] /\ cur = <<>>
      /\ <<inside, escaped>> = Outside
  BY ExportedIs DEF Separated
<1>2. PICK w, n : w = Entire(dialect, Run[k]) /\ n = Len(w)
  OBVIOUS
<1>3. text[pos] = "nl"
  <2>1. Sound(dialect, Run[k])
    BY DEF Separated
  <2> QED BY <1>1, <1>2, <2>1, FileTokens
<1>4. UNCHANGED <<dialect, stmts, text>> /\ pos' = pos + 1
  BY DEF Step
<1>5. /\ <<inside, escaped>>' = Outside /\ cur' = LineBefore(k) /\ out' = out
  <2>1. "nl" \in Tokens /\ Outside \in Status /\ Separator(dialect) # "nl"
    BY DEF Tokens, Outside, Status, Insides, Separator
  <2>2. PICK c, q : c = "nl" /\ q = Outside
    OBVIOUS
  <2>3. c \in Tokens /\ q \in Status /\ (q = Outside => c # Separator(dialect))
    BY <2>1, <2>2
  <2>4. PICK d : d = dialect
    OBVIOUS
  <2>5. <<q, c>> \in DOMAIN Moves(d) /\ Moves(d)[<<q, c>>] = After(d, q[1], q[2], c)
    <3>1. q = Outside => c # Separator(d)
      BY <2>3, <2>4
    <3> QED BY <2>3, <3>1, MovesTo
  <2>6. After(d, q[1], q[2], c) = Outside
    <3>1. d \in Engine
      BY <2>4 DEF Exported
    <3>2. Entered(d, "nl") = "out"
      BY <3>1 DEF Entered, Engine, QuotesOf, Opens
    <3>3. StartsEscape(d, "out", "nl") = FALSE
      BY DEF StartsEscape
    <3>4. Outside[1] = "out" /\ Outside[2] = FALSE
      BY DEF Outside
    <3>5. After(d, "out", FALSE, "nl") = Outside
      BY <3>2, <3>3 DEF After, Outside
    <3> QED BY <2>2, <3>4, <3>5
  <2>7. <<inside, escaped>> = q /\ text[pos] = c /\ <<q, c>> \in DOMAIN Moves(dialect)
    BY <1>1, <1>3, <2>2, <2>4, <2>5
  <2>8. /\ <<inside, escaped>>' = Moves(dialect)[<<q, c>>]
        /\ cur' = Append(cur, c) /\ out' = out /\ pos' = pos + 1
    BY <2>3, <2>7, StepMoves
  <2>9. Append(<<>>, "nl") = LineBefore(k)
    BY <1>1 DEF LineBefore
  <2> QED BY <1>1, <2>2, <2>4, <2>5, <2>6, <2>8, <2>9
<1>6. Count' = Count
  BY <1>4 DEF Count, Run
<1>7. CASE k = Count
  <2>1. pos' = Len(text) + 1
    BY <1>1, <1>4, <1>7 DEF Places
  <2> QED BY <1>4, <1>5, <1>6, <1>7, <2>1 DEF Ended
<1>8. CASE k # Count
  <2>1. k + 1 \in 1 .. Count /\ k < Count
    BY <1>1, <1>8
  <2>2. PICK e, s, v : e = dialect /\ s = Run[k + 1] /\ v = Entire(dialect, Run[k + 1])
    OBVIOUS
  <2>3. s \in Sounding(e)
    <3>1. PICK R, T : R = Run /\ T = Sounding(dialect)
      OBVIOUS
    <3>2. R[k + 1] \in T
      BY <1>1, <2>1, <3>1 DEF Exported, Count
    <3> QED BY <2>2, <3>1, <3>2
  <2>3a. Sound(e, s) \/ Misread(e, s)
    BY <2>3 DEF Sounding
  <2>3b. CASE Misread(e, s)
    BY <1>5, <2>1, <2>2, <2>3b
  <2>3c. SUFFICES ASSUME Sound(e, s) PROVE \E o, h : Collecting(ends, k, o, h)'
    BY <1>5, <2>3a, <2>3b
  <2>4. v \in Seq(Tokens) /\ Readings(e, v) # {}
    <3>1. Entire(e, s) \in Seq(Tokens) /\ Readings(e, Entire(e, s)) # {}
      BY <2>3c, ChunkIs
    <3> QED BY <2>2, <3>1
  <2>5. PICK h \in Readings(e, v) : TRUE
    BY <2>4
  <2>6. h[0] = Outside
    BY <2>5 DEF Readings
  <2>7. Entire(dialect, Run[k + 1])' = v /\ dialect' = e /\ Run' = Run /\ Sound(dialect, Run[k + 1])'
    <3>1. Run' = Run
      BY <1>4 DEF Run
    <3> QED BY <1>4, <2>2, <2>3c, <3>1
  <2>8. LineBefore(k) \o SubSeq(v, 1, 0) = LineBefore(k)
    <3>1. SubSeq(v, 1, 0) = <<>>
      BY <2>4
    <3>2. LineBefore(k) \in Seq({"nl"})
      <4>1. <<>> \in Seq({"nl"}) /\ <<"nl">> \in Seq({"nl"})
        OBVIOUS
      <4> QED BY <4>1 DEF LineBefore
    <3> QED BY <3>1, <3>2, ConcatEmptySeq
  <2>9. pos' = ends[k] + 0 + 1
    <3>1. ends[k] \in Nat
      <4>1. ends \in [0 .. Count -> Nat]
        BY DEF Places
      <4> QED BY <1>1, <4>1
    <3> QED BY <1>1, <1>4, <3>1
  <2>10. 0 \in 0 .. Len(v)
    BY <2>4
  <2>11. Collecting(ends, k, 0, h)'
    BY <1>5, <1>6, <2>1, <2>5, <2>6, <2>7, <2>8, <2>9, <2>10 DEF Collecting
  <2> QED BY <2>11
<1> QED BY <1>7, <1>8

\* Within a statement or behind a separator the file has not ended.
LEMMA NotEnded ==
  ASSUME Exported, NEW ends \in Places(Chunks(dialect, Run), Count, text), NEW k \in 0 .. Count,
         (\E o, h : Collecting(ends, k, o, h)) \/ Separated(ends, k)
  PROVE  pos <= Len(text) /\ Len(text) \in Nat /\ pos \in Nat
<1>1. Count \in Nat /\ k \in Nat /\ Len(text) \in Nat
  BY ExportedIs
<1>2. CASE \E o, h : Collecting(ends, k, o, h)
  <2>1. PICK o, h : Collecting(ends, k, o, h)
    BY <1>2
  <2>2. k + 1 \in 1 .. Count /\ (k + 1) - 1 = k /\ Sound(dialect, Run[k + 1])
    BY <1>1, <2>1 DEF Collecting
  <2>3. PICK w, n : w = Entire(dialect, Run[k + 1]) /\ n = Len(w)
    OBVIOUS
  <2>4. /\ n \in Nat /\ ends[(k + 1) - 1] \in Nat /\ ends[k + 1] = ends[(k + 1) - 1] + n + 2
        /\ ends[k + 1] <= Len(text)
    BY <2>2, <2>3, FileTokens
  <2>5. o \in 0 .. n /\ pos = ends[k] + o + 1
    BY <2>1, <2>3 DEF Collecting
  <2>6. ends[k] \in Nat /\ ends[k + 1] = ends[k] + n + 2 /\ ends[k + 1] <= Len(text)
    BY <2>2, <2>4
  <2> QED BY <1>1, <2>4, <2>5, <2>6
<1>3. CASE Separated(ends, k)
  <2>1. k \in 1 .. Count /\ pos = ends[k]
    BY <1>1, <1>3 DEF Separated
  <2>2. ends[k] \in Nat /\ ends[k] <= Len(text)
    BY <2>1 DEF Places
  <2> QED BY <1>1, <2>1, <2>2
<1> QED BY <1>2, <1>3

\* The pieces of what is exported can be read or are misread.
LEMMA PiecesSound ==
  ASSUME NEW e, NEW ss, Readable(e, ss)
  PROVE  AllPieces(e, ss) \in Seq(Sounding(e))
<1>1. e \in Engine /\ ss \in Seq(Exportable)
  BY DEF Readable, Engine
<1>2. ASSUME NEW i \in DOMAIN ss PROVE Pieces(e, ss[i]) \in Seq(Sounding(e))
  <2>1. PICK s \in Exportable : s = ss[i]
    BY <1>1, <1>2
  <2>2. /\ (s.body # <<>> \/ s.quoted) => ~s.data
        /\ (s.hash \/ s.quoted) => e = "postgres"
        /\ s.quoted => \A j \in DOMAIN s.body : \A k \in DOMAIN s.body[j] : "$" \notin ToSet(s.body[j][k])
    BY <1>2, <2>1 DEF Readable
  <2>3. /\ s.data \in BOOLEAN /\ s.lead \in BOOLEAN /\ s.hash \in BOOLEAN /\ s.rows \in Texts
        /\ s.body \in Seq(Texts) /\ s.quoted \in BOOLEAN
    BY <2>1 DEF Exportable
  <2>4. ASSUME NEW p \in Exportable, ~Misread(e, p),
               p.quoted => ~p.data /\ e = "postgres" /\ \A j \in DOMAIN p.body : \A k \in DOMAIN p.body[j] :
                              "$" \notin ToSet(p.body[j][k]),
               ~p.quoted => p.body = <<>> \/ e = "sqlserver"
        PROVE  Sound(e, p)
    <3>1. \A j \in DOMAIN p.rows : Writable(e, p.data, p.rows[j])
      <4>1. SUFFICES ASSUME NEW j \in DOMAIN p.rows PROVE Writable(e, p.data, p.rows[j])
        OBVIOUS
      <4>2. p.rows[j] \in Seq(Tokens)
        BY DEF Exportable, Texts
      <4>3. (e = "sqlite" \/ (e = "postgres" /\ ~p.data)) => ~Shifted(p.rows[j])
        BY <2>4, <4>1 DEF Misread
      <4> QED BY <4>2, <4>3 DEF Writable
    <3>2. ~p.hash
      BY <2>4 DEF Misread
    <3> QED BY <1>1, <2>4, <3>1, <3>2 DEF Sound
  <2>5. CASE s.quoted \/ e = "sqlserver"
    <3>1. Sound(e, s) \/ Misread(e, s)
      BY <2>2, <2>4, <2>5
    <3>2. s \in Sounding(e)
      BY <3>1 DEF Sounding
    <3>3. Pieces(e, s) = <<s>>
      BY <2>5 DEF Pieces
    <3> QED BY <2>1, <3>2, <3>3
  <2>6. CASE ~(s.quoted \/ e = "sqlserver")
    <3>1. PICK b \in Seq(Texts) : b = s.body
      BY <2>3
    <3>2. PICK a, q : a = [s EXCEPT !.body = <<>>] /\ q = [j \in DOMAIN b |-> Piece(b[j])]
      OBVIOUS
    <3>3. a \in Sounding(e)
      <4>1. a = [data |-> s.data, lead |-> s.lead, hash |-> s.hash, rows |-> s.rows, body |-> <<>>,
                 quoted |-> s.quoted]
        BY <3>2 DEF Exportable
      <4>2. <<>> \in Seq(Texts)
        OBVIOUS
      <4>3. a \in Exportable /\ ~a.quoted /\ a.body = <<>>
        BY <2>3, <2>6, <4>1, <4>2 DEF Exportable
      <4>4. Sound(e, a) \/ Misread(e, a)
        BY <2>4, <4>3
      <4> QED BY <4>3, <4>4 DEF Sounding
    <3>4. ASSUME NEW j \in DOMAIN b PROVE Piece(b[j]) \in Sounding(e)
      <4>1. PICK t \in Texts : t = b[j]
        BY <3>4
      <4>2. <<>> \in Seq(Texts)
        OBVIOUS
      <4>3. Piece(t) \in Exportable /\ ~Piece(t).quoted /\ Piece(t).body = <<>>
        BY <4>2 DEF Piece, Exportable
      <4>4. Sound(e, Piece(t)) \/ Misread(e, Piece(t))
        BY <2>4, <4>3
      <4> QED BY <4>1, <4>3, <4>4 DEF Sounding
    <3>5. q \in Seq(Sounding(e))
      <4>1. PICK n \in Nat : DOMAIN b = 1 .. n
        BY <3>1
      <4>2. q \in [1 .. n -> Sounding(e)]
        BY <3>2, <3>4, <4>1
      <4> QED BY <4>2
    <3>6. PICK c : c = <<a>>
      OBVIOUS
    <3>7. c \in Seq(Sounding(e))
      BY <3>3, <3>6
    <3>8. c \o q \in Seq(Sounding(e))
      BY <3>5, <3>7, Concatenated
    <3>9. Pieces(e, s) = c \o q
      BY <2>6, <3>1, <3>2, <3>6 DEF Pieces
    <3> QED BY <2>1, <3>8, <3>9
  <2> QED BY <2>5, <2>6
<1>3. PICK q : q = [i \in DOMAIN ss |-> Pieces(e, ss[i])]
  OBVIOUS
<1>4. q \in Seq(Seq(Sounding(e)))
  <2>1. PICK n \in Nat : DOMAIN ss = 1 .. n
    BY <1>1
  <2>2. q \in [1 .. n -> Seq(Sounding(e))]
    BY <1>2, <1>3, <2>1
  <2> QED BY <2>2
<1>5. FlattenSeq(q) \in Seq(Sounding(e))
  BY <1>4, FlattenIs
<1> QED BY <1>3, <1>5 DEF AllPieces

\* Every file of Scripts is exported as it should be, and read from its first token.
LEMMA ScriptBegins ==
  ASSUME ScriptInit
  PROVE  Exported /\ Splitting
<1>1. PICK c \in Scripts : dialect = c[1] /\ stmts = c[2] /\ text = Script(c[1], AllPieces(c[1], c[2]))
  BY DEF ScriptInit
<1>2. PICK e, ss : e = c[1] /\ ss = c[2]
  OBVIOUS
<1>3. Readable(e, ss)
  BY <1>2, ScriptsAreReadable
<1>4. e \in Engine /\ ss \in Seq(Exportable)
  BY <1>3 DEF Readable, Engine
<1>5. AllPieces(e, ss) \in Seq(Sounding(e))
  BY <1>3, PiecesSound
<1>6. Exported
  BY <1>1, <1>2, <1>4, <1>5 DEF Exported, Run
<1>7. PICK ends : ends \in Places(Chunks(dialect, Run), Count, text)
  BY <1>6, ExportedIs
<1>8. /\ pos = 1 /\ inside = "out" /\ escaped = FALSE /\ cur = <<>> /\ out = <<>>
      /\ Count \in Nat
  BY <1>6, ExportedIs DEF ScriptInit
<1>9. out = Expected(0) /\ cur = LineBefore(0) /\ <<inside, escaped>> = Outside
  <2>1. Expected(0) = <<>>
    <3>1. 1 .. 0 = {}
      OBVIOUS
    <3> QED BY <3>1 DEF Expected
  <2> QED BY <1>8, <2>1 DEF LineBefore, Outside
<1>10. ends[0] = 0 /\ ends[Count] = Len(text)
  BY <1>7 DEF Places
<1>11. CASE Count = 0
  <2>1. Ended(0)
    BY <1>8, <1>9, <1>10, <1>11 DEF Ended
  <2>2. 0 \in 0 .. Count
    BY <1>8
  <2> QED BY <1>6, <1>7, <1>9, <2>1, <2>2 DEF Splitting, OnTrack
<1>12. CASE Count # 0
  <2>1. PICK d, s, w : d = dialect /\ s = Run[0 + 1] /\ w = Entire(dialect, Run[0 + 1])
    OBVIOUS
  <2>1a. s \in Sounding(d)
    <3>1. PICK R, T : R = Run /\ T = Sounding(dialect)
      OBVIOUS
    <3>2. R[0 + 1] \in T
      BY <1>6, <1>8, <1>12, <3>1 DEF Exported, Count
    <3> QED BY <2>1, <3>1, <3>2
  <2>1b. CASE Misread(d, s)
    <3>1. Lost(0)
      <4>1. out \in Seq({}) /\ Len(out) = 0 /\ 0 < Count
        BY <1>8, <1>12
      <4> QED BY <2>1, <2>1b, <4>1 DEF Lost
    <3>2. 0 \in 0 .. Count
      BY <1>8
    <3> QED BY <1>6, <3>1, <3>2 DEF Splitting, OffTrack
  <2>2. SUFFICES ASSUME Sound(d, s) PROVE Exported /\ Splitting
    BY <2>1a, <2>1b DEF Sounding
  <2>3. w \in Seq(Tokens) /\ Readings(d, w) # {}
    <3>1. Entire(d, s) \in Seq(Tokens) /\ Readings(d, Entire(d, s)) # {}
      BY <2>2, ChunkIs
    <3> QED BY <2>1, <3>1
  <2>4. PICK h \in Readings(d, w) : TRUE
    BY <2>3
  <2>5. h[0] = Outside
    BY <2>4 DEF Readings
  <2>6. cur = LineBefore(0) \o SubSeq(w, 1, 0)
    <3>1. SubSeq(w, 1, 0) = <<>> /\ <<>> \o <<>> = <<>>
      BY <2>3
    <3> QED BY <1>8, <1>9, <3>1
  <2>7. 0 \in 0 .. Len(w) /\ 0 < Count /\ 0 \in 0 .. Count
    BY <1>8, <1>12, <2>3
  <2>8. Collecting(ends, 0, 0, h)
    BY <1>8, <1>9, <1>10, <2>1, <2>2, <2>4, <2>5, <2>6, <2>7 DEF Collecting
  <2> QED BY <1>6, <1>7, <1>9, <2>7, <2>8 DEF Splitting, OnTrack
<1> QED BY <1>11, <1>12

\* Behind a statement that is misread nothing is taken back.
LEMMA LostStays ==
  ASSUME Exported, NEW k \in 0 .. Count, Lost(k), [ScriptNext]_scriptVars
  PROVE  Lost(k)'
<1>1. UNCHANGED <<dialect, stmts, text>>
  BY DEF ScriptNext, Step, Finish, scriptVars
<1>2. Run' = Run /\ Count' = Count /\ Expected(k)' = Expected(k)
  BY <1>1 DEF Run, Count, Expected
<1>3. PICK S : out \in Seq(S) /\ k <= Len(out) /\ \A i \in 1 .. k : out[i] = Expected(k)[i]
  BY DEF Lost
<1>4. PICK o, E, n : o = out /\ E = Expected(k) /\ n = k
  OBVIOUS
<1>4a. n \in Nat
  BY <1>4, ExportedIs
<1>5. PICK x : out' = out \/ out' = Append(out, x)
  <2>1. out' = out \/ out' = Append(out, Trimmed(cur))
    BY DEF ScriptNext, Step, Finish, Collected, scriptVars
  <2> QED BY <2>1
<1>6. PICK T : T = S \cup {x}
  OBVIOUS
<1>7. /\ Append(o, x) \in Seq(T) /\ n <= Len(Append(o, x))
      /\ \A i \in 1 .. n : Append(o, x)[i] = E[i]
  <2>1. o \in Seq(T) /\ x \in T /\ n <= Len(o) /\ \A i \in 1 .. n : o[i] = E[i]
    BY <1>3, <1>4, <1>6
  <2> QED BY <1>4a, <2>1
<1>8. \E S1 : out' \in Seq(S1) /\ k <= Len(out') /\ \A i \in 1 .. k : out'[i] = Expected(k)[i]
  BY <1>3, <1>4, <1>5, <1>7
<1> QED BY <1>1, <1>2, <1>8 DEF Lost

\* Reading a token and ending, the splitter stays where it should be.
LEMMA ScriptGoesOn ==
  ASSUME Exported, Splitting, [ScriptNext]_scriptVars
  PROVE  Exported' /\ Splitting'
<1>1. UNCHANGED <<dialect, stmts, text>> /\ Run' = Run
  BY DEF ScriptNext, Step, Finish, scriptVars, Run
<1>2. Exported'
  BY <1>1 DEF Exported
<1>3. PICK P : P = Places(Chunks(dialect, Run), Count, text)
  OBVIOUS
<1>4. /\ Places(Chunks(dialect, Run), Count, text)' = P /\ Count' = Count
      /\ \A n : Expected(n)' = Expected(n)
  BY <1>1, <1>3 DEF Chunks, Count, Expected
<1>4a. CASE OffTrack
  <2>1. PICK k \in 0 .. Count : Lost(k)
    BY <1>4a DEF OffTrack
  <2>2. Lost(k)'
    BY <2>1, LostStays
  <2> QED BY <1>2, <1>4, <2>2 DEF Splitting, OffTrack
<1>4b. SUFFICES ASSUME OnTrack PROVE Exported' /\ Splitting'
  BY <1>4a DEF Splitting
<1>5. PICK ends \in P, k \in 0 .. Count :
        /\ out = Expected(k)
        /\ (\E o, h : Collecting(ends, k, o, h)) \/ Separated(ends, k) \/ Ended(k) \/ Through(k)
  BY <1>3, <1>4b DEF OnTrack
<1>6. ends \in Places(Chunks(dialect, Run), Count, text) /\ Count \in Nat
  BY <1>3, ExportedIs
<1>7. SUFFICES OffTrack' \/ \E n \in 0 .. Count :
                 /\ out' = Expected(n)
                 /\ \/ \E o, h : Collecting(ends, n, o, h)'
                    \/ Separated(ends, n)' \/ Ended(n)' \/ Through(n)'
  BY <1>2, <1>4 DEF Splitting, OnTrack
<1>8. CASE Step
  <2>1. CASE \E o, h : Collecting(ends, k, o, h)
    BY <1>5, <1>6, <1>8, <2>1, CollectingSteps
  <2>2. CASE Separated(ends, k)
    <3>1. CASE k < Count /\ Misread(dialect, Run[k + 1])
      <4>1. out' = out /\ out = Expected(k)
        BY <1>5, <1>6, <1>8, <2>2, SeparatedSteps
      <4>2. Lost(k)'
        <5>1. Lost(k)
          <6>1. PICK T : T = {Trimmed(Statement(dialect, Run[i])) : i \in 1 .. k}
            OBVIOUS
          <6>2. Expected(k) \in [1 .. k -> T] /\ k \in Nat
            BY <1>6, <6>1 DEF Expected
          <6>3. out \in Seq(T) /\ Len(out) = k
            BY <4>1, <6>2
          <6> QED BY <3>1, <4>1, <6>2, <6>3 DEF Lost
        <5> QED BY <5>1, <1>8, LostStays DEF ScriptNext
      <4> QED BY <1>4, <4>2 DEF OffTrack
    <3>2. CASE ~(k < Count /\ Misread(dialect, Run[k + 1]))
      BY <1>5, <1>6, <1>8, <2>2, <3>2, SeparatedSteps
    <3> QED BY <3>1, <3>2
  <2>3. ~Ended(k) /\ ~Through(k)
    <3>1. pos <= Len(text) /\ Len(text) \in Nat
      BY <1>8, ExportedIs DEF Step
    <3> QED BY <3>1 DEF Ended, Through
  <2> QED BY <1>5, <2>1, <2>2, <2>3
<1>9. CASE Finish
  <2>1. pos = Len(text) + 1 /\ Len(text) \in Nat
    BY <1>9, ExportedIs DEF Finish
  <2>2. Ended(k)
    <3>1. ~Through(k)
      BY <2>1 DEF Through
    <3>2. ASSUME (\E o, h : Collecting(ends, k, o, h)) \/ Separated(ends, k) PROVE FALSE
      <4>1. pos <= Len(text)
        BY <1>6, <3>2, NotEnded
      <4> QED BY <2>1, <4>1
    <3> QED BY <1>5, <3>1, <3>2
  <2>3. cur = LineBefore(k) /\ k = Count
    BY <2>2 DEF Ended
  <2>4. Trimmed(cur) = <<>>
    <3>1. PICK w : w = LineBefore(k)
      OBVIOUS
    <3>2. w \in Seq(Tokens) /\ \A i \in 1 .. Len(w) : w[i] = "nl"
      <4>1. "nl" \in Tokens
        BY DEF Tokens
      <4>2. CASE w = <<>>
        BY <4>2
      <4>3. CASE w = <<"nl">>
        BY <4>1, <4>3
      <4> QED BY <3>1, <4>2, <4>3 DEF LineBefore
    <3>3. Trimmed(w) = <<>>
      BY <3>2, TrimmedNone
    <3> QED BY <2>3, <3>1, <3>3
  <2>5. out' = out /\ pos' = Len(text) + 2 /\ Len(text)' = Len(text)
    <3>1. out' = out
      BY <1>9, <2>4 DEF Finish, Collected
    <3>2. pos' = pos + 1
      BY <1>9 DEF Finish
    <3> QED BY <1>1, <2>1, <3>1, <3>2
  <2>6. Through(k)'
    BY <1>4, <2>3, <2>5 DEF Through
  <2> QED BY <1>5, <2>5, <2>6
<1>10. CASE UNCHANGED scriptVars
  <2>1. /\ \A o, h : Collecting(ends, k, o, h)' <=> Collecting(ends, k, o, h)
        /\ (Separated(ends, k)' <=> Separated(ends, k))
        /\ (Ended(k)' <=> Ended(k)) /\ (Through(k)' <=> Through(k))
    BY <1>10 DEF scriptVars, Collecting, Separated, Ended, Through, Count, Run
  <2>2. out' = out
    BY <1>10 DEF scriptVars
  <2> QED BY <1>5, <2>1, <2>2
<1> QED BY <1>8, <1>9, <1>10 DEF ScriptNext

\* What was cut off at the end of the file is what was exported, up to a statement that
\* is misread.
LEMMA SplittingIsExact ==
  ASSUME Exported, Splitting
  PROVE  SameStatements
<1>1. SUFFICES ASSUME pos = Len(text) + 2, NEW n \in 0 .. Len(Run),
                      \A i \in 1 .. n : ~Misread(dialect, Run[i])
               PROVE  /\ n <= Len(out)
                      /\ \A i \in 1 .. n : out[i] = Trimmed(Statement(dialect, Run[i]))
                      /\ n = Len(Run) => n = Len(out)
  BY DEF SameStatements
<1>2. Len(text) \in Nat /\ Count \in Nat /\ Count = Len(Run) /\ n \in Nat
  BY ExportedIs DEF Count
<1>3. \A k \in Nat : \A i \in 1 .. k : Expected(k)[i] = Trimmed(Statement(dialect, Run[i]))
  BY DEF Expected
<1>4. CASE OffTrack
  <2>1. PICK k \in 0 .. Count : Lost(k)
    BY <1>4 DEF OffTrack
  <2>2. /\ k < Count /\ Misread(dialect, Run[k + 1]) /\ k <= Len(out) /\ Len(out) \in Nat
        /\ \A i \in 1 .. k : out[i] = Expected(k)[i]
    BY <2>1 DEF Lost
  <2>3. n <= k
    <3>1. ASSUME k < n PROVE FALSE
      <4>1. k + 1 \in 1 .. n
        BY <1>2, <2>1, <3>1
      <4> QED BY <1>1, <2>2, <4>1
    <3> QED BY <1>2, <2>1, <3>1
  <2>4. \A i \in 1 .. n : i \in 1 .. k
    BY <1>2, <2>1, <2>3
  <2>5. n <= Len(out) /\ n # Len(Run)
    BY <1>2, <2>1, <2>2, <2>3
  <2>6. ASSUME NEW i \in 1 .. n PROVE out[i] = Trimmed(Statement(dialect, Run[i]))
    <3>1. i \in 1 .. k /\ k \in Nat
      BY <1>2, <2>1, <2>4
    <3> QED BY <1>3, <2>2, <3>1
  <2> QED BY <2>5, <2>6
<1>5. CASE OnTrack
  <2>1. PICK ends \in Places(Chunks(dialect, Run), Count, text), k \in 0 .. Count :
          /\ out = Expected(k)
          /\ (\E o, h : Collecting(ends, k, o, h)) \/ Separated(ends, k) \/ Ended(k) \/ Through(k)
    BY <1>5 DEF OnTrack
  <2>2. k = Count
    <3>1. ASSUME (\E o, h : Collecting(ends, k, o, h)) \/ Separated(ends, k) PROVE FALSE
      <4>1. pos <= Len(text)
        BY <3>1, NotEnded
      <4> QED BY <1>1, <1>2, <4>1
    <3> QED BY <2>1, <3>1 DEF Ended, Through
  <2>3. Len(out) = Count
    <3>1. PICK T : T = {Trimmed(Statement(dialect, Run[i])) : i \in 1 .. Count}
      OBVIOUS
    <3>2. out \in [1 .. Count -> T]
      BY <2>1, <2>2, <3>1 DEF Expected
    <3> QED BY <1>2, <3>2
  <2>4. \A i \in 1 .. n : i \in 1 .. Count
    BY <1>2
  <2> QED BY <1>2, <1>3, <2>1, <2>2, <2>3, <2>4
<1> QED BY <1>4, <1>5 DEF Splitting

-----------------------------------------------------------------------------
(* Counting the rows of a ClickHouse block *)

\* What count_clickhouse_values_rows keeps, and how a token changes it.
Tallies == [quoted : BOOLEAN, esc : BOOLEAN, depth : Nat, n : Nat]
Tallying == [q \in Tallies \X Tokens |-> Counted(q[1], q[2])]
Tally(q, x, d, n) == [quoted |-> q, esc |-> x, depth |-> d, n |-> n]
Tallied(a, w, b) == Path(Tallies, Tallying, a, w, b)

\* Behind n rows: between them, in the last one, in its literal, behind a backslash there.
Between(n) == Tally(FALSE, FALSE, 0, n)
InRow(n) == Tally(FALSE, FALSE, 1, n)
InLiteral(n) == Tally(TRUE, FALSE, 1, n)
Escaping(n) == Tally(TRUE, TRUE, 1, n)

\* These are what the counter can keep.
LEMMA TalliesAre ==
  ASSUME NEW n \in Nat
  PROVE  {Between(n), InRow(n), InLiteral(n), Escaping(n)} \subseteq Tallies
  BY DEF Between, InRow, InLiteral, Escaping, Tally, Tallies

\* A tally with another depth.
LEMMA OtherDepth ==
  ASSUME NEW q, NEW x, NEW d, NEW n, NEW b
  PROVE  [Tally(q, x, d, n) EXCEPT !.depth = b] = Tally(q, x, b, n)
  BY DEF Tally

\* How the tokens of a row are counted.
LEMMA RowSteps ==
  ASSUME NEW n \in Nat, NEW c \in Tokens
  PROVE  /\ Counted(Between(n), "(") = InRow(n + 1)
         /\ Counted(InRow(n), "quote") = InLiteral(n)
         /\ Counted(InRow(n), ")") = Between(n)
         /\ Counted(InLiteral(n), "quote") = InRow(n)
         /\ Counted(InLiteral(n), "backslash") = Escaping(n)
         /\ Counted(Escaping(n), c) = InLiteral(n)
         /\ c \notin {"quote", "backslash"} => Counted(InLiteral(n), c) = InLiteral(n)
<1>1. Counted(Between(n), "(") = InRow(n + 1)
  <2>1. PICK a : a = Tally(FALSE, FALSE, 0, n)
    OBVIOUS
  <2>2. a.quoted = FALSE /\ a.esc = FALSE /\ a.depth = 0 /\ a.n = n
    BY <2>1 DEF Tally
  <2>3. Counted(a, "(") = [a EXCEPT !.depth = a.depth + 1, !.n = a.n + 1]
    BY <2>2 DEF Counted, CountsHere
  <2>4. Counted(a, "(") = [a EXCEPT !.depth = 1, !.n = n + 1]
    BY <2>2, <2>3
  <2>5. [a EXCEPT !.depth = 1, !.n = n + 1] = Tally(FALSE, FALSE, 1, n + 1)
    <3>1. PICK f, b : f = FALSE /\ b = [Tally(f, f, 0, n) EXCEPT !.depth = 1]
      OBVIOUS
    <3>2. b = Tally(f, f, 1, n)
      BY <3>1, OtherDepth
    <3>3. [b EXCEPT !.n = n + 1] = Tally(f, f, 1, n + 1)
      BY <3>2 DEF Tally
    <3>4. [a EXCEPT !.depth = 1, !.n = n + 1] = [[a EXCEPT !.depth = 1] EXCEPT !.n = n + 1]
      OBVIOUS
    <3> QED BY <2>1, <3>1, <3>3, <3>4
  <2> QED BY <2>1, <2>4, <2>5 DEF Between, InRow
<1>2. Counted(InRow(n), "quote") = InLiteral(n)
  BY DEF Counted, CountsHere, InRow, InLiteral, Tally
<1>3. Counted(InRow(n), ")") = Between(n)
  <2>1. PICK a : a = Tally(FALSE, FALSE, 1, n)
    OBVIOUS
  <2>2. a.quoted = FALSE /\ a.esc = FALSE /\ a.depth = 1 /\ a.n = n
    BY <2>1 DEF Tally
  <2>3. Counted(a, ")") = [a EXCEPT !.depth = a.depth - 1]
    BY <2>2 DEF Counted, CountsHere
  <2>4. Counted(a, ")") = [a EXCEPT !.depth = 0]
    BY <2>2, <2>3
  <2>5. [a EXCEPT !.depth = 0] = Tally(FALSE, FALSE, 0, n)
    <3>1. PICK f : f = FALSE
      OBVIOUS
    <3>2. [Tally(f, f, 1, n) EXCEPT !.depth = 0] = Tally(f, f, 0, n)
      BY OtherDepth
    <3> QED BY <2>1, <3>1, <3>2
  <2> QED BY <2>1, <2>4, <2>5 DEF Between, InRow
<1>4. Counted(InLiteral(n), "quote") = InRow(n)
  BY DEF Counted, CountsHere, InRow, InLiteral, Tally
<1>5. Counted(InLiteral(n), "backslash") = Escaping(n)
  BY DEF Counted, CountsHere, Escaping, InLiteral, Tally
<1>6. Counted(Escaping(n), c) = InLiteral(n)
  BY DEF Counted, CountsHere, Escaping, InLiteral, Tally
<1>7. c \notin {"quote", "backslash"} => Counted(InLiteral(n), c) = InLiteral(n)
  BY DEF Counted, CountsHere, InLiteral, Tally
<1> QED BY <1>1, <1>2, <1>3, <1>4, <1>5, <1>6, <1>7

\* One token.
LEMMA TalliedToken ==
  ASSUME NEW a \in Tallies, NEW c \in Tokens, NEW b \in Tallies, Counted(a, c) = b
  PROVE  Tallied(a, <<c>>, b)
<1>1. PICK q : q = <<a, c>>
  OBVIOUS
<1>2. q[1] = a /\ q[2] = c /\ q \in Tallies \X Tokens
  BY <1>1
<1>3. q \in DOMAIN Tallying /\ Tallying[q] = b
  BY <1>2 DEF Tallying
<1>4. <<a, c>> \in DOMAIN Tallying /\ Tallying[<<a, c>>] = b
  BY <1>1, <1>3
<1> QED BY <1>4, PathOne DEF Tallied

\* A token of a content is counted in the literal and leaves it as it was.
LEMMA TalliedBackslashed ==
  ASSUME NEW n \in Nat, NEW c \in Tokens
  PROVE  Tallied(InLiteral(n), Backslashed(c), InLiteral(n))
<1>1. "backslash" \in Tokens /\ "x" \in Tokens
  BY DEF Tokens
<1>2. InLiteral(n) \in Tallies /\ Escaping(n) \in Tallies
  BY TalliesAre
<1>3. ASSUME NEW d \in Tokens PROVE Tallied(InLiteral(n), <<"backslash", d>>, InLiteral(n))
  <2>1. Counted(InLiteral(n), "backslash") = Escaping(n) /\ Counted(Escaping(n), d) = InLiteral(n)
    BY RowSteps
  <2>2. Tallied(InLiteral(n), <<"backslash">>, Escaping(n))
    BY <1>1, <1>2, <2>1, TalliedToken
  <2>3. Tallied(Escaping(n), <<d>>, InLiteral(n))
    BY <1>2, <2>1, TalliedToken
  <2>4. <<"backslash">> \in Seq(Tokens) /\ <<d>> \in Seq(Tokens)
    BY <1>1, OneToken
  <2>5. Tallied(InLiteral(n), <<"backslash">> \o <<d>>, InLiteral(n))
    BY <2>2, <2>3, <2>4, PathThen DEF Tallied
  <2>6. <<"backslash">> \o <<d>> = <<"backslash", d>>
    BY <1>1, TwoTokens
  <2> QED BY <2>5, <2>6
<1>4. CASE c \in {"quote", "backslash"}
  BY <1>3, <1>4 DEF Backslashed
<1>5. CASE c = "nl"
  BY <1>1, <1>3, <1>5 DEF Backslashed
<1>6. CASE c \notin {"quote", "backslash", "nl"}
  <2>1. Counted(InLiteral(n), c) = InLiteral(n)
    BY <1>6, RowSteps
  <2>2. Tallied(InLiteral(n), <<c>>, InLiteral(n))
    BY <1>2, <2>1, TalliedToken
  <2> QED BY <1>6, <2>2 DEF Backslashed
<1> QED BY <1>4, <1>5, <1>6

\* A row is counted once, whatever its literal contains.
LEMMA TalliedRow ==
  ASSUME NEW n \in Nat, NEW w \in Seq(Tokens)
  PROVE  Tallied(Between(n), <<"(">> \o MysqlLiteral(w) \o <<")">>, Between(n + 1))
<1>1. n + 1 \in Nat
  OBVIOUS
<1>2. /\ Between(n) \in Tallies /\ Between(n + 1) \in Tallies
      /\ InRow(n + 1) \in Tallies /\ InLiteral(n + 1) \in Tallies
  BY <1>1, TalliesAre
<1>3. {"(", ")", "quote"} \subseteq Tokens
  BY DEF Tokens
<1>4. PICK N : N = n + 1
  OBVIOUS
<1>5. N \in Nat
  BY <1>1, <1>4
<1>6. PICK q : q = [i \in DOMAIN w |-> Backslashed(w[i])]
  OBVIOUS
<1>7. \A i \in DOMAIN w : /\ Backslashed(w[i]) \in Seq(Tokens)
                          /\ Tallied(InLiteral(N), Backslashed(w[i]), InLiteral(N))
  <2>1. "mysql" \in Engine /\ "mysql" # "sqlserver"
    BY DEF Engine
  <2>2. ASSUME NEW c \in Tokens
        PROVE  /\ Backslashed(c) \in Seq(Tokens)
               /\ Tallied(InLiteral(N), Backslashed(c), InLiteral(N))
    <3>1. Backslashed(c) \in Seq(Tokens)
      BY <2>1, ReadsBackslashed
    <3> QED BY <1>5, <3>1, TalliedBackslashed
  <2> QED BY <2>2
<1>8. q \in Seq(Seq(Tokens)) /\ DOMAIN q = DOMAIN w
  <2>1. PICK m \in Nat : DOMAIN w = 1 .. m
    OBVIOUS
  <2>2. q \in [1 .. m -> Seq(Tokens)]
    BY <1>6, <1>7, <2>1
  <2> QED BY <2>1, <2>2
<1>9. PICK v : v = FlattenSeq(q)
  OBVIOUS
<1>10. v \in Seq(Tokens) /\ Tallied(InLiteral(N), v, InLiteral(N))
  <2>1. v \in Seq(Tokens)
    BY <1>8, <1>9, FlattenIs
  <2>2. \A i \in DOMAIN q : Path(Tallies, Tallying, InLiteral(N), q[i], InLiteral(N))
    BY <1>6, <1>7, <1>8 DEF Tallied
  <2>3. PICK a \in Tallies : a = InLiteral(N)
    BY <1>2, <1>4
  <2>4. \A i \in DOMAIN q : Path(Tallies, Tallying, a, q[i], a)
    BY <2>2, <2>3
  <2>5. Path(Tallies, Tallying, a, FlattenSeq(q), a)
    BY <1>8, <2>4, PathAll
  <2> QED BY <1>9, <2>1, <2>3, <2>5 DEF Tallied
<1>11. PICK a, b, d : a = <<"(">> /\ b = <<"quote">> /\ d = <<")">>
  OBVIOUS
<1>12. a \in Seq(Tokens) /\ b \in Seq(Tokens) /\ d \in Seq(Tokens)
  BY <1>3, <1>11, OneToken
<1>13. /\ Tallied(Between(n), a, InRow(N)) /\ Tallied(InRow(N), b, InLiteral(N))
       /\ Tallied(InLiteral(N), b, InRow(N)) /\ Tallied(InRow(N), d, Between(N))
  <2>1. /\ Counted(Between(n), "(") = InRow(n + 1)
        /\ Counted(InRow(N), "quote") = InLiteral(N) /\ Counted(InRow(N), ")") = Between(N)
        /\ Counted(InLiteral(N), "quote") = InRow(N)
    BY <1>3, <1>5, RowSteps
  <2>2. Tallied(Between(n), <<"(">>, InRow(n + 1))
    BY <1>2, <1>3, <2>1, TalliedToken
  <2>3. Between(N) \in Tallies /\ InRow(N) \in Tallies /\ InLiteral(N) \in Tallies
    BY <1>2, <1>4
  <2>4. Tallied(InRow(N), <<"quote">>, InLiteral(N))
    BY <1>3, <2>1, <2>3, TalliedToken
  <2>5. Tallied(InLiteral(N), <<"quote">>, InRow(N))
    BY <1>3, <2>1, <2>3, TalliedToken
  <2>6. Tallied(InRow(N), <<")">>, Between(N))
    BY <1>3, <2>1, <2>3, TalliedToken
  <2> QED BY <1>4, <1>11, <2>2, <2>4, <2>5, <2>6
<1>14. PICK l : l = (b \o v) \o b
  OBVIOUS
<1>15. l \in Seq(Tokens) /\ Tallied(InRow(N), l, InRow(N))
  <2>1. b \o v \in Seq(Tokens) /\ Tallied(InRow(N), b \o v, InLiteral(N))
    BY <1>10, <1>12, <1>13, Concatenated, PathThen DEF Tallied
  <2>2. (b \o v) \o b \in Seq(Tokens) /\ Tallied(InRow(N), (b \o v) \o b, InRow(N))
    BY <1>12, <1>13, <2>1, Concatenated, PathThen DEF Tallied
  <2> QED BY <1>14, <2>2
<1>16. l = MysqlLiteral(w)
  BY <1>6, <1>9, <1>11, <1>14, MysqlLiteralIs DEF Quoted
<1>17. a \o l \in Seq(Tokens) /\ Tallied(Between(n), a \o l, InRow(N))
  BY <1>12, <1>13, <1>15, Concatenated, PathThen DEF Tallied
<1>18. Tallied(Between(n), (a \o l) \o d, Between(N))
  BY <1>12, <1>13, <1>17, PathThen DEF Tallied
<1> QED BY <1>4, <1>11, <1>16, <1>18

\* The count is what is behind the last token.
LEMMA CountRowsIs ==
  ASSUME NEW w \in Seq(Tokens), NEW b, Tallied(NoRows, w, b)
  PROVE  CountRows(w) = b.n
<1>1. PICK N \in Nat : N = Len(w)
  OBVIOUS
<1>2. PICK h \in [0 .. N -> Tallies] :
        /\ h[0] = NoRows /\ h[N] = b
        /\ \A i \in 1 .. N : /\ <<h[i - 1], w[i]>> \in DOMAIN Tallying
                            /\ h[i] = Tallying[<<h[i - 1], w[i]>>]
  BY <1>1 DEF Tallied, Path
<1>3. \A i \in 1 .. N : h[i] = Counted(h[i - 1], w[i])
  <2>1. SUFFICES ASSUME NEW i \in 1 .. N PROVE h[i] = Counted(h[i - 1], w[i])
    OBVIOUS
  <2>2. PICK q : q = <<h[i - 1], w[i]>>
    OBVIOUS
  <2>3. q \in DOMAIN Tallying /\ h[i] = Tallying[q] /\ q[1] = h[i - 1] /\ q[2] = w[i]
    BY <1>2, <2>2
  <2> QED BY <2>3 DEF Tallying
<1> DEFINE F(g) == [i \in 0 .. N |-> IF i = 0 THEN NoRows ELSE Counted(g[i - 1], w[i])]
           state == CHOOSE g : g = F(g)
<1>4. CountRows(w) = state[N].n
  BY <1>1, Zenon DEF CountRows
<1>5. h = F(h)
  <2>1. ASSUME NEW i \in 0 .. N PROVE h[i] = F(h)[i]
    <3>1. CASE i = 0
      BY <1>2, <3>1
    <3>2. CASE i # 0
      BY <1>3, <3>2
    <3> QED BY <3>1, <3>2
  <2>2. h = [i \in 0 .. N |-> h[i]] /\ F(h) = [i \in 0 .. N |-> F(h)[i]]
    BY <1>2
  <2> HIDE DEF F
  <2> QED BY <2>1, <2>2
<1>6. state = F(state)
  <2> HIDE DEF F
  <2> QED BY <1>5
<1> HIDE DEF state
<1>7. \A i \in 0 .. N : state[i] = IF i = 0 THEN NoRows ELSE Counted(state[i - 1], w[i])
  BY <1>6
<1> DEFINE U == {i \in 0 .. N : state[i] = h[i]}
<1>8. 0 \in U
  BY <1>2, <1>7
<1>9. ASSUME NEW i \in 1 .. N, i - 1 \in U PROVE i \in U
  <2>1. state[i] = Counted(state[i - 1], w[i])
    BY <1>7
  <2>2. state[i - 1] = h[i - 1]
    BY <1>9
  <2> QED BY <1>3, <2>1, <2>2
<1>10. N \in U
  <2> HIDE DEF U
  <2>1. 0 .. N \subseteq U
    BY <1>8, <1>9, InductionUpTo
  <2> QED BY <2>1
<1> QED BY <1>2, <1>4, <1>10

\* The rows of a ClickHouse INSERT are counted exactly, whatever parentheses and quotes they contain.
LEMMA RowsAreCounted ==
  ASSUME NEW s, s.data = TRUE, s.rows \in Seq(Seq(Tokens))
  PROVE  CountRows(Values("clickhouse", s)) = Len(s.rows)
<1>1. PICK rows \in Seq(Seq(Tokens)) : rows = s.rows
  OBVIOUS
<1>2. PICK N \in Nat : N = Len(rows)
  OBVIOUS
<1>3. PICK q : q = [i \in DOMAIN rows |-> <<"(">> \o MysqlLiteral(rows[i]) \o <<")">>]
  OBVIOUS
<1>4. Values("clickhouse", s) = FlattenSeq(q)
  <2>1. \A w : Literal("clickhouse", s.data, w) = MysqlLiteral(w)
    BY DEF Literal
  <2> QED BY <1>1, <1>3, <2>1 DEF Values
<1>5. ASSUME NEW i \in 1 .. N
      PROVE  /\ <<"(">> \o MysqlLiteral(rows[i]) \o <<")">> \in Seq(Tokens)
             /\ Tallied(Between(i - 1), <<"(">> \o MysqlLiteral(rows[i]) \o <<")">>, Between(i))
  <2>1. PICK w \in Seq(Tokens) : w = rows[i]
    BY <1>2
  <2>2. PICK n \in Nat : n = i - 1
    OBVIOUS
  <2>3. n + 1 = i
    BY <2>2
  <2>4. Tallied(Between(n), <<"(">> \o MysqlLiteral(w) \o <<")">>, Between(n + 1))
    BY TalliedRow
  <2>5. MysqlLiteral(w) \in Seq(Tokens)
    <3>1. "mysql" \in Engine /\ Writable("mysql", TRUE, w)
      BY DEF Engine, Writable
    <3>2. Literal("mysql", TRUE, w) \in Seq(Tokens)
      BY <3>1, ReadsLiteral
    <3> QED BY <3>2 DEF Literal
  <2>6. "(" \in Tokens /\ ")" \in Tokens
    BY DEF Tokens
  <2>7. <<"(">> \in Seq(Tokens) /\ <<")">> \in Seq(Tokens)
    BY <2>6, OneToken
  <2>8. <<"(">> \o MysqlLiteral(w) \in Seq(Tokens)
    BY <2>5, <2>7, Concatenated
  <2>9. (<<"(">> \o MysqlLiteral(w)) \o <<")">> \in Seq(Tokens)
    BY <2>7, <2>8, Concatenated
  <2> QED BY <2>1, <2>2, <2>3, <2>4, <2>9
<1>6. /\ q \in Seq(Seq(Tokens)) /\ Len(q) = N
      /\ \A i \in 1 .. N : Tallied(Between(i - 1), q[i], Between(i))
  <2>1. DOMAIN rows = 1 .. N
    BY <1>2
  <2>2. q \in [1 .. N -> Seq(Tokens)]
    BY <1>3, <1>5, <2>1
  <2>3. \A i \in 1 .. N : q[i] = <<"(">> \o MysqlLiteral(rows[i]) \o <<")">>
    BY <1>3, <2>1
  <2>4. q \in Seq(Seq(Tokens)) /\ Len(q) = N
    BY <2>2
  <2>5. \A i \in 1 .. N : Tallied(Between(i - 1), q[i], Between(i))
    BY <1>5, <2>3
  <2> QED BY <2>4, <2>5
<1>7. PICK g : g = [i \in 0 .. N |-> Between(i)]
  OBVIOUS
<1>8. g \in [0 .. N -> Tallies] /\ g[0] = Between(0) /\ g[N] = Between(N)
  <2>1. \A i \in 0 .. N : Between(i) \in Tallies
    BY TalliesAre
  <2> QED BY <1>7, <2>1
<1>9. \A i \in 1 .. N : Path(Tallies, Tallying, g[i - 1], q[i], g[i])
  <2>1. \A i \in 1 .. N : i - 1 \in 0 .. N /\ i \in 0 .. N
    OBVIOUS
  <2> QED BY <1>6, <1>7, <2>1 DEF Tallied
<1>10. Path(Tallies, Tallying, g[0], FlattenSeq(q), g[N])
  BY <1>6, <1>8, <1>9, PathFlat
<1>11. Between(0) = NoRows /\ Between(N).n = N
  BY DEF Between, Tally, NoRows
<1>12. FlattenSeq(q) \in Seq(Tokens)
  BY <1>6, FlattenIs
<1>13. PICK v, b : v = FlattenSeq(q) /\ b = Between(N)
  OBVIOUS
<1>14. v \in Seq(Tokens) /\ Tallied(NoRows, v, b)
  BY <1>8, <1>10, <1>11, <1>12, <1>13 DEF Tallied
<1>15. CountRows(v) = b.n
  BY <1>14, CountRowsIs
<1> QED BY <1>1, <1>2, <1>4, <1>11, <1>13, <1>15

\* The rows of every ClickHouse INSERT in the file are counted exactly.
LEMMA ExportedCounted ==
  ASSUME Exported
  PROVE  RowsCounted
<1>1. SUFFICES ASSUME NEW i \in DOMAIN stmts, dialect = "clickhouse", stmts[i].data
               PROVE  CountRows(Values(dialect, stmts[i])) = Len(stmts[i].rows)
  BY DEF RowsCounted
<1>2. PICK s : s = stmts[i]
  OBVIOUS
<1>3. s.data \in BOOLEAN /\ s.rows \in Seq(Seq(Tokens))
  <2>1. s \in Exportable
    <3>1. PICK R, X : R = stmts /\ X = Exportable
      OBVIOUS
    <3>2. R \in Seq(X)
      BY <3>1 DEF Exported
    <3>3. R[i] \in X
      BY <1>1, <3>1, <3>2
    <3> QED BY <1>2, <3>1, <3>3
  <2> QED BY <2>1 DEF Exportable, Texts
<1>4. s.data = TRUE
  BY <1>1, <1>2, <1>3
<1>5. CountRows(Values("clickhouse", s)) = Len(s.rows)
  BY <1>3, <1>4, RowsAreCounted
<1> QED BY <1>1, <1>2, <1>5

\* Importing an exported file cuts it into the exported statements, each as it was, whatever
\* quotes, backslashes, semicolons and line ends their values, comments and quoted bodies
\* contain, and a body in no quotes into its own statements, up to the first literal with an
\* unpaired backslash that does not escape or "#" that is no comment; the rows reported for a
\* ClickHouse block are those of the file.
THEOREM StatementsReturn == ScriptSpec => []RoundTrip
<1>1. ScriptInit => Exported /\ Splitting
  BY ScriptBegins
<1>2. Exported /\ Splitting /\ [ScriptNext]_scriptVars => (Exported /\ Splitting)'
  BY ScriptGoesOn
<1>3. Exported /\ Splitting => RoundTrip
  BY SplittingIsExact, ExportedCounted DEF RoundTrip
<1> QED BY <1>1, <1>2, <1>3, PTL DEF ScriptSpec
=============================================================================

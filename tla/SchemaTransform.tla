-------------------------- MODULE SchemaTransform --------------------------
(***************************************************************************)
(* The filter on a schema dump that makes CREATE SCHEMA public repeatable: *)
(* publicSchemaTransformSink of internal/database/capture_sql.go.          *)
(*                                                                         *)
(* A text is a sequence of lexical units: a letter of an identifier ("x",  *)
(* "e", "t"), the digit "1", the characters that steer the lexer - "q" and *)
(* "d" the two quotes, "b" the backslash, "minus", "slash", "star" and     *)
(* "dollar" -, "s" any other character, "n" the end of a line, and "P" the *)
(* words CREATE SCHEMA public; .  The bound on the length of a line and    *)
(* the failures of the sink behind the filter are left out: SplitCapture   *)
(* has what they cause.                                                    *)
(***************************************************************************)
EXTENDS Naturals, Sequences

IdentChars == {"x", "e", "t", "1"}       \* sqlIdentifierByte

\* The text at position i of the line is p.
Ahead(line, i, p) == i + Len(p) - 1 <= Len(line) /\ \A k \in 1 .. Len(p) : line[i + k - 1] = p[k]

\* pgDollarTag: the dollar tag that begins at i, or nothing.
DollarTag(line, i) ==
  LET ends == {j \in i + 1 .. Len(line) :
                 /\ line[j] = "dollar" /\ \A k \in i + 1 .. j - 1 : line[k] \in IdentChars
                 /\ line[i + 1] # "1"}
  IN IF ends = {} THEN <<>> ELSE SubSeq(line, i, CHOOSE j \in ends : TRUE)

-----------------------------------------------------------------------------
(* pgSQLLexState: where in the text the lexer is.                          *)

Code == [mode |-> "code", depth |-> 0, tag |-> <<>>]
In(mode) == [Code EXCEPT !.mode = mode]

\* How many units the lexer takes at position i, and where it is then.
Took(n, lex) == [take |-> n, lex |-> lex]

InBlock(lex, line, i) ==
  CASE Ahead(line, i, <<"slash", "star">>) -> Took(2, [lex EXCEPT !.depth = @ + 1])
    [] Ahead(line, i, <<"star", "slash">>) ->
         Took(2, IF lex.depth = 1 THEN Code ELSE [lex EXCEPT !.depth = @ - 1])
    [] OTHER -> Took(1, lex)

InQuote(lex, line, i, quote) ==
  CASE lex.mode = "escape" /\ line[i] = "b" -> Took(2, lex)
    [] Ahead(line, i, <<quote, quote>>)     -> Took(2, lex)
    [] OTHER -> Took(1, IF line[i] = quote THEN Code ELSE lex)

InDollar(lex, line, i) ==
  IF Ahead(line, i, lex.tag) THEN Took(Len(lex.tag), Code) ELSE Took(1, lex)

\* Mutant: the E before a quote is not told from the end of a word.
QuoteModeAnyWord(line, i) == IF i > 1 /\ line[i - 1] = "e" THEN "escape" ELSE "single"

\* A quote is an escape string only after an E that is a word of its own.
QuoteMode(line, i) ==
  IF i > 1 /\ line[i - 1] = "e" /\ (i = 2 \/ line[i - 2] \notin IdentChars)
  THEN "escape" ELSE "single"

InCode(line, i) ==
  CASE Ahead(line, i, <<"minus", "minus">>) -> Took(Len(line), In("comment"))
    [] Ahead(line, i, <<"slash", "star">>) -> Took(2, [In("block") EXCEPT !.depth = 1])
    [] line[i] = "q" -> Took(1, In(QuoteMode(line, i)))
    [] line[i] = "d" -> Took(1, In("double"))
    [] line[i] = "dollar" /\ DollarTag(line, i) # <<>> ->
         Took(Len(DollarTag(line, i)), [In("dollar") EXCEPT !.tag = DollarTag(line, i)])
    [] OTHER -> Took(1, Code)

LexAt(lex, line, i) ==
  CASE lex.mode = "block"   -> InBlock(lex, line, i)
    [] lex.mode = "comment" -> Took(Len(line), lex)
    [] lex.mode \in {"single", "escape"} -> InQuote(lex, line, i, "q")
    [] lex.mode = "double"  -> InQuote(lex, line, i, "d")
    [] lex.mode = "dollar"  -> InDollar(lex, line, i)
    [] OTHER -> InCode(line, i)

\* scan: the lexer behind each unit of a line; the end of the line ends a line comment.
Step(s, line, i) ==
  LET t == LexAt(s.lex, line, i)
  IN IF i < s.next THEN s ELSE [next |-> i + t.take, lex |-> t.lex]

Scanned(lex, line) ==
  LET at[i \in 0 .. Len(line)] == IF i = 0 THEN [next |-> 1, lex |-> lex] ELSE Step(at[i - 1], line, i)
  IN at

Scan(lex, line, newline) ==
  LET last == Scanned(lex, line)[Len(line)].lex
  IN IF newline /\ last.mode = "comment" THEN Code ELSE last

Complete(lex) == lex.mode \in {"code", "comment"}

-----------------------------------------------------------------------------
(* The sink.                                                               *)

Fresh == [line |-> <<>>, lex |-> Code, replaced |-> {}, read |-> 0, aborted |-> FALSE]

\* writeLine: the statement is replaced where it is a line of code, and once only.
WriteLine(s, newline) ==
  LET transform == s.lex.mode = "code" /\ s.line = <<"P">>
  IN IF transform /\ s.replaced # {} THEN [s EXCEPT !.aborted = TRUE]
     ELSE [s EXCEPT !.replaced = IF transform THEN {s.read} ELSE @,
                    !.lex = Scan(s.lex, s.line, newline)]

\* WriteContext, a unit at a time: what is written is cut into lines.
Write(s, unit) ==
  IF s.aborted THEN s
  ELSE IF unit = "n" THEN [WriteLine(s, TRUE) EXCEPT !.line = <<>>, !.read = @ + 1]
  ELSE [s EXCEPT !.line = Append(@, unit), !.read = @ + 1]

\* CloseContext: the last line may have no end; a text that is cut, or without
\* the statement, is refused.
Close(s) ==
  LET t == IF s.aborted \/ s.line = <<>> THEN s ELSE WriteLine(s, FALSE)
  IN [t EXCEPT !.aborted = @ \/ t.replaced = {} \/ ~Complete(t.lex)]

Transform(text) ==
  LET sink[k \in 0 .. Len(text)] == IF k = 0 THEN Fresh ELSE Write(sink[k - 1], text[k])
  IN Close(sink[Len(text)])

-----------------------------------------------------------------------------
(* What PostgreSQL means by a text: pieces of code, of literals, of quoted *)
(* names, of comments and of bodies, each with what may stand in it.       *)

Line == <<"n", "P", "n">>                \* the statement as a line of its own
Kinds == {"code", "string", "estring", "literal", "name", "line", "block", "body", "tagged"}
Opener == [code |-> <<"s">>, string |-> <<"s", "q">>, estring |-> <<"s", "e", "q">>,
           literal |-> <<"s", "x", "e", "q">>, name |-> <<"s", "d">>, line |-> <<"s", "minus", "minus">>,
           block |-> <<"s", "slash", "star">>, body |-> <<"s", "dollar", "dollar">>,
           tagged |-> <<"s", "dollar", "t", "dollar">>]
Closer == [code |-> <<>>, string |-> <<"q">>, estring |-> <<"q">>, literal |-> <<"q">>,
           name |-> <<"d">>, line |-> <<"n">>, block |-> <<"star", "slash">>, body |-> <<"dollar", "dollar">>,
           tagged |-> <<"dollar", "t", "dollar">>]
Plain  == {<<"x">>, <<"q", "q">>, <<"b">>, Line, <<"minus", "minus">>, <<"slash", "star">>, <<"dollar", "dollar">>, <<"d">>}
Pieces == [code    |-> {<<"x">>, Line, <<"dollar", "1">>, <<"minus", "x">>},
           string  |-> Plain,
           estring |-> {<<"x">>, <<"b", "q">>, <<"b", "b">>, <<"q", "q">>, Line, <<"b">> \o Line},
           literal |-> Plain,
           name    |-> {<<"x">>, <<"d", "d">>, <<"q">>, Line, <<"minus", "minus">>},
           line    |-> {<<"x">>, <<"q">>, <<"d">>, <<"slash", "star">>, <<"dollar", "dollar">>},
           block   |-> {<<"x">>, <<"q">>, Line, <<"slash", "star", "star", "slash">>, <<"minus", "minus">>, <<"dollar", "dollar">>},
           body    |-> {<<"x">>, <<"q">>, Line, <<"dollar", "t", "dollar", "x">>, <<"dollar", "x">>, <<"minus", "minus">>},
           tagged  |-> {<<"x">>, <<"q">>, Line, <<"dollar", "dollar", "x">>, <<"slash", "star">>}]

\* The text of a segment as far as each of its pieces, before its closer.
SegmentText(segment) ==
  LET text[j \in 0 .. Len(segment.pieces)] ==
        IF j = 0 THEN Opener[segment.kind] ELSE text[j - 1] \o segment.pieces[j]
  IN text

\* The text as far as each segment; the last one may have been cut before its closer.
TextOf(segments, cut) ==
  LET Body(s)   == SegmentText(s)[Len(s.pieces)]
      Ending(i) == IF cut /\ i = Len(segments) THEN <<>> ELSE Closer[segments[i].kind]
      text[i \in 0 .. Len(segments)] ==
        IF i = 0 THEN <<>> ELSE text[i - 1] \o Body(segments[i]) \o Ending(i)
  IN text

\* Where the statement stands in the code: the units before it, and the end of its line.
StatementsOf(segment) ==
  LET places == {j \in DOMAIN segment.pieces : segment.kind = "code" /\ segment.pieces[j] = Line}
  IN {Len(SegmentText(segment)[j - 1]) + 2 : j \in places}

Statements(segments, cut) ==
  UNION {{Len(TextOf(segments, cut)[i - 1]) + e : e \in StatementsOf(segments[i])} : i \in DOMAIN segments}

\* The filter accepts a text exactly when the statement stands in its code once and
\* the text is not cut inside a literal, a name, a comment or a body, and replaces
\* it there and nowhere else (capture_sql.go:113 "keeps the transform out of
\* comments, strings, identifiers, and function bodies").
ReplacesTheStatement(segments, cut) ==
  LET n     == Len(segments)
      whole == ~cut \/ n = 0 \/ segments[n].kind \in {"code", "line"}
      once  == \E e \in Statements(segments, cut) : Statements(segments, cut) = {e}
      after == Transform(TextOf(segments, cut)[n])
  IN /\ ~after.aborted <=> whole /\ once
     /\ ~after.aborted => after.replaced = Statements(segments, cut)
=============================================================================

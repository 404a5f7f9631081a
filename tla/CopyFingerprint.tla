-------------------------- MODULE CopyFingerprint --------------------------
(***************************************************************************)
(* The fingerprints of a data dump and their use in a restore              *)
(* (internal/database/recovery_fingerprint.go, restore_fingerprint.go and  *)
(* validTableFingerprints of recovery_profile.go): parsing the COPY blocks *)
(* of pg_dump's output, the script that has the restored tables read out   *)
(* again, and the sink that judges what psql prints.                       *)
(*                                                                         *)
(* A line is [kind, text]: kind tells the lines the code tells apart, text *)
(* holds the characters of a COPY header or the number of a marker.  The   *)
(* digest of a row is the row itself, so the sum of digests is the bag of  *)
(* rows and their exclusive or the rows that occur an odd number of times: *)
(* collisions of SHA-256 and 2^64 rows are left out, and so are the bounds *)
(* on the length of a line and the numbers of tables and columns.          *)
(***************************************************************************)
EXTENDS Naturals, Sequences, SequencesExt

Line(kind, text) == [kind |-> kind, text |-> text]
Schemas == {"public", "auth", "storage"}
SchemaRank == [auth |-> 1, public |-> 2, storage |-> 3]

Letters == {"a", "b"}
Digits  == {"1"}
Bare    == Letters \union Digits

-----------------------------------------------------------------------------
(* copyHeaderParser: each operator reads at p and gives the set of what it *)
(* can read there, [next, value], which has one element or none.           *)

Read(next, value) == [next |-> next, value |-> value]
Longer(first, results) == {[r EXCEPT !.value = <<first>> \o @] : r \in results}

\* spaces, consume
Spaces(v, p) ==
  CHOOSE q \in p .. Len(v) + 1 : /\ \A i \in p .. q - 1 : v[i] = " "
                                 /\ q = Len(v) + 1 \/ v[q] # " "

Sees(v, p, c) == p <= Len(v) /\ v[p] = c

\* The value of a quoted identifier whose text begins at p: a doubled quote is one.
QuotedIdentifier(v, p) ==
  LET read[i \in p .. Len(v) + 2] ==
        IF i > Len(v) THEN {}
        ELSE IF v[i] # "Q" THEN Longer(v[i], read[i + 1])
        ELSE IF Sees(v, i + 1, "Q") THEN Longer("Q", read[i + 2])
        ELSE {Read(i + 1, <<>>)}
  IN read[p]

Identifier(v, at) ==
  LET p    == Spaces(v, at)
      ends == {q \in p + 1 .. Len(v) + 1 : /\ \A i \in p .. q - 1 : v[i] \in Bare
                                           /\ q = Len(v) + 1 \/ v[q] \notin Bare}
  IN IF Sees(v, p, "Q") THEN QuotedIdentifier(v, p + 1)
     ELSE {Read(q, SubSeq(v, p, q - 1)) : q \in {e \in ends : v[p] \notin Digits}}

\* The columns from p on, up to the bracket that closes the list.
Columns(v, p) ==
  LET After(column, end, rest) ==
        IF Sees(v, end, ",") THEN Longer(column, rest[end + 1])
        ELSE IF Sees(v, end, ")") THEN {Read(end + 1, <<column>>)} ELSE {}
      read[q \in p .. Len(v) + 1] ==
        UNION {After(c.value, Spaces(v, c.next), read) : c \in Identifier(v, q)}
  IN read[p]

\* parseCopyHeader: "F" is FROM stdin; and the header begins behind COPY.
ParseCopyHeader(v) ==
  LET Name(schema)  == IF Sees(v, schema.next, ".") THEN Identifier(v, schema.next + 1) ELSE {}
      ColumnsAt(p)  == IF Sees(v, p, "(") THEN Columns(v, p + 1) ELSE {}
      Ends(columns) == Spaces(v, columns.next) = Len(v) /\ v[Len(v)] = "F"
      Headers(s, n) ==
        {[schema |-> s.value, name |-> n.value, columns |-> c.value]
           : c \in {d \in ColumnsAt(Spaces(v, n.next)) : Ends(d)}}
      headers == UNION {UNION {Headers(s, n) : n \in Name(s)} : s \in Identifier(v, 1)}
  IN {h \in headers : /\ h.schema # <<>> /\ h.name # <<>>
                      /\ <<>> \notin ToSet(h.columns) /\ IsInjective(h.columns)}

-----------------------------------------------------------------------------
(* copyTableFingerprint.                                                   *)

Table(header) == [header |-> header, rows |-> 0, sum |-> <<>>, odd |-> {}]

\* addRow: neither the sum of the digests nor their exclusive or depends on the order
\* of the rows; equal rows cancel in the second.
AddRow(f, row) ==
  LET occurs == {i \in DOMAIN f.sum : f.sum[i].row = row}
      sum    == IF occurs = {} THEN Append(f.sum, [row |-> row, times |-> 1])
                ELSE [f.sum EXCEPT ![CHOOSE i \in occurs : TRUE].times = @ + 1]
  IN [f EXCEPT !.rows = @ + 1, !.sum = sum,
               !.odd  = IF row \in @ THEN @ \ {row} ELSE @ \union {row}]

\* Mutant: the sum of the digests is left out, so that equal rows cancel.
ResultXorOnly(f) == [header |-> f.header, rows |-> f.rows, sum |-> {}, odd |-> f.odd]

\* result
Result(f) == [header |-> f.header, rows |-> f.rows, sum |-> ToSet(f.sum), odd |-> f.odd]

-----------------------------------------------------------------------------
(* parseCopyDataFingerprints over the lines of a dump.                     *)

EndOfData == Line("\\.", <<>>)

Reading == [done |-> <<>>, current |-> <<>>, failed |-> FALSE]

\* The schema of a header, as one of the names the code compares it with.
SchemaOf(header) == IF header.schema = <<"a", "a">> THEN "auth"
                    ELSE IF header.schema = <<"b">> THEN "public" ELSE "other"

ParseLine(s, line) ==
  LET Key(h) == <<h.schema, h.name>>
      known  == {Key(s.done[i].header) : i \in DOMAIN s.done}
      new    == {h \in ParseCopyHeader(line.text) :
                   SchemaOf(h) \in Schemas /\ Key(h) \notin known}
  IN IF s.failed \/ (s.current = <<>> /\ line.kind # "COPY") THEN s
     ELSE IF s.current = <<>>
     THEN IF new = {} THEN [s EXCEPT !.failed = TRUE]
          ELSE [s EXCEPT !.current = <<Table(CHOOSE h \in new : TRUE)>>]
     ELSE IF line = EndOfData
     THEN [s EXCEPT !.done = Append(@, Result(s.current[1])), !.current = <<>>]
     ELSE [s EXCEPT !.current = <<AddRow(@[1], line)>>]

\* The order of two names, byte by byte; a name comes after its prefixes.
ByteOrder == <<" ", "Q", ")", ",", ".", "1", "a", "b">>
Rank(c) == CHOOSE i \in DOMAIN ByteOrder : ByteOrder[i] = c
NameLess(m, n) ==
  \E k \in 0 .. Len(m) : /\ k < Len(n) /\ SubSeq(m, 1, k) = SubSeq(n, 1, k)
                         /\ k = Len(m) \/ Rank(m[k + 1]) < Rank(n[k + 1])

Before(f, g) ==
  LET s == SchemaRank[SchemaOf(f.header)]
      t == SchemaRank[SchemaOf(g.header)]
  IN s < t \/ (s = t /\ NameLess(f.header.name, g.header.name))

\* validTableFingerprints: sorted, without a table that comes twice.
ValidTableFingerprints(fps) ==
  /\ \A i \in DOMAIN fps : SchemaOf(fps[i].header) \in Schemas /\ fps[i].header.columns # <<>>
  /\ \A i \in 2 .. Len(fps) : Before(fps[i - 1], fps[i])

\* sort.Slice, of fingerprints of different tables
Sorted(fps) ==
  LET place == CHOOSE p \in [DOMAIN fps -> DOMAIN fps] :
                 \A i, j \in DOMAIN fps : i < j => Before(fps[p[i]], fps[p[j]])
  IN [i \in DOMAIN fps |-> fps[place[i]]]

\* The fingerprints of a dump, or nothing if it is refused.
ParseCopyData(lines) ==
  LET parsed[k \in 0 .. Len(lines)] == IF k = 0 THEN Reading ELSE ParseLine(parsed[k - 1], lines[k])
      s      == parsed[Len(lines)]
      sorted == Sorted(s.done)
  IN IF s.failed \/ s.current # <<>> \/ ~ValidTableFingerprints(sorted) THEN <<>> ELSE <<sorted>>

-----------------------------------------------------------------------------
(* The verification script, and the sink that judges the answer to it.     *)

Marker(kind, index) == Line(kind, <<ToString(index)>>)
Blank == Line("blank", <<>>)
Done  == Line("DONE", <<>>)

\* quotePGIdentifier
Quote(name) ==
  LET Doubled(c) == IF c = "Q" THEN <<"Q", "Q">> ELSE <<c>>
      quoted[k \in 0 .. Len(name)] == IF k = 0 THEN <<"Q">> ELSE quoted[k - 1] \o Doubled(name[k])
  IN Append(quoted[Len(name)], "Q")

\* buildFingerprintVerificationSQL: for each table its markers and the query between
\* them, which names the table and its columns in quotes.
VerificationScript(fps) ==
  [i \in DOMAIN fps |->
     [begin  |-> Marker("BEGIN", i - 1), end |-> Marker("END", i - 1),
      schema |-> Quote(fps[i].header.schema), name |-> Quote(fps[i].header.name),
      columns |-> [j \in DOMAIN fps[i].header.columns |-> Quote(fps[i].header.columns[j])]]]

\* fingerprintVerificationSink before the first line; gate is what it did to it.
Sink(fps) == [fps |-> fps, index |-> 1, rowsLeft |-> 0, current |-> <<>>, awaitingEnd |-> FALSE,
              complete |-> FALSE, failed |-> FALSE, gate |-> "shut"]

\* reject: the gate obeys the first order it gets.
Reject(s) == [s EXCEPT !.failed = TRUE, !.gate = IF @ = "shut" THEN "cancelled" ELSE @]

CompareTable(s, line) ==
  IF \/ line # Marker("END", s.index - 1)
     \/ Result(s.current[1]) # s.fps[s.index]
  THEN Reject(s)
  ELSE [s EXCEPT !.index = @ + 1, !.current = <<>>, !.awaitingEnd = FALSE]

BeginTable(s, line) ==
  IF line # Marker("BEGIN", s.index - 1) THEN Reject(s)
  ELSE [s EXCEPT !.current = <<Table(s.fps[s.index].header)>>, !.awaitingEnd = TRUE,
                 !.rowsLeft = s.fps[s.index].rows]

\* processLine, after an error the pump writes no more.
ProcessLine(s, line) ==
  CASE s.failed -> s
    [] ~s.failed /\ s.complete -> Reject(s)
    [] ~s.failed /\ ~s.complete ->
         IF s.index = 1 /\ s.current = <<>> /\ line = Blank THEN s
         ELSE IF s.current # <<>> /\ s.rowsLeft > 0
              THEN [s EXCEPT !.current = <<AddRow(@[1], line)>>, !.rowsLeft = @ - 1]
         ELSE IF s.awaitingEnd THEN CompareTable(s, line)
         ELSE IF s.index <= Len(s.fps) THEN BeginTable(s, line)
         ELSE IF line # Done THEN Reject(s)
         ELSE [s EXCEPT !.complete = TRUE, !.gate = "open"]

Judge(fps, output) ==
  LET sink[i \in 0 .. Len(output)] == IF i = 0 THEN Sink(fps) ELSE ProcessLine(sink[i - 1], output[i])
  IN sink[Len(output)]

-----------------------------------------------------------------------------
(* PostgreSQL: what pg_dump prints of tables [schema, name, columns, rows],  *)
(* and what the restored tables answer to the script.                      *)

\* fmtId: quotes only a name that needs them.
FmtId(name) == IF name[1] \in Letters /\ ToSet(name) \subseteq Bare THEN name ELSE Quote(name)

CopyHeader(t) ==
  LET Column(k) == (IF k = 1 THEN <<>> ELSE <<",", " ">>) \o FmtId(t.columns[k])
      listed[k \in 0 .. Len(t.columns)] ==
        IF k = 0 THEN FmtId(t.schema) \o <<".">> \o FmtId(t.name) \o <<" ", "(">>
        ELSE listed[k - 1] \o Column(k)
  IN Line("COPY", listed[Len(t.columns)] \o <<")", " ", "F">>)

DumpLines(tables) ==
  LET Block(t) == <<CopyHeader(t)>> \o t.rows \o <<EndOfData, Blank>>
      dumped[k \in 0 .. Len(tables)] ==
        IF k = 0 THEN <<Line("SET", <<>>)>> ELSE dumped[k - 1] \o Block(tables[k])
  IN dumped[Len(tables)]

\* The server reads the quoted names of the query; a query it does not understand
\* ends the script, which runs with ON_ERROR_STOP.
Names(q, t) ==
  LET Is(quoted, name) == Identifier(quoted, 1) = {Read(Len(quoted) + 1, name)}
  IN /\ Is(q.schema, t.schema) /\ Is(q.name, t.name)
     /\ Len(q.columns) = Len(t.columns)
     /\ \A j \in DOMAIN q.columns : Is(q.columns[j], t.columns[j])

Ask(tables, s, q) ==
  LET of == {i \in DOMAIN tables : Names(q, tables[i])}
  IN IF s.stopped THEN s
     ELSE IF of = {} THEN [lines |-> Append(s.lines, q.begin), stopped |-> TRUE]
     ELSE [s EXCEPT !.lines = @ \o <<q.begin>> \o tables[CHOOSE i \in of : TRUE].rows \o <<q.end>>]

Output(script, tables) ==
  LET asked[k \in 0 .. Len(script)] ==
        IF k = 0 THEN [lines |-> <<Blank>>, stopped |-> FALSE] ELSE Ask(tables, asked[k - 1], script[k])
      end == asked[Len(script)]
  IN IF end.stopped THEN end.lines ELSE Append(end.lines, Done)

SameRows(m, n) ==
  LET times(s, row) == Cardinality({i \in DOMAIN s : s[i] = row})
  IN \A row \in ToSet(m) \union ToSet(n) : times(m, row) = times(n, row)

\* CloseContext, at the end of the output: what is not complete is rejected.
CloseSink(s) == IF s.failed \/ s.complete THEN s ELSE Reject(s)

\* The sink after the answer of the restored tables; none if the dump is refused.
Verification(tables, restored) ==
  {Judge(fps, Output(VerificationScript(fps),
                     [i \in DOMAIN tables |-> [tables[i] EXCEPT !.rows = restored[i]]]))
     : fps \in ToSet(ParseCopyData(DumpLines(tables)))}

Restored(tables, restored) == \A i \in DOMAIN tables : SameRows(tables[i].rows, restored[i])

\* The gate opens for a restored database exactly when every table holds the rows of
\* the dump, each as often as there, in any order: whatever the names of tables and
\* columns, the order of the tables, and rows that read like an empty line, a header
\* or the marker that ends a table (restore_fingerprint.go:132-175).
OpensForTheDumpOnly(tables, restored) ==
  \E sink \in Verification(tables, restored) :
     /\ sink.gate = "open" <=> Restored(tables, restored)
     /\ sink.gate = "open" <=> ~CloseSink(sink).failed

\* Once psql has printed its whole answer, a restored database that differs from the
\* dump has cancelled the gate (recovery_test.go:287 "mismatched archive data did not
\* cancel the transaction input gate").
CancelsOnMismatch(tables, restored) ==
  \/ Restored(tables, restored)
  \/ \E sink \in Verification(tables, restored) : sink.gate = "cancelled"
=============================================================================

---------------------------- MODULE MCAlgorithms ----------------------------
(* Builds the inputs of the pure algorithms step by step, one algorithm per  *)
(* behaviour, and compares every result with what it has to be.              *)
EXTENDS ManifestFormat

CONSTANTS
  MaxPieces,       \* pieces and segments of a text
  MaxRows,         \* rows of a table, and of all tables before and after
  MaxAllRows

Text   == INSTANCE SchemaTransform
Copy   == INSTANCE CopyFingerprint
Toc    == INSTANCE TocSelection
Report == INSTANCE OperationReport

VARIABLES algorithm, input
inputVars == <<algorithm, input>>

-----------------------------------------------------------------------------
(* Dumps of a schema.                                                      *)

Segments == input.segments
Pieces   == FoldLeft(LAMBDA n, s : n + 1 + Len(s.pieces), 0, Segments)

AddSegment ==
  /\ Pieces < MaxPieces
  /\ \E k \in Text!Kinds :
       input' = [input EXCEPT !.segments = Append(@, [kind |-> k, pieces |-> <<>>])]

AddPiece ==
  /\ Segments # <<>> /\ Pieces < MaxPieces
  /\ \E p \in Text!Pieces[Segments[Len(Segments)].kind] :
       input' = [input EXCEPT !.segments[Len(Segments)].pieces = Append(@, p)]

Cut == Segments # <<>> /\ input' = [input EXCEPT !.cut = TRUE]

Texts == algorithm = "text" /\ ~input.cut /\ (AddSegment \/ AddPiece \/ Cut)

-----------------------------------------------------------------------------
(* Dumps of data, and what was restored from them.                         *)

Columns(columns) == [schema |-> <<"b">>, name |-> <<"a">>, columns |-> columns, rows |-> <<>>]

\* Tables whose names and columns need quotes, or do not; one of another schema.
Tables ==
  {Columns(<<<<"a">>>>),
   [Columns(<<<<"a", "Q">>, <<"Q", "a">>>>) EXCEPT !.name = <<"Q">>],
   [Columns(<<<<",">>, <<"a", " ">>, <<")">>>>) EXCEPT !.schema = <<"a", "a">>, !.name = <<"1", ".">>],
   [Columns(<<<<" ", "Q">>>>) EXCEPT !.name = <<"a", "1">>]}

\* A row, an empty one, and one that reads like the end of the first table.
Rows == {Copy!Line("row", <<>>), Copy!Blank, Copy!Marker("END", 0)}
Header == Copy!Line("COPY", <<"a">>)

AllRows ==
  FoldLeft(LAMBDA n, t : n + Len(t.rows), 0, input.tables) + FoldLeft(LAMBDA n, r : n + Len(r), 0, input.restored)

AddTable ==
  /\ Len(input.tables) < 2 /\ AllRows = 0
  /\ \E t \in Tables \ ToSet(input.tables) :
       input' = [tables |-> Append(input.tables, t), restored |-> Append(input.restored, <<>>)]

DumpRow ==
  /\ AllRows < MaxAllRows
  /\ \E i \in DOMAIN input.tables, r \in Rows \union {Header} :
       /\ Len(input.tables[i].rows) < MaxRows /\ input.restored[i] = <<>>
       /\ input' = [input EXCEPT !.tables[i].rows = Append(@, r)]

RestoreRow ==
  /\ AllRows < MaxAllRows
  /\ \E i \in DOMAIN input.tables, r \in Rows :
       /\ Len(input.restored[i]) < MaxRows
       /\ input' = [input EXCEPT !.restored[i] = Append(@, r)]

Restores == algorithm = "copy" /\ (AddTable \/ DumpRow \/ RestoreRow)

-----------------------------------------------------------------------------
(* Lists of an archive: schemas, and one object behind them.               *)

Schemas == {<<"public">>, <<"auth">>, <<"storage">>, <<"cron">>, <<"app">>, <<"app", "x">>,
            <<"auth", "x">>, <<"public", "x">>}
Owners  == {<<"o">>, <<"x", "o">>}
Names   == {<<"t">>, <<"t", "x">>, <<"schema_migrations">>, <<"schema_migrations", "x">>}
ObjectTypes ==
  {<<"TABLE">>, <<"TABLE", "DATA">>, <<"TABLE", "ATTACH">>, <<"COMMENT">>, <<"FOREIGN", "TABLE">>}

AddSchema ==
  /\ Len(input) < 2 /\ \A o \in ToSet(input) : o.type = Toc!Schema
  /\ \E s \in Schemas, o \in Owners :
       input' = Append(input, [type |-> Toc!Schema, schema |-> <<>>, name |-> s, owner |-> o])

AddObject ==
  /\ \A o \in ToSet(input) : o.type = Toc!Schema
  /\ \E t \in ObjectTypes, s \in Schemas \union {<<>>}, n \in Names, o \in Owners :
       input' = Append(input, [type |-> t, schema |-> s, name |-> n, owner |-> o])
  /\ Toc!WholeArchive(input')

Lists == algorithm = "toc" /\ (AddSchema \/ AddObject)

-----------------------------------------------------------------------------
(* Reports: a component of every kind, and one of a few beside it.         *)

Components ==
  [support : Report!Supports \ {"manual"}, observation : Report!Observations,
   permission : Report!Permissions \ {"unknown"},
   capture : {"not_used", "captured", "partially_captured", "failed"},
   integrity : {"not_used", "passed", "failed"}, recovery : {"not_used", "ready", "manual_required"},
   restore : {"not_used", "not_attempted", "restored", "failed"},
   behavior : Report!Behaviors \ {"inconclusive"}, reason : Report!Reasons, manual : {TRUE}]

Good == [support |-> "required", observation |-> "observed", permission |-> "granted",
         capture |-> "captured", integrity |-> "passed", recovery |-> "ready",
         restore |-> "restored", behavior |-> "passed", reason |-> "", manual |-> FALSE]

Absent == [support |-> "required", observation |-> "not_observed", permission |-> "not_required",
           capture |-> "not_used", integrity |-> "not_used", recovery |-> "not_used",
           restore |-> "not_used", behavior |-> "not_used", reason |-> "feature_not_observed",
           manual |-> FALSE]

Beside ==
  {Good, Absent, [Absent EXCEPT !.support = "excluded", !.reason = "outside_declared_scope"],
   [Good EXCEPT !.restore = "not_attempted", !.behavior = "not_checked"],
   [Good EXCEPT !.behavior = "sampled"], [Good EXCEPT !.restore = "failed", !.behavior = "not_checked"],
   [Good EXCEPT !.capture = "partially_captured"]}

FirstComponent ==
  /\ input = <<>>
  /\ \E c \in Components : Report!ValidComponent(c) /\ input' = <<c>>

SecondComponent ==
  /\ Len(input) = 1
  /\ \E c \in Beside : input' = Append(input, c) \/ input' = <<c>> \o input

Reports == algorithm = "report" /\ (FirstComponent \/ SecondComponent)

-----------------------------------------------------------------------------
(* Manifests: whole ones, and those with one fault.                        *)

Member(name, value) == [name |-> name, bad |-> FALSE, value |-> value]
Part(base, ending, upper) == [base |-> base, ending |-> ending, upper |-> upper]

Keys == {<<Part("a", "", FALSE)>>, <<Part("a", "", TRUE)>>, <<Part("a", ".b", FALSE)>>,
         <<Part("a", "", FALSE), Part("b", "", FALSE)>>, <<Part("con", ".a", FALSE)>>,
         <<Part("a", ".", FALSE)>>}
Lengths == {-1, 0, 2, MaxTotalBytes, MaxInt}

Object(id, key, length) ==
  <<Member("id", id), Member("key", key), Member("scope", "ok"), Member("status", "complete"),
    Member("length", length), Member("sha256", "ok")>>

\* A member is missing, comes twice, is none of the format's, or cannot be decoded.
Faulty(object) ==
  {RemoveAt(object, i) : i \in DOMAIN object} \union {Append(object, object[i]) : i \in DOMAIN object}
    \union {Append(object, Member("x", 0))} \union {[object EXCEPT ![i].bad = TRUE] : i \in DOMAIN object}

Empty == <<Member("version", 1), Member("format", "sparc-archive"), Member("components", <<>>)>>

Whole == /\ WellFormed(input, ManifestNames)
         /\ \A o \in ToSet(input[3].value) : WellFormed(o, ComponentNames)

\* Two components of every kind, and one too many.
AddComponent ==
  LET n      == Len(input[3].value)
      Add(o) == input' = [input EXCEPT ![3].value = Append(@, o)]
  IN \/ /\ n < MaxComponents
        /\ \E k \in Keys, l \in Lengths, id \in {n, MaxComponents + 1} :
             \E o \in {Object(id, k, l)} \union (IF n = 0 THEN Faulty(Object(id, k, l)) ELSE {}) : Add(o)
     \/ n = MaxComponents /\ Add(Object(n, <<Part("c", "", FALSE)>>, 0))

\* The components themselves stay in their place.
BreakManifest ==
  \E d \in Faulty(input) : Len(d) > 2 /\ d[3].name = "components" /\ input' = d

Manifests == algorithm = "manifest" /\ Whole /\ (AddComponent \/ BreakManifest)

-----------------------------------------------------------------------------

InputInit ==
  \/ algorithm = "text" /\ input = [segments |-> <<>>, cut |-> FALSE]
  \/ algorithm = "copy" /\ input = [tables |-> <<>>, restored |-> <<>>]
  \/ algorithm = "toc" /\ input = <<>>
  \/ algorithm = "report" /\ input = <<>>
  \/ algorithm = "manifest" /\ input = Empty

InputNext == (Texts \/ Restores \/ Lists \/ Reports \/ Manifests) /\ UNCHANGED algorithm

InputSpec == InputInit /\ [][InputNext]_inputVars

-----------------------------------------------------------------------------

\* The filter on the schema dump replaces CREATE SCHEMA public; where it is a statement,
\* and refuses every text in which it is not one statement (capture_sql.go:50-93).
StatementIsReplaced == algorithm = "text" => Text!ReplacesTheStatement(input.segments, input.cut)

\* The commit gate opens for the rows of the dump and for no others
\* (restore_fingerprint.go:132-175).
GateOpensForTheDump == algorithm = "copy" => Copy!OpensForTheDumpOnly(input.tables, input.restored)

\* A restored database that differs from the dump cancels the gate once its rows are
\* printed (recovery_test.go:287 "mismatched archive data did not cancel the
\* transaction input gate").
MismatchCancels == algorithm = "copy" => Copy!CancelsOnMismatch(input.tables, input.restored)

\* A plan that is not blocked selects only what a trial restore may take
\* (toc_selection.go:119-234).
SelectionIsSafe == algorithm = "toc" => Toc!SelectsSafely(input)

\* No summary of a valid report hides a gap of a component (report.go:139-141).
ReportIsHonest == algorithm = "report" => Report!ReportHidesNothing(input)

\* Exactly the usable manifests are accepted (manifest.go:44-102).
ManifestIsUsable == algorithm = "manifest" => AcceptsTheUsable(input)
=============================================================================

---------------------------- MODULE TocSelection ----------------------------
(***************************************************************************)
(* Which entries of a PostgreSQL archive a trial restore may take, decided *)
(* from the list pg_restore prints (internal/localdemo/toc_selection.go).  *)
(*                                                                         *)
(* The list is display text: the words of an entry's type, its schema, its *)
(* name and its owner stand side by side, and a name of several words is   *)
(* not told from its neighbours.  A line is the sequence of its words      *)
(* behind the number and the two object identifiers; the number of an      *)
(* entry is its place.  Cutting a line into words, quotes inside them and  *)
(* the bounds on the text are left out.                                    *)
(***************************************************************************)
EXTENDS Naturals, Sequences, SequencesExt

-----------------------------------------------------------------------------
(* tocDescriptors, by kind.  A description of several words stands before  *)
(* its prefixes there, so the first that fits is the longest.              *)

DataTypes == {<<"MATERIALIZED", "VIEW", "DATA">>, <<"TABLE", "DATA">>, <<"SEQUENCE", "SET">>}

UnsupportedTypes ==
  {<<"FOREIGN", "DATA", "WRAPPER">>, <<"LARGE", "OBJECT", "DATA">>, <<"PUBLICATION", "TABLE">>,
   <<"FOREIGN", "TABLE">>, <<"EVENT", "TRIGGER">>, <<"USER", "MAPPING">>, <<"ACCESS", "METHOD">>,
   <<"EXTENSION">>, <<"PUBLICATION">>, <<"SUBSCRIPTION">>, <<"LARGE", "OBJECT">>, <<"BLOBS">>,
   <<"BLOB">>, <<"DATABASE">>, <<"SERVER">>}

DdlTypes ==
  {<<"TEXT", "SEARCH", w>> : w \in {"CONFIGURATION", "DICTIONARY", "PARSER", "TEMPLATE"}}
  \union {<<"SEQUENCE", "OWNED", "BY">>, <<"OPERATOR", "FAMILY">>, <<"OPERATOR", "CLASS">>,
          <<"FK", "CONSTRAINT">>, <<"DEFAULT", "ACL">>, <<"MATERIALIZED", "VIEW">>,
          <<"ROW", "SECURITY">>}
  \union {<<w>> : w \in {"PROCEDURE", "AGGREGATE", "COLLATION", "CONVERSION", "OPERATOR",
                         "STATISTICS", "TRANSFORM", "CONSTRAINT", "SEQUENCE", "FUNCTION",
                         "SCHEMA", "TABLE", "VIEW", "TYPE", "DOMAIN", "CAST", "DEFAULT",
                         "INDEX", "TRIGGER", "RULE", "POLICY", "ACL", "COMMENT"}}

Types == DataTypes \union UnsupportedTypes \union DdlTypes

ExcludedTableData ==
  {<<"auth", "schema_migrations">>, <<"storage", "migrations">>, <<"storage", "buckets_vectors">>,
   <<"storage", "vector_indexes">>, <<"supabase_functions", "migrations">>}

ProtectedSchemas ==
  {"_analytics", "_realtime", "_supavisor", "auth", "cron", "dbdev", "etl", "extensions",
   "graphql", "graphql_public", "net", "pgbouncer", "pgmq", "pgsodium", "pgsodium_masks",
   "pgtle", "realtime", "repack", "storage", "supabase_functions", "supabase_migrations",
   "tiger", "tiger_data", "topology", "vault"}

\* Schemas whose names begin with pg_, timescaledb_ or _timescaledb_.
Prefixed == {"pg_toast", "timescaledb_information"}

IsManagedSchema(schema) ==
  schema \in ProtectedSchemas \union Prefixed \union {"information_schema"}

-----------------------------------------------------------------------------
(* parseTOCEntry                                                           *)

Refused == [error |-> TRUE, type |-> <<>>, namespace |-> "", tag |-> <<>>]
Entry(type, namespace, tag) ==
  [error |-> FALSE, type |-> type, namespace |-> namespace, tag |-> tag]

\* The last word of a supported entry is taken for its owner.
ParseEntry(words) ==
  LET fits == {t \in Types : IsPrefix(t, words)}
      type == CHOOSE t \in fits : \A u \in fits : Len(u) <= Len(t)
      rest == SubSeq(words, Len(type) + 1, Len(words))
      last == IF type \in UnsupportedTypes THEN Len(rest) ELSE Len(rest) - 1
  IN IF Len(words) < 3 THEN Refused
     ELSE IF fits = {} THEN Entry(<<>>, "", <<>>)
     ELSE IF last < 2 THEN Refused
     ELSE Entry(type, rest[1], SubSeq(rest, 2, last))

-----------------------------------------------------------------------------
(* selectArchiveTOC                                                        *)

Schema == <<"SCHEMA">>

SchemaNames(entries) == {e.tag : e \in {f \in ToSet(entries) : f.type = Schema}}

\* A schema in the archive has a name that begins with this word and goes on.
AmbiguousNamespace(namespace, names) == \E n \in names : Len(n) > 1 /\ n[1] = namespace

KnownSchema(schema, names) == schema = "public" \/ IsManagedSchema(schema) \/ <<schema>> \in names

\* Mutant: the name has to be the excluded one exactly.
ExcludedDataExact(e) == \E x \in ExcludedTableData : e.namespace = x[1] /\ e.tag = <<x[2]>>

\* Migration and service state is refused even where the owner blurs its name.
ExcludedData(e) == \E x \in ExcludedTableData : e.namespace = x[1] /\ IsPrefix(<<x[2]>>, e.tag)

AllowedDataSchema(schema) == schema \in {"public", "auth", "storage"} \/ ~IsManagedSchema(schema)

Managed(schema) == IF schema \in {"auth", "storage"} THEN "managedDDL" ELSE "unsupported"

ClassOfData(e, names) ==
  CASE AmbiguousNamespace(e.namespace, names) \/ ~KnownSchema(e.namespace, names) -> "unknown"
    [] OTHER -> IF ExcludedData(e) THEN "excluded"
                ELSE IF AllowedDataSchema(e.namespace) THEN "data" ELSE "unsupported"

ClassOfSchema(e) ==
  IF Len(e.tag) > 1 THEN "unsupported"
  ELSE IF e.tag = <<"public">> THEN "skipped"
  ELSE IF IsManagedSchema(e.tag[1]) THEN Managed(e.tag[1]) ELSE "schema"

ClassOf(e, names) ==
  IF e.type = <<>> THEN "unknown"
  ELSE IF e.type \in UnsupportedTypes THEN "unsupported"
  ELSE IF e.type \in DataTypes THEN ClassOfData(e, names)
  ELSE IF e.type = Schema THEN ClassOfSchema(e)
  ELSE IF e.namespace = "-" THEN "unsupported"
  ELSE IF AmbiguousNamespace(e.namespace, names) \/ ~KnownSchema(e.namespace, names) THEN "unknown"
  ELSE IF IsManagedSchema(e.namespace) THEN Managed(e.namespace) ELSE "schema"

\* The plan for the lines of a list: the class of each entry, or an error.
SelectArchiveTOC(lines) ==
  LET entries == [i \in DOMAIN lines |-> ParseEntry(lines[i])]
  IN [error |-> lines = <<>> \/ \E i \in DOMAIN lines : entries[i].error,
      class |-> [i \in DOMAIN lines |-> ClassOf(entries[i], SchemaNames(entries))]]

Blocked(plan) == \E i \in DOMAIN plan.class : plan.class[i] \in {"managedDDL", "unsupported", "unknown"}

-----------------------------------------------------------------------------
(* The archive behind the list (pg_dump): entries whose schema, name and   *)
(* owner are sequences of words, shown by pg_restore side by side.         *)

Shown(o) == o.type \o (IF o.schema = <<>> THEN <<"-">> ELSE o.schema) \o o.name \o o.owner

OfTarget(words) == Len(words) = 1 /\ (words[1] = "public" \/ IsManagedSchema(words[1]))

\* A whole archive has an entry for every schema that it uses and the target lacks.
WholeArchive(objects) ==
  \A o \in ToSet(objects) :
     o.schema # <<>> /\ ~OfTarget(o.schema) =>
       \E s \in ToSet(objects) : s.type = Schema /\ s.name = o.schema

\* A plan that is not blocked takes no object of a schema the target manages, no data
\* that is excluded or of a managed schema other than auth and storage, and leaves
\* nothing behind but the public schema and excluded data: although names and owners
\* of several words blur the list (toc_selection.go:118 "ambiguous whitespace schemas
\* and unknown entry types block here").
SelectsSafely(objects) ==
  LET plan  == SelectArchiveTOC([i \in DOMAIN objects |-> Shown(objects[i])])
      Takes(i, class) == plan.class[i] = class
      Owner(o) == IF o.type = Schema THEN o.name ELSE o.schema
      IsManaged(words) == Len(words) = 1 /\ IsManagedSchema(words[1])
  IN plan.error \/ Blocked(plan)
     \/ \A i \in DOMAIN objects :
          LET o == objects[i]
          IN CASE Takes(i, "schema") ->
                    /\ o.type \in DdlTypes /\ ~IsManaged(Owner(o))
                    /\ ~(o.type = Schema /\ o.name = <<"public">>)
               [] Takes(i, "data")   ->
                    /\ o.type \in DataTypes
                    /\ \A x \in ExcludedTableData : <<o.schema, o.name>> # <<<<x[1]>>, <<x[2]>>>>
                    /\ IsManaged(o.schema) => o.schema[1] \in {"auth", "storage"}
               [] Takes(i, "excluded") ->
                    \E x \in ExcludedTableData : o.schema = <<x[1]>> /\ IsPrefix(<<x[2]>>, o.name)
               [] OTHER -> Takes(i, "skipped") /\ o.type = Schema /\ o.name = <<"public">>
=============================================================================

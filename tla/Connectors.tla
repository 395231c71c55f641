----------------------------- MODULE Connectors -----------------------------
(***************************************************************************)
(* What the eight connectors differ in: the coordinates in their cache     *)
(* keys, the instances they know, the queries of an operation, the         *)
(* failures they raise, and what each query makes of a table.  Presto is   *)
(* Trino under another name.                                               *)
(*                                                                         *)
(* A query is taken for what it returns of the definition the table has    *)
(* when it runs:                                                           *)
(*   exists     a dropped table is the definition NoTable                  *)
(*   cols       column names in their order                                *)
(*   notnull    those declared NOT NULL (required, in a $jsonSchema)       *)
(*   key        the primary key's columns, in key order                    *)
(*   fks        foreign keys: name, referenced table, pairs of columns     *)
(*   elsewhere  the foreign keys of the other tables                       *)
(*   ixs        indexes; Expr stands for a part that is an expression      *)
(*   split      partition (or shard key) columns                           *)
(*   validated  has the collection a $jsonSchema?                          *)
(***************************************************************************)
EXTENDS Integers, SequencesExt

CONSTANTS
    Expr,    \* a part of an index that is no column
    NoName   \* SQL NULL, or None

Types == {"mysql", "postgres", "sqlite", "duckdb", "mongodb", "trino", "athena", "dynamodb"}

NoTable == [exists |-> FALSE, cols |-> <<>>, notnull |-> {}, key |-> <<>>, fks |-> {},
            elsewhere |-> {}, ixs |-> {}, split |-> <<>>, validated |-> FALSE]

-----------------------------------------------------------------------------
(* Cache keys and instances                                                *)

\* The configuration's first coordinate: the host, the file or the region.  The
\* keys of these types hold the others too: the port, and the database.
WholeKey == {"postgres", "mongodb", "trino"}

\* Mutant: the key of PostgreSQL leaves out the port and the database.
KeyPlace_HostOnly(type, config) ==
    IF type \in WholeKey \ {"postgres"} THEN <<config.main, config.rest>> ELSE <<config.main>>

KeyPlace(type, config) ==
    IF type \in WholeKey THEN <<config.main, config.rest>> ELSE <<config.main>>

\* The instances that list_instances gives: the catalogs that the server has, or
\* the coordinate itself.
InstanceNames(type, config, catalogs) ==
    IF type \in {"trino", "athena"} THEN catalogs ELSE {config.main}

\* Mutant: a description is taken from the connection whatever the instance.
Rejects_ListsOnly(type, op, instance, config) ==
    /\ instance # config.main
    /\ type \notin {"trino", "athena"}
    /\ op # "describe"

\* The check of the instance, made after the cache is asked; for Trino and Athena
\* the query is to a catalog of that name, and describe_table of DynamoDB makes none.
\* A schema other than the one that SQLite and DynamoDB have fails in the same way.
Rejects(type, op, instance, config) ==
    /\ instance # config.main
    /\ type \notin {"trino", "athena"}
    /\ ~(type = "dynamodb" /\ op = "describe")

\* The queries of each operation, in order; for what is known without one there is
\* none: the file and the schema of SQLite, the file of DuckDB, the region and the
\* schema of DynamoDB.
MysqlQueries == [instances |-> <<"version">>, schemas |-> <<"schemas">>, tables |-> <<"tables">>,
                 describe |-> <<"columns", "pk", "fks", "indexes">>]
PostgresQueries == [MysqlQueries EXCEPT
                      !.describe = <<"columns", "pk", "fks", "indexes", "partitions">>]
SqliteQueries == [instances |-> <<>>, schemas |-> <<>>, tables |-> <<"tables">>,
                  describe |-> <<"columns", "fks", "indexes", "index columns">>]
DuckdbQueries == [MysqlQueries EXCEPT !.instances = <<>>]
MongoQueries == [MysqlQueries EXCEPT !.describe = <<"columns", "indexes", "partitions">>]
TrinoQueries == [MysqlQueries EXCEPT !.instances = <<"version", "catalogs">>,
                                     !.describe = <<"columns">>]
AthenaQueries == [TrinoQueries EXCEPT !.instances = <<"catalogs">>]
DynamoQueries == [SqliteQueries EXCEPT !.describe = <<"columns">>]

Queries(type, op) ==
    [mysql |-> MysqlQueries, postgres |-> PostgresQueries, sqlite |-> SqliteQueries,
     duckdb |-> DuckdbQueries, mongodb |-> MongoQueries, trino |-> TrinoQueries,
     athena |-> AthenaQueries, dynamodb |-> DynamoQueries][type][op]

\* MongoDB goes on without the answer to these.
Optional == {<<"mongodb", "version">>, <<"mongodb", "indexes">>, <<"mongodb", "partitions">>}

NullNames(type, query, r) ==
    CASE <<type, query>> = <<"mysql", "indexes">> ->
           \E i \in r[query].ixs : Expr \in Range(i.cols)
      [] <<type, query>> = <<"sqlite", "index columns">> ->
           \E i \in r["indexes"].ixs \cap r[query].ixs : Expr \in Range(i.cols)
      [] <<type, query>> = <<"sqlite", "fks">> ->
           \E f \in r[query].fks : \E p \in f.pairs : p[2] = NoName
      [] OTHER -> FALSE

\* Mutant: a collection without a $jsonSchema has no columns.
Undescribable_NoSchemaIsEmpty(type, query, r) ==
    \/ query = "columns" /\ ~r[query].exists
       /\ type \in {"mysql", "duckdb", "athena", "dynamodb"}
    \/ NullNames(type, query, r)

\* A query raises, or what it returns makes no TableDescription: a table that is
\* missing (PostgreSQL, SQLite and Trino find no rows and go on), a collection
\* without a $jsonSchema, a name that is NULL: that of an expression in an index
\* (MySQL, SQLite), and that of a column referenced implicitly (SQLite).
Undescribable(type, query, r) ==
    \/ query = "columns" /\ ~r[query].exists
       /\ type \in {"mysql", "duckdb", "athena", "dynamodb"}
    \/ <<type, query>> = <<"mongodb", "columns">> /\ ~r[query].validated
    \/ NullNames(type, query, r)

-----------------------------------------------------------------------------
(* What the queries make of a table: columns                               *)

\* The entries of a list that are in S, in its order.
Only(list, S) ==
    FlattenSeq([i \in DOMAIN list |-> IF list[i] \in S THEN <<list[i]>> ELSE <<>>])

\* The database reports the columns of the primary key as NOT NULL; SQLite's
\* connector adds it to what table_info says.
Nullable(d) == Range(d.cols) \ (d.notnull \cup Range(d.key))

Named(names, nullable) ==
    [i \in DOMAIN names |-> [name |-> names[i], nullable |-> names[i] \in nullable]]

MysqlColumns(d) == Named(d.cols, Nullable(d))
PostgresColumns(d) == Named(d.cols, Nullable(d))
SqliteColumns(d) == Named(d.cols, Nullable(d))
DuckdbColumns(d) == Named(d.cols, Nullable(d))

\* _columns_from_json_schema
MongoColumns(d) == Named(d.cols, Range(d.cols) \ d.notnull)

Unsplit(d) == Only(d.cols, Range(d.cols) \ Range(d.split))

\* Rows with the extra_info "partition key" are partitions and not columns.
TrinoColumns(d) == Named(Unsplit(d), Nullable(d))

\* StorageDescriptor.Columns; Glue knows no NOT NULL.
AthenaColumns(d) == Named(Unsplit(d), Range(d.cols))

\* AttributeDefinitions: the key attributes.
DynamoColumns(d) == Named(d.cols, {})

-----------------------------------------------------------------------------
(* Keys                                                                    *)

\* Mutant: the key columns in the order of the table.
SqliteKey_TableOrder(d) == Only(d.cols, Range(d.key))

\* table_info numbers the columns of the key.
SqliteKey(d) == d.key

MysqlKey(d) == d.key
PostgresKey(d) == d.key
DuckdbKey(d) == d.key

\* The partition key alone; the range key is the sort key.
DynamoKey(d) == SubSeq(d.key, 1, 1)
DynamoSortKey(d) == IF Len(d.key) > 1 THEN d.key[2] ELSE NoName

\* Mutant: a row per constraint.
PairRows_First(d) ==
    {LET p == CHOOSE p \in f.pairs : TRUE
     IN  [column |-> p[1], table |-> f.ref, refcol |-> p[2], name |-> f.name] : f \in d.fks}

\* A row per pair of columns.
PairRows(d) == UNION {{[column |-> p[1], table |-> f.ref, refcol |-> p[2], name |-> f.name] :
                       p \in f.pairs} : f \in d.fks}

MysqlForeignKeys(d) == PairRows(d)

\* foreign_key_list does not name the constraint.
SqliteForeignKeys(d) == {[r EXCEPT !.name = NoName] : r \in PairRows(d)}

\* Mutant: key_column_usage is not restricted to the table.
JoinedRows_AnyTable(d) ==
    UNION {{[column |-> p[1], table |-> j[2].ref, refcol |-> q[2], name |-> j[1].name] :
            p \in j[1].pairs, q \in j[2].pairs} :
           j \in {j \in (d.fks \cup d.elsewhere) \X (d.fks \cup d.elsewhere) :
                    j[1].name = j[2].name /\ \E h \in d.fks : h.name = j[1].name}}

\* key_column_usage is joined with constraint_column_usage by the name of the
\* constraint alone: every column with every referenced one, of this constraint
\* and of its namesakes on other tables.
JoinedRows(d) ==
    UNION {{[column |-> p[1], table |-> j[2].ref, refcol |-> q[2], name |-> j[1].name] :
            p \in j[1].pairs, q \in j[2].pairs} :
           j \in {j \in d.fks \X (d.fks \cup d.elsewhere) : j[1].name = j[2].name}}

PostgresForeignKeys(d) == JoinedRows(d)
DuckdbForeignKeys(d) == JoinedRows(d)

-----------------------------------------------------------------------------
(* Indexes and partitions                                                  *)

MysqlIndexes(d) == d.ixs

NoExpr(parts) == Only(parts, Range(parts) \ {Expr})

\* The join with pg_attribute finds no column for an expression.
PostgresIndexes(d) ==
    {[i EXCEPT !.cols = NoExpr(@)] : i \in {j \in d.ixs : NoExpr(j.cols) # <<>>}}

\* index_list, and index_info of each of those; of one dropped in between no
\* columns are found.
SqliteIndexes(list, info) ==
    {IF i \in info.ixs THEN i ELSE [i EXCEPT !.cols = <<>>] : i \in list.ixs}

\* duckdb_indexes has those of a CREATE INDEX.  The pattern takes the text up to
\* the first closing parenthesis, which ends the first expression, cut.
DuckdbIndexes(d) ==
    {IF Expr \notin Range(i.cols) THEN i
     ELSE [i EXCEPT !.cols = SubSeq(@, 1, CHOOSE n \in DOMAIN @ :
                                            @[n] = Expr /\ \A m \in 1..(n - 1) : @[m] # Expr)] :
     i \in {j \in d.ixs : ~j.primary}}

\* The index on _id is unique without saying so.
MongoIndexes(d) == {[i EXCEPT !.unique = @ \/ i.primary] : i \in d.ixs}

\* Secondary indexes, global and local.
DynamoIndexes(d) == {[i EXCEPT !.unique = FALSE, !.primary = FALSE] : i \in d.ixs}

PostgresPartitions(d) == NoExpr(d.split)
MongoPartitions(d) == d.split
TrinoPartitions(d) == Only(d.cols, Range(d.split))
AthenaPartitions(d) == d.split
DynamoPartitions(d) == DynamoKey(d)

-----------------------------------------------------------------------------
(* describe_table: r[q] is the definition that query q found               *)

Description(columns, key, sort, fks, indexes, partitions) ==
    [columns |-> columns, key |-> key, sort |-> sort, fks |-> fks, indexes |-> indexes,
     partitions |-> partitions]

MysqlDescription(r) ==
    Description(MysqlColumns(r["columns"]), MysqlKey(r["pk"]), NoName,
                MysqlForeignKeys(r["fks"]), MysqlIndexes(r["indexes"]), <<>>)
PostgresDescription(r) ==
    Description(PostgresColumns(r["columns"]), PostgresKey(r["pk"]), NoName,
                PostgresForeignKeys(r["fks"]), PostgresIndexes(r["indexes"]),
                PostgresPartitions(r["partitions"]))
SqliteDescription(r) ==
    Description(SqliteColumns(r["columns"]), SqliteKey(r["columns"]), NoName,
                SqliteForeignKeys(r["fks"]), SqliteIndexes(r["indexes"], r["index columns"]),
                <<>>)
DuckdbDescription(r) ==
    Description(DuckdbColumns(r["columns"]), DuckdbKey(r["pk"]), NoName,
                DuckdbForeignKeys(r["fks"]), DuckdbIndexes(r["indexes"]), <<>>)
MongoDescription(r) ==
    Description(MongoColumns(r["columns"]), <<>>, NoName, {},
                MongoIndexes(r["indexes"]), MongoPartitions(r["partitions"]))
TrinoDescription(r) ==
    Description(TrinoColumns(r["columns"]), <<>>, NoName, {}, {}, TrinoPartitions(r["columns"]))
AthenaDescription(r) ==
    Description(AthenaColumns(r["columns"]), <<>>, NoName, {}, {},
                AthenaPartitions(r["columns"]))
DynamoDescription(r) ==
    Description(DynamoColumns(r["columns"]), DynamoKey(r["columns"]),
                DynamoSortKey(r["columns"]), {}, DynamoIndexes(r["columns"]),
                DynamoPartitions(r["columns"]))

Describe(type, r) ==
    CASE type = "mysql" -> MysqlDescription(r)
      [] type = "postgres" -> PostgresDescription(r)
      [] type = "sqlite" -> SqliteDescription(r)
      [] type = "duckdb" -> DuckdbDescription(r)
      [] type = "mongodb" -> MongoDescription(r)
      [] type = "trino" -> TrinoDescription(r)
      [] type = "athena" -> AthenaDescription(r)
      [] type = "dynamodb" -> DynamoDescription(r)

-----------------------------------------------------------------------------
(* list_tables: limit and offset, NoName when not given                    *)

\* Mutant: the slice ends at the limit.
Slice_EndsAtLimit(names, limit, offset) ==
    LET start == IF offset = NoName THEN 0 ELSE offset
    IN  SubSeq(names, start + 1, IF limit = NoName \/ limit > Len(names) THEN Len(names) ELSE limit)

Slice(names, limit, offset) ==
    LET start == IF offset = NoName THEN 0 ELSE offset
    IN  SubSeq(names, start + 1,
               IF limit = NoName \/ start + limit > Len(names) THEN Len(names)
               ELSE start + limit)

\* SQLite and DuckDB are asked without ORDER BY.
Unordered == {"sqlite", "duckdb"}

\* The names in their order: so many come before the i-th.
Sorted(names) ==
    [i \in 1..Cardinality(names) |->
        CHOOSE n \in names : Cardinality({m \in names : m < n}) = i - 1]

Listings(type, names) ==
    IF type \in Unordered THEN SetToSeqs(names) ELSE {Sorted(names)}

\* OFFSET without LIMIT is a syntax error in SQLite: there is no page.
Unpaged(type, limit, offset) == type = "sqlite" /\ limit = NoName /\ offset # NoName

Pages(type, names, limit, offset) ==
    IF Unpaged(type, limit, offset) THEN {}
    ELSE {Slice(list, limit, offset) : list \in Listings(type, names)}
=============================================================================

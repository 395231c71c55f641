-------------------------- MODULE MCIntrospection --------------------------
(* An instance of Introspection for TLC: tables of columns 1 to 3, and what *)
(* becomes of them.                                                         *)
EXTENDS Introspection, TLC

Index(name, cols, unique, primary) ==
    [name |-> name, cols |-> cols, unique |-> unique, primary |-> primary]
ForeignKey(name, pairs) == [name |-> name, ref |-> "parent", pairs |-> pairs]

Orders == [exists |-> TRUE, cols |-> <<1, 2, 3>>, notnull |-> {3}, key |-> <<2, 1>>,
           fks |-> {ForeignKey("fk", {<<3, 1>>})}, elsewhere |-> {},
           ixs |-> {Index("PRIMARY", <<2, 1>>, TRUE, TRUE)}, split |-> <<>>,
           validated |-> FALSE]

\* The last column goes, and with it the foreign key; there is an index.
Narrow == [Orders EXCEPT !.cols = <<1, 2>>, !.notnull = {}, !.fks = {},
                         !.ixs = @ \cup {Index("i", <<1>>, FALSE, FALSE)}]

Composite == [Orders EXCEPT !.fks = {ForeignKey("fk", {<<1, 1>>, <<3, 2>>})},
                            !.elsewhere = {ForeignKey("fk", {<<7, 3>>})}]

OnExpression ==
    [Orders EXCEPT !.ixs = {Index("i", <<1, Expr, 2>>, TRUE, FALSE), Index("e", <<Expr>>, FALSE, FALSE)}]

Implicit == [Orders EXCEPT !.fks = {ForeignKey("fk", {<<3, NoName>>})}]

Split == [Orders EXCEPT !.split = <<3, Expr>>]

Relational == {<<Orders, Narrow>>, <<Composite, OnExpression>>, <<NoTable, Orders>>}

Collection == [NoTable EXCEPT !.exists = TRUE, !.cols = <<1, 2>>, !.notnull = {1},
                              !.ixs = {Index("_id_", <<7>>, FALSE, TRUE)},
                              !.split = <<1>>, !.validated = TRUE]

Schemaless == [Collection EXCEPT !.cols = <<>>, !.notnull = {}, !.validated = FALSE]

\* A $jsonSchema need not name properties.
Untold == [Collection EXCEPT !.cols = <<>>, !.notnull = {}]

Dataset == [NoTable EXCEPT !.exists = TRUE, !.cols = <<1, 2, 3>>, !.notnull = {1},
                           !.split = <<3>>]

Items == [NoTable EXCEPT !.exists = TRUE, !.cols = <<1, 2, 3>>, !.key = <<1, 2>>,
                         !.ixs = {Index("gsi", <<3>>, FALSE, FALSE)}]

Case(ty, o, h, n) == [type |-> ty, op |-> o, history |-> h, calls |-> n]

\* What the queries make of each table, altered between them.
EachTable ==
    {Case(ty, "describe", h, 1) : ty \in {"mysql", "duckdb", "postgres", "sqlite"}, h \in Relational}
    \cup {Case("postgres", "describe", <<Split, Orders>>, 1),
          Case("sqlite", "describe", <<Implicit, Narrow>>, 1),
          Case("mongodb", "describe", <<Collection, Schemaless>>, 1),
          Case("mongodb", "describe", <<Untold, Collection>>, 1),
          Case("trino", "describe", <<Dataset, NoTable>>, 1),
          Case("athena", "describe", <<Dataset, NoTable>>, 1)}

\* Two calls of every other operation, three of one of each kind (with one query or
\* none, two, or a pool), and four of one without queries: a call may then ask after
\* a race and answer after the refresh that ends it.
SomeCases ==
    EachTable
    \cup {Case(ty, o, <<NoTable, Orders>>, 2) :
            ty \in Types, o \in {"instances", "schemas", "tables"}}
    \cup {Case("postgres", "tables", <<NoTable, Orders>>, 3),
          Case("sqlite", "instances", <<NoTable, Orders>>, 4),
          Case("mysql", "describe", <<Orders, Narrow>>, 2),
          Case("trino", "instances", <<Dataset, NoTable>>, 3),
          Case("mongodb", "describe", <<Collection, Collection>>, 2),
          Case("dynamodb", "describe", <<Items, NoTable>>, 2)}

Symmetry == Permutations(Threads) \cup Permutations(Servers)
=============================================================================

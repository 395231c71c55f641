----------------------------- MODULE MCRequests -----------------------------
(***************************************************************************)
(* Ten environments, each with two targets or one, and the requests that   *)
(* tell their behaviours apart.                                            *)
(***************************************************************************)
EXTENDS Requests

Target(words, spelling) == [words |-> words, spelling |-> spelling]

Shop == Target(<<"mysql", "shop">>, "mysql-shop")
ShopToo == Target(<<"mysql", "shop">>, "mysql_shop")
Pool2 == Target(<<"mysql", "shop", "pool">>, "mysql-shop-pool")
Pg == Target(<<"pg">>, "pg")
Lake == Target(<<"lake">>, "lake")
Trino == Target(<<"trino">>, "trino")
File == Target(<<"sqlite">>, "sqlite")
Mongo == Target(<<"mongo">>, "mongo")
Dynamo == Target(<<"dynamodb">>, "dynamodb")
Duck == Target(<<"duckdb">>, "duckdb")
Unknown == Target(<<"unknown">>, "unknown")

Var(target, suffix, value) == (target.words \o suffix) :> value

Set(names, variables) == [names |-> names, variables |-> variables]

\* Two targets on one host; two names with one key; a target without its host, next to
\* one that is right; a port that is no number; a name that is there twice.
SomeEnvironments == {
    Set(<<Shop, Pool2>>, Var(Shop, <<"host">>, "db1") @@ Var(Pool2, <<"host">>, "db1")
                           @@ Var(Pool2, <<"port">>, 3307)),
    Set(<<Shop, ShopToo>>, Var(Shop, <<"host">>, "db1")),
    Set(<<Shop, Pg>>, Var(Shop, <<"host">>, "db1") @@ Var(Pg, <<"port">>, 5433)),
    Set(<<Shop>>, Var(Shop, <<"host">>, "db1") @@ Var(Shop, <<"port">>, Junk)),
    Set(<<Duck, Duck>>, Var(Duck, <<"database">>, "file1")),
    Set(<<Lake, Pg>>, Var(Lake, <<"type">>, "athena") @@ Var(Lake, <<"region">>, "eu")
                        @@ Var(Pg, <<"host">>, "db1")),
    Set(<<Trino>>, Var(Trino, <<"host">>, "db1")),
    Set(<<Trino, File>>, Var(Trino, <<"host">>, "db1") @@ Var(File, <<"database">>, "file1")),
    Set(<<Mongo, Dynamo>>, Var(Mongo, <<"host">>, "db1") @@ Var(Dynamo, <<"region">>, "eu")),
    Set(<<Duck, Pg>>, Var(Duck, <<"database">>, "file1") @@ Var(Pg, <<"host">>, "db1"))}

Of(schema, tables) == [schema |-> schema, tables |-> tables]

SomeContent ==
    [t \in Types |->
       CASE t = "sqlite" -> <<Of("main", <<"orders", "users">>)>>
         [] t = "dynamodb" -> <<Of("default", <<"orders">>)>>
         [] t = "mongodb" -> <<Of("sales", <<"orders", "loose">>)>>
         [] OTHER -> <<Of("sales", <<"orders", "users">>), Of("stock", <<"items">>)>>]

Plain == [kind |-> "describe", config |-> NoName, instance |-> NoName, schema |-> NoName,
          table |-> NoName, limit |-> NoName, offset |-> NoName, ai |-> FALSE, save |-> FALSE]

SomeRequests ==
    {[Plain EXCEPT !.kind = "connect", !.config = c] : c \in {Shop, Trino, Unknown}}
    \cup {[Plain EXCEPT !.kind = k, !.config = c] :
            k \in {"instances", "schemas"}, c \in {NoName, Lake, Unknown}}
    \cup {[Plain EXCEPT !.kind = "tables", !.config = c, !.limit = l, !.offset = o] :
            c \in {NoName, File}, l \in {NoName, -1, 0, 1}, o \in {NoName, -1, 0, 1}}
    \cup {[Plain EXCEPT !.kind = "tables", !.instance = i, !.schema = s] :
            i \in {NoName, "db1", "hive"}, s \in {NoName, "sales", "nowhere"}}
    \cup {[Plain EXCEPT !.kind = "schemas", !.instance = "hive"]}
    \cup {[Plain EXCEPT !.config = c, !.instance = i, !.schema = s, !.table = t, !.save = TRUE] :
            c \in {NoName, Shop, Dynamo}, i \in {NoName, "db1", "hive"}, s \in {NoName, "sales"},
            t \in {NoName, "orders"}}
    \cup {[Plain EXCEPT !.ai = TRUE, !.save = TRUE, !.config = c] : c \in {Shop, File}}
    \cup {[Plain EXCEPT !.ai = TRUE, !.save = TRUE, !.schema = "sales"]}
    \cup {[Plain EXCEPT !.kind = "scan", !.config = c, !.instance = i] :
            c \in {NoName, Shop, Unknown}, i \in {NoName, "db1", "eu", "hive", "file1"}}
=============================================================================

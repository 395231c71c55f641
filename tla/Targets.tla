------------------------------ MODULE Targets ------------------------------
(***************************************************************************)
(* How the environment becomes configurations (configurations.py).         *)
(*                                                                         *)
(* A target name is its words and the spelling that joins them: my-db,     *)
(* my_db and MY_DB differ in the spelling only.  The name of a variable is *)
(* a sequence of words, without the DB_TARGET in front of a target's, and  *)
(* all words are written in lower case: _target_key makes them alike.      *)
(***************************************************************************)
EXTENDS Integers, Sequences

CONSTANTS
    NoName,   \* None
    Junk      \* a value that is neither a number nor a JSON object

\* _env: a variable that is empty is not set, and is left out here.
Env(env, variable) == IF variable \in DOMAIN env THEN env[variable] ELSE NoName

\* _target_key
Key(name) == name.words

\* Mutant: the key ends at the first underscore.
Variable_FirstWord(key, suffix) == <<Head(key)>> \o suffix

\* DB_TARGET_<KEY>_<SUFFIX>
Variable(key, suffix) == key \o suffix

-----------------------------------------------------------------------------
(* The type                                                                *)

Prefixes == [mysql |-> "mysql", mariadb |-> "mysql", postgres |-> "postgres",
             postgresql |-> "postgres", pg |-> "postgres", mongodb |-> "mongodb",
             mongo |-> "mongodb", trino |-> "trino", presto |-> "presto",
             athena |-> "athena", dynamodb |-> "dynamodb", sqlite |-> "sqlite",
             duckdb |-> "duckdb"]

Inferred(name) == IF Head(name.words) \in DOMAIN Prefixes THEN Prefixes[Head(name.words)]
                  ELSE NoName

TargetType(name, env) ==
    LET configured == Env(env, Variable(Key(name), <<"type">>))
    IN  IF configured = NoName THEN Inferred(name) ELSE configured

-----------------------------------------------------------------------------
(* The parameters of each type: the suffixes that are tried in turn, the   *)
(* global variable after them, the conversion and the default              *)

Text(suffix, default) == [tries |-> <<suffix>>, global |-> <<>>, kind |-> "text", default |-> default]
Either(suffix, other, default) == [Text(suffix, default) EXCEPT !.tries = <<suffix, other>>]
Required(suffix) == [Text(suffix, NoName) EXCEPT !.kind = "required"]
Number(suffix, default) == [Text(suffix, default) EXCEPT !.kind = "number"]
Json(suffix) == [Text(suffix, "{}") EXCEPT !.kind = "json"]
Flag(suffix) == [Text(suffix, FALSE) EXCEPT !.kind = "flag"]
OrGlobal(suffix) == [Text(suffix, NoName) EXCEPT !.global = suffix]

Credentials == [aws_access_key_id |-> OrGlobal(<<"aws", "access", "key", "id">>),
                aws_secret_access_key |-> OrGlobal(<<"aws", "secret", "access", "key">>),
                aws_session_token |-> OrGlobal(<<"aws", "session", "token">>)]

With(f, g) == [x \in DOMAIN f \cup DOMAIN g |-> IF x \in DOMAIN f THEN f[x] ELSE g[x]]

Server(port, user) == [host |-> Required(<<"host">>), port |-> Number(<<"port">>, port),
                       user |-> Text(<<"user">>, user), password |-> Text(<<"password">>, "")]

Pool == [pool_size |-> Number(<<"pool", "size">>, 5)]

Params(type) ==
    CASE type = "mysql" -> With(Pool, Server(3306, "root"))
      [] type = "postgres" ->
           With([database |-> Either(<<"database">>, <<"db">>, "postgres")],
                With(Pool, Server(5432, "postgres")))
      [] type \in {"trino", "presto"} ->
           With([password |-> Text(<<"password">>, NoName),
                 http_scheme |-> Text(<<"http", "scheme">>, "http"),
                 session_properties |-> Json(<<"session", "properties">>)],
                Server(8080, type))
      [] type = "mongodb" ->
           [host |-> Required(<<"host">>), port |-> Number(<<"port">>, 27017),
            username |-> Either(<<"username">>, <<"user">>, NoName),
            password |-> Text(<<"password">>, NoName),
            authSource |-> Either(<<"auth", "source">>, <<"authsource">>, "admin"),
            tls |-> Flag(<<"tls">>),
            tlsAllowInvalidCertificates |-> Flag(<<"tls", "allow", "invalid">>)]
      [] type = "athena" ->
           With([catalog |-> Text(<<"catalog">>, "AwsDataCatalog"),
                 region |-> Required(<<"region">>),
                 s3_output_location |-> Text(<<"s3", "output">>, "")], Credentials)
      [] type = "dynamodb" ->
           With([region |-> Required(<<"region">>),
                 endpoint_url |-> Text(<<"endpoint", "url">>, NoName)], Credentials)
      [] type = "sqlite" -> [database |-> Required(<<"database">>)]
      [] type = "duckdb" -> [database |-> Text(<<"database">>, ":memory:")]

\* The types that _build_target_config knows.
Supported == {Prefixes[p] : p \in DOMAIN Prefixes}

-----------------------------------------------------------------------------
(* Reading a target                                                        *)

\* The variables that decide a parameter, in order.
Sources(key, param) ==
    [i \in DOMAIN param.tries |-> Variable(key, param.tries[i])]
        \o IF param.global = <<>> THEN <<>> ELSE <<param.global>>

Given(key, param, env) ==
    LET set == {i \in DOMAIN Sources(key, param) : Sources(key, param)[i] \in DOMAIN env}
    IN  IF set = {} THEN NoName
        ELSE env[Sources(key, param)[CHOOSE i \in set : \A j \in set : i <= j]]

\* A parameter that is missing, or does not convert.
Wrong(key, param, env) ==
    \/ param.kind = "required" /\ Given(key, param, env) = NoName
    \/ param.kind \in {"number", "json"} /\ Given(key, param, env) = Junk

Value(key, param, env) ==
    LET given == Given(key, param, env)
    IN  IF given = NoName THEN param.default
        ELSE IF param.kind = "flag" THEN given = "true" ELSE given

\* _build_target_config; NoName when it raises.
Build(name, env) ==
    LET type == TargetType(name, env)
        params == Params(type)
    IN  IF type \notin Supported \/ \E p \in DOMAIN params : Wrong(Key(name), params[p], env)
        THEN NoName
        ELSE [type |-> type,
              params |-> [p \in DOMAIN params |-> Value(Key(name), params[p], env)]]

Duplicated(names) == \E i, j \in DOMAIN names : i < j /\ names[i] = names[j]

\* Mutant: a target that is wrong is left out.
Configurations_Lenient(names, env) ==
    LET good == {names[i] : i \in {k \in DOMAIN names : Build(names[k], env) # NoName}}
    IN  IF Duplicated(names) THEN NoName ELSE [name \in good |-> Build(name, env)]

\* get_target_configurations: one target that is wrong is too many.
Configurations(names, env) ==
    IF Duplicated(names) \/ \E i \in DOMAIN names : Build(names[i], env) = NoName
    THEN NoName
    ELSE [name \in {names[i] : i \in DOMAIN names} |-> Build(name, env)]

\* What a target of this type is read from.
VariablesOf(name, type) ==
    {Variable(Key(name), <<"type">>)}
        \cup UNION {{Variable(Key(name), Params(type)[p].tries[i]) : i \in DOMAIN Params(type)[p].tries} :
                    p \in DOMAIN Params(type)}
=============================================================================

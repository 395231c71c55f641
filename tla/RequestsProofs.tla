--------------------------- MODULE RequestsProofs ---------------------------
(***************************************************************************)
(* Theorems about Requests, for any environments, content and requests.    *)
(***************************************************************************)
EXTENDS Requests, ListLemmas, FiniteSetTheorems

-----------------------------------------------------------------------------
(* What the environment becomes                                            *)

SupportedTypes == {"mysql", "postgres", "mongodb", "trino", "presto", "athena", "dynamodb",
                   "sqlite", "duckdb"}

LEMMA SupportedAre == T!Supported = SupportedTypes
  BY DEF T!Supported, T!Prefixes, SupportedTypes

\* A target that does not raise has a type that is known, and none of its parameters
\* is wrong.
LEMMA Built ==
    ASSUME NEW name, NEW env, T!Build(name, env) # NoName
    PROVE  LET type == T!TargetType(name, env)
               params == T!Params(type)
           IN  /\ type \in SupportedTypes
               /\ T!Build(name, env).type = type
               /\ T!Build(name, env).params =
                    [p \in DOMAIN params |-> T!Value(T!Key(name), params[p], env)]
               /\ \A p \in DOMAIN params : ~T!Wrong(T!Key(name), params[p], env)
<1> DEFINE type == T!TargetType(name, env)
           params == T!Params(type)
           values == [p \in DOMAIN params |-> T!Value(T!Key(name), params[p], env)]
           wrong == \E p \in DOMAIN params : T!Wrong(T!Key(name), params[p], env)
<1>1. T!Build(name, env) = IF type \notin T!Supported \/ wrong THEN NoName
                           ELSE [type |-> type, params |-> values]
  BY DEF T!Build
<1> HIDE DEF values, wrong
<1>2. type \in T!Supported /\ ~wrong /\ T!Build(name, env) = [type |-> type, params |-> values]
  BY <1>1
<1> HIDE DEF type
<1>3. T!Build(name, env).type = type /\ T!Build(name, env).params = values
  BY <1>2
<1> QED
  BY <1>2, <1>3, SupportedAre DEF values, wrong, type

\* A service that starts has all the targets of its environment, each as it is built.
LEMMA StartedWith ==
    ASSUME environment \in Environments, Configs # NoName
    PROVE  /\ DOMAIN Configs = Range(Names)
           /\ \A n \in Range(Names) :
                /\ Configs[n] = T!Build(n, environment.variables)
                /\ T!Build(n, environment.variables) # NoName
<1> DEFINE env == environment.variables
           targets == {Names[i] : i \in DOMAIN Names}
<1>1. Configs = T!Configurations(Names, env)
  BY DEF Configs, Started, Names
<1>2. T!Configurations(Names, env) =
        IF T!Duplicated(Names) \/ (\E i \in DOMAIN Names : T!Build(Names[i], env) = NoName)
        THEN NoName ELSE [name \in targets |-> T!Build(name, env)]
  BY DEF T!Configurations
<1>3. /\ \A i \in DOMAIN Names : T!Build(Names[i], env) # NoName
      /\ Configs = [name \in targets |-> T!Build(name, env)]
  BY <1>1, <1>2
<1>4. targets = Range(Names)
  BY DEF Range
<1> HIDE DEF env
<1>5. \A n \in targets : T!Build(n, env) # NoName
  BY <1>3
<1> HIDE DEF targets
<1> QED
  BY <1>3, <1>4, <1>5 DEF env

\* The types of the connectors, with Presto's.
LEMMA ConfigTypes ==
    ASSUME environment \in Environments, Configs # NoName, NEW n \in Range(Names)
    PROVE  /\ Configs[n].type \in SupportedTypes
           /\ Configs[n].type = T!TargetType(n, environment.variables)
           /\ ConnectorType(Configs[n]) \in Types
           /\ Configs[n].type # "presto" => ConnectorType(Configs[n]) = Configs[n].type
           /\ Configs[n].type = "presto" => ConnectorType(Configs[n]) = "trino"
           /\ DOMAIN Configs[n].params = DOMAIN T!Params(Configs[n].type)
<1> DEFINE env == environment.variables
           type == T!TargetType(n, env)
           params == T!Params(type)
<1>1. Configs[n] = T!Build(n, env) /\ T!Build(n, env) # NoName
  BY StartedWith
<1>2. /\ type \in SupportedTypes
      /\ T!Build(n, env).type = type
      /\ T!Build(n, env).params = [p \in DOMAIN params |-> T!Value(T!Key(n), params[p], env)]
  BY <1>1, Built
<1> HIDE DEF env, type
<1>3. Configs[n].type = type /\ DOMAIN Configs[n].params = DOMAIN params
  BY <1>1, <1>2
<1> QED
  BY <1>2, <1>3 DEF env, type, ConnectorType, SupportedTypes, Types

\* A required parameter that is not wrong has a value.
LEMMA RequiredHaveValues ==
    ASSUME environment \in Environments, Configs # NoName, NEW n \in Range(Names),
           NEW p \in DOMAIN T!Params(Configs[n].type),
           T!Params(Configs[n].type)[p].kind = "required"
    PROVE  Configs[n].params[p] # NoName
<1> DEFINE env == environment.variables
           type == T!TargetType(n, env)
           params == T!Params(type)
           given == T!Given(T!Key(n), params[p], env)
<1>1. Configs[n] = T!Build(n, env) /\ T!Build(n, env) # NoName
  BY StartedWith
<1>2. /\ T!Build(n, env).params = [q \in DOMAIN params |-> T!Value(T!Key(n), params[q], env)]
      /\ \A q \in DOMAIN params : ~T!Wrong(T!Key(n), params[q], env)
  BY <1>1, Built
<1>3. Configs[n].type = type
  BY ConfigTypes
<1> HIDE DEF env, type
<1>4. p \in DOMAIN params /\ params[p].kind = "required"
  BY <1>3
<1>5. given # NoName
  BY <1>2, <1>4 DEF T!Wrong
<1>6. T!Value(T!Key(n), params[p], env) = given
  BY <1>4, <1>5 DEF T!Value
<1> QED
  BY <1>1, <1>2, <1>4, <1>5, <1>6

\* Athena has no host.
LEMMA AthenaHasNoHost == "host" \notin DOMAIN T!Params("athena")
<1> DEFINE own == [catalog |-> T!Text(<<"catalog">>, "AwsDataCatalog"),
                   region |-> T!Required(<<"region">>),
                   s3_output_location |-> T!Text(<<"s3", "output">>, "")]
<1>1. T!Params("athena") = T!With(own, T!Credentials)
  BY DEF T!Params
<1>2. DOMAIN T!Credentials =
        {"aws_access_key_id", "aws_secret_access_key", "aws_session_token"}
  BY DEF T!Credentials
<1>3. DOMAIN own = {"catalog", "region", "s3_output_location"}
  OBVIOUS
<1> HIDE DEF own
<1>4. DOMAIN T!With(own, T!Credentials) = DOMAIN own \cup DOMAIN T!Credentials
  BY DEF T!With
<1> QED
  BY <1>1, <1>2, <1>3, <1>4

\* What a configuration lists is its own first coordinate, but for Trino and Athena.
LEMMA ListsItself ==
    ASSUME environment \in Environments, Configs # NoName, NEW n \in Range(Names),
           NEW c, ConnectorType(Configs[n]) \notin {"trino", "athena"}
    PROVE  ListInstances(Configs[n], c) = {Coordinates(Configs[n]).main}
  BY DEF ListInstances, InstanceNames

\* A configuration matches what it lists, and does not refuse it; for Trino it is the
\* host that matches.
LEMMA ListedIsOwned ==
    ASSUME environment \in Environments, Configs # NoName, NEW n \in Range(Names),
           NEW c, NEW instance \in ListInstances(Configs[n], c)
    PROVE  /\ ConnectorType(Configs[n]) # "trino" => Matches(Configs[n], instance, c)
           /\ \A op : ~Refuses(Configs[n], op, instance)
<1> DEFINE config == Configs[n]
<1>1. CASE ConnectorType(config) = "trino"
  BY <1>1 DEF Refuses, Rejects
<1>2. CASE ConnectorType(config) = "athena"
  <2>1. config.type = "athena" /\ DOMAIN config.params = DOMAIN T!Params("athena")
    <3>1. config.type = "presto" => ConnectorType(config) = "trino"
      BY ConfigTypes
    <3>2. config.type = "athena"
      BY <1>2, <3>1, ConfigTypes
    <3> QED
      BY <3>2, ConfigTypes
  <2>2. Hosts(config) = {}
    BY <2>1, AthenaHasNoHost DEF Hosts
  <2> QED
    BY <1>2, <2>2 DEF Matches, Refuses, Rejects
<1>3. CASE ConnectorType(config) \notin {"trino", "athena"}
  <2>1. instance = Coordinates(config).main
    BY <1>3, ListsItself
  <2>2. Matches(config, instance, c)
    <3>1. CASE "host" \in DOMAIN config.params
      BY <2>1, <3>1 DEF Coordinates, Hosts, Matches
    <3>2. CASE "host" \notin DOMAIN config.params
      BY <3>2 DEF Hosts, Matches
    <3> QED
      BY <3>1, <3>2
  <2> QED
    BY <2>1, <2>2 DEF Refuses, Rejects
<1> QED
  BY <1>1, <1>2, <1>3

-----------------------------------------------------------------------------
(* The variables of different targets                                      *)

\* The suffixes of all parameters of all types.  The last word of each tells how
\* many words it has, so that no suffix ends another.
LastWords == [n \in 1..4 |->
    CASE n = 1 -> {"type", "host", "port", "user", "password", "database", "db", "username",
                   "authsource", "tls", "catalog", "region"}
      [] n = 2 -> {"size", "scheme", "properties", "source", "output", "url"}
      [] n = 3 -> {"invalid", "token"}
      [] n = 4 -> {"id", "key"}]

Words == {"pool", "http", "session", "auth", "allow", "aws", "access", "secret", "endpoint", "s3",
          "type", "host", "port", "user", "password", "database", "db", "username", "authsource",
          "tls", "catalog", "region", "size", "scheme", "properties", "source", "output", "url",
          "invalid", "token", "id", "key"}

KnownSuffix(s) ==
    /\ s \in Seq(Words)
    /\ Len(s) \in 1..4 /\ s[Len(s)] \in LastWords[Len(s)]

LEMMA LastWordsApart ==
    \A m, n \in 1..4 : m # n => LastWords[m] \cap LastWords[n] = {}
<1>1. /\ LastWords[1] = {"type", "host", "port", "user", "password", "database", "db", "username",
                         "authsource", "tls", "catalog", "region"}
      /\ LastWords[2] = {"size", "scheme", "properties", "source", "output", "url"}
      /\ LastWords[3] = {"invalid", "token"}
      /\ LastWords[4] = {"id", "key"}
  BY DEF LastWords
<1>2. \A n \in 1..4 : n = 1 \/ n = 2 \/ n = 3 \/ n = 4
  OBVIOUS
<1> QED
  BY <1>1, <1>2

\* Words of one letter more: a suffix of n words.
LEMMA SuffixOf ==
    /\ \A a \in Words : a \in LastWords[1] => KnownSuffix(<<a>>)
    /\ \A a, b \in Words : b \in LastWords[2] => KnownSuffix(<<a, b>>)
    /\ \A a, b, c \in Words : c \in LastWords[3] => KnownSuffix(<<a, b, c>>)
    /\ \A a, b, c, d \in Words : d \in LastWords[4] => KnownSuffix(<<a, b, c, d>>)
  BY DEF KnownSuffix

\* What a parameter is read from, its global variable apart, are suffixes.
Reads(param) == \A i \in DOMAIN param.tries : KnownSuffix(param.tries[i])
AllRead(params) == \A p \in DOMAIN params : Reads(params[p])

LEMMA ParamsRead ==
    ASSUME NEW s, NEW o, NEW d, KnownSuffix(s)
    PROVE  /\ Reads(T!Text(s, d)) /\ Reads(T!Required(s)) /\ Reads(T!Number(s, d))
           /\ Reads(T!Json(s)) /\ Reads(T!Flag(s)) /\ Reads(T!OrGlobal(s))
           /\ KnownSuffix(o) => Reads(T!Either(s, o, d))
<1>1. \A e : T!Text(s, e).tries = <<s>> /\ T!Text(s, e) = [tries |-> <<s>>, global |-> <<>>,
                                                         kind |-> "text", default |-> e]
  BY DEF T!Text
<1>2. /\ T!Required(s).tries = <<s>> /\ T!Number(s, d).tries = <<s>>
      /\ T!Json(s).tries = <<s>> /\ T!Flag(s).tries = <<s>> /\ T!OrGlobal(s).tries = <<s>>
      /\ T!Either(s, o, d).tries = <<s, o>>
  BY DEF T!Text, T!Required, T!Number, T!Json, T!Flag, T!OrGlobal, T!Either
<1>3. /\ DOMAIN <<s>> = {1} /\ <<s>>[1] = s
      /\ DOMAIN <<s, o>> = {1, 2} /\ <<s, o>>[1] = s /\ <<s, o>>[2] = o
  OBVIOUS
<1> QED
  BY <1>1, <1>2, <1>3 DEF Reads

LEMMA WithReads ==
    ASSUME NEW f, NEW g, AllRead(f), AllRead(g)
    PROVE  AllRead(T!With(f, g))
  BY DEF AllRead, T!With

LEMMA CredentialsRead == AllRead(T!Credentials)
<1>1. /\ Reads(T!OrGlobal(<<"aws", "access", "key", "id">>))
      /\ Reads(T!OrGlobal(<<"aws", "secret", "access", "key">>))
      /\ Reads(T!OrGlobal(<<"aws", "session", "token">>))
  <2>1. /\ "id" \in LastWords[4] /\ "key" \in LastWords[4] /\ "token" \in LastWords[3]
        /\ "aws" \in Words /\ "access" \in Words /\ "key" \in Words /\ "id" \in Words
        /\ "secret" \in Words /\ "session" \in Words /\ "token" \in Words
    BY DEF LastWords, Words
  <2>2. /\ KnownSuffix(<<"aws", "access", "key", "id">>)
        /\ KnownSuffix(<<"aws", "secret", "access", "key">>)
        /\ KnownSuffix(<<"aws", "session", "token">>)
    BY <2>1, SuffixOf
  <2> QED
    BY <2>2, ParamsRead
<1> QED
  BY <1>1 DEF AllRead, T!Credentials

LEMMA SuffixesUsed ==
    /\ \A w \in {"type", "host", "port", "user", "password", "database", "db", "username",
                 "authsource", "tls", "catalog", "region"} : KnownSuffix(<<w>>)
    /\ KnownSuffix(<<"pool", "size">>) /\ KnownSuffix(<<"http", "scheme">>)
    /\ KnownSuffix(<<"session", "properties">>) /\ KnownSuffix(<<"auth", "source">>)
    /\ KnownSuffix(<<"s3", "output">>) /\ KnownSuffix(<<"endpoint", "url">>)
    /\ KnownSuffix(<<"tls", "allow", "invalid">>)
<1>1. \A w \in {"type", "host", "port", "user", "password", "database", "db", "username",
                "authsource", "tls", "catalog", "region"} : w \in Words /\ w \in LastWords[1]
  BY DEF LastWords, Words
<1>2. /\ \A w \in {"pool", "http", "session", "auth", "s3", "endpoint", "tls", "allow"} : w \in Words
      /\ \A w \in {"size", "scheme", "properties", "source", "output", "url"} :
            w \in Words /\ w \in LastWords[2]
      /\ "invalid" \in Words /\ "invalid" \in LastWords[3]
  BY DEF LastWords, Words
<1>3. KnownSuffix(<<"tls", "allow", "invalid">>)
  BY <1>2, SuffixOf
<1>4. \A a \in {"pool", "http", "session", "auth", "s3", "endpoint"} :
      \A b \in {"size", "scheme", "properties", "source", "output", "url"} : KnownSuffix(<<a, b>>)
  BY <1>2, SuffixOf
<1> QED
  BY <1>1, <1>3, <1>4, SuffixOf

LEMMA TypesRead == \A type \in SupportedTypes : AllRead(T!Params(type))
<1>1. \A port, user : AllRead(T!Server(port, user))
  <2> TAKE port, user
  <2> DEFINE password == T!Text(<<"password">>, "")
  <2>1. /\ Reads(T!Required(<<"host">>)) /\ Reads(T!Number(<<"port">>, port))
        /\ Reads(T!Text(<<"user">>, user)) /\ Reads(password)
    BY SuffixesUsed, ParamsRead
  <2>2. T!Server(port, user) =
          [host |-> T!Required(<<"host">>), port |-> T!Number(<<"port">>, port),
           user |-> T!Text(<<"user">>, user), password |-> password]
    BY DEF T!Server
  <2> HIDE DEF password
  <2> QED
    BY <2>1, <2>2 DEF AllRead
<1>2. AllRead(T!Pool)
  <2>1. Reads(T!Number(<<"pool", "size">>, 5))
    BY SuffixesUsed, ParamsRead
  <2> QED
    BY <2>1 DEF T!Pool, AllRead
<1>3. AllRead(T!Params("mysql"))
  BY <1>1, <1>2, WithReads DEF T!Params
<1>4. AllRead(T!Params("postgres"))
  <2> DEFINE own == [database |-> T!Either(<<"database">>, <<"db">>, "postgres")]
  <2>1. Reads(T!Either(<<"database">>, <<"db">>, "postgres"))
    BY SuffixesUsed, ParamsRead
  <2>2. AllRead(own)
    BY <2>1 DEF AllRead
  <2> HIDE DEF own
  <2>3. AllRead(T!With(own, T!With(T!Pool, T!Server(5432, "postgres"))))
    BY <1>1, <1>2, <2>2, WithReads
  <2> QED
    BY <2>3 DEF T!Params, own
<1>5. ASSUME NEW type \in {"trino", "presto"} PROVE AllRead(T!Params(type))
  <2> DEFINE own == [password |-> T!Text(<<"password">>, NoName),
                     http_scheme |-> T!Text(<<"http", "scheme">>, "http"),
                     session_properties |-> T!Json(<<"session", "properties">>)]
  <2>1. /\ Reads(T!Text(<<"password">>, NoName)) /\ Reads(T!Text(<<"http", "scheme">>, "http"))
        /\ Reads(T!Json(<<"session", "properties">>))
    BY SuffixesUsed, ParamsRead
  <2>2. AllRead(own)
    BY <2>1 DEF AllRead
  <2>3. T!Params(type) = T!With(own, T!Server(8080, type))
    <3>1. CASE type = "trino"
      BY <3>1 DEF T!Params
    <3>2. CASE type = "presto"
      BY <3>2 DEF T!Params
    <3> QED
      BY <3>1, <3>2
  <2> HIDE DEF own
  <2> QED
    BY <1>1, <2>2, <2>3, WithReads
<1>6. AllRead(T!Params("mongodb"))
  <2> DEFINE own == [host |-> T!Required(<<"host">>), port |-> T!Number(<<"port">>, 27017),
                     username |-> T!Either(<<"username">>, <<"user">>, NoName),
                     password |-> T!Text(<<"password">>, NoName),
                     authSource |-> T!Either(<<"auth", "source">>, <<"authsource">>, "admin"),
                     tls |-> T!Flag(<<"tls">>),
                     tlsAllowInvalidCertificates |-> T!Flag(<<"tls", "allow", "invalid">>)]
  <2>1. /\ Reads(T!Required(<<"host">>)) /\ Reads(T!Number(<<"port">>, 27017))
        /\ Reads(T!Either(<<"username">>, <<"user">>, NoName))
        /\ Reads(T!Text(<<"password">>, NoName))
        /\ Reads(T!Either(<<"auth", "source">>, <<"authsource">>, "admin"))
        /\ Reads(T!Flag(<<"tls">>)) /\ Reads(T!Flag(<<"tls", "allow", "invalid">>))
    <3>1. /\ \A w \in {"host", "port", "username", "user", "password", "authsource", "tls"} :
                 KnownSuffix(<<w>>)
          /\ KnownSuffix(<<"auth", "source">>) /\ KnownSuffix(<<"tls", "allow", "invalid">>)
      BY SuffixesUsed
    <3>2. Reads(T!Required(<<"host">>)) /\ Reads(T!Number(<<"port">>, 27017))
      BY <3>1, ParamsRead
    <3>3. Reads(T!Either(<<"username">>, <<"user">>, NoName))
      BY <3>1, ParamsRead
    <3>4. Reads(T!Text(<<"password">>, NoName))
      BY <3>1, ParamsRead
    <3>5. Reads(T!Either(<<"auth", "source">>, <<"authsource">>, "admin"))
      BY <3>1, ParamsRead
    <3>6. Reads(T!Flag(<<"tls">>)) /\ Reads(T!Flag(<<"tls", "allow", "invalid">>))
      BY <3>1, ParamsRead
    <3> QED
      BY <3>2, <3>3, <3>4, <3>5, <3>6
  <2>2. AllRead(own)
    BY <2>1 DEF AllRead
  <2>3. T!Params("mongodb") = own
    BY DEF T!Params
  <2> QED
    BY <2>2, <2>3
<1>7. AllRead(T!Params("athena"))
  <2> DEFINE output == T!Text(<<"s3", "output">>, "")
             own == [catalog |-> T!Text(<<"catalog">>, "AwsDataCatalog"),
                     region |-> T!Required(<<"region">>), s3_output_location |-> output]
  <2>1. /\ Reads(T!Text(<<"catalog">>, "AwsDataCatalog")) /\ Reads(T!Required(<<"region">>))
        /\ Reads(output)
    BY SuffixesUsed, ParamsRead
  <2>2. T!Params("athena") = T!With(own, T!Credentials)
    BY DEF T!Params
  <2> HIDE DEF output
  <2>3. AllRead(own)
    BY <2>1 DEF AllRead
  <2> HIDE DEF own
  <2> QED
    BY <2>2, <2>3, CredentialsRead, WithReads
<1>8. AllRead(T!Params("dynamodb"))
  <2> DEFINE own == [region |-> T!Required(<<"region">>),
                     endpoint_url |-> T!Text(<<"endpoint", "url">>, NoName)]
  <2>1. Reads(T!Required(<<"region">>)) /\ Reads(T!Text(<<"endpoint", "url">>, NoName))
    BY SuffixesUsed, ParamsRead
  <2>2. AllRead(own)
    BY <2>1 DEF AllRead
  <2>3. T!Params("dynamodb") = T!With(own, T!Credentials)
    BY DEF T!Params
  <2> HIDE DEF own
  <2> QED
    BY <2>2, <2>3, CredentialsRead, WithReads
<1>9. AllRead(T!Params("sqlite")) /\ AllRead(T!Params("duckdb"))
  <2>1. Reads(T!Required(<<"database">>)) /\ Reads(T!Text(<<"database">>, ":memory:"))
    BY SuffixesUsed, ParamsRead
  <2>2. /\ T!Params("sqlite") = [database |-> T!Required(<<"database">>)]
        /\ T!Params("duckdb") = [database |-> T!Text(<<"database">>, ":memory:")]
    BY DEF T!Params
  <2> QED
    BY <2>1, <2>2 DEF AllRead
<1> QED
  BY <1>3, <1>4, <1>5, <1>6, <1>7, <1>8, <1>9 DEF SupportedTypes

\* The last element of a sequence is that of its second part.
LEMMA LastOfJoined ==
    ASSUME NEW S, NEW u \in Seq(S), NEW v \in Seq(S), Len(v) >= 1
    PROVE  (u \o v)[Len(u) + Len(v)] = v[Len(v)]
<1>1. Len(u) \in Nat /\ Len(v) \in Nat
  OBVIOUS
<1>2. \A i \in 1..(Len(u) + Len(v)) : (u \o v)[i] = IF i <= Len(u) THEN u[i] ELSE v[i - Len(u)]
  OBVIOUS
<1>3. Len(u) + Len(v) \in 1..(Len(u) + Len(v)) /\ ~(Len(u) + Len(v) <= Len(u))
      /\ (Len(u) + Len(v)) - Len(u) = Len(v)
  BY <1>1
<1> QED
  BY <1>2, <1>3

\* The name of a variable ends with the last word of its suffix; two variables that are
\* one have suffixes of one length, and so the same key before them.
LEMMA KeyOfVariable ==
    ASSUME NEW k \in Seq(STRING), NEW l \in Seq(STRING), NEW s, NEW t,
           KnownSuffix(s), KnownSuffix(t), T!Variable(k, s) = T!Variable(l, t)
    PROVE  k = l
<1> DEFINE All == STRING \cup Words
<1>1. k \in Seq(All) /\ l \in Seq(All) /\ s \in Seq(All) /\ t \in Seq(All)
  BY DEF KnownSuffix
<1> HIDE DEF All
<1>2. k \o s = l \o t
  BY DEF T!Variable
<1>3. /\ Len(k) \in Nat /\ Len(l) \in Nat /\ Len(s) \in 1..4 /\ Len(t) \in 1..4
  BY <1>1 DEF KnownSuffix
<1>4. /\ Len(k \o s) = Len(k) + Len(s) /\ Len(l \o t) = Len(l) + Len(t)
  BY <1>1
<1>5. (k \o s)[Len(k) + Len(s)] = s[Len(s)] /\ (l \o t)[Len(l) + Len(t)] = t[Len(t)]
  <2>1. \A n \in 1..4 : n \in Nat /\ n >= 1
    OBVIOUS
  <2> QED
    BY <1>1, <1>3, <2>1, LastOfJoined
<1>6. s[Len(s)] = t[Len(t)]
  BY <1>2, <1>4, <1>5
<1>7. Len(s) = Len(t)
  BY <1>3, <1>6, LastWordsApart DEF KnownSuffix
<1>8. Len(k) = Len(l)
  BY <1>2, <1>3, <1>4, <1>7
<1>9. \A i \in 1..Len(k) : (k \o s)[i] = k[i] /\ (l \o t)[i] = l[i]
  BY <1>1, <1>3, <1>8
<1>10. \A i \in 1..Len(k) : k[i] = l[i]
  BY <1>2, <1>9
<1>11. k = [i \in 1..Len(k) |-> k[i]] /\ l = [i \in 1..Len(l) |-> l[i]]
  BY <1>1
<1> QED
  BY <1>8, <1>10, <1>11

\* A variable of a target is its key and a suffix.
LEMMA VariableHasSuffix ==
    ASSUME NEW name, NEW type \in SupportedTypes, NEW v \in T!VariablesOf(name, type)
    PROVE  \E s : KnownSuffix(s) /\ v = T!Variable(T!Key(name), s)
<1>1. CASE v = T!Variable(T!Key(name), <<"type">>)
  BY <1>1, SuffixesUsed
<1>2. CASE v # T!Variable(T!Key(name), <<"type">>)
  <2>1. PICK p \in DOMAIN T!Params(type) :
          \E i \in DOMAIN T!Params(type)[p].tries :
             v = T!Variable(T!Key(name), T!Params(type)[p].tries[i])
    BY <1>2 DEF T!VariablesOf
  <2>2. Reads(T!Params(type)[p])
    BY TypesRead DEF AllRead
  <2> QED
    BY <2>1, <2>2 DEF Reads
<1> QED
  BY <1>1, <1>2

\* Targets with different keys have no variable in common, whatever their types.
LEMMA VariablesApart ==
    ASSUME environment \in Environments PROVE TargetsApart
<1> SUFFICES ASSUME NEW i \in DOMAIN Names, NEW j \in DOMAIN Names,
                    T!Key(Names[i]) # T!Key(Names[j]),
                    NEW s \in T!Supported, NEW t \in T!Supported,
                    NEW v \in T!VariablesOf(Names[i], s) \cap T!VariablesOf(Names[j], t)
             PROVE  FALSE
  BY DEF TargetsApart, ReadBy
<1> DEFINE Targets == [words : Seq(STRING), spelling : STRING]
<1>1. Names \in Seq(Targets)
  BY RequestsAssumption DEF Names
<1>2. T!Key(Names[i]) \in Seq(STRING) /\ T!Key(Names[j]) \in Seq(STRING)
  <2> HIDE DEF Targets
  <2>1. Names[i] \in Targets /\ Names[j] \in Targets
    BY <1>1
  <2> USE DEF Targets
  <2> QED
    BY <2>1 DEF T!Key
<1>3. s \in SupportedTypes /\ t \in SupportedTypes
  BY SupportedAre
<1>4. PICK a : KnownSuffix(a) /\ v = T!Variable(T!Key(Names[i]), a)
  BY <1>3, VariableHasSuffix
<1>5. PICK b : KnownSuffix(b) /\ v = T!Variable(T!Key(Names[j]), b)
  BY <1>3, VariableHasSuffix
<1> QED
  BY <1>2, <1>4, <1>5, KeyOfVariable

-----------------------------------------------------------------------------
(* Lists                                                                   *)

IsList(s) == s \in Seq(Range(s))

LEMMA ListOf ==
    ASSUME NEW S, NEW s \in Seq(S)
    PROVE  IsList(s) /\ Range(s) \subseteq S
<1>1. DOMAIN s = 1..Len(s) /\ Len(s) \in Nat /\ s = [i \in DOMAIN s |-> s[i]]
      /\ \A i \in DOMAIN s : s[i] \in S
  OBVIOUS
<1> QED
  BY <1>1 DEF IsList, Range

\* What is in the concatenation of two lists was in one of them.
LEMMA ListFacts ==
    ASSUME NEW s, IsList(s)
    PROVE  /\ Len(s) \in Nat /\ DOMAIN s = 1..Len(s)
           /\ \A i \in DOMAIN s : s[i] \in Range(s)
           /\ s # <<>> => /\ IsList(Tail(s)) /\ Head(s) \in Range(s)
                          /\ Range(Tail(s)) \subseteq Range(s)
<1> DEFINE S == Range(s)
<1>1. s \in Seq(S)
  BY DEF IsList
<1>2. \A i \in DOMAIN s : s[i] \in S
  BY DEF Range
<1> HIDE DEF S
<1>3. Len(s) \in Nat /\ DOMAIN s = 1..Len(s)
  BY <1>1
<1>4. ASSUME s # <<>>
      PROVE  /\ IsList(Tail(s)) /\ Head(s) \in S /\ Range(Tail(s)) \subseteq S
  <2>1. Tail(s) \in Seq(S) /\ Head(s) \in S
    BY <1>1, <1>4
  <2> QED
    BY <2>1, ListOf
<1> QED
  BY <1>2, <1>3, <1>4 DEF S

\* A function on the domain of a list is a list.
LEMMA LikeAList ==
    ASSUME NEW s, IsList(s), NEW g, g = [i \in DOMAIN s |-> g[i]]
    PROVE  IsList(g)
<1>1. Len(s) \in Nat /\ DOMAIN s = 1..Len(s)
  BY ListFacts
<1>2. \A i \in 1..Len(s) : g[i] \in Range(g)
  BY <1>1 DEF Range
<1> QED
  BY <1>1, <1>2 DEF IsList

\* Every entry of two lists put together is an entry of one of them.
LEMMA JoinedLists ==
    ASSUME NEW s, NEW t, IsList(s), IsList(t)
    PROVE  /\ IsList(Joined(s, t))
           /\ \A i \in DOMAIN Joined(s, t) : \/ \E j \in DOMAIN s : Joined(s, t)[i] = s[j]
                                            \/ \E j \in DOMAIN t : Joined(s, t)[i] = t[j]
<1> DEFINE S == Range(s) \cup Range(t)
<1>1. s \in Seq(S) /\ t \in Seq(S)
  <2>1. \A X, Y, q : q \in Seq(X) /\ X \subseteq Y => q \in Seq(Y)
    OBVIOUS
  <2> QED
    BY <2>1 DEF IsList
<1> HIDE DEF S
<1>2. s \o t \in Seq(S)
  BY <1>1
<1>3. IsList(s \o t)
  BY <1>2, ListOf
<1>4. ASSUME NEW i \in DOMAIN (s \o t)
      PROVE  \/ \E j \in DOMAIN s : (s \o t)[i] = s[j]
             \/ \E j \in DOMAIN t : (s \o t)[i] = t[j]
  <2>1. /\ Len(s) \in Nat /\ Len(t) \in Nat /\ i \in 1..(Len(s) + Len(t))
        /\ DOMAIN s = 1..Len(s) /\ DOMAIN t = 1..Len(t)
        /\ (s \o t)[i] = IF i <= Len(s) THEN s[i] ELSE t[i - Len(s)]
    BY <1>1
  <2>2. CASE i <= Len(s)
    BY <2>1, <2>2
  <2>3. CASE ~(i <= Len(s))
    <3>1. i - Len(s) \in 1..Len(t)
      BY <2>1, <2>3
    <3> QED
      BY <2>1, <2>3, <3>1
  <2> QED
    BY <2>2, <2>3
<1> QED
  BY <1>3, <1>4 DEF Joined

LEMMA AppendedList ==
    ASSUME NEW s, NEW x, IsList(s)
    PROVE  /\ IsList(Append(s, x))
           /\ \A i \in DOMAIN Append(s, x) :
                 Append(s, x)[i] = x \/ \E j \in DOMAIN s : Append(s, x)[i] = s[j]
<1> DEFINE S == Range(s) \cup {x}
<1>1. s \in Seq(S) /\ x \in S
  <2>1. \A X, Y, q : q \in Seq(X) /\ X \subseteq Y => q \in Seq(Y)
    OBVIOUS
  <2> QED
    BY <2>1 DEF IsList
<1> HIDE DEF S
<1>2. /\ Append(s, x) \in Seq(S) /\ Len(s) \in Nat /\ DOMAIN s = 1..Len(s)
      /\ DOMAIN Append(s, x) = 1..(Len(s) + 1)
      /\ \A i \in 1..(Len(s) + 1) : Append(s, x)[i] = IF i = Len(s) + 1 THEN x ELSE s[i]
  BY <1>1
<1>3. IsList(Append(s, x))
  BY <1>2, ListOf
<1>4. \A i \in 1..(Len(s) + 1) : i # Len(s) + 1 => i \in 1..Len(s)
  BY <1>2
<1> QED
  BY <1>2, <1>3, <1>4

LEMMA EmptyList == IsList(<<>>) /\ Range(<<>>) = {} /\ DOMAIN <<>> = {}
  BY DEF IsList, Range

LEMMA OneOrAll ==
    ASSUME NEW name, NEW all, IsList(all)
    PROVE  /\ IsList(Chosen(name, all))
           /\ \A x \in Range(Chosen(name, all)) : (name # NoName /\ x = name) \/ x \in Range(all)
           /\ name = NoName => Chosen(name, all) = all
<1>1. \A x : <<x>> \in Seq({x}) /\ Range(<<x>>) = {x}
  BY DEF Range
<1> QED
  BY <1>1, ListOf DEF Chosen

\* A finite set in some order.
LEMMA SetInOrder ==
    ASSUME NEW S, IsFiniteSet(S)
    PROVE  IsList(InOrder(S)) /\ Range(InOrder(S)) \subseteq S
<1> DEFINE D == 1..Cardinality(S)
<1>1. PICK f : f \in Bijection(D, S)
  BY FS_CardinalityType DEF ExistsBijection
<1>2. f \in [D -> S] /\ \A i, j \in D : i # j => f[i] # f[j]
  BY <1>1 DEF Bijection, Injection, IsInjective
<1>3. f \in SetToSeqs(S)
  BY <1>2 DEF SetToSeqs
<1>4. InOrder(S) \in SetToSeqs(S)
  BY <1>3 DEF InOrder
<1>5. InOrder(S) \in [D -> S] /\ Cardinality(S) \in Nat
  BY <1>4, FS_CardinalityType DEF SetToSeqs
<1>6. InOrder(S) \in Seq(S)
  BY <1>5
<1> QED
  BY <1>6, ListOf

-----------------------------------------------------------------------------
(* Responses                                                               *)

\* What does not change, and what a response says of the way to it.
Control ==
    /\ environment \in Environments /\ request \in Asked
    /\ retries \in Retries /\ installed \in BOOLEAN
    /\ pc \in {"unstarted", "received", "walk", "document", "append", "save",
               "resolve", "enqueue", "done"}
    /\ pc # "unstarted" => Configs # NoName
    /\ pc \in {"walk", "document", "append", "save"} => request.kind # "scan"
    /\ pc \in {"resolve", "enqueue"} => request.kind = "scan"
    /\ status \in {0, 200, 202, 400, 500, 503}
    /\ status # 0 <=> pc = "done"
    /\ faults \in 0..MaxFaults
    /\ status = 503 => request.kind = "scan" /\ faults > 0
    /\ status = 202 => request.kind = "scan"
    /\ job # NoName => status = 202
    /\ work.state \in {"waiting", "taken", "failed"}
    /\ work = [state |-> work.state, configs |-> work.configs]

\* A step to the next state of the walk or the scan, to an answer, or to an exception.
GoesOn ==
    /\ \/ pc' \in {"walk", "document", "append", "save"} /\ request.kind # "scan"
       \/ pc' \in {"resolve", "enqueue"} /\ request.kind = "scan"
    /\ UNCHANGED <<status, job>>
    /\ faults' \in 0..MaxFaults /\ faults <= faults'

Serves ==
    /\ pc' = "done" /\ UNCHANGED faults
    /\ (status' = 200 /\ UNCHANGED job) \/ (status' = 202 /\ request.kind = "scan")

Ends ==
    /\ pc' = "done" /\ status' \in {400, 500, 503} /\ UNCHANGED job
    /\ faults' \in 0..MaxFaults /\ faults <= faults'
    /\ status' = 503 => request.kind = "scan" /\ faults' > 0

LEMMA RaiseEnds ==
    ASSUME faults \in 0..MaxFaults, request.kind \in Kinds, UNCHANGED job
    PROVE  /\ Fails => Ends /\ faults' > 0 /\ status' # 400
           /\ Refused => Ends /\ status' = 400
           /\ QueryRaises => Ends /\ status' = 500
           /\ \A e : faults < MaxFaults /\ faults' = faults + 1 /\ e # "ConnectionError"
                     /\ e # "ValueError" /\ Raise(e) => Ends /\ faults' > 0 /\ status' # 400
<1> USE RequestsAssumption
<1>1. ASSUME NEW e, Raise(e)
      PROVE  /\ pc' = "done"
             /\ status' \in {400, 500, 503}
             /\ status' = 400 <=> e = "ValueError"
             /\ status' = 503 => request.kind = "scan" /\ e = "ConnectionError"
  BY <1>1 DEF Raise, Status
<1>2. faults \in Nat /\ MaxFaults \in Nat
  OBVIOUS
<1>3. ASSUME Fails PROVE Ends /\ faults' > 0 /\ status' # 400
  <2>1. faults < MaxFaults /\ faults' = faults + 1
    BY <1>3 DEF Fails
  <2>2. PICK e \in {"ConnectionError", "RuntimeError"} : Raise(e)
    BY <1>3 DEF Fails
  <2>3. faults' \in 0..MaxFaults /\ faults <= faults' /\ faults' > 0
    BY <1>2, <2>1
  <2> QED
    BY <1>1, <2>2, <2>3 DEF Ends
<1>4. Refused => Ends /\ status' = 400
  BY <1>1, <1>2 DEF Refused, Ends
<1>5. QueryRaises => Ends /\ status' = 500
  BY <1>1, <1>2 DEF QueryRaises, Ends
<1>6. ASSUME NEW e, faults < MaxFaults, faults' = faults + 1, e # "ConnectionError",
             e # "ValueError", Raise(e)
      PROVE  Ends /\ faults' > 0 /\ status' # 400
  <2>1. faults' \in 0..MaxFaults /\ faults <= faults' /\ faults' > 0
    BY <1>2, <1>6
  <2> QED
    BY <1>1, <1>6, <2>1 DEF Ends
<1> QED
  BY <1>3, <1>4, <1>5, <1>6

LEMMA ControlStays ==
    ASSUME Control, UNCHANGED setting, UNCHANGED work, pc \notin {"unstarted", "done"},
           GoesOn \/ Serves \/ Ends
    PROVE  Control'
<1>1. Configs' = Configs
  BY DEF setting, Configs, Started, Names
<1>2. UNCHANGED <<environment, request, retries, installed>>
  BY DEF setting
<1>3. status = 0 /\ job = NoName
  BY DEF Control
<1>4. CASE GoesOn
  BY <1>1, <1>2, <1>3, <1>4 DEF Control, GoesOn
<1>5. CASE Serves
  BY <1>1, <1>2, <1>3, <1>5 DEF Control, Serves
<1>6. CASE Ends
  BY <1>1, <1>2, <1>3, <1>6 DEF Control, Ends
<1> QED
  BY <1>4, <1>5, <1>6

-----------------------------------------------------------------------------
(* The call to the model                                                   *)

IsCall(c) ==
    /\ c = [table |-> c.table, attempts |-> c.attempts, over |-> c.over, doc |-> c.doc,
            error |-> c.error, raised |-> c.raised]
    /\ c.attempts \in 0..retries
    /\ c.over \in BOOLEAN /\ c.error \in BOOLEAN /\ c.raised = FALSE
    /\ c.error = TRUE => c.over = TRUE
    /\ c.doc = IF c.over = TRUE /\ c.error = FALSE THEN c.table ELSE NoName

LEMMA BegunIsCall ==
    ASSUME retries \in Nat, NEW t
    PROVE  IsCall(AI!Begun(t)) /\ AI!Begun(t).table = t /\ AI!Begun(t).over = FALSE
  BY DEF IsCall, AI!Begun

\* A failed call, with what attempts it made.
LEMMA FailedIsCall ==
    ASSUME NEW c, IsCall(c), c.over = FALSE
    PROVE  /\ IsCall(AI!Failed(c)) /\ AI!Failed(c).table = c.table
           /\ AI!Failed(c).over = TRUE
<1> DEFINE f == AI!Failed(c)
<1>1. f = [c EXCEPT !.over = TRUE, !.error = TRUE]
  BY DEF AI!Failed
<1>2. c.doc = NoName /\ c.raised = FALSE /\ c.attempts \in 0..retries
  BY DEF IsCall
<1>3. c = [table |-> c.table, attempts |-> c.attempts, over |-> c.over, doc |-> c.doc,
           error |-> c.error, raised |-> c.raised]
  BY DEF IsCall
<1> HIDE DEF f
<1>4. f = [table |-> c.table, attempts |-> c.attempts, over |-> TRUE, doc |-> c.doc,
           error |-> TRUE, raised |-> c.raised]
  BY <1>1, <1>3
<1>5. /\ f.table = c.table /\ f.attempts = c.attempts /\ f.over = TRUE /\ f.doc = NoName
      /\ f.error = TRUE /\ f.raised = FALSE
  BY <1>2, <1>4
<1>6. IsCall(f)
  BY <1>2, <1>4, <1>5 DEF IsCall
<1> QED
  BY <1>5, <1>6 DEF f

\* Whatever becomes of an attempt, the next call has the document of its table or an
\* error when it is over, and is no exception.
LEMMA OutcomeIsCall ==
    ASSUME retries \in Nat, IsCall(call), call.over = FALSE,
           NEW next \in AI!Outcomes(call, retries, installed)
    PROVE  IsCall(next) /\ next.table = call.table
<1>1. IsCall(AI!Failed(call)) /\ AI!Failed(call).table = call.table
  BY FailedIsCall
<1>2. CASE next = AI!Failed(call)
  BY <1>1, <1>2
<1>3. CASE next # AI!Failed(call)
  <2>1. installed /\ call.attempts # retries
    BY <1>3 DEF AI!Outcomes, AI!GiveUp
  <2> DEFINE tried == [call EXCEPT !.attempts = call.attempts + 1]
  <2>2. next = tried \/ \E c \in AI!Contents : next = AI!Answered(tried, c)
    BY <2>1 DEF AI!Outcomes
  <2>3. IsCall(tried) /\ tried.table = call.table /\ tried.over = FALSE
    BY <2>1 DEF IsCall
  <2> HIDE DEF tried
  <2>4. ASSUME NEW c, next = AI!Answered(tried, c) PROVE IsCall(next) /\ next.table = call.table
    <3>1. CASE c = "object"
      <4>1. next = [tried EXCEPT !.over = TRUE, !.doc = tried.table]
        BY <2>4, <3>1 DEF AI!Answered
      <4> QED
        BY <2>3, <4>1 DEF IsCall
    <3>2. CASE c # "object"
      BY <2>3, <2>4, <3>2, FailedIsCall DEF AI!Answered
    <3> QED
      BY <3>1, <3>2
  <2> QED
    BY <2>2, <2>3, <2>4
<1> QED
  BY <1>2, <1>3

CallOK ==
    /\ IsCall(call)
    /\ pc = "document" => call.over = FALSE /\ request.ai
    /\ pc = "append" /\ request.ai => call.over = TRUE
    /\ pc \in {"document", "append"} => call.table = at.table

\* An answered table has its document or an error.
Documented(x) == x.doc = IF x.error = TRUE THEN NoName ELSE x.table

AnswersOK ==
    /\ IsList(answer)
    /\ request.ai => \A i \in DOMAIN answer : answer[i].error \in BOOLEAN /\ Documented(answer[i])

-----------------------------------------------------------------------------
(* The inductive invariant                                                 *)

\* The loops inside of that of the configurations, when they are entered.
Entered ==
    /\ todo.instances # <<>> => /\ at.config \in Range(Chosen(request.config, Names))
                                /\ request.kind \notin {"connect", "instances"}
    /\ todo.schemas # <<>> =>
          at.config \in Walked /\ request.kind \notin {"connect", "instances", "schemas"}
    /\ todo.tables # <<>> =>
          at.config \in Walked /\ request.kind \notin {"connect", "instances", "schemas", "tables"}

\* The loops and where they are.
Loops ==
    /\ todo = [configs |-> todo.configs, instances |-> todo.instances,
               schemas |-> todo.schemas, tables |-> todo.tables]
    /\ IsList(todo.configs) /\ IsList(todo.instances)
    /\ IsList(todo.schemas) /\ IsList(todo.tables)
    /\ at = [config |-> at.config, instance |-> at.instance, schema |-> at.schema,
             table |-> at.table]
    /\ Range(todo.configs) \subseteq Range(Chosen(request.config, Names))
    /\ pc # "done" => Entered
    /\ pc = "resolve" => request.config = NoName
    /\ IsList(matching)
    /\ DOMAIN catalogs = Range(Names) /\ \A n \in Range(Names) : IsFiniteSet(catalogs[n])

\* What is answered, and what is about to be, is of a configuration that owns it.
Owned(x) ==
    \/ ConnectorType(Configs[x.config]) = "dynamodb" /\ request.table # NoName
    \/ x.instance \in ListInstances(Configs[x.config], catalogs[x.config])

Owners ==
    /\ \A i \in DOMAIN answer : Owned(answer[i])
    /\ pc \in {"document", "append"} => Owned(at)
    /\ pc # "done" /\ todo.tables # <<>> /\ request.table = NoName => Owned(at)
    /\ request.kind = "scan" => answer = <<>>

\* A configuration that is asked for and is not there.
Misnamed == request.config # NoName /\ request.config \notin DOMAIN Configs

Here(instance) == instance \in ListInstances(Config, catalogs[at.config])

\* If nothing is missing, the walk is at what its connectors and schemas list.
AtListed ==
    /\ todo.instances # <<>> /\ at.config \in DOMAIN Configs =>
          \A i \in Range(todo.instances) : Here(i)
    /\ todo.schemas # <<>> =>
          /\ Here(at.instance)
          /\ Range(todo.schemas) \subseteq Range(Schemas)
          /\ request.schema # NoName => Range(todo.schemas) \subseteq {request.schema}
    /\ todo.tables # <<>> =>
          /\ Here(at.instance)
          /\ at.schema \in Range(Schemas)
          /\ Range(todo.tables) \subseteq Range(Tables(at.schema))

NobodyMatches ==
    \A n \in DOMAIN Configs : ~Matches(Configs[n], request.instance, catalogs[n])

\* The configurations that resolve has passed without a match do not own the instance.
Passed ==
    \A n \in Range(Names) :
        \/ n \in Range(todo.configs) \/ n \in Range(matching)
        \/ ~Matches(Configs[n], request.instance, catalogs[n])

\* The reasons of a 400, and those of a 500 without a failed call.
Refusable ==
    IF request.kind = "scan" THEN NobodyMatches
    ELSE \/ Misnamed \/ Missing
         \/ request.kind = "tables" /\ Negative
         \/ request.kind = "describe" /\ Indescribable
Unservable == request.kind # "scan" /\ (Missing \/ OffsetAlone)

Reasons ==
    /\ request.kind # "scan" /\ pc \notin {"unstarted", "done"} => Missing \/ AtListed
    /\ pc = "resolve" => Passed
    /\ status = 400 => Refusable
    /\ status = 500 => faults > 0 \/ Unservable

RequestsInv == Control /\ Loops /\ CallOK /\ AnswersOK /\ Owners /\ Reasons

-----------------------------------------------------------------------------
(* The steps                                                               *)

\* What the steps of a request leave alone.
Still == UNCHANGED <<setting, catalogs, work>>

LEMMA StillFacts ==
    ASSUME Still
    PROVE  /\ Configs' = Configs /\ Names' = Names
           /\ UNCHANGED <<environment, retries, installed, request, catalogs>>
  BY DEF Still, setting, Configs, Started, Names

\* The reasons are of what stays.
LEMMA ReasonsStay ==
    ASSUME Configs' = Configs, Names' = Names, UNCHANGED <<request, catalogs>>
    PROVE  /\ Walked' = Walked
           /\ Missing' <=> Missing
           /\ Refusable' <=> Refusable
           /\ Unservable' <=> Unservable
<1>1. Walked' = Walked
  BY DEF Walked
<1>2. Missing' <=> Missing
  BY <1>1 DEF Missing
<1>3. (OffsetAlone' <=> OffsetAlone) /\ (Indescribable' <=> Indescribable)
  BY <1>1 DEF OffsetAlone, Indescribable
<1>4. (Negative' <=> Negative) /\ (Misnamed' <=> Misnamed) /\ (NobodyMatches' <=> NobodyMatches)
  BY DEF Negative, Misnamed, NobodyMatches
<1> QED
  BY <1>1, <1>2, <1>3, <1>4 DEF Refusable, Unservable

\* The configurations that a request walks.
LEMMA WalkedAre ==
    ASSUME environment \in Environments, Configs # NoName
    PROVE  /\ Range(Chosen(request.config, Names)) \subseteq Walked \/ Misnamed
           /\ Walked \subseteq Range(Names)
<1>1. DOMAIN Configs = Range(Names)
  BY StartedWith
<1>2. /\ request.config = NoName => Chosen(request.config, Names) = Names
      /\ request.config # NoName => Range(Chosen(request.config, Names)) = {request.config}
  <2>1. Range(<<request.config>>) = {request.config}
    BY DEF Range
  <2> QED
    BY <2>1 DEF Chosen
<1> QED
  BY <1>1, <1>2 DEF Walked, Misnamed

\* An exception.
LEMMA EndKeeps ==
    ASSUME RequestsInv, Still, pc \notin {"unstarted", "done"}, Ends,
           UNCHANGED <<todo, answer, matching, call>>,
           at' = [config |-> at'.config, instance |-> at'.instance, schema |-> at'.schema,
                  table |-> at'.table],
           status' = 400 => Refusable, status' = 500 => faults' > 0 \/ Unservable
    PROVE  RequestsInv'
<1>1. /\ Configs' = Configs /\ Names' = Names
      /\ UNCHANGED <<environment, retries, installed, request, catalogs>>
  BY StillFacts
<1>2. pc' = "done"
  BY DEF Ends
<1>3. Control'
  BY ControlStays DEF RequestsInv, Still
<1>4. Loops'
  BY <1>1, <1>2 DEF RequestsInv, Loops
<1>5. CallOK'
  BY <1>1, <1>2 DEF RequestsInv, CallOK, IsCall
<1>6. AnswersOK'
  BY <1>1 DEF RequestsInv, AnswersOK, Documented
<1>7. Owners'
  <2>1. \A i \in DOMAIN answer : Owned(answer[i])'
    BY <1>1 DEF RequestsInv, Owners, Owned
  <2> QED
    BY <1>1, <1>2, <2>1 DEF RequestsInv, Owners
<1>8. Reasons'
  <2>1. (Refusable' <=> Refusable) /\ (Unservable' <=> Unservable)
    BY <1>1, ReasonsStay
  <2> QED
    BY <1>1, <1>2, <2>1 DEF Reasons
<1> QED
  BY <1>3, <1>4, <1>5, <1>6, <1>7, <1>8 DEF RequestsInv

LEMMA InitHolds == Init => RequestsInv
<1> SUFFICES ASSUME Init PROVE RequestsInv
  OBVIOUS
<1>1. /\ environment \in Environments /\ request \in Asked
      /\ retries \in Retries /\ installed \in BOOLEAN
      /\ pc \in {"unstarted", "received"} /\ (pc # "unstarted" => Configs # NoName)
      /\ todo = NoTodo /\ at = Nowhere /\ call = AI!Begun(NoName)
      /\ answer = <<>> /\ status = 0
      /\ matching = <<>> /\ job = NoName /\ work = [state |-> "waiting", configs |-> <<>>]
      /\ faults = 0
  BY DEF Init
<1>2. retries \in Nat /\ MaxFaults \in Nat
  BY <1>1, RequestsAssumption
<1>3. Control
  BY <1>1, <1>2 DEF Control
<1>4. Loops
  <2>1. catalogs = [n \in Range(Names) |-> {"hive", "tpch"}]
    BY DEF Init, Range
  <2>2. IsFiniteSet({"hive", "tpch"})
    <3>1. IsFiniteSet({"hive"})
      BY FS_Singleton
    <3> QED
      BY <3>1, FS_AddElement
  <2>3. /\ todo.configs = <<>> /\ todo.instances = <<>> /\ todo.schemas = <<>>
        /\ todo.tables = <<>>
        /\ todo = [configs |-> <<>>, instances |-> <<>>, schemas |-> <<>>, tables |-> <<>>]
    BY <1>1 DEF NoTodo
  <2>4. at = [config |-> at.config, instance |-> at.instance, schema |-> at.schema,
              table |-> at.table]
    BY <1>1 DEF Nowhere
  <2>5. DOMAIN catalogs = Range(Names) /\ \A n \in Range(Names) : IsFiniteSet(catalogs[n])
    BY <2>1, <2>2
  <2> QED
    BY <1>1, <2>3, <2>4, <2>5, EmptyList DEF Loops, Entered
<1>5. CallOK
  BY <1>1, <1>2, BegunIsCall DEF CallOK
<1>6. AnswersOK
  BY <1>1, EmptyList DEF AnswersOK
<1>7. Owners
  BY <1>1, EmptyList DEF Owners, NoTodo
<1>8. Reasons
  <2>1. AtListed
    BY <1>1, EmptyList DEF AtListed, NoTodo
  <2> QED
    BY <1>1, <2>1 DEF Reasons
<1> QED
  BY <1>3, <1>4, <1>5, <1>6, <1>7, <1>8 DEF RequestsInv

\* The names of an environment are a list.
LEMMA NamesListed ==
    ASSUME environment \in Environments PROVE IsList(Names)
  BY RequestsAssumption, ListOf DEF Names

LEMMA ReceiveKeeps ==
    ASSUME RequestsInv, Receive PROVE RequestsInv'
<1> USE DEF RequestsInv
<1>1. Still
  BY DEF Receive, scan, Still
<1>2. /\ Configs' = Configs /\ Names' = Names
      /\ UNCHANGED <<environment, retries, installed, request, catalogs>>
  BY <1>1, StillFacts
<1>3. /\ pc = "received" /\ UNCHANGED <<at, call, answer, status, matching, job, faults>>
      /\ environment \in Environments /\ request \in Asked
  BY DEF Receive, scan, Control
<1>4. GoesOn
  <2>1. faults \in 0..MaxFaults /\ MaxFaults \in Nat
    BY RequestsAssumption DEF Control
  <2>2. faults <= faults
    BY <2>1
  <2> QED
    BY <1>3, <2>1, <2>2 DEF Receive, GoesOn
<1>5. Control'
  BY <1>1, <1>3, <1>4, ControlStays DEF Still
<1>6. /\ todo' = [configs |-> todo'.configs, instances |-> todo'.instances,
                  schemas |-> todo'.schemas, tables |-> todo'.tables]
      /\ \/ todo' = todo /\ pc' = "enqueue"
         \/ /\ todo'.configs = Chosen(request.config, Names)
            /\ todo'.instances = <<>> /\ todo'.schemas = <<>> /\ todo'.tables = <<>>
            /\ (pc' = "resolve" /\ request.config = NoName) \/ pc' = "walk"
  <2>1. CASE todo' = todo /\ pc' = "enqueue"
    BY <2>1 DEF Loops
  <2>2. CASE ~(todo' = todo /\ pc' = "enqueue")
    <3>1. /\ todo' = [NoTodo EXCEPT !.configs = Chosen(request.config, Names)]
          /\ (pc' = "resolve" /\ request.config = NoName) \/ pc' = "walk"
      BY <2>2 DEF Receive
    <3> QED
      BY <3>1 DEF NoTodo
  <2> QED
    BY <2>1, <2>2
<1>7. /\ IsList(Chosen(request.config, Names))
      /\ request.config = NoName => Chosen(request.config, Names) = Names
  BY <1>3, NamesListed, OneOrAll
<1>8. Loops'
  <2>1. pc' # "done" => Entered'
    BY <1>2, <1>3, <1>6, ReasonsStay DEF Loops, Entered
  <2> QED
    BY <1>2, <1>3, <1>6, <1>7, <2>1, EmptyList DEF Loops
<1>9. CallOK'
  BY <1>2, <1>3, <1>6 DEF CallOK, IsCall
<1>10. AnswersOK'
  BY <1>2, <1>3 DEF AnswersOK, Documented
<1>11. Owners'
  <2>1. (\A i \in DOMAIN answer : Owned(answer[i]))'
    BY <1>2, <1>3 DEF Owners, Owned
  <2>2. Owned(at) => Owned(at)'
    BY <1>2, <1>3 DEF Owned
  <2> QED
    BY <1>2, <1>3, <1>6, <2>1, <2>2 DEF Owners
<1>12. Reasons'
  <2>1. ASSUME request.kind # "scan", pc' # "done" PROVE AtListed'
    <3>1. pc' = "walk"
      BY <1>4, <1>6, <2>1 DEF GoesOn
    <3> QED
      BY <1>6, <3>1 DEF AtListed
  <2>2. pc' = "resolve" => Passed'
    BY <1>2, <1>6, <1>7 DEF Passed
  <2>3. status' = 0
    BY <1>3 DEF Control
  <2> QED
    BY <1>2, <2>1, <2>2, <2>3 DEF Reasons
<1> QED
  BY <1>5, <1>8, <1>9, <1>10, <1>11, <1>12

\* A step from one loop to the next.
LEMMA WalkOn ==
    ASSUME RequestsInv, Still, pc = "walk",
           UNCHANGED <<pc, status, faults, job, matching, call>>,
           NEW configs, NEW instances, NEW schemas, NEW tables,
           IsList(configs), IsList(instances), IsList(schemas), IsList(tables),
           todo' = [configs |-> configs, instances |-> instances, schemas |-> schemas,
                    tables |-> tables],
           Range(configs) \subseteq Range(todo.configs),
           at' = [config |-> at'.config, instance |-> at'.instance, schema |-> at'.schema,
                  table |-> at'.table],
           IsList(answer'), request.ai = TRUE => answer' = answer,
           \A i \in DOMAIN answer' :
              Owned(answer'[i]) \/ \E j \in DOMAIN answer : answer'[i] = answer[j],
           Entered',
           tables # <<>> /\ request.table = NoName => Owned(at'),
           Missing \/ AtListed'
    PROVE  RequestsInv'
<1>1. /\ Configs' = Configs /\ Names' = Names
      /\ UNCHANGED <<environment, retries, installed, request, catalogs>>
  BY StillFacts
<1>2. /\ todo'.configs = configs /\ todo'.instances = instances
      /\ todo'.schemas = schemas /\ todo'.tables = tables
  OBVIOUS
<1>3. GoesOn
  <2>1. faults \in 0..MaxFaults /\ MaxFaults \in Nat /\ request.kind # "scan"
    BY RequestsAssumption DEF RequestsInv, Control
  <2>2. faults <= faults
    BY <2>1
  <2> QED
    BY <2>1, <2>2 DEF GoesOn
<1>4. Control'
  BY <1>3, ControlStays DEF RequestsInv, Still
<1>5. Loops'
  <2>1. Range(todo.configs) \subseteq Range(Chosen(request.config, Names))
    BY DEF RequestsInv, Loops
  <2> QED
    BY <1>1, <1>2, <2>1 DEF RequestsInv, Loops
<1>6. CallOK'
  BY <1>1 DEF RequestsInv, CallOK, IsCall
<1>7. AnswersOK'
  BY <1>1 DEF RequestsInv, AnswersOK, Documented
<1>8. Owners'
  <2>1. \A i \in DOMAIN answer : Owned(answer[i])
    BY DEF RequestsInv, Owners
  <2>2. \A i \in DOMAIN answer' : Owned(answer'[i])
    BY <2>1
  <2>3. (\A i \in DOMAIN answer : Owned(answer[i]))'
    BY <1>1, <2>2 DEF Owned
  <2>4. (todo.tables # <<>> /\ request.table = NoName => Owned(at))'
    BY <1>1, <1>2 DEF Owned
  <2>5. request.kind # "scan"
    BY DEF RequestsInv, Control
  <2> QED
    BY <1>1, <2>3, <2>4, <2>5 DEF Owners
<1>9. Reasons'
  <2>1. Missing' <=> Missing
    BY <1>1, ReasonsStay
  <2>2. status' = 0 /\ pc' = "walk"
    BY DEF RequestsInv, Control
  <2> QED
    BY <2>1, <2>2 DEF Reasons
<1> QED
  BY <1>4, <1>5, <1>6, <1>7, <1>8, <1>9 DEF RequestsInv

\* What the configurations list, in order.
LEMMA InstancesListed ==
    ASSUME Control, Loops, Configs # NoName, NEW n \in DOMAIN Configs
    PROVE  LET listed == InOrder(ListInstances(Configs[n], catalogs[n]))
           IN  /\ IsList(listed)
               /\ Range(listed) \subseteq ListInstances(Configs[n], catalogs[n])
               /\ \A i \in ListInstances(Configs[n], catalogs[n]) : \A op : ~Refuses(Configs[n], op, i)
<1>1. n \in Range(Names) /\ environment \in Environments
  BY StartedWith DEF Control
<1>2. IsFiniteSet(catalogs[n])
  BY <1>1 DEF Loops
<1>3. IsFiniteSet({Coordinates(Configs[n]).main})
  BY FS_Singleton
<1>4. IsFiniteSet(ListInstances(Configs[n], catalogs[n]))
  BY <1>2, <1>3 DEF ListInstances, InstanceNames
<1> QED
  BY <1>1, <1>4, SetInOrder, ListedIsOwned

\* An answer that gets longer.
LEMMA Answered ==
    ASSUME RequestsInv, NEW items, IsList(items), \A i \in DOMAIN items : Owned(items[i])
    PROVE  /\ IsList(answer \o items)
           /\ \A i \in DOMAIN (answer \o items) :
                 \/ Owned((answer \o items)[i])
                 \/ \E j \in DOMAIN answer : (answer \o items)[i] = answer[j]
<1>1. IsList(answer)
  BY DEF RequestsInv, AnswersOK
<1> DEFINE longer == Joined(answer, items)
<1>2. longer = Joined(answer, items)
  OBVIOUS
<1> HIDE DEF longer
<1>3. /\ IsList(longer)
      /\ \A i \in DOMAIN longer : \/ \E j \in DOMAIN answer : longer[i] = answer[j]
                                 \/ \E j \in DOMAIN items : longer[i] = items[j]
  BY <1>1, <1>2, JoinedLists
<1>4. ASSUME NEW i \in DOMAIN longer
      PROVE  Owned(longer[i]) \/ \E j \in DOMAIN answer : longer[i] = answer[j]
  <2>1. CASE \E j \in DOMAIN answer : longer[i] = answer[j]
    BY <2>1
  <2>2. CASE \E j \in DOMAIN items : longer[i] = items[j]
    <3>1. PICK j \in DOMAIN items : longer[i] = items[j]
      BY <2>2
    <3>2. Owned(items[j])
      OBVIOUS
    <3> QED
      BY <3>1, <3>2
  <2> QED
    BY <1>3, <2>1, <2>2
<1> QED
  BY <1>3, <1>4 DEF longer, Joined

LEMMA NextConfigKeeps ==
    ASSUME RequestsInv, NextConfig PROVE RequestsInv'
<1> DEFINE name == Head(todo.configs)
           listed == IF name \in DOMAIN Configs
                     THEN InOrder(ListInstances(Configs[name], catalogs[name])) ELSE <<>>
           asks == request.kind \in {"connect", "instances"} \/ request.instance = NoName
           here == [Nowhere EXCEPT !.config = name]
           instances == IF request.kind \in {"connect", "instances"} THEN <<>>
                        ELSE Chosen(request.instance, listed)
           items == [i \in DOMAIN listed |-> Item([here EXCEPT !.instance = listed[i]])]
<1> HIDE DEF name, listed, asks, here, instances, items
<1>1. Still /\ pc = "walk" /\ UNCHANGED <<matching, call, job>>
  BY DEF NextConfig, Walking, scan, Still
<1>2. /\ todo.configs # <<>> /\ todo.instances = <<>> /\ todo.schemas = <<>> /\ todo.tables = <<>>
  BY DEF NextConfig, Walking
<1>3. /\ environment \in Environments /\ request \in Asked /\ Configs # NoName
      /\ request.kind \in Kinds /\ request.kind # "scan" /\ faults \in 0..MaxFaults
      /\ request.ai => request.kind = "describe"
  BY <1>1, RequestsAssumption DEF RequestsInv, Control
<1>4. /\ IsList(todo.configs) /\ IsList(Tail(todo.configs)) /\ name \in Range(todo.configs)
      /\ Range(Tail(todo.configs)) \subseteq Range(todo.configs)
  BY <1>2, ListFacts DEF RequestsInv, Loops, name
<1>5. at' = here /\ here = [config |-> name, instance |-> NoName, schema |-> NoName, table |-> NoName]
  <2>1. at' = here
    BY DEF NextConfig, here, name
  <2>2. here = [config |-> name, instance |-> NoName, schema |-> NoName, table |-> NoName]
    BY DEF here, Nowhere
  <2> QED
    BY <2>1, <2>2
<1>6. at' = [config |-> at'.config, instance |-> at'.instance, schema |-> at'.schema,
             table |-> at'.table] /\ at'.config = name
  BY <1>5
<1>7. /\ IsList(listed)
      /\ name \in DOMAIN Configs =>
            Range(listed) \subseteq ListInstances(Configs[name], catalogs[name])
      /\ name \in DOMAIN Configs => \A i \in ListInstances(Configs[name], catalogs[name]) :
            \A op : ~Refuses(Configs[name], op, i)
  BY <1>3, InstancesListed, EmptyList DEF RequestsInv, listed
<1>8. name \in Range(Chosen(request.config, Names)) /\ (name \in Walked \/ Misnamed)
  BY <1>3, <1>4, WalkedAre DEF RequestsInv, Loops
<1>9. CASE asks /\ name \notin DOMAIN Configs /\ Refused /\ UNCHANGED <<todo, answer>>
  <2>1. Refusable
    BY <1>3, <1>8, <1>9 DEF Refusable, Walked
  <2> QED
    BY <1>1, <1>2, <1>3, <1>6, <1>9, <2>1, RaiseEnds, EndKeeps
<1>10. CASE Fails /\ UNCHANGED <<todo, answer>>
  <2>1. Ends /\ faults' > 0 /\ status' # 400
    BY <1>1, <1>3, <1>10, RaiseEnds
  <2> QED
    BY <1>1, <1>2, <1>6, <1>10, <2>1, EndKeeps
<1>11. CASE /\ ~asks \/ name \in DOMAIN Configs
            /\ todo' = [todo EXCEPT !.configs = Tail(@), !.instances = instances]
            /\ answer' = IF request.kind # "instances" THEN answer ELSE answer \o items
            /\ UNCHANGED <<pc, status, faults>>
  <2>1. todo' = [configs |-> Tail(todo.configs), instances |-> instances,
                 schemas |-> <<>>, tables |-> <<>>]
    BY <1>2, <1>11 DEF RequestsInv, Loops
  <2>2. IsList(instances)
    BY <1>7, OneOrAll, EmptyList DEF instances
  <2>3. ASSUME request.kind = "instances"
        PROVE  IsList(items) /\ \A i \in DOMAIN items : Owned(items[i])
    <3>1. /\ DOMAIN items = DOMAIN listed
          /\ \A i \in DOMAIN items : items[i] = Item([here EXCEPT !.instance = listed[i]])
          /\ items = [i \in DOMAIN listed |-> items[i]]
      BY DEF items
    <3>2. \A i \in DOMAIN items : listed[i] \in Range(listed)
      BY <1>7, <3>1, ListFacts
    <3>3. \A i \in DOMAIN items : items[i].config = name /\ items[i].instance = listed[i]
      BY <1>5, <3>1 DEF Item
    <3>4. name \in DOMAIN Configs
      BY <1>11, <2>3 DEF asks
    <3>5. \A i \in DOMAIN items : Owned(items[i])
      BY <1>7, <3>2, <3>3, <3>4 DEF Owned
    <3> QED
      BY <1>7, <3>1, <3>5, LikeAList
  <2>4. /\ IsList(answer') /\ (request.ai = TRUE => answer' = answer)
        /\ \A i \in DOMAIN answer' :
              Owned(answer'[i]) \/ \E j \in DOMAIN answer : answer'[i] = answer[j]
    <3>1. CASE request.kind # "instances"
      BY <1>11, <3>1 DEF RequestsInv, AnswersOK
    <3>2. CASE request.kind = "instances"
      BY <1>3, <1>11, <2>3, <3>2, Answered
    <3> QED
      BY <3>1, <3>2
  <2>5. /\ todo'.instances = instances /\ todo'.schemas = <<>> /\ todo'.tables = <<>>
        /\ Configs' = Configs /\ Names' = Names /\ UNCHANGED <<request, catalogs>>
    BY <1>1, <2>1, StillFacts
  <2>6. Missing \/ AtListed'
    <3>1. SUFFICES ASSUME ~Missing, name \in DOMAIN Configs PROVE AtListed'
      BY <1>6, <2>5 DEF AtListed
    <3>2. name \in Walked
      BY <1>8, <3>1 DEF Walked
    <3>3. request.instance # NoName =>
            request.instance \in ListInstances(Configs[name], catalogs[name])
      BY <3>1, <3>2 DEF Missing
    <3>4. \A i \in Range(instances) : i \in ListInstances(Configs[name], catalogs[name])
      BY <1>7, <3>1, <3>3, OneOrAll, EmptyList DEF instances
    <3> QED
      BY <1>6, <2>5, <3>4 DEF AtListed, Here, Config
  <2>7. Entered'
    BY <1>6, <1>8, <2>5 DEF Entered, instances
  <2> QED
    BY <1>1, <1>4, <1>6, <1>11, <2>1, <2>2, <2>4, <2>6, <2>7, WalkOn, EmptyList
<1> QED
  <2> USE DEF name, listed, asks, here, instances, items
  <2> QED
    BY <1>9, <1>10, <1>11 DEF NextConfig

\* The schemas of the type of a connector are a list.
LEMMA SchemasListed ==
    ASSUME RequestsInv, Configs # NoName, at.config \in DOMAIN Configs
    PROVE  /\ Content[Type] \in Seq([schema : STRING, tables : Seq(STRING)])
           /\ IsList(Schemas)
           /\ Type \in {"sqlite", "dynamodb"} => Len(Schemas) = 1
           /\ DOMAIN Schemas = 1..Len(Schemas) /\ Len(Schemas) \in Nat
           /\ Schemas = [i \in DOMAIN Content[Type] |-> Content[Type][i].schema]
<1> DEFINE Entry == [schema : STRING, tables : Seq(STRING)]
<1>1. Type \in Types
  BY StartedWith, ConfigTypes DEF RequestsInv, Control, Config, Type
<1>2. /\ Content[Type] \in Seq(Entry)
      /\ Type \in {"sqlite", "dynamodb"} => Len(Content[Type]) = 1
  BY <1>1, RequestsAssumption
<1>3. Schemas = [i \in DOMAIN Content[Type] |-> Content[Type][i].schema]
  BY DEF Schemas
<1> HIDE DEF Entry
<1>4. IsList(Content[Type]) /\ Len(Content[Type]) \in Nat
  BY <1>2, ListOf
<1>5. IsList(Schemas)
  BY <1>3, <1>4, LikeAList
<1>6. DOMAIN Schemas = 1..Len(Content[Type])
  BY <1>2, <1>3
<1>7. Len(Schemas) \in Nat /\ DOMAIN Schemas = 1..Len(Schemas)
  BY <1>5, ListFacts
<1>8. Len(Schemas) = Len(Content[Type])
  BY <1>4, <1>6, <1>7
<1> QED
  BY <1>2, <1>3, <1>5, <1>7, <1>8 DEF Entry

\* What a configuration lists, its connector neither refuses nor fails on, and the other
\* way round: a description of DynamoDB apart.
LEMMA HereAccepted ==
    ASSUME Control, Configs # NoName, at.config \in DOMAIN Configs, NEW i, Here(i)
    PROVE  (\A op : ~Refuses(Config, op, i)) /\ ~NoCatalog(i)
<1>1. at.config \in Range(Names) /\ environment \in Environments
  BY StartedWith DEF Control
<1>2. \A op : ~Refuses(Config, op, i)
  BY <1>1, ListedIsOwned DEF Here, Config
<1> QED
  BY <1>2 DEF Here, NoCatalog, Type, ListInstances, InstanceNames

LEMMA AcceptedHere ==
    ASSUME NEW i, NEW op, ~Refuses(Config, op, i), ~NoCatalog(i)
    PROVE  Here(i) \/ (Type = "dynamodb" /\ op = "describe")
  BY DEF Here, NoCatalog, Refuses, Rejects, Type, ListInstances, InstanceNames

\* When nothing is missing, what is asked for is in the content of the connector.
LEMMA NothingMissing ==
    ASSUME at.config \in Walked, ~Missing
    PROVE  /\ request.schema # NoName => request.schema \in Range(Schemas)
           /\ request.table # NoName => \A schema \in Range(Schemas) :
                 request.schema \in {NoName, schema} => request.table \in Range(Tables(schema))
<1> DEFINE content == Content[Type]
<1>1. content = Content[ConnectorType(Configs[at.config])]
  BY DEF Type, Config
<1>2. /\ request.schema # NoName => \E k \in DOMAIN content : content[k].schema = request.schema
      /\ request.table # NoName => \A k \in DOMAIN content :
            request.schema \in {NoName, content[k].schema} =>
               request.table \in Range(content[k].tables)
  BY <1>1 DEF Missing
<1>3. \A x : x \in Range(Schemas) <=> \E k \in DOMAIN content : content[k].schema = x
  BY DEF Range, Schemas
<1>4. ASSUME NEW schema \in Range(Schemas)
      PROVE  \E k \in DOMAIN content : content[k].schema = schema /\ Tables(schema) = content[k].tables
  <2> DEFINE entries == {k \in DOMAIN content : content[k].schema = schema}
  <2>1. Tables(schema) = IF entries = {} THEN <<>> ELSE content[CHOOSE k \in entries : TRUE].tables
    BY DEF Tables
  <2>2. entries # {}
    BY <1>3
  <2>3. (CHOOSE k \in entries : TRUE) \in entries
    BY <2>2
  <2> QED
    BY <2>1, <2>2, <2>3
<1> HIDE DEF content
<1> QED
  BY <1>2, <1>3, <1>4

LEMMA NextInstanceKeeps ==
    ASSUME RequestsInv, NextInstance PROVE RequestsInv'
<1> DEFINE instance == Head(todo.instances)
           here == [at EXCEPT !.instance = instance, !.schema = NoName, !.table = NoName]
           lists == request.kind = "schemas" \/ request.schema = NoName
           known == at.config \in DOMAIN Configs
           refused == IF known THEN lists /\ Refuses(Config, "schemas", instance) ELSE TRUE
           schemas == IF request.kind = "schemas" THEN <<>> ELSE Chosen(request.schema, Schemas)
           items == [i \in DOMAIN Schemas |-> Item([here EXCEPT !.schema = Schemas[i]])]
           raises == known /\ lists /\ NoCatalog(instance)
<1> HIDE DEF instance, here, lists, known, refused, raises, schemas, items
<1>1. Still /\ pc = "walk" /\ UNCHANGED <<matching, call, job>>
  BY DEF NextInstance, Walking, scan, Still
<1>2. todo.instances # <<>> /\ todo.schemas = <<>> /\ todo.tables = <<>>
  BY DEF NextInstance, Walking
<1>3. /\ environment \in Environments /\ request \in Asked /\ Configs # NoName
      /\ request.kind \in Kinds /\ request.kind # "scan" /\ faults \in 0..MaxFaults
      /\ request.ai => request.kind = "describe"
  BY <1>1, RequestsAssumption DEF RequestsInv, Control
<1>4. /\ IsList(todo.configs)
      /\ IsList(Tail(todo.instances)) /\ instance \in Range(todo.instances)
      /\ Range(Tail(todo.instances)) \subseteq Range(todo.instances)
  BY <1>2, ListFacts DEF RequestsInv, Loops, instance
<1>5. /\ at' = here
      /\ here = [config |-> at.config, instance |-> instance, schema |-> NoName, table |-> NoName]
  <2>1. at' = here
    BY DEF NextInstance, here, instance
  <2>2. here = [config |-> at.config, instance |-> instance, schema |-> NoName, table |-> NoName]
    <3>1. at = [config |-> at.config, instance |-> at.instance, schema |-> at.schema,
                table |-> at.table]
      BY DEF RequestsInv, Loops
    <3>2. here = [at EXCEPT !.instance = instance, !.schema = NoName, !.table = NoName]
      BY DEF here
    <3> QED
      BY <3>1, <3>2
  <2> QED
    BY <2>1, <2>2
<1>6. /\ at' = [config |-> at'.config, instance |-> at'.instance, schema |-> at'.schema,
                table |-> at'.table]
      /\ at'.config = at.config /\ at'.instance = instance
  BY <1>5
<1>7. known => IsList(Schemas)
  BY <1>3, SchemasListed DEF known
<1>8. known /\ ~Missing =>
        /\ \A i \in Range(todo.instances) : Here(i)
        /\ \A op : ~Refuses(Config, op, instance)
        /\ ~NoCatalog(instance)
  <2>1. Missing \/ AtListed
    BY <1>1, <1>3 DEF RequestsInv, Reasons
  <2>2. AtListed /\ known => \A i \in Range(todo.instances) : Here(i)
    BY <1>2 DEF AtListed, known
  <2>3. Control
    BY DEF RequestsInv
  <2>4. known /\ Here(instance) => (\A op : ~Refuses(Config, op, instance)) /\ ~NoCatalog(instance)
    BY <1>3, <2>3, HereAccepted DEF known
  <2> QED
    BY <1>4, <2>1, <2>2, <2>4
<1>9. /\ request.kind \notin {"connect", "instances"}
      /\ IF known THEN at.config \in Walked ELSE Misnamed
  <2>1. Entered
    BY <1>1 DEF RequestsInv, Loops
  <2>2. at.config \in Range(Chosen(request.config, Names))
    BY <1>2, <2>1 DEF Entered
  <2> QED
    BY <1>2, <1>3, <2>1, <2>2, WalkedAre DEF Entered, Walked, known
<1>10. CASE refused /\ Refused /\ UNCHANGED <<todo, answer>>
  <2>1. Refusable
    BY <1>3, <1>8, <1>9, <1>10 DEF Refusable, refused
  <2> QED
    BY <1>1, <1>2, <1>3, <1>6, <1>10, <2>1, RaiseEnds, EndKeeps
<1>11. CASE Fails /\ UNCHANGED <<todo, answer>>
  <2>1. Ends /\ faults' > 0 /\ status' # 400
    BY <1>1, <1>3, <1>11, RaiseEnds
  <2> QED
    BY <1>1, <1>2, <1>6, <1>11, <2>1, EndKeeps
<1>13. CASE raises /\ QueryRaises /\ UNCHANGED <<todo, answer>>
  <2>1. Unservable
    BY <1>3, <1>8, <1>13 DEF Unservable, raises
  <2> QED
    BY <1>1, <1>2, <1>3, <1>6, <1>13, <2>1, RaiseEnds, EndKeeps
<1>12. CASE /\ ~refused /\ ~raises
            /\ todo' = [todo EXCEPT !.instances = Tail(@), !.schemas = schemas]
            /\ answer' = IF request.kind # "schemas" THEN answer ELSE answer \o items
            /\ UNCHANGED <<pc, status, faults>>
  <2>1. todo' = [configs |-> todo.configs, instances |-> Tail(todo.instances),
                 schemas |-> schemas, tables |-> <<>>]
    BY <1>2, <1>12 DEF RequestsInv, Loops
  <2>2. known /\ IsList(schemas)
    BY <1>7, <1>12, OneOrAll, EmptyList DEF schemas, refused
  <2>3. ASSUME request.kind = "schemas"
        PROVE  IsList(items) /\ \A i \in DOMAIN items : Owned(items[i])
    <3>1. /\ DOMAIN items = DOMAIN Schemas
          /\ \A i \in DOMAIN items : items[i] = Item([here EXCEPT !.schema = Schemas[i]])
          /\ items = [i \in DOMAIN Schemas |-> items[i]]
      BY DEF items
    <3>2. \A i \in DOMAIN items : items[i].config = at.config /\ items[i].instance = instance
      BY <1>5, <3>1 DEF Item
    <3>3. Here(instance)
      BY <1>12, <2>2, <2>3, AcceptedHere DEF refused, raises, lists
    <3>4. \A i \in DOMAIN items : Owned(items[i])
      BY <3>2, <3>3 DEF Owned, Here, Config
    <3> QED
      BY <1>7, <2>2, <3>1, <3>4, LikeAList
  <2>4. /\ IsList(answer') /\ (request.ai = TRUE => answer' = answer)
        /\ \A i \in DOMAIN answer' :
              Owned(answer'[i]) \/ \E j \in DOMAIN answer : answer'[i] = answer[j]
    <3>1. CASE request.kind # "schemas"
      BY <1>12, <3>1 DEF RequestsInv, AnswersOK
    <3>2. CASE request.kind = "schemas"
      BY <1>3, <1>12, <2>3, <3>2, Answered
    <3> QED
      BY <3>1, <3>2
  <2>5. /\ todo'.instances = Tail(todo.instances) /\ todo'.schemas = schemas /\ todo'.tables = <<>>
        /\ Configs' = Configs /\ Names' = Names /\ UNCHANGED <<request, catalogs>>
    BY <1>1, <2>1, StillFacts
  <2>6. Missing \/ AtListed'
    <3>1. SUFFICES ASSUME ~Missing PROVE AtListed'
      OBVIOUS
    <3>2. Config' = Config /\ Schemas' = Schemas
      <4>1. Config' = Config
        BY <1>6, <2>5 DEF Config
      <4> QED
        BY <4>1 DEF Schemas, Type
    <3>3. \A i : Here(i)' <=> Here(i)
      BY <1>6, <2>5, <3>2 DEF Here
    <3>4. \A i \in Range(todo.instances) : Here(i)
      BY <1>8, <2>2, <3>1
    <3>5. request.schema # NoName => request.schema \in Range(Schemas)
      BY <1>9, <2>2, <3>1, NothingMissing
    <3>6. /\ Range(schemas) \subseteq Range(Schemas)
          /\ request.schema # NoName => Range(schemas) \subseteq {request.schema}
      BY <1>7, <2>2, <3>5, OneOrAll, EmptyList DEF schemas, Chosen, Range
    <3> QED
      BY <1>4, <1>6, <2>5, <3>2, <3>3, <3>4, <3>6 DEF AtListed
  <2>7. Entered'
    <3>1. Walked' = Walked
      BY <2>5, ReasonsStay
    <3>2. Entered
      BY <1>1 DEF RequestsInv, Loops
    <3> QED
      BY <1>2, <1>6, <1>9, <2>2, <2>5, <3>1, <3>2 DEF Entered, schemas
  <2> QED
    BY <1>1, <1>4, <1>6, <1>12, <2>1, <2>2, <2>4, <2>6, <2>7, WalkOn, EmptyList
<1> QED
  <2> USE DEF instance, here, lists, known, refused, raises, schemas, items
  <2> QED
    BY <1>10, <1>11, <1>12, <1>13 DEF NextInstance

\* A part of a list.
LEMMA PartOf ==
    ASSUME NEW s, IsList(s), NEW m \in Nat, NEW n \in Int, n <= Len(s)
    PROVE  /\ IsList(SubSeq(s, m + 1, n))
           /\ Range(SubSeq(s, m + 1, n)) \subseteq Range(s)
<1> DEFINE S == Range(s)
           part == SubSeq(s, m + 1, n)
<1>1. s \in Seq(S) /\ Len(s) \in Nat /\ DOMAIN s = 1..Len(s)
  BY ListFacts DEF IsList
<1> HIDE DEF S
<1>2. part = [i \in 1..(n - m) |-> s[i + m]]
  BY <1>1
<1>3. \A i \in 1..(n - m) : s[i + m] \in S
  <2>1. \A i \in 1..(n - m) : i + m \in 1..Len(s)
    BY <1>1
  <2> QED
    BY <1>1, <2>1
<1> HIDE DEF part
<1>4. CASE n - m >= 0
  <2>1. part \in Seq(S)
    BY <1>2, <1>3, <1>4
  <2> QED
    BY <2>1, ListOf DEF S, part
<1>5. CASE n - m < 0
  <2>1. 1..(n - m) = {}
    BY <1>5
  <2>2. part = <<>>
    BY <1>2, <2>1
  <2> QED
    BY <2>2, EmptyList DEF part
<1> QED
  BY <1>4, <1>5

\* A page that is not refused is a part of the list.
LEMMA PageOf ==
    ASSUME NEW list, IsList(list), NEW limit, limit = NoName \/ limit \in Int,
           NEW offset, offset = NoName \/ offset \in Nat
    PROVE  /\ IsList(Slice(list, limit, offset))
           /\ Range(Slice(list, limit, offset)) \subseteq Range(list)
<1> DEFINE start == IF offset = NoName THEN 0 ELSE offset
           count == IF limit = NoName \/ start + limit > Len(list) THEN Len(list)
                    ELSE start + limit
<1>1. Slice(list, limit, offset) = SubSeq(list, start + 1, count)
  BY DEF Slice
<1>2. start \in Nat /\ Len(list) \in Nat
  BY ListFacts
<1> HIDE DEF start
<1>3. count \in Int /\ count <= Len(list)
  BY <1>2
<1> HIDE DEF count
<1> QED
  BY <1>1, <1>2, <1>3, PartOf

\* The tables of a schema and the page of them are lists.
LEMMA TablesListed ==
    ASSUME RequestsInv, Configs # NoName, at.config \in DOMAIN Configs, ~BadPage, NEW schema
    PROVE  /\ IsList(Tables(schema)) /\ IsList(Listed(schema))
           /\ Range(Listed(schema)) \subseteq Range(Tables(schema))
<1> DEFINE Entry == [schema : STRING, tables : Seq(STRING)]
           all == Tables(schema)
<1>1. IsList(all)
  <2>1. Content[Type] \in Seq(Entry)
    BY SchemasListed
  <2> HIDE DEF Entry
  <2>2. \A k \in DOMAIN Content[Type] : Content[Type][k] \in Entry
    BY <2>1
  <2> USE DEF Entry
  <2>3. \A k \in DOMAIN Content[Type] : IsList(Content[Type][k].tables)
    BY <2>2, ListOf
  <2> QED
    BY <2>3, EmptyList DEF Tables
<1>2. \A n \in {request.limit, request.offset} : n = NoName \/ n \in Int
  BY RequestsAssumption DEF RequestsInv, Control
<1>3. CASE request.kind = "tables"
  <2>1. request.offset = NoName \/ request.offset \in Nat
    BY <1>2, <1>3 DEF BadPage
  <2>2. Listed(schema) = Slice(all, request.limit, request.offset)
    BY <1>3 DEF Listed
  <2> HIDE DEF all
  <2> QED
    BY <1>1, <1>2, <2>1, <2>2, PageOf DEF all
<1>4. CASE request.kind # "tables"
  <2>1. Listed(schema) = Slice(all, NoName, NoName)
    BY <1>4 DEF Listed
  <2> HIDE DEF all
  <2> QED
    BY <1>1, <2>1, PageOf DEF all
<1> QED
  BY <1>3, <1>4

LEMMA NextSchemaKeeps ==
    ASSUME RequestsInv, NextSchema PROVE RequestsInv'
<1> DEFINE schema == Head(todo.schemas)
           here == [at EXCEPT !.schema = schema, !.table = NoName]
           lists == request.kind = "tables" \/ request.table = NoName
           refused == lists /\ (\/ Refuses(Config, "tables", at.instance)
                                \/ WrongSchema(schema) \/ BadPage)
           tables == IF request.kind = "tables" THEN <<>>
                     ELSE Chosen(request.table, Listed(schema))
           items == [i \in DOMAIN Listed(schema) |-> Item([here EXCEPT !.table = Listed(schema)[i]])]
           raises == lists /\ (NoSchema(schema) \/ NoCatalog(at.instance) \/ NoPage)
<1> HIDE DEF schema, here, lists, refused, raises, tables, items
<1>1. Still /\ pc = "walk" /\ UNCHANGED <<matching, call, job>>
  BY DEF NextSchema, Walking, scan, Still
<1>2. todo.schemas # <<>> /\ todo.tables = <<>>
  BY DEF NextSchema, Walking
<1>3. /\ environment \in Environments /\ request \in Asked /\ Configs # NoName
      /\ request.kind \in Kinds /\ request.kind # "scan" /\ faults \in 0..MaxFaults
      /\ request.ai => request.kind = "describe"
  BY <1>1, RequestsAssumption DEF RequestsInv, Control
<1>4. /\ IsList(todo.configs) /\ IsList(todo.instances)
      /\ IsList(Tail(todo.schemas)) /\ schema \in Range(todo.schemas)
      /\ Range(Tail(todo.schemas)) \subseteq Range(todo.schemas)
      /\ at.config \in Walked /\ at.config \in DOMAIN Configs /\ Entered
      /\ request.kind \notin {"connect", "instances", "schemas"}
  BY <1>1, <1>2, ListFacts DEF RequestsInv, Loops, Entered, Walked, schema
<1>5. /\ at' = here
      /\ here = [config |-> at.config, instance |-> at.instance, schema |-> schema,
                 table |-> NoName]
  <2>1. at' = here
    BY DEF NextSchema, here, schema
  <2>2. here = [at EXCEPT !.schema = schema, !.table = NoName]
    BY DEF here
  <2>3. at = [config |-> at.config, instance |-> at.instance, schema |-> at.schema,
              table |-> at.table]
    BY DEF RequestsInv, Loops
  <2> QED
    BY <2>1, <2>2, <2>3
<1>6. /\ at' = [config |-> at'.config, instance |-> at'.instance, schema |-> at'.schema,
                table |-> at'.table]
      /\ at'.config = at.config /\ at'.instance = at.instance /\ at'.schema = schema
  BY <1>5
<1>7. Missing \/ AtListed
  BY <1>1, <1>3 DEF RequestsInv, Reasons
<1>8. AtListed => /\ Here(at.instance) /\ schema \in Range(Schemas)
                  /\ \A op : ~Refuses(Config, op, at.instance)
                  /\ ~NoCatalog(at.instance)
  <2>1. AtListed => Here(at.instance) /\ schema \in Range(Schemas)
    BY <1>2, <1>4 DEF AtListed
  <2>2. Control
    BY DEF RequestsInv
  <2> QED
    BY <1>3, <1>4, <2>1, <2>2, HereAccepted
<1>9. CASE refused /\ Refused /\ UNCHANGED <<todo, answer>>
  <2>1. WrongSchema(schema) => schema \notin Range(Schemas)
    <3>1. Type \in {"sqlite", "dynamodb"} => DOMAIN Schemas = {1}
      BY <1>3, <1>4, SchemasListed
    <3> QED
      BY <3>1 DEF WrongSchema, Range
  <2>2. BadPage => request.kind = "tables" /\ Negative
    BY DEF BadPage, Negative
  <2>3. Refusable
    BY <1>3, <1>7, <1>8, <1>9, <2>1, <2>2 DEF refused, Refusable
  <2> QED
    BY <1>1, <1>2, <1>3, <1>6, <1>9, <2>3, RaiseEnds, EndKeeps
<1>10. CASE raises /\ QueryRaises /\ UNCHANGED <<todo, answer>>
  <2>1. NoPage => OffsetAlone
    BY <1>4 DEF NoPage, Unpaged, OffsetAlone, Type, Config
  <2>2. Unservable
    BY <1>3, <1>7, <1>8, <1>10, <2>1 DEF raises, NoSchema, Unservable
  <2> QED
    BY <1>1, <1>2, <1>3, <1>6, <1>10, <2>2, RaiseEnds, EndKeeps
<1>11. CASE Fails /\ UNCHANGED <<todo, answer>>
  <2>1. Ends /\ faults' > 0 /\ status' # 400
    BY <1>1, <1>3, <1>11, RaiseEnds
  <2> QED
    BY <1>1, <1>2, <1>6, <1>11, <2>1, EndKeeps
<1>12. CASE /\ ~refused /\ ~raises
            /\ todo' = [todo EXCEPT !.schemas = Tail(@), !.tables = tables]
            /\ answer' = IF request.kind # "tables" THEN answer ELSE answer \o items
            /\ UNCHANGED <<pc, status, faults>>
  <2>1. todo' = [configs |-> todo.configs, instances |-> todo.instances,
                 schemas |-> Tail(todo.schemas), tables |-> tables]
    BY <1>12 DEF RequestsInv, Loops
  <2>2. ~BadPage
    BY <1>12 DEF refused, lists, BadPage
  <2>3. /\ IsList(Tables(schema)) /\ IsList(Listed(schema))
        /\ Range(Listed(schema)) \subseteq Range(Tables(schema))
    BY <1>3, <1>4, <2>2, TablesListed
  <2>4. IsList(tables)
    BY <2>3, OneOrAll, EmptyList DEF tables
  <2>5. lists => Here(at.instance)
    BY <1>12, AcceptedHere DEF refused, raises
  <2>6. ASSUME request.kind = "tables"
        PROVE  IsList(items) /\ \A i \in DOMAIN items : Owned(items[i])
    <3>1. /\ DOMAIN items = DOMAIN Listed(schema)
          /\ \A i \in DOMAIN items : items[i] = Item([here EXCEPT !.table = Listed(schema)[i]])
          /\ items = [i \in DOMAIN Listed(schema) |-> items[i]]
      BY DEF items
    <3>2. \A i \in DOMAIN items : items[i].config = at.config /\ items[i].instance = at.instance
      BY <1>5, <3>1 DEF Item
    <3>3. \A i \in DOMAIN items : Owned(items[i])
      BY <2>5, <2>6, <3>2 DEF Owned, Here, Config, lists
    <3> QED
      BY <2>3, <3>1, <3>3, LikeAList
  <2>7. /\ IsList(answer') /\ (request.ai = TRUE => answer' = answer)
        /\ \A i \in DOMAIN answer' :
              Owned(answer'[i]) \/ \E j \in DOMAIN answer : answer'[i] = answer[j]
    <3>1. CASE request.kind # "tables"
      BY <1>12, <3>1 DEF RequestsInv, AnswersOK
    <3>2. CASE request.kind = "tables"
      BY <1>3, <1>12, <2>6, <3>2, Answered
    <3> QED
      BY <3>1, <3>2
  <2>8. tables # <<>> /\ request.table = NoName => Owned(at')
    BY <1>6, <2>5 DEF Owned, Here, Config, tables, lists
  <2>9. /\ todo'.instances = todo.instances
        /\ todo'.schemas = Tail(todo.schemas) /\ todo'.tables = tables
        /\ Configs' = Configs /\ Names' = Names /\ UNCHANGED <<request, catalogs>>
        /\ Config' = Config
    <3>1. /\ todo'.instances = todo.instances
          /\ todo'.schemas = Tail(todo.schemas) /\ todo'.tables = tables
      BY <2>1
    <3> QED
      BY <1>1, <1>6, <3>1, StillFacts DEF Config
  <2>10. Missing \/ AtListed'
    <3>1. SUFFICES ASSUME ~Missing PROVE AtListed'
      OBVIOUS
    <3>2. AtListed /\ Here(at.instance) /\ schema \in Range(Schemas)
      BY <1>7, <1>8, <3>1
    <3>3. Schemas' = Schemas /\ (Tables(at.schema))' = Tables(schema)
      <4>1. Schemas' = Schemas
        BY <2>9 DEF Schemas, Type
      <4>2. (Tables(at.schema))' = Tables(at'.schema)
        BY <2>9 DEF Type, Tables
      <4> QED
        BY <1>6, <4>1, <4>2
    <3>4. /\ \A i : Here(i)' <=> Here(i)
          /\ Here(at.instance)' <=> Here(at.instance)
      BY <1>6, <2>9 DEF Here
    <3>5. request.table # NoName => request.table \in Range(Tables(schema))
      <4>1. request.schema \in {NoName, schema}
        BY <1>2, <1>4, <3>2 DEF AtListed
      <4> QED
        BY <1>4, <3>1, <3>2, <4>1, NothingMissing
    <3>6. Range(tables) \subseteq Range(Tables(schema))
      BY <2>3, <3>5, OneOrAll, EmptyList DEF tables
    <3>7. /\ todo.instances # <<>> => \A i \in Range(todo.instances) : Here(i)
          /\ Range(Tail(todo.schemas)) \subseteq Range(Schemas)
          /\ request.schema # NoName => Range(Tail(todo.schemas)) \subseteq {request.schema}
      BY <1>2, <1>4, <3>2 DEF AtListed
    <3>8. /\ (todo.instances # <<>> => \A i \in Range(todo.instances) : Here(i))'
          /\ (at.schema)' \in Range(Schemas)
      BY <1>6, <2>9, <3>2, <3>4, <3>7
    <3> QED
      BY <1>6, <2>9, <3>2, <3>3, <3>4, <3>6, <3>7, <3>8 DEF AtListed
  <2>11. Entered'
    <3>1. Walked' = Walked
      BY <2>9, ReasonsStay
    <3> QED
      BY <1>2, <1>4, <1>6, <2>9, <3>1 DEF Entered, tables
  <2> QED
    BY <1>1, <1>4, <1>6, <1>12, <2>1, <2>4, <2>7, <2>8, <2>10, <2>11, WalkOn
<1> QED
  <2> USE DEF schema, here, lists, refused, raises, tables, items
  <2> QED
    BY <1>9, <1>10, <1>11, <1>12 DEF NextSchema

\* A step of the walk, in parts.
LEMMA StepOn ==
    ASSUME RequestsInv, Still, pc \in {"walk", "document", "append", "save"},
           pc' \in {"walk", "document", "append", "save"},
           UNCHANGED <<status, job>>,
           faults' = faults \/ (faults < MaxFaults /\ faults' = faults + 1),
           Loops', CallOK', AnswersOK', Owners', Missing \/ AtListed'
    PROVE  RequestsInv'
<1>1. /\ Configs' = Configs /\ Names' = Names
      /\ UNCHANGED <<environment, retries, installed, request, catalogs>>
  BY StillFacts
<1>2. GoesOn
  <2>1. faults \in 0..MaxFaults /\ MaxFaults \in Nat /\ request.kind # "scan"
    BY RequestsAssumption DEF RequestsInv, Control
  <2>2. faults <= faults' /\ faults' \in 0..MaxFaults
    BY <2>1
  <2> QED
    BY <2>1, <2>2 DEF GoesOn
<1>3. Control'
  BY <1>2, ControlStays DEF RequestsInv, Still
<1>4. Reasons'
  <2>1. Missing' <=> Missing
    BY <1>1, ReasonsStay
  <2>2. status' = 0
    BY DEF RequestsInv, Control
  <2> QED
    BY <2>1, <2>2 DEF Reasons
<1> QED
  BY <1>3, <1>4 DEF RequestsInv

\* The tables of a schema are of an entry of the content.
LEMMA TablesOfEntry ==
    ASSUME NEW schema, NEW table \in Range(Tables(schema))
    PROVE  \E k \in DOMAIN Content[Type] : table \in Range(Content[Type][k].tables)
<1> DEFINE entries == {k \in DOMAIN Content[Type] : Content[Type][k].schema = schema}
<1>1. Tables(schema) =
        IF entries = {} THEN <<>> ELSE Content[Type][CHOOSE k \in entries : TRUE].tables
  BY DEF Tables
<1>2. entries # {}
  BY <1>1, EmptyList
<1>3. (CHOOSE k \in entries : TRUE) \in entries
  BY <1>2
<1>4. (CHOOSE k \in entries : TRUE) \in DOMAIN Content[Type]
  BY <1>3
<1> QED
  BY <1>1, <1>2, <1>4

LEMMA DescribeTableKeeps ==
    ASSUME RequestsInv, DescribeTable PROVE RequestsInv'
<1> DEFINE table == Head(todo.tables)
           bad == \/ table \in BadTables
                  \/ Type = "mongodb" /\ table \notin Range(Tables(at.schema))
           raises == NoCatalog(at.instance) \/ TableAbsent(table)
           refused == DescribeRefused \/ (bad /\ ~raises)
           moved == [at EXCEPT !.table = table]
<1> HIDE DEF table, bad, raises, refused, moved
<1>1. Still /\ pc = "walk" /\ todo.tables # <<>> /\ UNCHANGED <<matching, answer, job>>
  BY DEF DescribeTable, scan, Still
<1>2. /\ environment \in Environments /\ request \in Asked /\ Configs # NoName
      /\ request.kind \in Kinds /\ request.kind # "scan" /\ faults \in 0..MaxFaults
      /\ request.ai \in BOOLEAN /\ retries \in Nat
  BY <1>1, RequestsAssumption DEF RequestsInv, Control
<1>3. /\ IsList(Tail(todo.tables)) /\ table \in Range(todo.tables)
      /\ Range(Tail(todo.tables)) \subseteq Range(todo.tables)
      /\ at.config \in Walked /\ at.config \in DOMAIN Configs /\ Entered
      /\ request.kind = "describe"
  BY <1>1, <1>2, ListFacts DEF RequestsInv, Loops, Entered, Walked, Kinds, table
<1>4. /\ at' = [config |-> at.config, instance |-> at.instance, schema |-> at.schema,
                table |-> table]
  <2>1. at' = moved
    BY DEF DescribeTable, table, moved
  <2>2. moved = [at EXCEPT !.table = table]
    BY DEF moved
  <2>3. at = [config |-> at.config, instance |-> at.instance, schema |-> at.schema,
              table |-> at.table]
    BY DEF RequestsInv, Loops
  <2> QED
    BY <2>1, <2>2, <2>3
<1>5. /\ at' = [config |-> at'.config, instance |-> at'.instance, schema |-> at'.schema,
                table |-> at'.table]
      /\ at'.config = at.config /\ at'.instance = at.instance /\ at'.schema = at.schema
      /\ at'.table = table
  BY <1>4
<1>6. Missing \/ AtListed
  BY <1>1, <1>2 DEF RequestsInv, Reasons
<1>7. AtListed => /\ Here(at.instance) /\ at.schema \in Range(Schemas)
                  /\ table \in Range(Tables(at.schema))
                  /\ \A op : ~Refuses(Config, op, at.instance)
                  /\ ~NoCatalog(at.instance)
  <2>1. AtListed => /\ Here(at.instance) /\ at.schema \in Range(Schemas)
                    /\ table \in Range(Tables(at.schema))
    BY <1>1, <1>3 DEF AtListed
  <2>2. Control
    BY DEF RequestsInv
  <2> QED
    BY <1>2, <1>3, <2>1, <2>2, HereAccepted
<1>8. AtListed => ~DescribeRefused /\ ~TableAbsent(table)
  <2>1. Type \in {"sqlite", "dynamodb"} => DOMAIN Schemas = {1}
    BY <1>2, <1>3, SchemasListed
  <2>2. Type \in {"sqlite", "dynamodb"} /\ AtListed => at.schema = Schemas[1]
    BY <1>7, <2>1 DEF Range
  <2>3. ASSUME AtListed PROVE ~DescribeRefused
    BY <1>7, <2>2, <2>3 DEF DescribeRefused, WrongSchema
  <2>4. ASSUME AtListed PROVE ~TableAbsent(table)
    BY <1>7, <2>2, <2>4 DEF TableAbsent
  <2> QED
    BY <2>3, <2>4
<1>9. AtListed /\ bad => Indescribable
  <2>1. SUFFICES ASSUME AtListed, table \in BadTables PROVE Indescribable
    BY <1>7 DEF bad
  <2>2. PICK k \in DOMAIN Content[Type] : table \in Range(Content[Type][k].tables)
    BY <1>7, <2>1, TablesOfEntry
  <2>3. Type = ConnectorType(Configs[at.config])
    BY DEF Type, Config
  <2>4. Range(Content[Type][k].tables) \cap BadTables # {}
    BY <2>1, <2>2
  <2> QED
    BY <1>3, <2>2, <2>3, <2>4 DEF Indescribable
<1>10. CASE refused /\ Refused /\ UNCHANGED <<todo, call>>
  <2>1. Refusable
    BY <1>3, <1>6, <1>8, <1>9, <1>10 DEF refused, Refusable
  <2> QED
    BY <1>1, <1>2, <1>5, <1>10, <2>1, RaiseEnds, EndKeeps
<1>11. CASE raises /\ QueryRaises /\ UNCHANGED <<todo, call>>
  <2>1. Unservable
    BY <1>2, <1>6, <1>7, <1>8, <1>11 DEF raises, Unservable
  <2> QED
    BY <1>1, <1>2, <1>5, <1>11, <2>1, RaiseEnds, EndKeeps
<1>12. CASE Fails /\ UNCHANGED <<todo, call>>
  <2>1. Ends /\ faults' > 0 /\ status' # 400
    BY <1>1, <1>2, <1>12, RaiseEnds
  <2> QED
    BY <1>1, <1>5, <1>12, <2>1, EndKeeps
<1>13. CASE /\ ~refused /\ ~raises
            /\ todo' = [todo EXCEPT !.tables = Tail(@)]
            /\ call' = AI!Begun(table)
            /\ pc' = IF request.ai THEN "document" ELSE "append"
            /\ UNCHANGED <<status, faults>>
  <2>1. /\ todo' = [configs |-> todo.configs, instances |-> todo.instances,
                    schemas |-> todo.schemas, tables |-> Tail(todo.tables)]
    BY <1>13 DEF RequestsInv, Loops
  <2>2. /\ todo'.configs = todo.configs /\ todo'.instances = todo.instances
        /\ todo'.schemas = todo.schemas /\ todo'.tables = Tail(todo.tables)
        /\ todo' = [configs |-> todo'.configs, instances |-> todo'.instances,
                    schemas |-> todo'.schemas, tables |-> todo'.tables]
    BY <2>1
  <2>3. /\ Configs' = Configs /\ Names' = Names /\ Config' = Config
        /\ UNCHANGED <<environment, retries, installed, request, catalogs>>
    BY <1>1, <1>5, StillFacts DEF Config
  <2>4. Loops'
    <3>1. Walked' = Walked
      BY <2>3, ReasonsStay
    <3>2. Entered'
      BY <1>1, <1>3, <1>5, <2>2, <2>3, <3>1 DEF Entered
    <3> QED
      BY <1>1, <1>3, <1>5, <1>13, <2>2, <2>3, <3>2 DEF RequestsInv, Loops
  <2>5. CallOK'
    <3>1. IsCall(call') /\ call'.table = table /\ call'.over = FALSE
      BY <1>2, <1>13, BegunIsCall
    <3>2. IsCall(call)'
      BY <2>3, <3>1 DEF IsCall
    <3> QED
      BY <1>2, <1>5, <1>13, <2>3, <3>1, <3>2 DEF CallOK
  <2>6. AnswersOK'
    BY <1>1, <2>3 DEF RequestsInv, AnswersOK, Documented
  <2>7. Owners'
    <3>1. Owned(at')
      <4>1. Here(at.instance) \/ Type = "dynamodb"
        BY <1>13, AcceptedHere DEF refused, raises, DescribeRefused
      <4>2. request.table = NoName => Owned(at)
        BY <1>1 DEF RequestsInv, Owners
      <4> QED
        BY <1>5, <4>1, <4>2 DEF Owned, Here, Type, Config
    <3>2. Owned(at)'
      BY <2>3, <3>1 DEF Owned
    <3>3. (\A i \in DOMAIN answer : Owned(answer[i]))'
      BY <1>1, <2>3 DEF RequestsInv, Owners, Owned
    <3> QED
      BY <1>1, <2>3, <3>2, <3>3 DEF RequestsInv, Owners
  <2>8. Missing \/ AtListed'
    <3>1. SUFFICES ASSUME AtListed PROVE AtListed'
      BY <1>6
    <3>2. Schemas' = Schemas
      BY <2>3 DEF Schemas, Type
    <3>3. (Tables(at.schema))' = Tables(at.schema)
      <4>1. (Tables(at.schema))' = Tables(at'.schema)
        BY <2>3 DEF Type, Tables
      <4> QED
        BY <1>5, <4>1
    <3>4. Range(Tail(todo.tables)) \subseteq Range(Tables(at.schema))
      BY <1>1, <1>3, <3>1 DEF AtListed
    <3> QED
      BY <1>3, <1>5, <1>7, <2>2, <2>3, <3>1, <3>2, <3>3, <3>4 DEF AtListed, Here
  <2> QED
    BY <1>1, <1>2, <1>13, <2>4, <2>5, <2>6, <2>7, <2>8, StepOn
<1> QED
  <2> USE DEF table, bad, raises, refused
  <2> QED
    BY <1>10, <1>11, <1>12, <1>13 DEF DescribeTable

LEMMA DocumentKeeps ==
    ASSUME RequestsInv, Document PROVE RequestsInv'
<1>1. Still /\ pc = "document" /\ UNCHANGED <<matching, answer, job, todo, at, faults>>
  BY DEF Document, scan, Still
<1>2. /\ Configs' = Configs /\ Names' = Names /\ Config' = Config
      /\ UNCHANGED <<environment, retries, installed, request, catalogs>>
  BY <1>1, StillFacts DEF Config
<1>3. retries \in Nat /\ request.kind # "scan"
  BY <1>1, RequestsAssumption DEF RequestsInv, Control
<1>4. PICK next \in AI!Outcomes(call, retries, installed) :
        /\ call' = next
        /\ IF next.raised THEN Raise("RuntimeError")
           ELSE /\ pc' = IF next.over THEN "append" ELSE pc
                /\ UNCHANGED status
  BY DEF Document
<1>5. IsCall(call) /\ call.over = FALSE /\ call.table = at.table /\ request.ai
  BY <1>1 DEF RequestsInv, CallOK
<1>6. IsCall(next) /\ next.table = call.table
  BY <1>3, <1>5, OutcomeIsCall
<1>7. next.raised = FALSE /\ next.over \in BOOLEAN
  BY <1>6 DEF IsCall
<1>8. /\ UNCHANGED status
      /\ pc' = IF next.over = TRUE THEN "append" ELSE "document"
  BY <1>1, <1>4, <1>7
<1>9. Loops'
  BY <1>1, <1>2, <1>8, ReasonsStay DEF RequestsInv, Loops, Entered
<1>10. CallOK'
  <2>1. IsCall(call)'
    BY <1>2, <1>4, <1>6 DEF IsCall
  <2> QED
    BY <1>1, <1>2, <1>4, <1>5, <1>6, <1>7, <1>8, <2>1 DEF CallOK
<1>11. AnswersOK'
  BY <1>1, <1>2 DEF RequestsInv, AnswersOK, Documented
<1>12. Owners'
  BY <1>1, <1>2 DEF RequestsInv, Owners, Owned
<1>13. Missing \/ AtListed'
  <2>1. Missing \/ AtListed
    BY <1>1, <1>3 DEF RequestsInv, Reasons
  <2> QED
    BY <1>1, <1>2, <2>1 DEF AtListed, Here, Schemas, Tables, Type
<1> QED
  BY <1>1, <1>8, <1>9, <1>10, <1>11, <1>12, <1>13, StepOn

LEMMA CollectKeeps ==
    ASSUME RequestsInv, Collect PROVE RequestsInv'
<1> DEFINE item == [Item(at) EXCEPT !.doc = call.doc, !.error = call.error]
<1>1. /\ Still /\ pc = "append" /\ UNCHANGED <<matching, job, todo, at, call, status, faults>>
      /\ pc' = IF request.save THEN "save" ELSE "walk"
      /\ answer' = Append(answer, item)
  BY DEF Collect, scan, Still
<1>2. /\ Configs' = Configs /\ Names' = Names /\ Config' = Config
      /\ UNCHANGED <<environment, retries, installed, request, catalogs>>
  BY <1>1, StillFacts DEF Config
<1>3. request.kind # "scan" /\ request.ai \in BOOLEAN
  BY <1>1, RequestsAssumption DEF RequestsInv, Control
<1>4. /\ item.config = at.config /\ item.instance = at.instance /\ item.table = at.table
      /\ item.doc = call.doc /\ item.error = call.error
  BY DEF Item
<1> HIDE DEF item
<1>5. /\ IsList(answer')
      /\ \A i \in DOMAIN answer' : answer'[i] = item \/ \E j \in DOMAIN answer : answer'[i] = answer[j]
  BY <1>1, AppendedList DEF RequestsInv, AnswersOK
<1>6. Loops'
  BY <1>1, <1>2, ReasonsStay DEF RequestsInv, Loops, Entered
<1>7. CallOK'
  BY <1>1, <1>2 DEF RequestsInv, CallOK, IsCall
<1>8. AnswersOK'
  <2>1. request.ai => item.error \in BOOLEAN /\ Documented(item)
    BY <1>1, <1>4 DEF RequestsInv, CallOK, IsCall, Documented
  <2>2. request.ai => \A i \in DOMAIN answer : answer[i].error \in BOOLEAN /\ Documented(answer[i])
    BY DEF RequestsInv, AnswersOK
  <2>3. request.ai => \A i \in DOMAIN answer' : answer'[i].error \in BOOLEAN /\ Documented(answer'[i])
    BY <1>5, <2>1, <2>2
  <2> QED
    BY <1>2, <1>5, <2>3 DEF AnswersOK, Documented
<1>9. Owners'
  <2>1. Owned(at) /\ \A i \in DOMAIN answer : Owned(answer[i])
    BY <1>1 DEF RequestsInv, Owners
  <2>2. Owned(item)
    BY <1>4, <2>1 DEF Owned
  <2>3. \A i \in DOMAIN answer' : Owned(answer'[i])
    BY <1>5, <2>1, <2>2
  <2>4. (\A i \in DOMAIN answer : Owned(answer[i]))'
    BY <1>2, <2>3 DEF Owned
  <2>5. Owned(at)'
    BY <1>1, <1>2, <2>1 DEF Owned
  <2> QED
    BY <1>2, <1>3, <2>4, <2>5 DEF Owners
<1>10. Missing \/ AtListed'
  <2>1. Missing \/ AtListed
    BY <1>1, <1>3 DEF RequestsInv, Reasons
  <2> QED
    BY <1>1, <1>2, <2>1 DEF AtListed, Here, Schemas, Tables, Type
<1> QED
  BY <1>1, <1>6, <1>7, <1>8, <1>9, <1>10, StepOn

LEMMA SaveKeeps ==
    ASSUME RequestsInv, Save PROVE RequestsInv'
<1>1. Still /\ pc = "save" /\ UNCHANGED <<matching, job, todo, at, call, answer>>
  BY DEF Save, scan, Still
<1>2. /\ Configs' = Configs /\ Names' = Names /\ Config' = Config
      /\ UNCHANGED <<environment, retries, installed, request, catalogs>>
  BY <1>1, StillFacts DEF Config
<1>3. request.kind # "scan" /\ request.kind \in Kinds /\ faults \in 0..MaxFaults /\ MaxFaults \in Nat
  BY <1>1, RequestsAssumption DEF RequestsInv, Control
<1>4. at' = [config |-> at'.config, instance |-> at'.instance, schema |-> at'.schema,
             table |-> at'.table]
  BY <1>1 DEF RequestsInv, Loops
<1>5. CASE faults < MaxFaults /\ faults' = faults + 1 /\ Raise("OSError")
  <2>1. Ends /\ faults' > 0 /\ status' # 400
    BY <1>1, <1>3, <1>5, RaiseEnds
  <2> QED
    BY <1>1, <1>4, <2>1, EndKeeps
<1>6. CASE /\ pc' = "walk" /\ UNCHANGED status
           /\ faults' = faults \/ (faults < MaxFaults /\ faults' = faults + 1)
  <2>1. Loops'
    BY <1>1, <1>2, <1>6, ReasonsStay DEF RequestsInv, Loops, Entered
  <2>2. CallOK'
    BY <1>1, <1>2, <1>6 DEF RequestsInv, CallOK, IsCall
  <2>3. AnswersOK'
    BY <1>1, <1>2 DEF RequestsInv, AnswersOK, Documented
  <2>4. Owners'
    BY <1>1, <1>2, <1>6 DEF RequestsInv, Owners, Owned
  <2>5. Missing \/ AtListed'
    <3>1. Missing \/ AtListed
      BY <1>1, <1>3 DEF RequestsInv, Reasons
    <3> QED
      BY <1>1, <1>2, <3>1 DEF AtListed, Here, Schemas, Tables, Type
  <2> QED
    BY <1>1, <1>6, <2>1, <2>2, <2>3, <2>4, <2>5, StepOn
<1> QED
  BY <1>5, <1>6 DEF Save, SaveFails

\* A response that is no error.
LEMMA ServesKeeps ==
    ASSUME RequestsInv, Still, pc \notin {"unstarted", "done"}, Serves,
           UNCHANGED <<todo, at, answer, call, matching>>
    PROVE  RequestsInv'
<1>1. /\ Configs' = Configs /\ Names' = Names
      /\ UNCHANGED <<environment, retries, installed, request, catalogs>>
  BY StillFacts
<1>2. pc' = "done" /\ status' \in {200, 202}
  BY DEF Serves
<1>3. Control'
  BY ControlStays DEF RequestsInv, Still
<1>4. Loops'
  BY <1>1, <1>2 DEF RequestsInv, Loops
<1>5. CallOK'
  BY <1>1, <1>2 DEF RequestsInv, CallOK, IsCall
<1>6. AnswersOK'
  BY <1>1 DEF RequestsInv, AnswersOK, Documented
<1>7. Owners'
  BY <1>1, <1>2 DEF RequestsInv, Owners, Owned
<1>8. Reasons'
  BY <1>2 DEF Reasons
<1> QED
  BY <1>3, <1>4, <1>5, <1>6, <1>7, <1>8 DEF RequestsInv

LEMMA FinishKeeps ==
    ASSUME RequestsInv, Finish PROVE RequestsInv'
<1>1. /\ Still /\ pc = "walk" /\ UNCHANGED <<todo, at, answer, call, matching>> /\ Serves
  BY DEF Finish, scan, walk, Still, Serves
<1> QED
  BY <1>1, ServesKeeps

\* What is in a list is its head or in its tail.
LEMMA HeadOrTail ==
    ASSUME NEW s, IsList(s), s # <<>>, NEW x \in Range(s)
    PROVE  x = Head(s) \/ x \in Range(Tail(s))
<1> DEFINE S == Range(s)
<1>1. s \in Seq(S) /\ Len(s) \in Nat /\ DOMAIN s = 1..Len(s)
  BY ListFacts DEF IsList
<1>2. PICK i \in DOMAIN s : x = s[i]
  BY DEF Range
<1> HIDE DEF S
<1>3. /\ Head(s) = s[1] /\ DOMAIN Tail(s) = 1..(Len(s) - 1)
      /\ \A j \in 1..(Len(s) - 1) : Tail(s)[j] = s[j + 1]
  BY <1>1
<1>4. CASE i = 1
  BY <1>2, <1>3, <1>4
<1>5. CASE i # 1
  <2>1. i - 1 \in 1..(Len(s) - 1) /\ (i - 1) + 1 = i
    BY <1>1, <1>2, <1>5
  <2>2. Tail(s)[i - 1] = x
    BY <1>2, <1>3, <2>1
  <2> QED
    BY <1>3, <2>1, <2>2 DEF Range
<1> QED
  BY <1>4, <1>5

\* An appended element is in the list, with all that was there.
LEMMA RangeOfAppended ==
    ASSUME NEW s, IsList(s), NEW x
    PROVE  x \in Range(Append(s, x)) /\ Range(s) \subseteq Range(Append(s, x))
<1> DEFINE S == Range(s) \cup {x}
<1>1. s \in Seq(S) /\ x \in S
  <2>1. \A X, Y, q : q \in Seq(X) /\ X \subseteq Y => q \in Seq(Y)
    OBVIOUS
  <2> QED
    BY <2>1 DEF IsList
<1> HIDE DEF S
<1>2. /\ Len(s) \in Nat /\ DOMAIN s = 1..Len(s)
      /\ DOMAIN Append(s, x) = 1..(Len(s) + 1)
      /\ \A i \in 1..(Len(s) + 1) : Append(s, x)[i] = IF i = Len(s) + 1 THEN x ELSE s[i]
  BY <1>1
<1>3. Len(s) + 1 \in DOMAIN Append(s, x) /\ Append(s, x)[Len(s) + 1] = x
  BY <1>2
<1>4. \A i \in DOMAIN s : i \in DOMAIN Append(s, x) /\ Append(s, x)[i] = s[i]
  BY <1>2
<1> HIDE DEF S
<1> QED
  BY <1>3, <1>4 DEF Range

LEMMA ResolveKeeps ==
    ASSUME RequestsInv, Resolve PROVE RequestsInv'
<1> DEFINE name == Head(todo.configs)
           owns == Matches(Configs[name], request.instance, catalogs[name])
<1> HIDE DEF name, owns
<1>1. Still /\ pc = "resolve" /\ todo.configs # <<>> /\ UNCHANGED <<at, call, answer, job>>
  BY DEF Resolve, Still
<1>2. /\ Configs' = Configs /\ Names' = Names
      /\ UNCHANGED <<environment, retries, installed, request, catalogs>>
  BY <1>1, StillFacts
<1>3. /\ request.kind = "scan" /\ request.kind \in Kinds /\ faults \in 0..MaxFaults
      /\ MaxFaults \in Nat
  BY <1>1, RequestsAssumption DEF RequestsInv, Control, Kinds
<1>4. /\ IsList(todo.configs) /\ IsList(Tail(todo.configs)) /\ name \in Range(todo.configs)
      /\ Range(Tail(todo.configs)) \subseteq Range(todo.configs)
      /\ \A n \in Range(todo.configs) : n = name \/ n \in Range(Tail(todo.configs))
  BY <1>1, ListFacts, HeadOrTail DEF RequestsInv, Loops, name
<1>5. at' = [config |-> at'.config, instance |-> at'.instance, schema |-> at'.schema,
             table |-> at'.table]
  BY <1>1 DEF RequestsInv, Loops
<1>6. CASE Fails /\ UNCHANGED <<todo, matching>>
  <2>1. Ends /\ faults' > 0 /\ status' # 400
    BY <1>1, <1>3, <1>6, RaiseEnds
  <2> QED
    BY <1>1, <1>5, <1>6, <2>1, EndKeeps
<1>7. CASE /\ todo' = [todo EXCEPT !.configs = Tail(@)]
           /\ matching' = IF owns THEN Append(matching, name) ELSE matching
           /\ UNCHANGED <<pc, status, faults>>
  <2>1. todo' = [configs |-> Tail(todo.configs), instances |-> todo.instances,
                 schemas |-> todo.schemas, tables |-> todo.tables]
    BY <1>7 DEF RequestsInv, Loops
  <2>2. /\ todo'.configs = Tail(todo.configs) /\ todo'.instances = todo.instances
        /\ todo'.schemas = todo.schemas /\ todo'.tables = todo.tables
        /\ todo' = [configs |-> todo'.configs, instances |-> todo'.instances,
                    schemas |-> todo'.schemas, tables |-> todo'.tables]
    BY <2>1
  <2>3. /\ IsList(matching') /\ Range(matching) \subseteq Range(matching')
        /\ owns => name \in Range(matching')
    <3>1. IsList(matching)
      BY DEF RequestsInv, Loops
    <3> QED
      BY <1>7, <3>1, AppendedList, RangeOfAppended
  <2>4. GoesOn
    <3>1. faults <= faults
      BY <1>3
    <3> QED
      BY <1>1, <1>3, <1>7, <3>1 DEF GoesOn
  <2>5. Control'
    BY <1>1, <2>4, ControlStays DEF RequestsInv, Still
  <2>6. Loops'
    <3>1. Entered'
      BY <1>1, <1>2, <2>2, ReasonsStay DEF RequestsInv, Loops, Entered
    <3> QED
      BY <1>1, <1>2, <1>4, <1>7, <2>2, <2>3, <3>1 DEF RequestsInv, Loops
  <2>7. CallOK'
    BY <1>1, <1>2, <1>7 DEF RequestsInv, CallOK, IsCall
  <2>8. AnswersOK'
    BY <1>1, <1>2 DEF RequestsInv, AnswersOK, Documented
  <2>9. Owners'
    BY <1>1, <1>2, <1>7, <2>2 DEF RequestsInv, Owners, Owned
  <2>10. Reasons'
    <3>1. Passed
      BY <1>1 DEF RequestsInv, Reasons
    <3>2. Passed'
      <4>1. ASSUME NEW n \in Range(Names)
            PROVE  \/ n \in Range(Tail(todo.configs)) \/ n \in Range(matching')
                   \/ ~Matches(Configs[n], request.instance, catalogs[n])
        BY <1>4, <2>3, <3>1 DEF Passed, owns
      <4> QED
        BY <1>2, <2>2, <4>1 DEF Passed
    <3>3. status' = 0
      BY <1>1, <1>7 DEF RequestsInv, Control
    <3> QED
      BY <1>2, <1>3, <3>2, <3>3 DEF Reasons
  <2> QED
    BY <2>5, <2>6, <2>7, <2>8, <2>9, <2>10 DEF RequestsInv
<1> QED
  BY <1>6, <1>7 DEF Resolve, Resolved, name, owns

LEMMA RejectKeeps ==
    ASSUME RequestsInv, Reject PROVE RequestsInv'
<1>1. /\ Still /\ pc = "resolve" /\ todo.configs = <<>> /\ matching = <<>> /\ Refused
      /\ UNCHANGED <<todo, at, call, answer, matching, job>>
  BY DEF Reject, scan, walk, Still
<1>2. /\ request.kind = "scan" /\ request.kind \in Kinds /\ faults \in 0..MaxFaults
      /\ environment \in Environments /\ Configs # NoName
  BY <1>1, RequestsAssumption DEF RequestsInv, Control, Kinds
<1>3. at' = [config |-> at'.config, instance |-> at'.instance, schema |-> at'.schema,
             table |-> at'.table]
  BY <1>1 DEF RequestsInv, Loops
<1>4. Refusable
  <2>1. Passed
    BY <1>1 DEF RequestsInv, Reasons
  <2>2. DOMAIN Configs = Range(Names)
    BY <1>2, StartedWith
  <2> QED
    BY <1>1, <1>2, <2>1, <2>2, EmptyList DEF Passed, NobodyMatches, Refusable
<1>5. Ends /\ status' = 400
  BY <1>1, <1>2, RaiseEnds
<1> QED
  BY <1>1, <1>3, <1>4, <1>5, EndKeeps

LEMMA EnqueueKeeps ==
    ASSUME RequestsInv, Enqueue PROVE RequestsInv'
<1>1. /\ Still /\ pc \in {"enqueue", "resolve"}
      /\ UNCHANGED <<todo, at, call, answer, matching>>
  BY DEF Enqueue, walk, Still
<1>2. request.kind = "scan" /\ request.kind \in Kinds /\ faults \in 0..MaxFaults
  BY <1>1, RequestsAssumption DEF RequestsInv, Control, Kinds
<1>3. at' = [config |-> at'.config, instance |-> at'.instance, schema |-> at'.schema,
             table |-> at'.table]
  BY <1>1 DEF RequestsInv, Loops
<1>4. CASE status' = 202 /\ pc' = "done" /\ UNCHANGED faults
  BY <1>1, <1>2, <1>4, ServesKeeps DEF Serves
<1>5. CASE /\ faults < MaxFaults /\ faults' = faults + 1
           /\ Raise("RedisError") /\ UNCHANGED job
  <2>1. Ends /\ faults' > 0 /\ status' # 400
    BY <1>2, <1>5, RaiseEnds
  <2> QED
    BY <1>1, <1>3, <2>1, EndKeeps
<1> QED
  BY <1>4, <1>5 DEF Enqueue

\* What becomes of an accepted scan: of the request nothing changes any more.
LEMMA AfterwardsKeeps ==
    ASSUME RequestsInv, status = 202,
           UNCHANGED <<setting, pc, todo, at, call, answer, status, matching, job>>,
           faults' \in 0..MaxFaults, faults <= faults',
           work'.state \in {"waiting", "taken", "failed"},
           work' = [state |-> work'.state, configs |-> work'.configs],
           DOMAIN catalogs' = DOMAIN catalogs,
           \A n \in DOMAIN catalogs : catalogs'[n] \subseteq catalogs[n]
    PROVE  RequestsInv'
<1>1. /\ Configs' = Configs /\ Names' = Names
      /\ UNCHANGED <<environment, retries, installed, request>>
  BY DEF setting, Configs, Started, Names
<1>2. pc = "done"
  BY DEF RequestsInv, Control
<1>3. Control'
  <2>1. faults > 0 => faults' > 0
    BY RequestsAssumption DEF RequestsInv, Control
  <2> QED
    BY <1>1, <2>1 DEF RequestsInv, Control
<1>4. Loops'
  <2>1. \A n \in DOMAIN catalogs : IsFiniteSet(catalogs[n]) => IsFiniteSet(catalogs'[n])
    BY FS_Subset
  <2> QED
    BY <1>1, <1>2, <2>1 DEF RequestsInv, Loops
<1>5. CallOK'
  BY <1>1, <1>2 DEF RequestsInv, CallOK, IsCall
<1>6. AnswersOK'
  BY <1>1 DEF RequestsInv, AnswersOK, Documented
<1>7. Owners'
  <2>1. answer = <<>>
    BY DEF RequestsInv, Control, Owners
  <2> QED
    BY <1>1, <1>2, <2>1, EmptyList DEF Owners
<1>8. Reasons'
  BY <1>2 DEF Reasons
<1> QED
  BY <1>3, <1>4, <1>5, <1>6, <1>7, <1>8 DEF RequestsInv

LEMMA DropCatalogKeeps ==
    ASSUME RequestsInv, DropCatalog PROVE RequestsInv'
<1>1. /\ status = 202 /\ faults \in 0..MaxFaults /\ MaxFaults \in Nat
      /\ work.state \in {"waiting", "taken", "failed"}
      /\ work = [state |-> work.state, configs |-> work.configs]
  BY RequestsAssumption DEF RequestsInv, Control, DropCatalog
<1>2. UNCHANGED <<setting, pc, todo, at, call, answer, status, matching, job, work, faults>>
  BY DEF DropCatalog, walk, scan
<1>3. PICK n \in DOMAIN catalogs, c \in {"hive", "tpch"} :
        catalogs' = [catalogs EXCEPT ![n] = @ \ {c}]
  BY DEF DropCatalog
<1>4. /\ DOMAIN catalogs' = DOMAIN catalogs
      /\ \A m \in DOMAIN catalogs : catalogs'[m] \subseteq catalogs[m]
  BY <1>3
<1>5. faults <= faults
  BY <1>1
<1> QED
  BY <1>1, <1>2, <1>4, <1>5, AfterwardsKeeps

LEMMA ExecuteKeeps ==
    ASSUME RequestsInv, Execute PROVE RequestsInv'
<1>1. /\ status = 202 /\ faults \in 0..MaxFaults /\ MaxFaults \in Nat
      /\ work = [state |-> work.state, configs |-> work.configs]
  BY RequestsAssumption DEF RequestsInv, Control, Execute
<1>2. UNCHANGED <<setting, pc, todo, at, call, answer, status, matching, job, catalogs>>
  BY DEF Execute, walk
<1>3. /\ work'.state \in {"waiting", "taken", "failed"}
      /\ work' = [state |-> work'.state, configs |-> work'.configs]
  <2>1. \/ work' = [state |-> "taken", configs |-> Scope(job)]
        \/ work' = [work EXCEPT !.state = "failed"]
    BY DEF Execute
  <2>2. CASE work' = [state |-> "taken", configs |-> Scope(job)]
    BY <2>2
  <2>3. CASE work' = [work EXCEPT !.state = "failed"]
    BY <1>1, <2>3
  <2> QED
    BY <2>1, <2>2, <2>3
<1>4. faults' \in 0..MaxFaults /\ faults <= faults'
  BY <1>1 DEF Execute
<1> QED
  BY <1>1, <1>2, <1>3, <1>4, AfterwardsKeeps

LEMMA StutterKeeps ==
    ASSUME RequestsInv, UNCHANGED vars PROVE RequestsInv'
<1>1. /\ Configs' = Configs /\ Names' = Names /\ Config' = Config
      /\ UNCHANGED <<environment, retries, installed, request, catalogs, pc, todo, at, call, answer,
                     status, matching, job, work, faults>>
  BY DEF vars, setting, walk, scan, Configs, Started, Names, Config
<1>2. Control'
  BY <1>1 DEF RequestsInv, Control
<1>3. Loops'
  BY <1>1, ReasonsStay DEF RequestsInv, Loops, Entered
<1>4. CallOK'
  BY <1>1 DEF RequestsInv, CallOK, IsCall
<1>5. AnswersOK'
  BY <1>1 DEF RequestsInv, AnswersOK, Documented
<1>6. Owners'
  BY <1>1 DEF RequestsInv, Owners, Owned
<1>7. Reasons'
  <2>1. /\ Missing' <=> Missing
        /\ Refusable' <=> Refusable
        /\ Unservable' <=> Unservable
    BY <1>1, ReasonsStay
  <2>2. AtListed' <=> AtListed
    BY <1>1 DEF AtListed, Here, Schemas, Tables, Type
  <2>3. Passed' <=> Passed
    BY <1>1 DEF Passed
  <2> QED
    BY <1>1, <2>1, <2>2, <2>3 DEF RequestsInv, Reasons
<1> QED
  BY <1>2, <1>3, <1>4, <1>5, <1>6, <1>7 DEF RequestsInv

LEMMA RequestsStep == RequestsInv /\ [Next]_vars => RequestsInv'
<1> SUFFICES ASSUME RequestsInv, [Next]_vars PROVE RequestsInv'
  OBVIOUS
<1>1. ASSUME Next PROVE RequestsInv'
  BY <1>1, ReceiveKeeps, NextConfigKeeps, NextInstanceKeeps, NextSchemaKeeps, DescribeTableKeeps,
     DocumentKeeps, CollectKeeps, SaveKeeps, FinishKeeps, ResolveKeeps, RejectKeeps, EnqueueKeeps,
     DropCatalogKeeps, ExecuteKeeps
  DEF Next
<1> QED
  BY <1>1, StutterKeeps

-----------------------------------------------------------------------------
(* The theorems                                                            *)

\* The inductive invariant: what a request has answered and has left to do, and how
\* it ended, agree at every step of every request in every environment.
THEOREM RequestsInvariant == Spec => []RequestsInv
<1>1. Init => RequestsInv
  BY InitHolds
<1>2. RequestsInv /\ [Next]_vars => RequestsInv'
  BY RequestsStep
<1> QED
  BY <1>1, <1>2, PTL DEF Spec

\* The type invariant: the loops hold names of DB_TARGETS or the one asked for, and the
\* call to the model stays within LITELLM_MAX_RETRIES.
THEOREM RequestsTypeCorrect == Spec => []RequestsTypeOK
<1>1. RequestsInv => RequestsTypeOK
  <2> SUFFICES ASSUME RequestsInv PROVE RequestsTypeOK
    OBVIOUS
  <2>1. Range(todo.configs) \subseteq Range(Names) \cup {request.config}
    <3>1. Range(Chosen(request.config, Names)) \subseteq Range(Names) \cup {request.config}
      BY DEF Chosen, Range
    <3> QED
      BY <3>1 DEF RequestsInv, Loops
  <2>2. \A i \in DOMAIN todo.configs : todo.configs[i] \in Range(Names) \cup {request.config}
    BY <2>1, ListFacts DEF RequestsInv, Loops
  <2> QED
    BY <2>2 DEF RequestsInv, Control, CallOK, IsCall, RequestsTypeOK
<1> QED
  BY <1>1, RequestsInvariant, PTL

\* A service that starts has every target of DB_TARGETS, each with the parameters that
\* its connector requires (configurations.py get_target_configurations).
THEOREM ServiceStartsWhole == Spec => []StartsWhole
<1>1. RequestsInv => StartsWhole
  <2>1. SUFFICES ASSUME RequestsInv, pc # "unstarted"
                 PROVE  /\ DOMAIN Configs = Range(Names)
                        /\ \A n \in Range(Names) :
                             LET params == T!Params(Configs[n].type)
                             IN  \A p \in DOMAIN params :
                                   params[p].kind = "required" => Configs[n].params[p] # NoName
    BY DEF StartsWhole
  <2>2. environment \in Environments /\ Configs # NoName
    BY <2>1 DEF RequestsInv, Control
  <2> QED
    BY <2>2, StartedWith, RequiredHaveValues
<1> QED
  BY <1>1, RequestsInvariant, PTL

\* Targets with different keys have no variable in common, whatever their types and
\* whatever words their names are made of (configurations.py _target_env).
THEOREM VariablesNeverShared == Spec => []TargetsApart
<1>1. RequestsInv => TargetsApart
  BY VariablesApart DEF RequestsInv, Control
<1> QED
  BY <1>1, RequestsInvariant, PTL

\* An instance that a configuration lists is resolved to it and not refused by it,
\* Trino's catalogs apart (config_service.py configuration_matches_instance).
THEOREM ListedInstancesResolve == Spec => []OwnersResolve
<1>1. RequestsInv => OwnersResolve
  <2>1. SUFFICES ASSUME RequestsInv, pc # "unstarted", NEW n \in DOMAIN Configs,
                        ConnectorType(Configs[n]) # "trino",
                        NEW instance \in ListInstances(Configs[n], catalogs[n])
                 PROVE  /\ Matches(Configs[n], instance, catalogs[n])
                        /\ \A op \in {"schemas", "tables", "describe"} :
                              ~Refuses(Configs[n], op, instance)
    BY DEF OwnersResolve
  <2>2. environment \in Environments /\ Configs # NoName
    BY <2>1 DEF RequestsInv, Control
  <2>3. n \in Range(Names)
    BY <2>2, StartedWith
  <2> QED
    BY <2>1, <2>2, <2>3, ListedIsOwned
<1> QED
  BY <1>1, RequestsInvariant, PTL

\* An answered table has the document generated for it or an error, and the model never
\* ends a request (ai_service.py generate_table_documentation).
THEOREM DocumentsNeverBlock == Spec => []AiNeverBlocks
<1>1. RequestsInv => AiNeverBlocks
  <2> SUFFICES ASSUME RequestsInv PROVE AiNeverBlocks
    OBVIOUS
  <2>2. request.ai => \A i \in DOMAIN answer :
          answer[i].doc = (IF answer[i].error THEN NoName ELSE answer[i].table)
    BY DEF RequestsInv, AnswersOK, Documented
  <2>3. ~call.raised
    BY DEF RequestsInv, CallOK, IsCall
  <2> QED
    BY <2>2, <2>3 DEF AiNeverBlocks
<1> QED
  BY <1>1, RequestsInvariant, PTL

\* No item of an answer comes from a configuration that does not own its instance (the
\* checks of the instance in the connectors).
THEOREM AnswersFromOwners == Spec => []OnlyOwnersAnswer
<1>1. RequestsInv => OnlyOwnersAnswer
  BY DEF RequestsInv, Owners, Owned, OnlyOwnersAnswer
<1> QED
  BY <1>1, RequestsInvariant, PTL

\* Every failed request has one of the reasons that its status stands for: with no failed
\* call, something in it that its configurations do not have, a page that SQLite cannot
\* write or that is refused, or a table that cannot be described (the except clauses of
\* main.py).
THEOREM FailuresHaveReasons == Spec => []FailuresExplained
<1>1. RequestsInv => FailuresExplained
  <2> SUFFICES ASSUME RequestsInv PROVE FailuresExplained
    OBVIOUS
  <2>1. status = 503 => request.kind = "scan" /\ faults > 0
    BY DEF RequestsInv, Control
  <2>2. (status = 500 => faults > 0 \/ Unservable) /\ (status = 400 => Refusable)
    BY DEF RequestsInv, Reasons
  <2> QED
    BY <2>1, <2>2 DEF Refusable, Unservable, NobodyMatches, Misnamed, FailuresExplained
<1> QED
  BY <1>1, RequestsInvariant, PTL

-----------------------------------------------------------------------------
(* A scan and the owners of its instance                                   *)

Both == {"hive", "tpch"}

\* The configurations that own the instance of the request while no catalog is gone.
Owning == {n \in Range(Names) : Matches(Configs[n], request.instance, Both)}

ByInstance == request.config = NoName /\ request.instance # NoName
AllCatalogs == \A n \in DOMAIN catalogs : Cardinality(catalogs[n]) = 2

\* What resolve has found so far, what it leaves in the queue, and what the worker
\* makes of that.
ScanInv ==
    /\ \A n \in Range(Names) : catalogs[n] \subseteq Both
    /\ job = NoName => \A n \in Range(Names) : catalogs[n] = Both
    /\ pc \in {"received", "enqueue"} => matching = <<>>
    /\ pc = "enqueue" => ~ByInstance
    /\ pc = "resolve" => /\ Range(matching) \subseteq Owning
                         /\ Owning \subseteq Range(matching) \cup Range(todo.configs)
    /\ job # NoName /\ ByInstance =>
          /\ job.instance = request.instance /\ Owning # {}
          /\ job.config = NoName \/ Owning = {job.config}
    /\ work.state = "taken" /\ ByInstance /\ AllCatalogs =>
          Range(work.configs) = Owning /\ Owning # {}
    /\ work.state # "waiting" => job # NoName

LEMMA OwningStays ==
    ASSUME UNCHANGED setting
    PROVE  /\ Configs' = Configs /\ Names' = Names /\ request' = request
           /\ Owning' = Owning /\ ByInstance' = ByInstance
  BY DEF setting, Configs, Started, Names, Owning, ByInstance

\* A step that has nothing to do with the scan.
LEMMA ElsewhereKeepsScan ==
    ASSUME ScanInv, UNCHANGED <<setting, catalogs, scan>>,
           pc' \notin {"received", "resolve", "enqueue"}
    PROVE  ScanInv'
<1>1. /\ Names' = Names /\ request' = request /\ Owning' = Owning /\ ByInstance' = ByInstance
      /\ UNCHANGED <<catalogs, matching, job, work>>
  BY OwningStays DEF scan
<1>2. AllCatalogs' = AllCatalogs
  BY <1>1 DEF AllCatalogs
<1> QED
  BY <1>1, <1>2 DEF ScanInv

LEMMA InitScan == Init /\ RequestsInv => ScanInv
<1> SUFFICES ASSUME Init, RequestsInv PROVE ScanInv
  OBVIOUS
<1>1. /\ pc \in {"unstarted", "received"} /\ matching = <<>> /\ job = NoName
      /\ work = [state |-> "waiting", configs |-> <<>>]
  BY DEF Init
<1>2. catalogs = [n \in Range(Names) |-> Both]
  BY DEF Init, Range, Both
<1>3. \A n \in Range(Names) : catalogs[n] = Both
  BY <1>2
<1> QED
  BY <1>1, <1>3 DEF ScanInv

LEMMA ReceiveScan ==
    ASSUME RequestsInv, ScanInv, Receive PROVE ScanInv'
<1>1. /\ UNCHANGED <<setting, catalogs, matching, job, work>>
      /\ Names' = Names /\ request' = request /\ Owning' = Owning /\ ByInstance' = ByInstance
  BY OwningStays DEF Receive, scan
<1>2. AllCatalogs' = AllCatalogs /\ pc = "received" /\ matching = <<>>
  BY <1>1 DEF AllCatalogs, Receive, ScanInv
<1>3. CASE pc' = "enqueue" /\ (request.config # NoName \/ request.instance = NoName)
  BY <1>1, <1>2, <1>3, EmptyList DEF ScanInv, ByInstance
<1>4. CASE pc' = "resolve" /\ request.config = NoName /\ todo'.configs = Names
  <2>1. Range(todo'.configs) = Range(Names)
    BY <1>4
  <2>2. Owning \subseteq Range(Names)
    BY DEF Owning
  <2> QED
    BY <1>1, <1>2, <1>4, <2>1, <2>2, EmptyList DEF ScanInv
<1>5. CASE pc' = "walk"
  BY <1>1, <1>2, <1>5 DEF ScanInv
<1>6. todo' = [NoTodo EXCEPT !.configs = Chosen(request.config, Names)]
        => todo'.configs = Chosen(request.config, Names)
  BY DEF NoTodo
<1>7. request.config = NoName => Chosen(request.config, Names) = Names
  BY DEF Chosen
<1> QED
  BY <1>3, <1>4, <1>5, <1>6, <1>7 DEF Receive

LEMMA ResolveScan ==
    ASSUME RequestsInv, ScanInv, Resolve PROVE ScanInv'
<1> DEFINE name == Head(todo.configs)
           owns == Matches(Configs[name], request.instance, catalogs[name])
<1> HIDE DEF name, owns
<1>1. /\ UNCHANGED <<setting, catalogs, job, work>> /\ pc = "resolve" /\ todo.configs # <<>>
      /\ Names' = Names /\ request' = request /\ Owning' = Owning /\ ByInstance' = ByInstance
  BY OwningStays DEF Resolve
<1>2. AllCatalogs' = AllCatalogs
  BY <1>1 DEF AllCatalogs
<1>3. /\ IsList(todo.configs) /\ name \in Range(todo.configs) /\ IsList(matching)
      /\ \A n \in Range(todo.configs) : n = name \/ n \in Range(Tail(todo.configs))
      /\ \A n \in Range(todo.configs) : n \in Range(Names)
      /\ job = NoName
  <2>1. Range(todo.configs) \subseteq Range(Names)
    BY <1>1 DEF RequestsInv, Loops, Chosen
  <2> QED
    BY <1>1, <2>1, ListFacts, HeadOrTail DEF RequestsInv, Control, Loops, name
<1>4. owns <=> name \in Owning
  BY <1>3 DEF ScanInv, Owning, owns
<1>5. CASE Fails
  BY <1>1, <1>2, <1>5 DEF ScanInv, Fails, Raise
<1>6. CASE /\ todo' = [todo EXCEPT !.configs = Tail(@)]
           /\ matching' = IF owns THEN Append(matching, name) ELSE matching
           /\ UNCHANGED <<pc, status, faults>>
  <2>1. todo'.configs = Tail(todo.configs)
    BY <1>6 DEF RequestsInv, Loops
  <2>2. \A x \in Range(Append(matching, name)) : x = name \/ x \in Range(matching)
    <3> TAKE x \in Range(Append(matching, name))
    <3>1. PICK i \in DOMAIN Append(matching, name) : x = Append(matching, name)[i]
      BY DEF Range
    <3> QED
      BY <1>3, <3>1, AppendedList DEF Range
  <2>3. /\ name \in Range(Append(matching, name))
        /\ Range(matching) \subseteq Range(Append(matching, name))
    BY <1>3, RangeOfAppended
  <2>4. Range(matching) \subseteq Owning /\ Owning \subseteq Range(matching) \cup Range(todo.configs)
    BY <1>1 DEF ScanInv
  <2>5. Range(matching') \subseteq Owning
    BY <1>4, <1>6, <2>2, <2>4
  <2>6. Owning \subseteq Range(matching') \cup Range(Tail(todo.configs))
    <3> SUFFICES ASSUME NEW n \in Owning PROVE n \in Range(matching') \/ n \in Range(Tail(todo.configs))
      OBVIOUS
    <3>1. CASE n = name
      BY <1>4, <1>6, <2>3, <3>1
    <3>2. CASE n # name
      <4>1. n \in Range(matching) \/ n \in Range(Tail(todo.configs))
        BY <1>3, <2>4, <3>2
      <4> QED
        BY <1>6, <2>3, <4>1
    <3> QED
      BY <3>1, <3>2
  <2> QED
    BY <1>1, <1>2, <1>6, <2>1, <2>5, <2>6 DEF ScanInv
<1> QED
  BY <1>5, <1>6 DEF Resolve, Resolved, name, owns

LEMMA EnqueueScan ==
    ASSUME RequestsInv, ScanInv, Enqueue PROVE ScanInv'
<1>1. /\ UNCHANGED <<setting, catalogs, matching, work>>
      /\ Names' = Names /\ request' = request /\ Owning' = Owning /\ ByInstance' = ByInstance
  BY OwningStays DEF Enqueue
<1>2. AllCatalogs' = AllCatalogs /\ pc' = "done"
  BY <1>1 DEF AllCatalogs, Enqueue, Raise
<1>3. CASE UNCHANGED job
  BY <1>1, <1>2, <1>3 DEF ScanInv
<1>4. CASE job' = [config |-> IF Len(matching) = 1 THEN matching[1] ELSE request.config,
                   instance |-> request.instance]
  <2>1. /\ job'.config = IF Len(matching) = 1 THEN matching[1] ELSE request.config
        /\ job'.instance = request.instance
    BY <1>4
  <2>2. ASSUME ByInstance PROVE Owning # {} /\ (job'.config = NoName \/ Owning = {job'.config})
    <3>1. pc = "resolve" /\ todo.configs = <<>> /\ matching # <<>>
      BY <2>2 DEF Enqueue, ScanInv
    <3>2. Range(matching) = Owning
      BY <3>1, EmptyList DEF ScanInv
    <3>3. IsList(matching) /\ Len(matching) \in Nat /\ DOMAIN matching = 1..Len(matching)
      BY ListFacts DEF RequestsInv, Loops
    <3>4. Head(matching) \in Range(matching)
      BY <3>1, <3>3, ListFacts
    <3>5. CASE Len(matching) = 1
      <4>1. Range(matching) = {matching[1]}
        BY <3>3, <3>5 DEF Range
      <4> QED
        BY <2>1, <3>2, <3>5, <4>1
    <3>6. CASE Len(matching) # 1
      BY <2>1, <2>2, <3>2, <3>4, <3>6 DEF ByInstance
    <3> QED
      BY <3>5, <3>6
  <2>3. job = NoName
    BY DEF Enqueue, RequestsInv, Control
  <2> QED
    BY <1>1, <1>2, <2>1, <2>2, <2>3 DEF ScanInv
<1> QED
  BY <1>3, <1>4 DEF Enqueue

LEMMA DropCatalogScan ==
    ASSUME RequestsInv, ScanInv, DropCatalog PROVE ScanInv'
<1>1. /\ UNCHANGED <<setting, matching, job, work, pc, todo>> /\ job # NoName
      /\ work.state = "waiting"
      /\ Names' = Names /\ request' = request /\ Owning' = Owning /\ ByInstance' = ByInstance
  BY OwningStays DEF DropCatalog, walk, scan
<1>2. PICK n \in DOMAIN catalogs, c \in {"hive", "tpch"} :
        catalogs' = [catalogs EXCEPT ![n] = @ \ {c}]
  BY DEF DropCatalog
<1>3. \A m \in DOMAIN catalogs : catalogs'[m] \subseteq catalogs[m]
  BY <1>2
<1>4. \A m \in Range(Names) : catalogs'[m] \subseteq Both
  BY <1>3 DEF ScanInv, RequestsInv, Loops
<1> QED
  BY <1>1, <1>4 DEF ScanInv

LEMMA BothThere ==
    ASSUME RequestsInv, ScanInv, AllCatalogs
    PROVE  \A n \in Range(Names) : catalogs[n] = Both
<1> TAKE n \in Range(Names)
<1>1. IsFiniteSet({"hive"}) /\ Cardinality({"hive"}) = 1
  BY FS_Singleton
<1>2. Both = {"hive"} \cup {"tpch"} /\ "tpch" \notin {"hive"}
  BY DEF Both
<1>3. IsFiniteSet(Both) /\ Cardinality(Both) = 2
  BY <1>1, <1>2, FS_AddElement
<1>4. catalogs[n] \subseteq Both /\ Cardinality(catalogs[n]) = 2
  BY DEF ScanInv, AllCatalogs, RequestsInv, Loops
<1> QED
  BY <1>3, <1>4, FS_Subset

\* With both catalogs of each configuration there, the worker finds the owners again.
LEMMA ScopeIsOwning ==
    ASSUME RequestsInv, ScanInv, ByInstance, job # NoName, AllCatalogs
    PROVE  Range(Scope(job)) = Owning /\ Owning # {}
<1>1. /\ job.instance = request.instance /\ Owning # {}
      /\ job.config = NoName \/ Owning = {job.config}
  BY DEF ScanInv
<1>2. CASE job.config # NoName
  <2>1. Scope(job) = <<job.config>>
    BY <1>2 DEF Scope
  <2>2. \A x : Range(<<x>>) = {x}
    BY DEF Range
  <2> QED
    BY <1>1, <1>2, <2>1, <2>2
<1>3. CASE job.config = NoName
  <2>1. \A n \in Range(Names) : catalogs[n] = Both
    BY BothThere
  <2> DEFINE one(n) == IF Matches(Configs[n], request.instance, catalogs[n]) THEN <<n>> ELSE <<>>
             list == [i \in DOMAIN Names |-> one(Names[i])]
  <2>2. Scope(job) = FlattenSeq(list)
    BY <1>1, <1>3 DEF Scope, ByInstance
  <2>3. IsList(Names)
    BY NamesListed DEF RequestsInv, Control
  <2>4. \A n \in Range(Names) :
          one(n) \in Seq(Range(Names)) /\ Range(one(n)) = {m \in {n} : n \in Owning}
    <3> TAKE n \in Range(Names)
    <3>1. Range(<<n>>) = {n} /\ Range(<<>>) = {}
      BY DEF Range
    <3>2. Matches(Configs[n], request.instance, catalogs[n]) <=> n \in Owning
      BY <2>1 DEF Owning
    <3> QED
      BY <3>1, <3>2
  <2> HIDE DEF one
  <2>5. list \in Seq(Seq(Range(Names))) /\ DOMAIN list = DOMAIN Names
    <3>1. DOMAIN Names = 1..Len(Names) /\ Len(Names) \in Nat
          /\ \A i \in DOMAIN Names : Names[i] \in Range(Names)
      BY <2>3, ListFacts
    <3> QED
      BY <2>4, <3>1
  <2>6. Range(Scope(job)) = UNION {Range(list[i]) : i \in DOMAIN list}
    BY <2>2, <2>5, FlattenMembers
  <2>7. \A i \in DOMAIN list : Range(list[i]) = {m \in {Names[i]} : Names[i] \in Owning}
    BY <2>3, <2>4, <2>5, ListFacts
  <2> HIDE DEF list
  <2>8. \A n : n \in Range(Scope(job)) <=> n \in Owning
    <3> TAKE n
    <3>1. ASSUME n \in Owning PROVE n \in Range(Scope(job))
      <4>1. PICK i \in DOMAIN Names : n = Names[i]
        BY <3>1 DEF Owning, Range
      <4> QED
        BY <2>5, <2>6, <2>7, <3>1, <4>1
    <3>2. ASSUME n \in Range(Scope(job)) PROVE n \in Owning
      <4>1. PICK i \in DOMAIN list : n \in Range(list[i])
        BY <2>6, <3>2
      <4> QED
        BY <2>7, <4>1
    <3> QED
      BY <3>1, <3>2
  <2> QED
    BY <1>1, <2>8
<1> QED
  BY <1>2, <1>3

LEMMA ExecuteScan ==
    ASSUME RequestsInv, ScanInv, Execute PROVE ScanInv'
<1>1. /\ UNCHANGED <<setting, catalogs, matching, job, pc, todo>> /\ job # NoName
      /\ work.state = "waiting"
      /\ Names' = Names /\ request' = request /\ Owning' = Owning /\ ByInstance' = ByInstance
  BY OwningStays DEF Execute, walk
<1>2. AllCatalogs' = AllCatalogs
  BY <1>1 DEF AllCatalogs
<1>3. CASE work' = [state |-> "taken", configs |-> Scope(job)]
  <2>1. work'.configs = Scope(job)
    BY <1>3
  <2>2. ByInstance /\ AllCatalogs => Range(work'.configs) = Owning /\ Owning # {}
    BY <1>1, <2>1, ScopeIsOwning
  <2> QED
    BY <1>1, <1>2, <2>2 DEF ScanInv
<1>4. CASE work' = [work EXCEPT !.state = "failed"]
  <2>1. work'.state # "taken"
    BY <1>4 DEF RequestsInv, Control
  <2> QED
    BY <1>1, <1>2, <2>1 DEF ScanInv
<1> QED
  BY <1>3, <1>4 DEF Execute

LEMMA ScanStep == RequestsInv /\ ScanInv /\ [Next]_vars => ScanInv'
<1> SUFFICES ASSUME RequestsInv, ScanInv, [Next]_vars PROVE ScanInv'
  OBVIOUS
<1> DEFINE elsewhere == UNCHANGED <<setting, catalogs, scan>>
                        /\ pc' \notin {"received", "resolve", "enqueue"}
<1>1. elsewhere => ScanInv'
  BY ElsewhereKeepsScan
<1>2. NextConfig => elsewhere
  BY DEF NextConfig, Walking, Refused, Fails, Raise
<1>3. NextInstance => elsewhere
  BY DEF NextInstance, Walking, Refused, QueryRaises, Fails, Raise
<1>4. NextSchema => elsewhere
  BY DEF NextSchema, Walking, Refused, QueryRaises, Fails, Raise
<1>5. DescribeTable => elsewhere
  BY DEF DescribeTable, Refused, QueryRaises, Fails, Raise
<1>6. Document => elsewhere
  BY DEF Document, Raise
<1>7. Collect => elsewhere
  BY DEF Collect
<1>8. Save => elsewhere
  BY DEF Save, SaveFails, Raise
<1>9. Finish => elsewhere
  BY DEF Finish
<1>10. Reject => elsewhere
  BY DEF Reject, Refused, Raise
<1>11. UNCHANGED vars => ScanInv'
  <2> SUFFICES ASSUME UNCHANGED vars PROVE ScanInv'
    OBVIOUS
  <2>1. UNCHANGED <<setting, catalogs, matching, job, work, pc, todo>>
        /\ Names' = Names /\ Owning' = Owning /\ ByInstance' = ByInstance /\ request' = request
    BY OwningStays DEF vars, walk, scan
  <2>2. AllCatalogs' = AllCatalogs
    BY <2>1 DEF AllCatalogs
  <2> QED
    BY <2>1, <2>2 DEF ScanInv
<1> HIDE DEF elsewhere
<1> QED
  BY <1>1, <1>2, <1>3, <1>4, <1>5, <1>6, <1>7, <1>8, <1>9, <1>10, <1>11, ReceiveScan, ResolveScan,
     EnqueueScan, DropCatalogScan, ExecuteScan
  DEF Next

\* A scan of an instance that is accepted for its owners is taken to them and to no other
\* configuration, unless a catalog has gone since (scan_service.py 25-34 and
\* scan_executor_service.py 50-57).
THEOREM ScansGoToOwners == Spec => []ScanReachesOwners
<1>1. Init => RequestsInv /\ ScanInv
  BY InitHolds, InitScan
<1>2. RequestsInv /\ ScanInv /\ [Next]_vars => (RequestsInv /\ ScanInv)'
  BY RequestsStep, ScanStep
<1>3. RequestsInv /\ ScanInv => ScanReachesOwners
  <2> SUFFICES ASSUME RequestsInv, ScanInv, work.state = "taken", ByInstance, AllCatalogs
               PROVE  /\ work.configs # <<>>
                      /\ Range(work.configs) = {n \in DOMAIN Configs :
                           Matches(Configs[n], request.instance, catalogs[n])}
    BY DEF ScanReachesOwners, ByInstance, AllCatalogs
  <2>1. Range(work.configs) = Owning /\ Owning # {}
    BY DEF ScanInv
  <2>2. \A n \in Range(Names) : catalogs[n] = Both
    BY BothThere
  <2>3. DOMAIN Configs = Range(Names)
    BY StartedWith DEF ScanInv, RequestsInv, Control
  <2> QED
    BY <2>1, <2>2, <2>3, EmptyList DEF Owning
<1> QED
  BY <1>1, <1>2, <1>3, PTL DEF Spec

-----------------------------------------------------------------------------
(* What is stored of an answer                                             *)

KeptOf(list, lost, i) == IF i \in lost THEN <<>> ELSE <<Place(list[i])>>
KeptOnes(list, lost) == [i \in DOMAIN list |-> KeptOf(list, lost, i)]
Kept(list, lost) == FlattenSeq(KeptOnes(list, lost))

LEMMA KeptOnesType ==
    ASSUME NEW list, IsList(list), NEW lost
    PROVE  /\ KeptOnes(list, lost) \in Seq(Seq({Place(x) : x \in Range(list)}))
           /\ Len(KeptOnes(list, lost)) = Len(list)
           /\ Len(list) \in Nat /\ DOMAIN list = 1..Len(list)
           /\ \A i \in 1..Len(list) : KeptOnes(list, lost)[i] = KeptOf(list, lost, i)
<1> DEFINE S == {Place(x) : x \in Range(list)}
<1>1. Len(list) \in Nat /\ DOMAIN list = 1..Len(list) /\ \A i \in DOMAIN list : list[i] \in Range(list)
  BY ListFacts
<1>2. \A i \in DOMAIN list : KeptOf(list, lost, i) \in Seq(S)
  <2> TAKE i \in DOMAIN list
  <2>1. Place(list[i]) \in S
    BY <1>1
  <2> HIDE DEF S
  <2>2. <<>> \in Seq(S) /\ <<Place(list[i])>> \in Seq(S)
    BY <2>1
  <2> QED
    BY <2>2 DEF KeptOf
<1> HIDE DEF S
<1> DEFINE ones == KeptOnes(list, lost)
<1>3. ones = [i \in 1..Len(list) |-> KeptOf(list, lost, i)]
  BY <1>1 DEF KeptOnes
<1> HIDE DEF ones
<1>4. ones \in Seq(Seq(S)) /\ Len(ones) = Len(list)
      /\ \A i \in 1..Len(list) : ones[i] = KeptOf(list, lost, i)
  BY <1>1, <1>2, <1>3
<1> QED
  BY <1>1, <1>4 DEF ones, S

\* A longer list, with the last of it lost: nothing more is kept.
LEMMA KeptWithout ==
    ASSUME NEW list, IsList(list), NEW x, NEW lost \in SUBSET DOMAIN list
    PROVE  Kept(Append(list, x), lost \cup {Len(list) + 1}) = Kept(list, lost)
<1> DEFINE n == Len(list)
           longer == Append(list, x)
           more == lost \cup {n + 1}
           S == {Place(y) : y \in Range(longer)}
           s == KeptOnes(list, lost)
           t == KeptOnes(longer, more)
<1>1. IsList(longer)
  BY AppendedList
<1>2. n \in Nat /\ DOMAIN list = 1..n /\ lost \subseteq 1..n
  BY ListFacts
<1>3. Len(longer) = n + 1 /\ \A i \in 1..n : longer[i] = list[i]
  BY <1>2 DEF IsList
<1>4. Range(list) \subseteq Range(longer)
  BY RangeOfAppended
<1>5. s \in Seq(Seq(S))
  <2>1. {Place(y) : y \in Range(list)} \subseteq S
    BY <1>4
  <2>2. \A A, B, q : A \subseteq B /\ q \in Seq(Seq(A)) => q \in Seq(Seq(B))
    OBVIOUS
  <2> HIDE DEF S
  <2> QED
    BY <2>1, <2>2, KeptOnesType
<1>6. /\ t \in Seq(Seq(S)) /\ Len(t) = n + 1 /\ Len(s) = n
      /\ \A i \in 1..n : s[i] = KeptOf(list, lost, i)
      /\ \A i \in 1..(n + 1) : t[i] = KeptOf(longer, more, i)
  BY <1>1, <1>3, KeptOnesType
<1>7. ASSUME NEW i \in 1..n PROVE t[i] = s[i]
  <2>1. i \in 1..(n + 1) /\ (i \in more <=> i \in lost)
    BY <1>2
  <2>2. longer[i] = list[i]
    BY <1>3
  <2> HIDE DEF s, t, more, longer
  <2> QED
    BY <1>6, <2>1, <2>2 DEF KeptOf
<1>8. t[n + 1] = <<>>
  <2>1. n + 1 \in 1..(n + 1) /\ n + 1 \in more
    BY <1>2
  <2> HIDE DEF s, t, more, longer
  <2> QED
    BY <1>6, <2>1 DEF KeptOf
<1> HIDE DEF s, t, S, n, more, longer
<1>9. FlattenSeq(t) = Joined(FlattenSeq(s), <<>>)
  <2>1. Len(t) = Len(s) + 1 /\ \A i \in 1..Len(s) : t[i] = s[i]
    BY <1>6, <1>7
  <2>2. FlattenSeq(t) = Joined(FlattenSeq(s), t[Len(t)])
    BY <1>5, <1>6, <2>1, FlattenLast
  <2>3. t[Len(t)] = <<>>
    BY <1>6, <1>8
  <2> QED
    BY <2>2, <2>3
<1>10. FlattenSeq(s) \in Seq(S)
  BY <1>5, FlattenType
<1>11. FlattenSeq(t) = FlattenSeq(s)
  BY <1>9, <1>10, ConcatEmptySeq DEF Joined
<1> QED
  BY <1>11 DEF Kept, s, t, n, more, longer

\* The last of a list: kept, it comes after what is kept without it.
LEMMA KeptWith ==
    ASSUME NEW list, IsList(list), NEW lost \in SUBSET DOMAIN list, Len(list) \in lost
    PROVE  Kept(list, lost \ {Len(list)}) = Append(Kept(list, lost), Place(list[Len(list)]))
<1> DEFINE n == Len(list)
           S == {Place(y) : y \in Range(list)}
           fewer == lost \ {n}
           s == KeptOnes(list, lost)
           t == KeptOnes(list, fewer)
           front == SubSeq(s, 1, n - 1)
<1>1. n \in Nat /\ DOMAIN list = 1..n /\ n \in 1..n
  BY ListFacts
<1>2. /\ t \in Seq(Seq(S)) /\ Len(t) = n /\ s \in Seq(Seq(S)) /\ Len(s) = n
      /\ \A i \in 1..n : s[i] = KeptOf(list, lost, i)
      /\ \A i \in 1..n : t[i] = KeptOf(list, fewer, i)
  BY KeptOnesType
<1>3. ASSUME NEW i \in 1..(n - 1) PROVE i \in 1..n /\ (i \in fewer <=> i \in lost)
  <2> HIDE DEF n
  <2>1. i \in 1..n /\ i # n
    BY <1>1
  <2> QED
    BY <2>1
<1>4. s[n] = <<>> /\ t[n] = <<Place(list[n])>>
  <2>1. n \in lost /\ n \notin fewer
    OBVIOUS
  <2> HIDE DEF s, t, fewer, n
  <2> QED
    BY <1>1, <1>2, <2>1 DEF KeptOf
<1>5. ASSUME NEW i \in 1..(n - 1) PROVE t[i] = s[i]
  <2> HIDE DEF s, t, fewer, n
  <2> QED
    BY <1>2, <1>3 DEF KeptOf
<1> HIDE DEF s, t, fewer, n, S
<1>6. /\ front \in Seq(Seq(S)) /\ Len(front) = n - 1
      /\ \A i \in 1..(n - 1) : front[i] = s[i]
  BY <1>1, <1>2
<1>7. Len(front) + 1 = n /\ \A i \in 1..Len(front) : front[i] = s[i] /\ t[i] = front[i]
  BY <1>1, <1>5, <1>6
<1> HIDE DEF front
<1> DEFINE all == FlattenSeq(front)
<1>8. FlattenSeq(s) = Joined(all, s[n])
  <2>1. Len(s) = Len(front) + 1 /\ \A i \in 1..Len(front) : s[i] = front[i]
    BY <1>2, <1>7
  <2>2. FlattenSeq(s) = Joined(FlattenSeq(front), s[Len(s)])
    BY <1>2, <1>6, <2>1, FlattenLast
  <2> QED
    BY <1>2, <2>2
<1>9. FlattenSeq(t) = Joined(all, t[n])
  <2>1. Len(t) = Len(front) + 1 /\ \A i \in 1..Len(front) : t[i] = front[i]
    BY <1>2, <1>7
  <2>2. FlattenSeq(t) = Joined(FlattenSeq(front), t[Len(t)])
    BY <1>2, <1>6, <2>1, FlattenLast
  <2> QED
    BY <1>2, <2>2
<1>10. all \in Seq(S)
  BY <1>6, FlattenType
<1> HIDE DEF all
<1>11. Joined(all, <<>>) = all
  BY <1>10, ConcatEmptySeq DEF Joined
<1>12. Place(list[n]) \in S
  BY <1>1 DEF S, Range
<1>13. \A p \in S : Joined(all, <<p>>) = Append(all, p)
  BY <1>10, AppendIsConcat DEF Joined
<1>14. FlattenSeq(t) = Append(FlattenSeq(s), Place(list[n]))
  BY <1>4, <1>8, <1>9, <1>11, <1>12, <1>13
<1> QED
  BY <1>14 DEF Kept, s, t, n, fewer

\* What is stored is what is answered, but for as many tables as writes have failed and
\* the one that is being stored.
Storing == IF pc = "save" THEN 1 ELSE 0
Behind(lost) ==
    /\ Cardinality(lost) <= faults + Storing
    /\ saved = Kept(answer, lost)
    /\ pc = "save" => Len(answer) \in lost /\ Place(answer[Len(answer)]) = at

Saves == request.save /\ request.kind = "describe"
SavedInv == Saves => \E lost \in SUBSET DOMAIN answer : Behind(lost)

LEMMA LostFinite ==
    ASSUME RequestsInv, NEW lost \in SUBSET DOMAIN answer
    PROVE  /\ Len(answer) \in Nat /\ DOMAIN answer = 1..Len(answer)
           /\ IsFiniteSet(lost) /\ Cardinality(lost) \in Nat
<1>1. Len(answer) \in Nat /\ DOMAIN answer = 1..Len(answer)
  BY ListFacts DEF RequestsInv, AnswersOK
<1>2. IsFiniteSet(lost)
  <2>1. IsFiniteSet(1..Len(answer))
    BY <1>1, FS_Interval
  <2>2. lost \subseteq 1..Len(answer)
    BY <1>1
  <2> QED
    BY <2>1, <2>2, FS_Subset
<1> QED
  BY <1>1, <1>2, FS_CardinalityType

LEMMA ItemWith ==
    ASSUME NEW x, NEW d, NEW e
    PROVE  Place([Item(x) EXCEPT !.doc = d, !.error = e]) = Place(x)
<1> PICK u : u = [Item(x) EXCEPT !.doc = d, !.error = e]
  OBVIOUS
<1>1. /\ u.config = x.config /\ u.instance = x.instance
      /\ u.schema = x.schema /\ u.table = x.table
  BY DEF Item
<1>2. Place(u) = Place(x)
  BY <1>1 DEF Place
<1> QED
  BY <1>2

\* A step that neither answers nor stores.
LEMMA ElsewhereKeepsSaved ==
    ASSUME RequestsInv, SavedInv, UNCHANGED <<setting, saved>>, Saves => answer' = answer,
           pc # "save", pc' # "save", faults <= faults', faults' \in Nat
    PROVE  SavedInv'
<1>1. Saves' = Saves
  BY DEF setting, Saves
<1>2. ASSUME Saves PROVE \E lost \in SUBSET DOMAIN answer : Behind(lost)'
  <2>1. PICK lost \in SUBSET DOMAIN answer : Behind(lost)
    BY <1>2 DEF SavedInv
  <2>2. Cardinality(lost) \in Nat /\ faults \in Nat
    BY LostFinite, RequestsAssumption DEF RequestsInv, Control
  <2>3. Cardinality(lost) <= faults
    BY <2>1, <2>2 DEF Behind, Storing
  <2>4. Cardinality(lost) <= faults'
    BY <2>2, <2>3
  <2>5. Cardinality(lost) <= (faults + Storing)'
    BY <2>4 DEF Storing
  <2> QED
    BY <1>2, <2>1, <2>5 DEF Behind
<1> QED
  BY <1>1, <1>2 DEF SavedInv

LEMMA CollectSaved ==
    ASSUME RequestsInv, SavedInv, Collect PROVE SavedInv'
<1>1. /\ UNCHANGED <<at, saved, faults>> /\ pc = "append" /\ Saves' = Saves
  BY DEF Collect, setting, Saves
<1> SUFFICES ASSUME Saves PROVE \E lost \in SUBSET DOMAIN answer' : Behind(lost)'
  BY <1>1 DEF SavedInv
<1>2. PICK lost \in SUBSET DOMAIN answer : Behind(lost)
  BY DEF SavedInv
<1>3. /\ Len(answer) \in Nat /\ DOMAIN answer = 1..Len(answer) /\ IsFiniteSet(lost)
      /\ Cardinality(lost) \in Nat /\ faults \in Nat /\ IsList(answer)
  BY LostFinite, RequestsAssumption DEF RequestsInv, Control, AnswersOK
<1> DEFINE item == [Item(at) EXCEPT !.doc = call.doc, !.error = call.error]
           n == Len(answer) + 1
<1> PICK more : more = lost \cup {n}
  OBVIOUS
<1>4. answer' = Append(answer, item) /\ pc' = "save"
  BY DEF Collect, Saves
<1>5. Place(item) = at
  <2>1. at = [config |-> at.config, instance |-> at.instance, schema |-> at.schema,
              table |-> at.table]
    BY DEF RequestsInv, Loops
  <2>2. Place(at) = at
    BY <2>1 DEF Place, Spot
  <2>3. Place(item) = Place(at)
    BY ItemWith
  <2> QED
    BY <2>2, <2>3
<1> HIDE DEF item
<1>6. DOMAIN answer' = 1..n /\ Len(answer') = n /\ answer'[n] = item
  BY <1>3, <1>4 DEF IsList
<1>7. Kept(answer', more) = Kept(answer, lost)
  BY <1>3, <1>4, KeptWithout
<1>8. more \in SUBSET DOMAIN answer'
  BY <1>3, <1>6
<1>9. Cardinality(more) <= faults + 1
  <2>1. n \notin lost
    BY <1>3
  <2>2. Cardinality(more) = Cardinality(lost) + 1
    BY <1>3, <2>1, FS_AddElement
  <2>3. Cardinality(lost) <= faults
    BY <1>1, <1>2, <1>3 DEF Behind, Storing
  <2> QED
    BY <1>3, <2>2, <2>3
<1>10. n \in more
  OBVIOUS
<1> HIDE DEF n
<1>11. Behind(more)'
  <2>1. saved = Kept(answer, lost)
    BY <1>2 DEF Behind
  <2>2. Storing' = 1
    BY <1>4 DEF Storing
  <2>3. n \in more /\ Len(answer') = n /\ Place(answer'[n]) = at
    BY <1>5, <1>6, <1>10
  <2> HIDE DEF n
  <2> QED
    BY <1>1, <1>7, <1>9, <2>1, <2>2, <2>3 DEF Behind
<1> QED
  BY <1>8, <1>11

LEMMA SaveSaved ==
    ASSUME RequestsInv, SavedInv, Save PROVE SavedInv'
<1>1. /\ UNCHANGED <<at, answer>> /\ pc = "save" /\ pc' # "save" /\ Saves' = Saves
      /\ \/ saved' = Append(saved, at) /\ (faults' = faults \/ faults' = faults + 1)
         \/ saved' = saved /\ faults' = faults + 1
  BY DEF Save, SaveFails, Raise, setting, Saves
<1> SUFFICES ASSUME Saves PROVE \E lost \in SUBSET DOMAIN answer' : Behind(lost)'
  BY <1>1 DEF SavedInv
<1>2. PICK lost \in SUBSET DOMAIN answer : Behind(lost)
  BY DEF SavedInv
<1>3. /\ Len(answer) \in Nat /\ IsFiniteSet(lost) /\ Cardinality(lost) \in Nat /\ faults \in Nat
      /\ IsList(answer)
  BY LostFinite, RequestsAssumption DEF RequestsInv, Control, AnswersOK
<1>4. /\ Cardinality(lost) <= faults + 1 /\ saved = Kept(answer, lost)
      /\ Len(answer) \in lost /\ Place(answer[Len(answer)]) = at
  BY <1>1, <1>2 DEF Behind, Storing
<1>5. CASE saved' = saved /\ faults' = faults + 1
  <2>1. Behind(lost)'
    BY <1>1, <1>3, <1>4, <1>5 DEF Behind, Storing
  <2> QED
    BY <1>1, <2>1
<1>6. CASE saved' = Append(saved, at) /\ (faults' = faults \/ faults' = faults + 1)
  <2> PICK fewer : fewer = lost \ {Len(answer)}
    OBVIOUS
  <2>1. Kept(answer, fewer) = Append(saved, at)
    BY <1>3, <1>4, KeptWith
  <2>2. Cardinality(fewer) <= faults
    <3>1. Cardinality(fewer) = Cardinality(lost) - 1
      BY <1>3, <1>4, FS_RemoveElement
    <3> QED
      BY <1>3, <1>4, <3>1
  <2>3. fewer \in SUBSET DOMAIN answer /\ Cardinality(fewer) \in Nat
    <3>1. fewer \in SUBSET DOMAIN answer
      OBVIOUS
    <3> QED
      BY <3>1, LostFinite
  <2>4. Cardinality(fewer) <= faults'
    BY <1>3, <1>6, <2>2, <2>3
  <2>5. Behind(fewer)'
    <3>1. faults' + 0 = faults'
      BY <1>3, <1>6
    <3> QED
      BY <1>1, <1>6, <2>1, <2>4, <3>1 DEF Behind, Storing
  <2> QED
    BY <1>1, <2>3, <2>5
<1> QED
  BY <1>1, <1>5, <1>6

LEMMA InitSaved == Init /\ RequestsInv => SavedInv
<1> SUFFICES ASSUME Init, RequestsInv PROVE \E lost \in SUBSET DOMAIN answer : Behind(lost)
  BY DEF SavedInv
<1>1. answer = <<>> /\ saved = <<>> /\ faults = 0 /\ pc # "save"
  BY DEF Init
<1>2. Kept(answer, {}) = <<>>
  <2>1. KeptOnes(answer, {}) = <<>>
    BY <1>1 DEF KeptOnes
  <2> QED
    BY <2>1, FlattenEmpty DEF Kept
<1>3. Cardinality({}) = 0
  BY FS_EmptySet
<1>4. Behind({})
  BY <1>1, <1>2, <1>3 DEF Behind, Storing
<1> QED
  BY <1>4

LEMMA SavedStep == RequestsInv /\ SavedInv /\ [Next]_vars => SavedInv'
<1> SUFFICES ASSUME RequestsInv, SavedInv, [Next]_vars PROVE SavedInv'
  OBVIOUS
<1> DEFINE elsewhere == /\ UNCHANGED <<setting, saved>> /\ (Saves => answer' = answer)
                        /\ pc # "save" /\ pc' # "save"
                        /\ (faults' = faults \/ faults' = faults + 1)
<1>1. ASSUME elsewhere PROVE SavedInv'
  <2>1. faults \in Nat
    BY RequestsAssumption DEF RequestsInv, Control
  <2>2. faults <= faults' /\ faults' \in Nat
    BY <1>1, <2>1
  <2> QED
    BY <1>1, <2>2, ElsewhereKeepsSaved
<1>2. Receive => elsewhere
  BY DEF Receive
<1>3. NextConfig => elsewhere
  BY DEF NextConfig, Walking, Refused, Fails, Raise, Saves
<1>4. NextInstance => elsewhere
  BY DEF NextInstance, Walking, Refused, QueryRaises, Fails, Raise, Saves
<1>5. NextSchema => elsewhere
  BY DEF NextSchema, Walking, Refused, QueryRaises, Fails, Raise, Saves
<1>6. DescribeTable => elsewhere
  BY DEF DescribeTable, Refused, QueryRaises, Fails, Raise
<1>7. Document => elsewhere
  BY DEF Document, Raise
<1>8. Finish => elsewhere
  BY DEF Finish, walk
<1>9. Resolve => elsewhere
  BY DEF Resolve, Fails, Raise
<1>10. Reject => elsewhere
  BY DEF Reject, Refused, Raise, walk
<1>11. Enqueue => elsewhere
  BY DEF Enqueue, Raise, walk
<1>12. DropCatalog \/ Execute => elsewhere
  <2>1. job # NoName => pc = "done"
    BY DEF RequestsInv, Control
  <2> QED
    BY <2>1 DEF DropCatalog, Execute, walk
<1>13. UNCHANGED vars => SavedInv'
  <2> SUFFICES ASSUME UNCHANGED vars PROVE SavedInv'
    OBVIOUS
  <2>1. UNCHANGED <<request, answer, saved, pc, at, faults>>
    BY DEF vars, setting, walk
  <2> QED
    BY <2>1 DEF SavedInv, Saves, Behind, Storing
<1> HIDE DEF elsewhere
<1> QED
  BY <1>1, <1>2, <1>3, <1>4, <1>5, <1>6, <1>7, <1>8, <1>9, <1>10, <1>11, <1>12, <1>13,
     CollectSaved, SaveSaved
  DEF Next

\* What is described is stored, in its order: what is missing from the store are tables of
\* failed writes, no more of them than failures, and the one that is about to be stored, however
\* many tables the answer has (describe_table_service.py 89-102).
THEOREM StoredKeepsUp == Spec => []SavedKeepsUp
<1>1. Init => RequestsInv /\ SavedInv
  BY InitHolds, InitSaved
<1>2. RequestsInv /\ SavedInv /\ [Next]_vars => (RequestsInv /\ SavedInv)'
  BY RequestsStep, SavedStep
<1>3. SavedInv => SavedKeepsUp
  BY DEF SavedInv, Saves, SavedKeepsUp, Behind, Storing, Kept, KeptOnes, KeptOf
<1> QED
  BY <1>1, <1>2, <1>3, PTL DEF Spec

-----------------------------------------------------------------------------
(* Lists put together                                                      *)

\* A list is a list of anything that contains what is in it.
LEMMA InLarger ==
    ASSUME NEW s, IsList(s), NEW S, Range(s) \subseteq S
    PROVE  s \in Seq(S)
<1>1. \A X, Y, q : q \in Seq(X) /\ X \subseteq Y => q \in Seq(Y)
  OBVIOUS
<1> QED
  BY <1>1 DEF IsList

LEMMA JoinedInTurn ==
    ASSUME NEW s, NEW t, NEW u, IsList(s), IsList(t), IsList(u)
    PROVE  Joined(s, Joined(t, u)) = Joined(Joined(s, t), u)
<1> DEFINE S == Range(s) \cup Range(t) \cup Range(u)
<1>1. Range(s) \subseteq S /\ Range(t) \subseteq S /\ Range(u) \subseteq S
  OBVIOUS
<1> HIDE DEF S
<1>2. s \in Seq(S) /\ t \in Seq(S) /\ u \in Seq(S)
  BY <1>1, InLarger
<1> QED
  BY <1>2, JoinedAssociative

LEMMA JoinedWithNone ==
    ASSUME NEW s, IsList(s)
    PROVE  Joined(<<>>, s) = s /\ Joined(s, <<>>) = s
<1> DEFINE S == Range(s)
<1>1. s \in Seq(S)
  BY DEF IsList
<1> HIDE DEF S
<1> QED
  BY <1>1, ConcatEmptySeq DEF Joined

\* A list of lists, of which the first comes before what the others make together.
AllLists(s) == IsList(s) /\ \A i \in DOMAIN s : IsList(s[i])

LEMMA ListsOfLists ==
    ASSUME NEW s, AllLists(s)
    PROVE  /\ s \in Seq(Seq(UNION {Range(s[i]) : i \in DOMAIN s}))
           /\ IsList(FlattenSeq(s))
           /\ s # <<>> => FlattenSeq(s) = Joined(Head(s), FlattenSeq(Tail(s)))
<1> DEFINE S == UNION {Range(s[i]) : i \in DOMAIN s}
<1>1. \A i \in DOMAIN s : s[i] \in Seq(S)
  <2> TAKE i \in DOMAIN s
  <2>1. IsList(s[i]) /\ Range(s[i]) \subseteq S
    BY DEF AllLists
  <2> HIDE DEF S
  <2> QED
    BY <2>1, InLarger
<1>2. Range(s) \subseteq Seq(S)
  <2> HIDE DEF S
  <2> QED
    BY <1>1 DEF Range
<1>3. s \in Seq(Seq(S))
  <2> HIDE DEF S
  <2> QED
    BY <1>2, InLarger DEF AllLists
<1>4. FlattenSeq(s) \in Seq(S) /\ (s # <<>> => FlattenSeq(s) = Joined(Head(s), FlattenSeq(Tail(s))))
  <2> HIDE DEF S
  <2> QED
    BY <1>3, FlattenType, FlattenFirst
<1>5. IsList(FlattenSeq(s))
  <2> HIDE DEF S
  <2> QED
    BY <1>4, ListOf
<1> QED
  BY <1>3, <1>4, <1>5

\* A list of ones.
LEMMA OnesTogether ==
    ASSUME NEW s, IsList(s), NEW t, t = [i \in DOMAIN s |-> <<s[i]>>]
    PROVE  FlattenSeq(t) = s
<1> DEFINE S == Range(s)
<1>1. s \in Seq(S)
  BY DEF IsList
<1> HIDE DEF S
<1> QED
  BY <1>1, FlattenOnes

LEMMA TailOf ==
    ASSUME NEW s, IsList(s), s # <<>>
    PROVE  /\ 1 \in DOMAIN s /\ Head(s) = s[1]
           /\ DOMAIN Tail(s) = 1..(Len(s) - 1) /\ Len(s) \in Nat /\ DOMAIN s = 1..Len(s)
           /\ \A i \in DOMAIN Tail(s) : i + 1 \in DOMAIN s /\ Tail(s)[i] = s[i + 1]
<1> DEFINE S == Range(s)
<1>1. s \in Seq(S)
  BY DEF IsList
<1> HIDE DEF S
<1> QED
  BY <1>1

\* The tail of a list of what becomes of the entries of another.
MadeOf(s, g) == g = [i \in DOMAIN s |-> g[i]]

LEMMA TailMapped ==
    ASSUME NEW s, IsList(s), s # <<>>, NEW g, MadeOf(s, g), NEW h, MadeOf(Tail(s), h),
           \A i \in DOMAIN Tail(s) : h[i] = g[i + 1]
    PROVE  g # <<>> /\ Head(g) = g[1] /\ Tail(g) = h
<1> USE DEF MadeOf
<1>1. IsList(g)
  BY LikeAList
<1>2. /\ 1 \in DOMAIN s /\ DOMAIN s = 1..Len(s) /\ Len(s) \in Nat
      /\ DOMAIN Tail(s) = 1..(Len(s) - 1) /\ DOMAIN g = DOMAIN s
  BY TailOf
<1> DEFINE S == Range(g)
<1>3. g \in Seq(S) /\ Len(g) = Len(s)
  BY <1>1, <1>2 DEF IsList
<1> HIDE DEF S
<1>4. /\ g # <<>> /\ Head(g) = g[1] /\ Tail(g) = [i \in 1..(Len(s) - 1) |-> Tail(g)[i]]
      /\ \A i \in 1..(Len(s) - 1) : Tail(g)[i] = g[i + 1]
  BY <1>2, <1>3
<1>5. Tail(g) = h
  BY <1>2, <1>4
<1> QED
  BY <1>4, <1>5

-----------------------------------------------------------------------------
(* What is left of the walk                                                *)

OfTables(name, instance, schema, list) ==
    [k \in DOMAIN list |-> Spot(name, instance, schema, list[k])]
EachSchema(name, instance, list) == [k \in DOMAIN list |-> AskedOfSchema(name, instance, list[k])]
EachInstance(name, list) == [k \in DOMAIN list |-> AskedOfInstance(name, list[k])]
EachConfig(list) == [k \in DOMAIN list |-> AskedOfConfig(list[k])]
OfSchemas(name, instance, list) == FlattenSeq(EachSchema(name, instance, list))
OfInstances(name, list) == FlattenSeq(EachInstance(name, list))
OfConfigs(list) == FlattenSeq(EachConfig(list))

\* The configuration that the request names is one of the service's.
Known == request.config = NoName \/ request.config \in DOMAIN Configs

LEMMA ContentIs ==
    ASSUME RequestsInv, Configs # NoName, NEW n \in DOMAIN Configs
    PROVE  LET c == Content[ConnectorType(Configs[n])]
           IN  /\ c \in Seq([schema : STRING, tables : Seq(STRING)])
               /\ \A i, j \in DOMAIN c : c[i].schema = c[j].schema => i = j
<1>1. n \in Range(Names) /\ ConnectorType(Configs[n]) \in Types
  BY StartedWith, ConfigTypes DEF RequestsInv, Control
<1> QED
  BY <1>1, RequestsAssumption

LEMMA SchemasAreLists ==
    ASSUME RequestsInv, Configs # NoName, NEW n \in DOMAIN Configs
    PROVE  IsList(SchemasOf(n))
<1> DEFINE c == Content[ConnectorType(Configs[n])]
           all == [i \in DOMAIN c |-> c[i].schema]
<1>1. c \in Seq([schema : STRING, tables : Seq(STRING)])
  BY ContentIs
<1>2. IsList(c)
  BY <1>1, ListOf
<1> HIDE DEF c
<1>3. IsList(all)
  BY <1>2, LikeAList
<1>4. SchemasOf(n) = Chosen(request.schema, all)
  BY DEF SchemasOf, c
<1> QED
  BY <1>3, <1>4, OneOrAll

LEMMA InstancesAreLists ==
    ASSUME RequestsInv, Configs # NoName, NEW n \in DOMAIN Configs
    PROVE  IsList(InstancesOf(n))
<1>1. IsList(InOrder(ListInstances(Configs[n], catalogs[n])))
  BY InstancesListed DEF RequestsInv
<1> QED
  BY <1>1, OneOrAll DEF InstancesOf

\* The tables of a schema, found by its name or by its place.
AllTablesOf(name, schema) ==
    LET here == {c \in Range(Content[ConnectorType(Configs[name])]) : c.schema = schema}
    IN  IF here = {} THEN <<>> ELSE (CHOOSE c \in here : TRUE).tables

LEMMA TablesFound ==
    ASSUME RequestsInv, Configs # NoName, at.config \in DOMAIN Configs, NEW schema
    PROVE  Tables(schema) = AllTablesOf(at.config, schema)
<1> DEFINE c == Content[Type]
           i == {k \in DOMAIN c : c[k].schema = schema}
           here == {x \in Range(c) : x.schema = schema}
<1>1. c = Content[ConnectorType(Configs[at.config])]
  BY DEF Type, Config
<1>2. \A j, k \in DOMAIN c : c[j].schema = c[k].schema => j = k
  BY <1>1, ContentIs
<1>3. Tables(schema) = IF i = {} THEN <<>> ELSE c[CHOOSE k \in i : TRUE].tables
  BY DEF Tables
<1>4. AllTablesOf(at.config, schema) = IF here = {} THEN <<>> ELSE (CHOOSE x \in here : TRUE).tables
  BY <1>1 DEF AllTablesOf
<1> HIDE DEF c
<1>5. here = {c[k] : k \in i}
  BY DEF Range
<1>6. CASE i = {}
  BY <1>3, <1>4, <1>5, <1>6
<1>7. CASE i # {}
  <2>1. (CHOOSE k \in i : TRUE) \in i
    BY <1>7
  <2>2. \A j, k \in i : j = k
    BY <1>2
  <2>3. here # {} /\ (CHOOSE x \in here : TRUE) \in here
    BY <1>5, <1>7
  <2>4. \A x \in here : x = c[CHOOSE k \in i : TRUE]
    BY <1>5, <2>1, <2>2
  <2>5. (CHOOSE x \in here : TRUE) = c[CHOOSE k \in i : TRUE]
    BY <2>3, <2>4
  <2> HIDE DEF i, here
  <2> QED
    BY <1>3, <1>4, <1>7, <2>3, <2>5
<1> QED
  BY <1>6, <1>7

LEMMA AnyPart ==
    ASSUME NEW s, IsList(s), NEW m \in Int, NEW n \in Int
    PROVE  IsList(SubSeq(s, m, n))
<1> DEFINE S == Range(s)
           part == SubSeq(s, m, n)
<1>1. s \in Seq(S)
  BY DEF IsList
<1> HIDE DEF S
<1>2. part = [i \in 1..(1 + n - m) |-> s[i + m - 1]]
  BY <1>1
<1> HIDE DEF part
<1>3. CASE 1 + n - m < 0
  <2>1. 1..(1 + n - m) = {}
    BY <1>3
  <2>2. part = <<>>
    BY <1>2, <2>1
  <2> QED
    BY <2>2, EmptyList DEF part
<1>4. CASE 1 + n - m >= 0
  <2> DEFINE R == Range(part)
  <2>1. part = [i \in 1..(1 + n - m) |-> part[i]]
    BY <1>2
  <2>2. \A i \in 1..(1 + n - m) : part[i] \in R
    BY <2>1 DEF Range
  <2> HIDE DEF R
  <2>3. part \in Seq(R)
    BY <1>4, <2>1, <2>2
  <2> QED
    BY <2>3 DEF IsList, R, part
<1> QED
  BY <1>3, <1>4

\* The page that is asked for: the tables after the offset, and the first of them.
LEMMA PageParts ==
    ASSUME NEW tables, IsList(tables), request \in Asked
    PROVE  /\ IsList(Without(tables)) /\ IsList(FirstOnes(Without(tables)))
<1>1. /\ request.offset = NoName \/ request.offset \in Int
      /\ request.limit = NoName \/ request.limit \in Int
  BY RequestsAssumption
<1>2. Len(tables) \in Nat
  BY ListFacts
<1>3. IsList(Without(tables))
  <2>1. CASE request.offset = NoName
    BY <2>1 DEF Without
  <2>2. CASE request.offset # NoName
    <3>1. request.offset + 1 \in Int
      BY <1>1, <2>2
    <3> QED
      BY <1>2, <2>2, <3>1, AnyPart DEF Without
  <2> QED
    BY <2>1, <2>2
<1>4. \A w : IsList(w) => IsList(FirstOnes(w))
  BY <1>1, AnyPart DEF FirstOnes
<1> QED
  BY <1>3, <1>4

\* That page is the slice that the connector makes.
LEMMA PageIsSlice ==
    ASSUME NEW tables, IsList(tables), request \in Asked, request.kind = "tables", ~BadPage
    PROVE  Slice(tables, request.limit, request.offset) = FirstOnes(Without(tables))
<1> DEFINE limit == request.limit
           start == IF request.offset = NoName THEN 0 ELSE request.offset
           total == Len(tables)
           after == Without(tables)
           end == IF limit = NoName \/ start + limit > total THEN total ELSE start + limit
<1>1. /\ start \in Nat /\ total \in Nat
      /\ limit = NoName \/ limit \in Nat
  BY RequestsAssumption, ListFacts DEF BadPage
<1>2. Slice(tables, request.limit, request.offset) = SubSeq(tables, start + 1, end)
  BY DEF Slice
<1>3. after = SubSeq(tables, start + 1, total)
  <2>1. SubSeq(tables, 1, Len(tables)) = tables
    <3> DEFINE S == Range(tables)
    <3>1. tables \in Seq(S)
      BY DEF IsList
    <3> HIDE DEF S
    <3> QED
      BY <3>1
  <2>2. CASE request.offset = NoName
    <3>1. start + 1 = 1
      BY <2>2
    <3> QED
      BY <2>1, <2>2, <3>1 DEF Without
  <2>3. CASE request.offset # NoName
    BY <2>3 DEF Without
  <2> QED
    BY <2>2, <2>3
<1> DEFINE S == Range(tables)
<1>4. tables \in Seq(S)
  BY DEF IsList
<1> HIDE DEF S
<1>5. FirstOnes(after) = IF limit = NoName \/ limit > Len(after) THEN after
                         ELSE SubSeq(after, 1, limit)
  BY DEF FirstOnes
<1> HIDE DEF limit, start, after, total
<1>6. /\ \A m, n \in Int : SubSeq(tables, m, n) = [i \in 1..(1 + n - m) |-> tables[i + m - 1]]
      /\ after = [i \in 1..(total - start) |-> tables[i + start]]
  BY <1>1, <1>3, <1>4
<1>7. CASE start >= total
  <2>1. 1..(total - start) = {} /\ 1..(end - start) = {}
    BY <1>1, <1>7
  <2>2. SubSeq(tables, start + 1, end) = [i \in 1..(end - start) |-> tables[i + start]]
    BY <1>1, <1>6
  <2> DEFINE empty == 1..(total - start)
             slice == SubSeq(tables, start + 1, end)
             none == 1..(end - start)
  <2>3. after = <<>> /\ slice = <<>>
    <3>1. empty = {} /\ after = [i \in empty |-> tables[i + start]]
      BY <1>6, <2>1
    <3>2. none = {} /\ slice = [i \in none |-> tables[i + start]]
      BY <2>1, <2>2
    <3> HIDE DEF empty, none, slice
    <3>3. after = <<>>
      BY <3>1
    <3>4. slice = <<>>
      BY <3>2
    <3> QED
      BY <3>3, <3>4
  <2>4. FirstOnes(after) = <<>>
    BY <1>1, <1>5, <2>3
  <2> QED
    BY <1>2, <2>3, <2>4 DEF after
<1>8. CASE start < total
  <2>1. Len(after) = total - start /\ after \in Seq(S)
    <3>1. \A i \in 1..(total - start) : tables[i + start] \in S
      BY <1>1, <1>4 DEF total
    <3> QED
      BY <1>1, <1>6, <1>8, <3>1
  <2>2. CASE limit = NoName \/ limit > total - start
    <3>1. end = total
      BY <1>1, <2>2
    <3> QED
      BY <1>2, <1>3, <1>5, <2>1, <2>2, <3>1 DEF after
  <2>3. CASE ~(limit = NoName \/ limit > total - start)
    <3>1. limit \in Nat /\ end = start + limit
      BY <1>1, <2>3
    <3>2. FirstOnes(after) = [i \in 1..limit |-> after[i]]
      BY <1>1, <1>5, <2>1, <2>3, <3>1
    <3>3. SubSeq(tables, start + 1, end) = [i \in 1..limit |-> tables[i + start]]
      BY <1>1, <1>6, <3>1
    <3>4. \A i \in 1..limit : after[i] = tables[i + start]
      BY <1>1, <1>6, <2>3, <3>1
    <3> QED
      BY <1>2, <3>2, <3>3, <3>4 DEF after
  <2> QED
    BY <2>2, <2>3
<1> QED
  BY <1>1, <1>7, <1>8

LEMMA TablesAreLists ==
    ASSUME RequestsInv, Configs # NoName, NEW n \in DOMAIN Configs, NEW schema
    PROVE  IsList(AllTablesOf(n, schema)) /\ IsList(TablesOf(n, schema))
<1> DEFINE Entry == [schema : STRING, tables : Seq(STRING)]
           c == Content[ConnectorType(Configs[n])]
           here == {x \in Range(c) : x.schema = schema}
           all == AllTablesOf(n, schema)
<1>1. c \in Seq(Entry)
  BY ContentIs
<1> HIDE DEF Entry, c
<1>2. Range(c) \subseteq Entry
  BY <1>1, ListOf
<1>3. \A x \in here : IsList(x.tables)
  <2> TAKE x \in here
  <2>1. x.tables \in Seq(STRING)
    BY <1>2 DEF Entry
  <2> QED
    BY <2>1, ListOf
<1>4. all = IF here = {} THEN <<>> ELSE (CHOOSE x \in here : TRUE).tables
  BY DEF AllTablesOf, c
<1> HIDE DEF here, all
<1>5. IsList(all)
  BY <1>3, <1>4, EmptyList
<1>6. TablesOf(n, schema) = IF request.kind = "tables" THEN FirstOnes(Without(all))
                            ELSE Chosen(request.table, all)
  BY <1>4 DEF TablesOf, here, c
<1>7. IsList(FirstOnes(Without(all)))
  BY <1>5, PageParts DEF RequestsInv, Control
<1> QED
  BY <1>5, <1>6, <1>7, OneOrAll DEF all

\* What list_tables gives, with the page of the request, is what is asked for.
LEMMA PageIsAsked ==
    ASSUME RequestsInv, Configs # NoName, at.config \in DOMAIN Configs, NEW schema, ~BadPage
    PROVE  /\ request.kind = "tables" => Listed(schema) = TablesOf(at.config, schema)
           /\ request.kind # "tables" /\ request.table = NoName =>
                 Listed(schema) = TablesOf(at.config, schema)
           /\ request.kind # "tables" /\ request.table # NoName =>
                 TablesOf(at.config, schema) = <<request.table>>
<1> DEFINE all == AllTablesOf(at.config, schema)
<1>1. Tables(schema) = all /\ IsList(all)
  BY TablesFound, TablesAreLists
<1>2. Listed(schema) = IF request.kind = "tables" THEN Slice(all, request.limit, request.offset)
                       ELSE Slice(all, NoName, NoName)
  BY <1>1 DEF Listed
<1>3. TablesOf(at.config, schema) = IF request.kind = "tables" THEN FirstOnes(Without(all))
                                    ELSE Chosen(request.table, all)
  BY DEF TablesOf, AllTablesOf
<1> HIDE DEF all
<1>4. Slice(all, NoName, NoName) = all
  <2>1. Slice(all, NoName, NoName) = SubSeq(all, 1, Len(all))
    BY DEF Slice
  <2> DEFINE S == Range(all)
  <2>2. all \in Seq(S)
    BY <1>1 DEF IsList
  <2> HIDE DEF S
  <2> QED
    BY <2>1, <2>2
<1>5. request.kind = "tables" => Slice(all, request.limit, request.offset) = FirstOnes(Without(all))
  BY <1>1, PageIsSlice DEF RequestsInv, Control
<1> QED
  BY <1>2, <1>3, <1>4, <1>5 DEF Chosen

\* All that is asked for is lists, and what is left of it.
LEMMA AskedAreLists ==
    ASSUME RequestsInv, Configs # NoName, NEW n \in DOMAIN Configs, NEW i
    PROVE  /\ \A s : IsList(AskedOfSchema(n, i, s))
           /\ \A list : IsList(list) => AllLists(EachSchema(n, i, list))
           /\ IsList(AskedOfInstance(n, i))
<1>1. \A x : IsList(<<x>>)
  <2> TAKE x
  <2>1. <<x>> \in Seq({x})
    OBVIOUS
  <2> QED
    BY <2>1, ListOf
<1>2. ASSUME NEW s PROVE IsList(AskedOfSchema(n, i, s))
  <2>1. IsList(OfTables(n, i, s, TablesOf(n, s)))
    BY TablesAreLists, LikeAList DEF OfTables
  <2> QED
    BY <1>1, <2>1 DEF AskedOfSchema, OfTables
<1>3. ASSUME NEW list, IsList(list) PROVE AllLists(EachSchema(n, i, list))
  <2> DEFINE each == EachSchema(n, i, list)
  <2>1. each = [k \in DOMAIN list |-> AskedOfSchema(n, i, list[k])]
    BY DEF EachSchema
  <2> HIDE DEF each
  <2>2. IsList(each) /\ DOMAIN each = DOMAIN list
    BY <1>3, <2>1, LikeAList
  <2> QED
    BY <1>2, <2>1, <2>2 DEF AllLists, each
<1>4. IsList(AskedOfInstance(n, i))
  <2>1. IsList(OfSchemas(n, i, SchemasOf(n)))
    BY <1>3, SchemasAreLists, ListsOfLists DEF OfSchemas
  <2> QED
    BY <1>1, <2>1 DEF AskedOfInstance, OfSchemas, EachSchema
<1> QED
  BY <1>2, <1>3, <1>4

LEMMA EachIsLists ==
    ASSUME RequestsInv, Configs # NoName
    PROVE  /\ \A n \in DOMAIN Configs : \A list :
                 IsList(list) => AllLists(EachInstance(n, list))
           /\ \A n \in DOMAIN Configs : IsList(AskedOfConfig(n))
           /\ \A list : IsList(list) /\ Range(list) \subseteq DOMAIN Configs
                          => AllLists(EachConfig(list))
<1>1. ASSUME NEW n \in DOMAIN Configs, NEW list, IsList(list)
      PROVE  AllLists(EachInstance(n, list))
  <2> DEFINE each == EachInstance(n, list)
  <2>1. each = [k \in DOMAIN list |-> AskedOfInstance(n, list[k])]
    BY DEF EachInstance
  <2> HIDE DEF each
  <2>2. IsList(each) /\ DOMAIN each = DOMAIN list
    BY <1>1, <2>1, LikeAList
  <2> QED
    BY <2>1, <2>2, AskedAreLists DEF AllLists, each
<1>2. ASSUME NEW n \in DOMAIN Configs PROVE IsList(AskedOfConfig(n))
  <2>1. IsList(OfInstances(n, InstancesOf(n)))
    BY <1>1, InstancesAreLists, ListsOfLists DEF OfInstances
  <2> QED
    BY <2>1, EmptyList DEF AskedOfConfig, OfInstances, EachInstance
<1>3. ASSUME NEW list, IsList(list), Range(list) \subseteq DOMAIN Configs
      PROVE  AllLists(EachConfig(list))
  <2> DEFINE each == EachConfig(list)
  <2>1. each = [k \in DOMAIN list |-> AskedOfConfig(list[k])]
    BY DEF EachConfig
  <2> HIDE DEF each
  <2>2. IsList(each) /\ DOMAIN each = DOMAIN list
    BY <1>3, <2>1, LikeAList
  <2>3. \A k \in DOMAIN list : list[k] \in DOMAIN Configs
    BY <1>3 DEF Range
  <2> QED
    BY <1>2, <2>1, <2>2, <2>3 DEF AllLists, each
<1> QED
  BY <1>1, <1>2, <1>3

\* The first that is left, and what comes after it.
LEMMA FirstTable ==
    ASSUME NEW list, IsList(list), list # <<>>, NEW n, NEW i, NEW s
    PROVE  OfTables(n, i, s, list)
             = Joined(<<Spot(n, i, s, Head(list))>>, OfTables(n, i, s, Tail(list)))
<1> DEFINE g == OfTables(n, i, s, list)
           h == OfTables(n, i, s, Tail(list))
           S == Range(g)
<1>1. /\ 1 \in DOMAIN list /\ Head(list) = list[1] /\ DOMAIN list = 1..Len(list)
      /\ \A k \in DOMAIN Tail(list) : k + 1 \in DOMAIN list /\ Tail(list)[k] = list[k + 1]
  BY TailOf
<1>2. /\ g = [k \in DOMAIN list |-> Spot(n, i, s, list[k])]
      /\ h = [k \in DOMAIN Tail(list) |-> Spot(n, i, s, Tail(list)[k])]
  BY DEF OfTables
<1> HIDE DEF g, h
<1>3. /\ DOMAIN g = DOMAIN list /\ DOMAIN h = DOMAIN Tail(list)
      /\ MadeOf(list, g) /\ MadeOf(Tail(list), h)
      /\ g[1] = Spot(n, i, s, Head(list))
      /\ \A k \in DOMAIN Tail(list) : h[k] = g[k + 1]
  BY <1>1, <1>2 DEF MadeOf
<1>4. g # <<>> /\ Head(g) = g[1] /\ Tail(g) = h
  BY <1>3, TailMapped
<1>5. g \in Seq(S)
  BY <1>3, LikeAList DEF IsList, MadeOf
<1> HIDE DEF S
<1>6. g = Joined(<<Head(g)>>, Tail(g))
  BY <1>4, <1>5 DEF Joined
<1> QED
  BY <1>3, <1>4, <1>6 DEF g, h

LEMMA FirstSchema ==
    ASSUME RequestsInv, Configs # NoName, NEW n \in DOMAIN Configs, NEW i,
           NEW list, IsList(list), list # <<>>
    PROVE  OfSchemas(n, i, list)
             = Joined(AskedOfSchema(n, i, Head(list)), OfSchemas(n, i, Tail(list)))
<1> DEFINE g == EachSchema(n, i, list)
           h == EachSchema(n, i, Tail(list))
<1>1. /\ 1 \in DOMAIN list /\ Head(list) = list[1]
      /\ \A k \in DOMAIN Tail(list) : k + 1 \in DOMAIN list /\ Tail(list)[k] = list[k + 1]
  BY TailOf
<1>2. /\ g = [k \in DOMAIN list |-> AskedOfSchema(n, i, list[k])]
      /\ h = [k \in DOMAIN Tail(list) |-> AskedOfSchema(n, i, Tail(list)[k])]
  BY DEF EachSchema
<1>3. AllLists(g)
  BY AskedAreLists
<1> HIDE DEF g, h
<1>4. /\ MadeOf(list, g) /\ MadeOf(Tail(list), h)
      /\ g[1] = AskedOfSchema(n, i, Head(list))
      /\ \A k \in DOMAIN Tail(list) : h[k] = g[k + 1]
  BY <1>1, <1>2 DEF MadeOf
<1>5. g # <<>> /\ Head(g) = g[1] /\ Tail(g) = h
  BY <1>4, TailMapped
<1>6. FlattenSeq(g) = Joined(Head(g), FlattenSeq(Tail(g)))
  BY <1>3, <1>5, ListsOfLists
<1> QED
  BY <1>4, <1>5, <1>6 DEF g, h, OfSchemas

LEMMA FirstInstance ==
    ASSUME RequestsInv, Configs # NoName, NEW n \in DOMAIN Configs,
           NEW list, IsList(list), list # <<>>
    PROVE  OfInstances(n, list) = Joined(AskedOfInstance(n, Head(list)), OfInstances(n, Tail(list)))
<1> DEFINE g == EachInstance(n, list)
           h == EachInstance(n, Tail(list))
<1>1. /\ 1 \in DOMAIN list /\ Head(list) = list[1]
      /\ \A k \in DOMAIN Tail(list) : k + 1 \in DOMAIN list /\ Tail(list)[k] = list[k + 1]
  BY TailOf
<1>2. /\ g = [k \in DOMAIN list |-> AskedOfInstance(n, list[k])]
      /\ h = [k \in DOMAIN Tail(list) |-> AskedOfInstance(n, Tail(list)[k])]
  BY DEF EachInstance
<1>3. AllLists(g)
  BY EachIsLists
<1> HIDE DEF g, h
<1>4. /\ MadeOf(list, g) /\ MadeOf(Tail(list), h)
      /\ g[1] = AskedOfInstance(n, Head(list))
      /\ \A k \in DOMAIN Tail(list) : h[k] = g[k + 1]
  BY <1>1, <1>2 DEF MadeOf
<1>5. g # <<>> /\ Head(g) = g[1] /\ Tail(g) = h
  BY <1>4, TailMapped
<1>6. FlattenSeq(g) = Joined(Head(g), FlattenSeq(Tail(g)))
  BY <1>3, <1>5, ListsOfLists
<1> QED
  BY <1>4, <1>5, <1>6 DEF g, h, OfInstances

LEMMA FirstConfig ==
    ASSUME RequestsInv, Configs # NoName,
           NEW list, IsList(list), list # <<>>, Range(list) \subseteq DOMAIN Configs
    PROVE  OfConfigs(list) = Joined(AskedOfConfig(Head(list)), OfConfigs(Tail(list)))
<1> DEFINE g == EachConfig(list)
           h == EachConfig(Tail(list))
<1>1. /\ 1 \in DOMAIN list /\ Head(list) = list[1]
      /\ \A k \in DOMAIN Tail(list) : k + 1 \in DOMAIN list /\ Tail(list)[k] = list[k + 1]
  BY TailOf
<1>2. /\ g = [k \in DOMAIN list |-> AskedOfConfig(list[k])]
      /\ h = [k \in DOMAIN Tail(list) |-> AskedOfConfig(Tail(list)[k])]
  BY DEF EachConfig
<1>3. AllLists(g)
  BY EachIsLists
<1> HIDE DEF g, h
<1>4. /\ MadeOf(list, g) /\ MadeOf(Tail(list), h)
      /\ g[1] = AskedOfConfig(Head(list))
      /\ \A k \in DOMAIN Tail(list) : h[k] = g[k + 1]
  BY <1>1, <1>2 DEF MadeOf
<1>5. g # <<>> /\ Head(g) = g[1] /\ Tail(g) = h
  BY <1>4, TailMapped
<1>6. FlattenSeq(g) = Joined(Head(g), FlattenSeq(Tail(g)))
  BY <1>3, <1>5, ListsOfLists
<1> QED
  BY <1>4, <1>5, <1>6 DEF g, h, OfConfigs

LEMMA NothingLeft ==
    /\ \A n, i, s : OfTables(n, i, s, <<>>) = <<>>
    /\ \A n, i : OfSchemas(n, i, <<>>) = <<>>
    /\ \A n : OfInstances(n, <<>>) = <<>>
    /\ OfConfigs(<<>>) = <<>>
  BY FlattenEmpty
  DEF OfTables, OfSchemas, OfInstances, OfConfigs, EachSchema, EachInstance, EachConfig

\* The walk up to now and what is left of it make what was asked for; a walk of a
\* configuration that is not there only gets to the refusal.
Current == IF pc \in {"document", "append"} THEN <<at>> ELSE <<>>
Rest(now, tables, schemas, instances, configs) ==
    Joined(now, Joined(tables, Joined(schemas, Joined(instances, configs))))
Pending == Rest(Current, OfTables(at.config, at.instance, at.schema, todo.tables),
                OfSchemas(at.config, at.instance, todo.schemas),
                OfInstances(at.config, todo.instances), OfConfigs(todo.configs))
Whole == Joined(Places(answer), Pending) = Asking
\* The loops inside of the one that answers are never entered.
Levels ==
    /\ todo.instances # <<>> =>
          at.config \in DOMAIN Configs /\ request.kind \notin {"connect", "instances"}
    /\ todo.schemas # <<>> => request.kind \notin {"connect", "instances", "schemas"}
Underway == pc \in {"walk", "document", "append", "save"}

WholeInv ==
    /\ pc = "received" => answer = <<>>
    /\ Underway /\ Known => Whole /\ Levels
    /\ Underway /\ ~Known =>
          /\ pc = "walk" /\ todo.schemas = <<>> /\ todo.tables = <<>>
          /\ \/ todo.configs = <<request.config>> /\ todo.instances = <<>>
             \/ todo.instances # <<>> /\ at.config \notin DOMAIN Configs
    /\ status = 200 => Places(answer) = Asking

LEMMA AskingStays ==
    ASSUME UNCHANGED <<setting, catalogs>>
    PROVE  /\ Configs' = Configs /\ request' = request /\ Asking' = Asking /\ Known' = Known
           /\ Pending' = Rest(IF pc' \in {"document", "append"} THEN <<at'>> ELSE <<>>,
                OfTables(at'.config, at'.instance, at'.schema, todo'.tables),
                OfSchemas(at'.config, at'.instance, todo'.schemas),
                OfInstances(at'.config, todo'.instances), OfConfigs(todo'.configs))
<1>1. /\ Configs' = Configs /\ Names' = Names /\ UNCHANGED <<environment, request, catalogs>>
  BY DEF setting, Configs, Started, Names
<1>2. Asking' = Asking
  BY <1>1 DEF Asking, AskedOfConfig, AskedOfInstance, AskedOfSchema, TablesOf,
       FirstOnes, Without, SchemasOf, InstancesOf
<1>3. Pending' = Rest(IF pc' \in {"document", "append"} THEN <<at'>> ELSE <<>>,
                OfTables(at'.config, at'.instance, at'.schema, todo'.tables),
                OfSchemas(at'.config, at'.instance, todo'.schemas),
                OfInstances(at'.config, todo'.instances), OfConfigs(todo'.configs))
  BY <1>1 DEF Pending, Current, Rest, OfTables, OfSchemas, OfInstances, OfConfigs, EachSchema,
       EachInstance, EachConfig, AskedOfConfig, AskedOfInstance, AskedOfSchema,
       TablesOf, FirstOnes, Without, SchemasOf, InstancesOf
<1> QED
  BY <1>1, <1>2, <1>3 DEF Known

LEMMA PlacesOf ==
    ASSUME NEW list, IsList(list)
    PROVE  IsList(Places(list)) /\ DOMAIN Places(list) = DOMAIN list
  BY LikeAList DEF Places

LEMMA PlacesJoined ==
    ASSUME NEW s, NEW t, IsList(s), IsList(t)
    PROVE  Places(Joined(s, t)) = Joined(Places(s), Places(t))
<1> DEFINE S == Range(s) \cup Range(t)
           P == Range(Places(s)) \cup Range(Places(t))
           p == Places(s)
           q == Places(t)
<1>1. s \in Seq(S) /\ t \in Seq(S) /\ p \in Seq(P) /\ q \in Seq(P)
  <2>1. IsList(p) /\ IsList(q)
    BY PlacesOf
  <2>2. Range(s) \subseteq S /\ Range(t) \subseteq S /\ Range(p) \subseteq P /\ Range(q) \subseteq P
    OBVIOUS
  <2> HIDE DEF S, P, p, q
  <2> QED
    BY <2>1, <2>2, InLarger
<1>2. /\ Len(p) = Len(s) /\ Len(q) = Len(t)
      /\ \A i \in 1..Len(s) : p[i] = Place(s[i])
      /\ \A i \in 1..Len(t) : q[i] = Place(t[i])
  <2>1. /\ DOMAIN s = 1..Len(s) /\ DOMAIN t = 1..Len(t) /\ Len(s) \in Nat /\ Len(t) \in Nat
    BY <1>1
  <2>2. /\ p = [i \in 1..Len(s) |-> Place(s[i])] /\ q = [i \in 1..Len(t) |-> Place(t[i])]
    BY <2>1 DEF Places
  <2> HIDE DEF p, q
  <2> QED
    BY <2>1, <2>2
<1> HIDE DEF S, P, p, q
<1> DEFINE both == Joined(s, t)
           m == Len(s)
           n == Len(t)
<1>3. /\ m \in Nat /\ n \in Nat /\ DOMAIN both = 1..(m + n)
      /\ \A i \in 1..(m + n) : both[i] = IF i <= m THEN s[i] ELSE t[i - m]
  BY <1>1 DEF Joined
<1> DEFINE pq == Joined(p, q)
<1>4. /\ pq = [i \in 1..(m + n) |-> pq[i]]
      /\ \A i \in 1..(m + n) : pq[i] = IF i <= m THEN p[i] ELSE q[i - m]
  <2>1. Len(p) = m /\ Len(q) = n
    BY <1>2
  <2> HIDE DEF m, n, both
  <2>2. DOMAIN pq = 1..(m + n) /\ pq \in Seq(P)
    <3>1. pq \in Seq(P) /\ Len(pq) = Len(p) + Len(q)
      BY <1>1 DEF Joined
    <3> HIDE DEF pq
    <3> QED
      BY <1>3, <2>1, <3>1
  <2>3. \A i \in 1..(m + n) : pq[i] = IF i <= m THEN p[i] ELSE q[i - m]
    <3>1. /\ Len(p) \in Nat /\ Len(q) \in Nat
          /\ \A i \in 1..(Len(p) + Len(q)) : pq[i] = IF i <= Len(p) THEN p[i] ELSE q[i - Len(p)]
      BY <1>1 DEF Joined
    <3> HIDE DEF pq
    <3> QED
      BY <2>1, <3>1
  <2>4. pq = [i \in DOMAIN pq |-> pq[i]]
    <3> HIDE DEF pq
    <3> QED
      BY <2>2
  <2> QED
    BY <2>2, <2>3, <2>4
<1>5. Places(both) = [i \in 1..(m + n) |-> Place(both[i])]
  BY <1>3 DEF Places
<1> HIDE DEF both, pq, m, n
<1>6. ASSUME NEW i \in 1..(m + n) PROVE pq[i] = Place(both[i])
  <2>1. i <= m => i \in 1..m
    BY <1>3
  <2>2. ~(i <= m) => i - m \in 1..n
    BY <1>3
  <2> QED
    BY <1>2, <1>3, <1>4, <2>1, <2>2 DEF m, n
<1>7. Places(both) = pq
  BY <1>4, <1>5, <1>6
<1> QED
  BY <1>7 DEF both, pq, p, q

\* Which parts of what is left are lists: all of them.
LEMMA PartsAreLists ==
    ASSUME RequestsInv, Underway, Known, WholeInv
    PROVE  /\ Configs # NoName /\ Range(todo.configs) \subseteq DOMAIN Configs
           /\ IsList(answer) /\ IsList(Places(answer))
           /\ IsList(todo.configs) /\ IsList(todo.instances)
           /\ IsList(todo.schemas) /\ IsList(todo.tables)
           /\ todo.instances # <<>> => at.config \in DOMAIN Configs
           /\ todo.schemas # <<>> => at.config \in DOMAIN Configs
           /\ IsList(OfTables(at.config, at.instance, at.schema, todo.tables))
           /\ IsList(OfSchemas(at.config, at.instance, todo.schemas))
           /\ IsList(OfInstances(at.config, todo.instances)) /\ IsList(OfConfigs(todo.configs))
<1>1. /\ Configs # NoName /\ environment \in Environments
      /\ IsList(answer) /\ IsList(todo.configs) /\ IsList(todo.instances)
      /\ IsList(todo.schemas) /\ IsList(todo.tables)
      /\ todo.schemas # <<>> => at.config \in DOMAIN Configs
  BY DEF RequestsInv, Control, Loops, Entered, Walked, AnswersOK, Underway
<1>2. Range(todo.configs) \subseteq DOMAIN Configs
  <2>1. ~Misnamed
    BY DEF Known, Misnamed
  <2> QED
    BY <1>1, <2>1, WalkedAre DEF RequestsInv, Loops, Walked
<1>3. todo.instances # <<>> => at.config \in DOMAIN Configs
  BY DEF WholeInv, Levels
<1>4. IsList(OfTables(at.config, at.instance, at.schema, todo.tables))
  BY <1>1, LikeAList DEF OfTables
<1>5. IsList(OfSchemas(at.config, at.instance, todo.schemas))
  <2>1. CASE todo.schemas = <<>>
    BY <2>1, NothingLeft, EmptyList
  <2>2. CASE todo.schemas # <<>>
    BY <1>1, <2>2, AskedAreLists, ListsOfLists DEF OfSchemas
  <2> QED
    BY <2>1, <2>2
<1>6. IsList(OfInstances(at.config, todo.instances))
  <2>1. CASE todo.instances = <<>>
    BY <2>1, NothingLeft, EmptyList
  <2>2. CASE todo.instances # <<>>
    BY <1>1, <1>3, <2>2, EachIsLists, ListsOfLists DEF OfInstances
  <2> QED
    BY <2>1, <2>2
<1>7. IsList(OfConfigs(todo.configs))
  BY <1>1, <1>2, EachIsLists, ListsOfLists DEF OfConfigs
<1> QED
  BY <1>1, <1>2, <1>3, <1>4, <1>5, <1>6, <1>7, PlacesOf

\* A step after which the answer is as long, and as much is left.
LEMMA MovesOn ==
    ASSUME RequestsInv', WholeInv, Underway, Known, UNCHANGED <<setting, catalogs>>,
           pc' \in {"walk", "document", "append", "save"},
           Places(answer') = Places(answer), Pending' = Pending,
           Levels'
    PROVE  WholeInv'
<1>1. /\ Configs' = Configs /\ Asking' = Asking /\ Known' = Known /\ request' = request
  BY AskingStays
<1>2. Whole'
  BY <1>1 DEF WholeInv, Whole, Places
<1>3. status' # 200
  BY DEF RequestsInv, Control
<1> QED
  BY <1>1, <1>2, <1>3 DEF WholeInv, Underway

\* A step that answers what was left first.
LEMMA Answers ==
    ASSUME RequestsInv', WholeInv, Underway, Known, UNCHANGED <<setting, catalogs>>,
           pc' \in {"walk", "document", "append", "save"}, IsList(answer),
           NEW items, IsList(items), answer' = Joined(answer, items),
           NEW rest, IsList(rest), Pending = Joined(Places(items), rest), Pending' = rest,
           Levels'
    PROVE  WholeInv'
<1>1. /\ Configs' = Configs /\ Asking' = Asking /\ Known' = Known /\ request' = request
  BY AskingStays
<1>2. Places(answer') = Joined(Places(answer), Places(items))
  BY PlacesJoined
<1>3. Joined(Places(answer), Joined(Places(items), rest))
        = Joined(Joined(Places(answer), Places(items)), rest)
  BY PlacesOf, JoinedInTurn
<1>4. Whole'
  <2>1. Joined(Places(answer), Joined(Places(items), rest)) = Asking
    BY DEF WholeInv, Whole
  <2>2. Joined(Places(answer'), Pending') = Asking'
    BY <1>1, <1>2, <1>3, <2>1
  <2> QED
    BY <2>2 DEF Whole, Places
<1>5. status' # 200
  BY DEF RequestsInv, Control
<1> QED
  BY <1>1, <1>4, <1>5 DEF WholeInv, Underway

LEMMA EndsWhole ==
    ASSUME pc' = "done", status' # 200
    PROVE  WholeInv'
  BY DEF WholeInv, Underway

LEMMA RestIs ==
    ASSUME NEW tables, NEW schemas, NEW instances, NEW configs,
           IsList(tables), IsList(schemas), IsList(instances), IsList(configs)
    PROVE  /\ Rest(<<>>, <<>>, <<>>, <<>>, configs) = configs
           /\ Rest(<<>>, <<>>, <<>>, instances, configs) = Joined(instances, configs)
           /\ Rest(<<>>, <<>>, schemas, instances, configs)
                = Joined(schemas, Joined(instances, configs))
           /\ Rest(<<>>, tables, schemas, instances, configs)
                = Joined(tables, Joined(schemas, Joined(instances, configs)))
           /\ IsList(Joined(instances, configs))
           /\ IsList(Joined(schemas, Joined(instances, configs)))
           /\ IsList(Joined(tables, Joined(schemas, Joined(instances, configs))))
<1>1. IsList(Joined(instances, configs))
  BY JoinedLists
<1>2. IsList(Joined(schemas, Joined(instances, configs)))
  BY <1>1, JoinedLists
<1>3. IsList(Joined(tables, Joined(schemas, Joined(instances, configs))))
  BY <1>2, JoinedLists
<1> QED
  BY <1>1, <1>2, <1>3, JoinedWithNone, EmptyList DEF Rest

LEMMA RaiseNotServed ==
    ASSUME Fails \/ Refused \/ QueryRaises
    PROVE  pc' = "done" /\ status' # 200
  BY DEF Fails, Refused, QueryRaises, Raise, Status

\* The places of the items that name them.
LEMMA ItemPlace == \A x : Place(Item(x)) = Place(x)
<1> TAKE x
<1> PICK u : u = Item(x)
  OBVIOUS
<1>1. /\ u.config = x.config /\ u.instance = x.instance
      /\ u.schema = x.schema /\ u.table = x.table
  BY DEF Item
<1>2. Place(u) = Place(x)
  BY <1>1 DEF Place
<1> QED
  BY <1>2

LEMMA NextConfigWhole ==
    ASSUME RequestsInv, RequestsInv', WholeInv, NextConfig PROVE WholeInv'
<1> DEFINE name == Head(todo.configs)
           listed == IF name \in DOMAIN Configs
                     THEN InOrder(ListInstances(Configs[name], catalogs[name])) ELSE <<>>
           asks == request.kind \in {"connect", "instances"} \/ request.instance = NoName
           here == [Nowhere EXCEPT !.config = name]
           instances == IF request.kind \in {"connect", "instances"} THEN <<>>
                        ELSE Chosen(request.instance, listed)
           items == [i \in DOMAIN listed |-> Item([here EXCEPT !.instance = listed[i]])]
<1> HIDE DEF name, listed, asks, here, instances, items
<1>1. /\ pc = "walk" /\ todo.configs # <<>> /\ todo.instances = <<>> /\ todo.schemas = <<>>
      /\ todo.tables = <<>> /\ UNCHANGED <<setting, catalogs>> /\ Underway
  BY DEF NextConfig, Walking, Underway
<1>2. /\ request.kind \in {"connect", "instances"} => request.instance = NoName
      /\ Configs # NoName
  BY <1>1, RequestsAssumption DEF RequestsInv, Control
<1>3. CASE Fails \/ Refused
  BY <1>3, RaiseNotServed, EndsWhole
<1>4. CASE /\ ~asks \/ name \in DOMAIN Configs
           /\ todo' = [todo EXCEPT !.configs = Tail(@), !.instances = instances]
           /\ answer' = IF request.kind # "instances" THEN answer ELSE answer \o items
           /\ at' = here /\ pc' = pc
  <2>1. /\ todo'.configs = Tail(todo.configs) /\ todo'.instances = instances
        /\ todo'.schemas = <<>> /\ todo'.tables = <<>>
    BY <1>1, <1>4 DEF RequestsInv, Loops
  <2>2. at'.config = name
    BY <1>4 DEF here, Nowhere
  <2>3. CASE ~Known
    <3>1. todo.configs = <<request.config>> /\ name \notin DOMAIN Configs
      BY <1>1, <2>3 DEF WholeInv, Known, name
    <3>2. ~asks
      BY <1>4, <3>1
    <3>3. instances = <<request.instance>> /\ instances # <<>>
      BY <3>2 DEF asks, instances, Chosen
    <3>4. Configs' = Configs /\ Known' = Known /\ status' # 200
      BY <1>1, <1>4, AskingStays DEF RequestsInv, Control
    <3> QED
      BY <1>1, <1>4, <2>1, <2>2, <2>3, <3>1, <3>3, <3>4 DEF WholeInv
  <2>4. CASE Known
    <3>1. /\ Range(todo.configs) \subseteq DOMAIN Configs /\ IsList(todo.configs) /\ IsList(answer)
      BY <1>1, <2>4, PartsAreLists
    <3>2. /\ name \in DOMAIN Configs /\ IsList(Tail(todo.configs))
          /\ Range(Tail(todo.configs)) \subseteq DOMAIN Configs
      BY <1>1, <3>1, ListFacts DEF name
    <3>3. /\ IsList(AskedOfConfig(name)) /\ IsList(OfConfigs(Tail(todo.configs)))
      BY <1>2, <3>2, EachIsLists, ListsOfLists DEF OfConfigs
    <3>4. OfConfigs(todo.configs) = Joined(AskedOfConfig(name), OfConfigs(Tail(todo.configs)))
      BY <1>1, <1>2, <3>1, FirstConfig DEF name
    <3>5. Pending = Joined(AskedOfConfig(name), OfConfigs(Tail(todo.configs)))
      <4>1. Pending = Rest(<<>>, <<>>, <<>>, <<>>, OfConfigs(todo.configs))
        BY <1>1, NothingLeft DEF Pending, Current
      <4>2. IsList(OfConfigs(todo.configs))
        BY <1>1, <2>4, PartsAreLists
      <4> QED
        BY <3>4, <4>1, <4>2, EmptyList, RestIs
    <3>6. Pending' = Rest(<<>>, <<>>, <<>>, OfInstances(name, instances), OfConfigs(Tail(todo.configs)))
      BY <1>1, <1>4, <2>1, <2>2, AskingStays, NothingLeft
    <3>7. IsList(OfInstances(name, instances)) /\ IsList(instances) /\ IsList(listed)
          /\ listed = InOrder(ListInstances(Configs[name], catalogs[name]))
      <4>1. IsList(listed) /\ listed = InOrder(ListInstances(Configs[name], catalogs[name]))
        BY <1>2, <3>2, InstancesListed DEF RequestsInv, listed
      <4>2. IsList(instances)
        BY <4>1, EmptyList, OneOrAll DEF instances
      <4> QED
        BY <1>2, <3>2, <4>1, <4>2, EachIsLists, ListsOfLists DEF OfInstances
    <3>8. Pending' = Joined(OfInstances(name, instances), OfConfigs(Tail(todo.configs)))
      BY <3>3, <3>6, <3>7, EmptyList, RestIs
    <3>9. pc' = "walk" /\ Levels'
      BY <1>1, <1>4, <2>1, <2>2, <3>2, AskingStays DEF Levels, instances
    <3>10. CASE request.kind = "instances"
      <4>1. OfInstances(name, instances) = <<>>
        BY <3>10, NothingLeft DEF instances
      <4>2. Pending' = OfConfigs(Tail(todo.configs))
        BY <3>3, <3>8, <4>1, JoinedWithNone
      <4>3. IsList(items)
        BY <3>7, LikeAList DEF items
      <4>4. answer' = Joined(answer, items)
        BY <1>4, <3>10 DEF Joined
      <4>5. AskedOfConfig(name) = Places(items)
        <5> DEFINE spots == [i \in DOMAIN listed |-> Spot(name, listed[i], NoName, NoName)]
                   ones == [i \in DOMAIN spots |-> <<spots[i]>>]
        <5>1. InstancesOf(name) = listed
          BY <1>2, <3>7, <3>10 DEF InstancesOf, Chosen
        <5>2. AskedOfConfig(name) = FlattenSeq(ones)
          BY <3>10, <5>1 DEF AskedOfConfig, AskedOfInstance
        <5>3. Places(items) = spots
          <6>1. \A x : Place(Item([here EXCEPT !.instance = x])) = Spot(name, x, NoName, NoName)
            BY ItemPlace DEF Place, here, Nowhere
          <6> QED
            BY <6>1 DEF Places, items
        <5>4. IsList(spots)
          BY <3>7, LikeAList
        <5> HIDE DEF spots
        <5> QED
          BY <5>2, <5>3, <5>4, OnesTogether
      <4> QED
        BY <1>1, <2>4, <3>1, <3>3, <3>5, <3>9, <4>2, <4>3, <4>4, <4>5, Answers
    <3>11. CASE request.kind # "instances"
      <4>1. AskedOfConfig(name) = OfInstances(name, instances)
        <5>1. CASE request.kind = "connect"
          BY <5>1, NothingLeft DEF instances, AskedOfConfig
        <5>2. CASE request.kind # "connect"
          <6>1. instances = InstancesOf(name)
            BY <3>7, <3>11, <5>2 DEF InstancesOf, instances
          <6> QED
            BY <5>2, <6>1 DEF AskedOfConfig, OfInstances, EachInstance
        <5> QED
          BY <5>1, <5>2
      <4>2. answer' = answer
        BY <1>4, <3>11
      <4>3. Pending' = Pending
        BY <3>5, <3>8, <4>1
      <4> QED
        BY <1>1, <2>4, <3>9, <4>2, <4>3, MovesOn
    <3> QED
      BY <3>10, <3>11
  <2> QED
    BY <2>3, <2>4
<1> QED
  BY <1>3, <1>4 DEF NextConfig, name, listed, asks, here, instances, items

LEMMA NextInstanceWhole ==
    ASSUME RequestsInv, RequestsInv', WholeInv, NextInstance PROVE WholeInv'
<1> DEFINE instance == Head(todo.instances)
           here == [at EXCEPT !.instance = instance, !.schema = NoName, !.table = NoName]
           schemas == IF request.kind = "schemas" THEN <<>> ELSE Chosen(request.schema, Schemas)
           items == [i \in DOMAIN Schemas |-> Item([here EXCEPT !.schema = Schemas[i]])]
           n == at.config
<1> HIDE DEF instance, here, schemas, items, n
<1>1. /\ pc = "walk" /\ todo.instances # <<>> /\ todo.schemas = <<>>
      /\ todo.tables = <<>> /\ UNCHANGED <<setting, catalogs>> /\ Underway
  BY DEF NextInstance, Walking, Underway
<1>2. /\ request.kind = "schemas" => request.schema = NoName
      /\ Configs # NoName
  BY <1>1, RequestsAssumption DEF RequestsInv, Control
<1>3. CASE Fails \/ Refused \/ QueryRaises
  BY <1>3, RaiseNotServed, EndsWhole
<1>4. CASE /\ n \in DOMAIN Configs
           /\ todo' = [todo EXCEPT !.instances = Tail(@), !.schemas = schemas]
           /\ answer' = IF request.kind # "schemas" THEN answer ELSE answer \o items
           /\ at' = here /\ pc' = pc
  <2>1. /\ todo'.configs = todo.configs /\ todo'.instances = Tail(todo.instances)
        /\ todo'.schemas = schemas /\ todo'.tables = <<>>
    BY <1>1, <1>4 DEF RequestsInv, Loops
  <2>2. at'.config = n /\ at'.instance = instance
    BY <1>4 DEF RequestsInv, Loops, here, n
  <2>3. Known /\ request.kind \notin {"connect", "instances"}
    BY <1>1, <1>4 DEF WholeInv, Levels, n
  <2>4. IsList(todo.instances) /\ IsList(answer) /\ IsList(OfConfigs(todo.configs))
    BY <1>1, <2>3, PartsAreLists
  <2>5. IsList(Tail(todo.instances))
    BY <1>1, <2>4, ListFacts
  <2> DEFINE rest == Joined(OfInstances(n, Tail(todo.instances)), OfConfigs(todo.configs))
  <2>6. /\ IsList(AskedOfInstance(n, instance)) /\ IsList(OfInstances(n, Tail(todo.instances)))
    BY <1>2, <1>4, <2>5, AskedAreLists, EachIsLists, ListsOfLists DEF OfInstances
  <2>7. Pending = Joined(AskedOfInstance(n, instance), rest) /\ IsList(rest)
    <3>1. OfInstances(n, todo.instances)
            = Joined(AskedOfInstance(n, instance), OfInstances(n, Tail(todo.instances)))
      BY <1>1, <1>2, <1>4, <2>4, FirstInstance DEF instance
    <3>2. Pending = Rest(<<>>, <<>>, <<>>, OfInstances(n, todo.instances), OfConfigs(todo.configs))
      BY <1>1, NothingLeft DEF Pending, Current, n
    <3>3. IsList(OfInstances(n, todo.instances))
      BY <1>1, <2>3, PartsAreLists DEF n
    <3>4. Pending = Joined(OfInstances(n, todo.instances), OfConfigs(todo.configs))
      BY <2>4, <3>2, <3>3, EmptyList, RestIs
    <3> QED
      BY <2>4, <2>6, <3>1, <3>4, JoinedInTurn, RestIs, EmptyList
  <2>8. Pending' = Rest(<<>>, <<>>, OfSchemas(n, instance, schemas),
                        OfInstances(n, Tail(todo.instances)), OfConfigs(todo.configs))
    BY <1>1, <1>4, <2>1, <2>2, AskingStays, NothingLeft
  <2>9. IsList(OfSchemas(n, instance, schemas)) /\ IsList(schemas) /\ IsList(Schemas)
    <3>1. IsList(Schemas)
      BY <1>2, <1>4, SchemasListed DEF n
    <3>2. IsList(schemas)
      BY <3>1, EmptyList, OneOrAll DEF schemas
    <3> QED
      BY <1>2, <1>4, <3>1, <3>2, AskedAreLists, ListsOfLists DEF OfSchemas
  <2>10. Pending' = Joined(OfSchemas(n, instance, schemas), rest)
    BY <2>4, <2>6, <2>8, <2>9, EmptyList, RestIs
  <2>11. Schemas = [i \in DOMAIN Content[ConnectorType(Configs[n])] |->
                      Content[ConnectorType(Configs[n])][i].schema]
    BY DEF Schemas, Type, Config, n
  <2>12. SchemasOf(n) = Chosen(request.schema, Schemas)
    BY <2>11 DEF SchemasOf
  <2>13. pc' = "walk" /\ Levels'
    BY <1>1, <1>4, <2>1, <2>2, <2>3, AskingStays DEF Levels, schemas
  <2> HIDE DEF rest
  <2>14. CASE request.kind = "schemas"
    <3>1. Pending' = rest
      <4>1. OfSchemas(n, instance, schemas) = <<>>
        BY <2>14, NothingLeft DEF schemas
      <4> QED
        BY <2>7, <2>10, <4>1, JoinedWithNone
    <3>2. IsList(items)
      BY <2>9, LikeAList DEF items
    <3>3. answer' = Joined(answer, items)
      BY <1>4, <2>14 DEF Joined
    <3>4. AskedOfInstance(n, instance) = Places(items)
      <4> DEFINE spots == [i \in DOMAIN Schemas |-> Spot(n, instance, Schemas[i], NoName)]
                 ones == [i \in DOMAIN spots |-> <<spots[i]>>]
      <4>1. SchemasOf(n) = Schemas
        BY <1>2, <2>12, <2>14 DEF Chosen
      <4>2. AskedOfInstance(n, instance) = FlattenSeq(ones)
        BY <2>14, <4>1 DEF AskedOfInstance, AskedOfSchema
      <4>3. Places(items) = spots
        <5>1. \A x : Place(Item([here EXCEPT !.schema = x])) = Spot(n, instance, x, NoName)
          <6> TAKE x
          <6> PICK h : h = here
            OBVIOUS
          <6>1. h = [config |-> n, instance |-> instance, schema |-> NoName, table |-> NoName]
            BY DEF RequestsInv, Loops, here, n
          <6>2. Place([h EXCEPT !.schema = x]) = Spot(n, instance, x, NoName)
            BY <6>1 DEF Place
          <6> QED
            BY <6>2, ItemPlace
        <5> QED
          BY <5>1 DEF Places, items
      <4>4. IsList(spots)
        BY <2>9, LikeAList
      <4> HIDE DEF spots
      <4> QED
        BY <4>2, <4>3, <4>4, OnesTogether
    <3> QED
      BY <1>1, <2>3, <2>4, <2>7, <2>13, <3>1, <3>2, <3>3, <3>4, Answers
  <2>15. CASE request.kind # "schemas"
    <3>2. AskedOfInstance(n, instance) = OfSchemas(n, instance, schemas)
      BY <2>3, <2>12, <2>15 DEF AskedOfInstance, OfSchemas, EachSchema, schemas
    <3>3. answer' = answer
      BY <1>4, <2>15
    <3>4. Pending' = Pending
      BY <2>7, <2>10, <3>2
    <3> QED
      BY <1>1, <2>3, <2>13, <3>3, <3>4, MovesOn
  <2> QED
    BY <2>14, <2>15
<1> QED
  BY <1>3, <1>4 DEF NextInstance, instance, here, schemas, items, n

LEMMA NextSchemaWhole ==
    ASSUME RequestsInv, RequestsInv', WholeInv, NextSchema PROVE WholeInv'
<1> DEFINE schema == Head(todo.schemas)
           here == [at EXCEPT !.schema = schema, !.table = NoName]
           tables == IF request.kind = "tables" THEN <<>>
                     ELSE Chosen(request.table, Listed(schema))
           items == [i \in DOMAIN Listed(schema) |-> Item([here EXCEPT !.table = Listed(schema)[i]])]
           n == at.config
           instance == at.instance
           found == TablesOf(n, schema)
<1> HIDE DEF schema, here, tables, items, n, instance, found
<1>1. /\ pc = "walk" /\ todo.schemas # <<>> /\ todo.tables = <<>>
      /\ UNCHANGED <<setting, catalogs>> /\ Underway
  BY DEF NextSchema, Walking, Underway
<1>2. /\ request.kind = "tables" => request.table = NoName
      /\ Configs # NoName /\ n \in DOMAIN Configs
  BY <1>1, RequestsAssumption DEF RequestsInv, Control, Loops, Entered, Walked, n
<1>3. CASE Fails \/ Refused \/ QueryRaises
  BY <1>3, RaiseNotServed, EndsWhole
<1>4. CASE /\ ~BadPage
           /\ todo' = [todo EXCEPT !.schemas = Tail(@), !.tables = tables]
           /\ answer' = IF request.kind # "tables" THEN answer ELSE answer \o items
           /\ at' = here /\ pc' = pc
  <2>1. /\ todo'.configs = todo.configs /\ todo'.instances = todo.instances
        /\ todo'.schemas = Tail(todo.schemas) /\ todo'.tables = tables
    BY <1>1, <1>4 DEF RequestsInv, Loops
  <2>2. at'.config = n /\ at'.instance = instance /\ at'.schema = schema
    BY <1>4 DEF RequestsInv, Loops, here, n, instance
  <2>3. Known /\ request.kind \notin {"connect", "instances", "schemas"}
    BY <1>1 DEF WholeInv, Levels
  <2>4. /\ IsList(todo.schemas) /\ IsList(answer)
        /\ IsList(OfInstances(n, todo.instances)) /\ IsList(OfConfigs(todo.configs))
    BY <1>1, <2>3, PartsAreLists DEF n
  <2>5. IsList(Tail(todo.schemas))
    BY <1>1, <2>4, ListFacts
  <2> DEFINE outer == Joined(OfInstances(n, todo.instances), OfConfigs(todo.configs))
             rest == Joined(OfSchemas(n, instance, Tail(todo.schemas)), outer)
  <2>6. /\ IsList(AskedOfSchema(n, instance, schema))
        /\ IsList(OfSchemas(n, instance, Tail(todo.schemas)))
    BY <1>2, <2>5, AskedAreLists, ListsOfLists DEF OfSchemas
  <2>7. Pending = Joined(AskedOfSchema(n, instance, schema), rest) /\ IsList(rest) /\ IsList(outer)
    <3>1. OfSchemas(n, instance, todo.schemas)
            = Joined(AskedOfSchema(n, instance, schema), OfSchemas(n, instance, Tail(todo.schemas)))
      BY <1>1, <1>2, <2>4, FirstSchema DEF schema
    <3>2. Pending = Rest(<<>>, <<>>, OfSchemas(n, instance, todo.schemas),
                         OfInstances(n, todo.instances), OfConfigs(todo.configs))
      BY <1>1, NothingLeft DEF Pending, Current, n, instance
    <3>3. IsList(OfSchemas(n, instance, todo.schemas))
      BY <1>1, <2>3, PartsAreLists DEF n, instance
    <3>4. Pending = Joined(OfSchemas(n, instance, todo.schemas), outer)
      BY <2>4, <3>2, <3>3, EmptyList, RestIs
    <3>5. IsList(outer) /\ IsList(rest)
      BY <2>4, <2>6, RestIs, EmptyList
    <3> HIDE DEF outer
    <3> QED
      BY <2>6, <3>1, <3>4, <3>5, JoinedInTurn
  <2>8. Pending' = Rest(<<>>, OfTables(n, instance, schema, tables),
                        OfSchemas(n, instance, Tail(todo.schemas)),
                        OfInstances(n, todo.instances), OfConfigs(todo.configs))
    BY <1>1, <1>4, <2>1, <2>2, AskingStays
  <2>9. IsList(found) /\ IsList(tables) /\ IsList(OfTables(n, instance, schema, tables))
    <3>1. IsList(found)
      BY <1>2, TablesAreLists DEF found
    <3>2. IsList(tables)
      <4>1. request.kind # "tables" /\ request.table = NoName => Listed(schema) = found
        BY <1>2, <1>4, PageIsAsked DEF n, found
      <4>2. IsList(Chosen(request.table, found))
        BY <3>1, OneOrAll
      <4> QED
        BY <4>1, <4>2, EmptyList DEF tables, Chosen
    <3> QED
      BY <3>1, <3>2, LikeAList DEF OfTables
  <2>10. Pending' = Joined(OfTables(n, instance, schema, tables), rest)
    BY <2>4, <2>6, <2>8, <2>9, EmptyList, RestIs
  <2>11. AskedOfSchema(n, instance, schema) = OfTables(n, instance, schema, found)
    BY <2>3 DEF AskedOfSchema, OfTables, found
  <2>12. pc' = "walk" /\ Levels'
    <3>1. todo'.instances # <<>> => at'.config \in DOMAIN Configs
      BY <1>2, <2>2
    <3> QED
      BY <1>1, <1>4, <2>3, <3>1, AskingStays DEF Levels
  <2> HIDE DEF rest
  <2>13. CASE request.kind = "tables"
    <3>1. Pending' = rest
      <4>1. OfTables(n, instance, schema, tables) = <<>>
        BY <2>13, NothingLeft DEF tables
      <4> QED
        BY <2>7, <2>10, <4>1, JoinedWithNone
    <3>2. Listed(schema) = found
      BY <1>2, <1>4, <2>13, PageIsAsked DEF n, found
    <3>3. IsList(items)
      BY <2>9, <3>2, LikeAList DEF items
    <3>4. answer' = Joined(answer, items)
      BY <1>4, <2>13 DEF Joined
    <3>5. OfTables(n, instance, schema, found) = Places(items)
      <4>1. \A x : Place(Item([here EXCEPT !.table = x])) = Spot(n, instance, schema, x)
        <5> TAKE x
        <5> PICK h : h = here
          OBVIOUS
        <5>1. h = [config |-> n, instance |-> instance, schema |-> schema, table |-> NoName]
          BY DEF RequestsInv, Loops, here, n, instance
        <5>2. Place([h EXCEPT !.table = x]) = Spot(n, instance, schema, x)
          BY <5>1 DEF Place
        <5> QED
          BY <5>2, ItemPlace
      <4> QED
        BY <3>2, <4>1 DEF Places, items, OfTables
    <3> QED
      BY <1>1, <2>3, <2>4, <2>7, <2>11, <2>12, <3>1, <3>3, <3>4, <3>5, Answers
  <2>14. CASE request.kind # "tables"
    <3>1. tables = found
      <4>1. request.table = NoName => Listed(schema) = found
        BY <1>2, <1>4, <2>14, PageIsAsked DEF n, found
      <4>2. request.table # NoName => found = <<request.table>>
        BY <1>2, <1>4, <2>14, PageIsAsked DEF n, found
      <4> QED
        BY <2>14, <4>1, <4>2 DEF tables, Chosen
    <3>2. answer' = answer
      BY <1>4, <2>14
    <3>3. Pending' = Pending
      BY <2>7, <2>10, <2>11, <3>1
    <3> QED
      BY <1>1, <2>3, <2>12, <3>2, <3>3, MovesOn
  <2> QED
    BY <2>13, <2>14
<1> QED
  <2> DEFINE lists == request.kind = "tables" \/ request.table = NoName
             refused == lists /\ (\/ Refuses(Config, "tables", at.instance)
                                  \/ WrongSchema(schema) \/ BadPage)
  <2>1. ~refused => ~BadPage
    BY DEF BadPage
  <2>2. \/ Fails \/ Refused \/ QueryRaises
        \/ /\ ~refused
           /\ todo' = [todo EXCEPT !.schemas = Tail(@), !.tables = tables]
           /\ answer' = IF request.kind # "tables" THEN answer ELSE answer \o items
           /\ at' = here /\ pc' = pc
    BY DEF NextSchema, schema, here, tables, items
  <2> HIDE DEF refused
  <2> QED
    BY <1>3, <1>4, <2>1, <2>2

LEMMA DescribeTableWhole ==
    ASSUME RequestsInv, RequestsInv', WholeInv, DescribeTable PROVE WholeInv'
<1> DEFINE table == Head(todo.tables)
           here == [at EXCEPT !.table = table]
           n == at.config
           spot == Spot(n, at.instance, at.schema, table)
<1> HIDE DEF table, here, n, spot
<1>1. /\ pc = "walk" /\ todo.tables # <<>> /\ UNCHANGED <<setting, catalogs>> /\ Underway
  BY DEF DescribeTable, Underway
<1>2. CASE Fails \/ Refused \/ QueryRaises
  BY <1>2, RaiseNotServed, EndsWhole
<1>3. CASE /\ todo' = [todo EXCEPT !.tables = Tail(@)] /\ at' = here
           /\ pc' \in {"document", "append"} /\ answer' = answer
  <2>1. /\ todo'.configs = todo.configs /\ todo'.instances = todo.instances
        /\ todo'.schemas = todo.schemas /\ todo'.tables = Tail(todo.tables)
    BY <1>3 DEF RequestsInv, Loops
  <2>2. /\ at'.config = n /\ at'.instance = at.instance /\ at'.schema = at.schema
        /\ at' = spot
    BY <1>3 DEF RequestsInv, Loops, here, n, spot, Spot
  <2>3. Known
    BY <1>1 DEF WholeInv
  <2> DEFINE schemas == OfSchemas(n, at.instance, todo.schemas)
             instances == OfInstances(n, todo.instances)
             configs == OfConfigs(todo.configs)
             after == OfTables(n, at.instance, at.schema, Tail(todo.tables))
             outer == Joined(schemas, Joined(instances, configs))
  <2>4. /\ IsList(schemas) /\ IsList(instances) /\ IsList(configs) /\ IsList(todo.tables)
        /\ IsList(OfTables(n, at.instance, at.schema, todo.tables))
    BY <1>1, <2>3, PartsAreLists DEF n
  <2>5. IsList(after)
    BY <1>1, <2>4, ListFacts, LikeAList DEF OfTables
  <2>6. OfTables(n, at.instance, at.schema, todo.tables) = Joined(<<spot>>, after)
    BY <1>1, <2>4, FirstTable DEF spot, table
  <2>7. Pending = Joined(OfTables(n, at.instance, at.schema, todo.tables), outer) /\ IsList(outer)
    <3>1. Pending = Rest(<<>>, OfTables(n, at.instance, at.schema, todo.tables), schemas,
                         instances, configs)
      BY <1>1 DEF Pending, Current, n
    <3> HIDE DEF schemas, instances, configs
    <3> QED
      BY <2>4, <3>1, RestIs
  <2>8. Pending' = Joined(<<spot>>, Joined(after, outer))
    <3>1. Pending' = Rest(<<spot>>, after, schemas, instances, configs)
      BY <1>1, <1>3, <2>1, <2>2, AskingStays
    <3> QED
      BY <3>1 DEF Rest
  <2>9. IsList(<<spot>>)
    <3>1. <<spot>> \in Seq({spot})
      OBVIOUS
    <3> QED
      BY <3>1, ListOf
  <2>10. Pending' = Pending
    <3> HIDE DEF after, outer
    <3> QED
      BY <2>5, <2>6, <2>7, <2>8, <2>9, JoinedInTurn
  <2>11. Levels'
    BY <1>1, <2>1, <2>2, <2>3, AskingStays DEF Levels, WholeInv, n
  <2> QED
    BY <1>1, <1>3, <2>3, <2>10, <2>11, MovesOn
<1> QED
  BY <1>2, <1>3 DEF DescribeTable, table, here

LEMMA DocumentWhole ==
    ASSUME RequestsInv, RequestsInv', WholeInv, Document PROVE WholeInv'
<1>1. /\ pc = "document" /\ UNCHANGED <<setting, catalogs, todo, at, answer>> /\ Underway
  BY DEF Document, Underway
<1>2. PICK next \in AI!Outcomes(call, retries, installed) :
         IF next.raised THEN Raise("RuntimeError")
         ELSE pc' = IF next.over THEN "append" ELSE pc
  BY DEF Document
<1>3. CASE next.raised
  BY <1>2, <1>3, EndsWhole DEF Raise, Status
<1>4. CASE ~next.raised
  <2>1. pc' \in {"document", "append"}
    BY <1>1, <1>2, <1>4
  <2>2. Known
    BY <1>1 DEF WholeInv
  <2>3. Pending' = Pending /\ Levels'
    <3>1. Levels
      BY <1>1, <2>2 DEF WholeInv
    <3> QED
      BY <1>1, <2>1, <3>1, AskingStays DEF Pending, Current, Levels
  <2> QED
    BY <1>1, <2>1, <2>2, <2>3, MovesOn
<1> QED
  BY <1>3, <1>4

LEMMA CollectWhole ==
    ASSUME RequestsInv, RequestsInv', WholeInv, Collect PROVE WholeInv'
<1>1. /\ pc = "append" /\ UNCHANGED <<setting, catalogs, todo, at>> /\ Underway
      /\ pc' \in {"save", "walk"} /\ Known /\ Levels
  BY DEF Collect, Underway, WholeInv
<1>2. PICK item : item = [Item(at) EXCEPT !.doc = call.doc, !.error = call.error]
  OBVIOUS
<1>3. Place(item) = at
  <2>1. /\ item.config = at.config /\ item.instance = at.instance
        /\ item.schema = at.schema /\ item.table = at.table
    BY <1>2 DEF Item
  <2> QED
    BY <2>1 DEF Place, Spot, RequestsInv, Loops
<1> DEFINE items == <<item>>
           tables == OfTables(at.config, at.instance, at.schema, todo.tables)
           schemas == OfSchemas(at.config, at.instance, todo.schemas)
           instances == OfInstances(at.config, todo.instances)
           configs == OfConfigs(todo.configs)
           rest == Joined(tables, Joined(schemas, Joined(instances, configs)))
<1>4. /\ IsList(answer) /\ IsList(tables) /\ IsList(schemas) /\ IsList(instances)
      /\ IsList(configs)
  BY <1>1, PartsAreLists
<1>5. IsList(items) /\ Places(items) = <<at>>
  <2>1. items \in Seq({item}) /\ DOMAIN items = {1} /\ items[1] = item
    OBVIOUS
  <2> HIDE DEF items
  <2>2. Places(items) = [i \in {1} |-> at]
    BY <1>3, <2>1 DEF Places
  <2> QED
    BY <2>1, <2>2, ListOf
<1>6. answer' = Joined(answer, items)
  <2>1. answer' = Append(answer, item)
    BY <1>2 DEF Collect
  <2> DEFINE S == Range(answer) \cup {item}
  <2>2. answer \in Seq(S)
    <3>1. Range(answer) \subseteq S
      OBVIOUS
    <3> HIDE DEF S
    <3> QED
      BY <1>4, <3>1, InLarger
  <2>3. item \in S
    OBVIOUS
  <2> HIDE DEF S
  <2> QED
    BY <2>1, <2>2, <2>3, AppendProperties DEF Joined
<1>7. Pending = Joined(Places(items), rest)
  BY <1>1, <1>5 DEF Pending, Current, Rest
<1>8. IsList(rest)
  <2> HIDE DEF tables, schemas, instances, configs
  <2> QED
    BY <1>4, RestIs
<1>9. Pending' = rest
  <2>1. Pending' = Rest(<<>>, tables, schemas, instances, configs)
    BY <1>1, AskingStays
  <2> HIDE DEF tables, schemas, instances, configs
  <2> QED
    BY <1>4, <2>1, RestIs
<1>10. Levels'
  BY <1>1, AskingStays DEF Levels
<1> HIDE DEF items, rest
<1> QED
  BY <1>1, <1>4, <1>5, <1>6, <1>7, <1>8, <1>9, <1>10, Answers

LEMMA SaveWhole ==
    ASSUME RequestsInv, RequestsInv', WholeInv, Save PROVE WholeInv'
<1>1. pc = "save" /\ UNCHANGED <<setting, catalogs, todo, at, answer>> /\ Underway
  BY DEF Save, Underway
<1>2. CASE pc' = "walk"
  <2>1. Known /\ Levels
    BY <1>1 DEF WholeInv
  <2>2. Pending' = Pending /\ Levels'
    BY <1>1, <1>2, <2>1, AskingStays DEF Pending, Current, Levels
  <2> QED
    BY <1>1, <1>2, <2>1, <2>2, MovesOn
<1>3. CASE pc' # "walk"
  <2>1. Raise("OSError")
    BY <1>3 DEF Save, SaveFails
  <2> QED
    BY <2>1, EndsWhole DEF Raise, Status
<1> QED
  BY <1>2, <1>3

LEMMA FinishWhole ==
    ASSUME RequestsInv, RequestsInv', WholeInv, Finish PROVE WholeInv'
<1>1. /\ pc = "walk" /\ todo = NoTodo /\ UNCHANGED <<setting, catalogs, answer>> /\ Underway
      /\ pc' = "done"
  BY DEF Finish, walk, Underway
<1>2. todo.configs = <<>> /\ todo.instances = <<>> /\ todo.schemas = <<>> /\ todo.tables = <<>>
  BY <1>1 DEF NoTodo
<1>3. Known
  <2>1. <<request.config>> # <<>>
    OBVIOUS
  <2> QED
    BY <1>1, <1>2, <2>1 DEF WholeInv
<1>4. Pending = <<>>
  <2>1. Pending = Rest(<<>>, <<>>, <<>>, <<>>, <<>>)
    BY <1>1, <1>2, NothingLeft DEF Pending, Current
  <2> QED
    BY <2>1, EmptyList, RestIs
<1>5. Places(answer) = Asking
  <2>1. IsList(Places(answer))
    BY <1>1, <1>3, PartsAreLists
  <2>2. Joined(Places(answer), <<>>) = Asking
    BY <1>1, <1>3, <1>4 DEF WholeInv, Whole
  <2> QED
    BY <2>1, <2>2, JoinedWithNone
<1>6. Places(answer') = Asking'
  BY <1>1, <1>5, AskingStays
<1>7. (Places(answer) = Asking)'
  BY <1>6 DEF Places
<1> QED
  BY <1>1, <1>7 DEF WholeInv, Underway

LEMMA ReceiveWhole ==
    ASSUME RequestsInv, RequestsInv', WholeInv, Receive PROVE WholeInv'
<1>1. /\ pc = "received" /\ answer' = answer /\ answer = <<>> /\ UNCHANGED <<setting, catalogs>>
      /\ Configs # NoName /\ environment \in Environments
  BY DEF Receive, WholeInv, RequestsInv, Control
<1>2. pc' \in {"enqueue", "resolve", "walk"} /\ status' # 200
  BY DEF Receive, RequestsInv, Control
<1>3. CASE pc' # "walk"
  BY <1>2, <1>3 DEF WholeInv, Underway
<1>4. CASE pc' = "walk"
  <2> DEFINE names == Chosen(request.config, Names)
  <2>1. /\ todo'.configs = names /\ todo'.instances = <<>> /\ todo'.schemas = <<>>
        /\ todo'.tables = <<>>
    BY <1>4 DEF Receive, NoTodo
  <2>2. CASE ~Known
    <3>1. names = <<request.config>> /\ ~Known'
      BY <1>1, <2>2, AskingStays DEF Known, Chosen
    <3>2. request' = request
      BY <1>1, AskingStays
    <3> HIDE DEF names
    <3> QED
      BY <1>2, <1>4, <2>1, <3>1, <3>2 DEF WholeInv
  <2>3. CASE Known
    <3>1. IsList(names) /\ Range(names) \subseteq DOMAIN Configs
      <4>1. IsList(Names) /\ Range(Names) = DOMAIN Configs
        BY <1>1, StartedWith, NamesListed DEF RequestsInv, Control
      <4>2. CASE request.config = NoName
        BY <4>1, <4>2 DEF Chosen
      <4>3. CASE request.config # NoName
        <5>1. names = <<request.config>> /\ request.config \in DOMAIN Configs
          BY <2>3, <4>3 DEF Chosen, Known
        <5>2. IsList(names)
          BY <4>1, OneOrAll
        <5>3. Range(names) = {request.config}
          BY <5>1 DEF Range
        <5> QED
          BY <5>1, <5>2, <5>3
      <4> QED
        BY <4>2, <4>3
    <3>2. IsList(OfConfigs(names))
      <4> HIDE DEF names
      <4> QED
        BY <1>1, <3>1, EachIsLists, ListsOfLists DEF OfConfigs
    <3>3. Pending' = OfConfigs(names)
      <4>1. Pending' = Rest(<<>>, <<>>, <<>>, <<>>, OfConfigs(names))
        BY <1>1, <1>4, <2>1, AskingStays, NothingLeft
      <4> HIDE DEF names
      <4> QED
        BY <3>2, <4>1, EmptyList, RestIs
    <3>4. Asking = OfConfigs(names)
      BY DEF Asking, OfConfigs, EachConfig
    <3>5. Places(answer') = <<>>
      BY <1>1 DEF Places
    <3>6. Joined(Places(answer'), Pending') = Asking'
      <4>1. Joined(<<>>, OfConfigs(names)) = OfConfigs(names)
        BY <3>2, JoinedWithNone
      <4> HIDE DEF names
      <4> QED
        BY <1>1, <3>3, <3>4, <3>5, <4>1, AskingStays
    <3>7. Whole'
      BY <3>6 DEF Whole, Places
    <3>8. Levels' /\ Known'
      BY <1>1, <2>1, <2>3, AskingStays DEF Levels
    <3> QED
      BY <1>2, <1>4, <3>7, <3>8 DEF WholeInv
  <2> QED
    BY <2>2, <2>3
<1> QED
  BY <1>3, <1>4

\* The steps of a scan answer nothing.
LEMMA ScanWhole ==
    ASSUME RequestsInv, RequestsInv', WholeInv,
           Resolve \/ Reject \/ Enqueue \/ DropCatalog \/ Execute
    PROVE  WholeInv'
<1>1. CASE Resolve
  <2>1. pc = "resolve" /\ (Fails \/ pc' = pc)
    BY <1>1 DEF Resolve
  <2>2. pc' \in {"resolve", "done"} /\ status' # 200
    BY <2>1, RaiseNotServed DEF RequestsInv, Control
  <2> QED
    BY <2>2 DEF WholeInv, Underway
<1>2. CASE Reject
  BY <1>2, RaiseNotServed, EndsWhole DEF Reject
<1>3. CASE Enqueue
  BY <1>3, EndsWhole DEF Enqueue, Raise, Status
<1>4. CASE DropCatalog \/ Execute
  <2>1. pc' = pc /\ status' = status /\ job # NoName
    BY <1>4 DEF DropCatalog, Execute
  <2>2. pc' = "done" /\ status' # 200
    BY <2>1 DEF RequestsInv, Control
  <2> QED
    BY <2>2, EndsWhole
<1> QED
  BY <1>1, <1>2, <1>3, <1>4

LEMMA StutterWhole ==
    ASSUME WholeInv, UNCHANGED vars PROVE WholeInv'
<1>1. UNCHANGED <<setting, catalogs, pc, todo, at, answer, status>>
  BY DEF vars, walk
<1>2. Pending' = Pending
  BY <1>1, AskingStays DEF Pending, Current
<1> QED
  BY <1>1, <1>2, AskingStays DEF WholeInv, Whole, Levels, Underway, Places

LEMMA InitWhole == Init => WholeInv
  BY DEF Init, WholeInv, Underway

LEMMA WholeStep == RequestsInv /\ WholeInv /\ [Next]_vars => WholeInv'
<1> SUFFICES ASSUME RequestsInv, WholeInv, [Next]_vars PROVE WholeInv'
  OBVIOUS
<1>1. RequestsInv'
  BY RequestsStep
<1>2. CASE Receive
  BY <1>1, <1>2, ReceiveWhole
<1>3. CASE NextConfig
  BY <1>1, <1>3, NextConfigWhole
<1>4. CASE NextInstance
  BY <1>1, <1>4, NextInstanceWhole
<1>5. CASE NextSchema
  BY <1>1, <1>5, NextSchemaWhole
<1>6. CASE DescribeTable
  BY <1>1, <1>6, DescribeTableWhole
<1>7. CASE Document
  BY <1>1, <1>7, DocumentWhole
<1>8. CASE Collect
  BY <1>1, <1>8, CollectWhole
<1>9. CASE Save
  BY <1>1, <1>9, SaveWhole
<1>10. CASE Finish
  BY <1>1, <1>10, FinishWhole
<1>11. CASE Resolve \/ Reject \/ Enqueue \/ DropCatalog \/ Execute
  BY <1>1, <1>11, ScanWhole
<1>12. CASE UNCHANGED vars
  BY <1>12, StutterWhole
<1> QED
  BY <1>2, <1>3, <1>4, <1>5, <1>6, <1>7, <1>8, <1>9, <1>10, <1>11, <1>12 DEF Next

\* An answer with status 200 is all of what was asked for, once and in order, however many
\* configurations, instances, schemas and tables the loops of the services go through, and
\* whatever the limit of a page.
THEOREM AnswersAreWhole == Spec => []AnswerIsScope
<1>1. RequestsInv /\ WholeInv => AnswerIsScope
  BY DEF WholeInv, AnswerIsScope
<1>2. Init => RequestsInv /\ WholeInv
  BY InitHolds, InitWhole
<1>3. RequestsInv /\ WholeInv /\ [Next]_vars => (RequestsInv /\ WholeInv)'
  BY RequestsStep, WholeStep
<1> QED
  BY <1>1, <1>2, <1>3, PTL DEF Spec
=============================================================================

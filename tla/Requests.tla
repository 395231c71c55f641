------------------------------ MODULE Requests ------------------------------
(***************************************************************************)
(* A request to the API from the configurations of the service to the      *)
(* answer: POST /connect, /instances, /schemas, /tables and /describe walk *)
(* configurations, instances, schemas and tables, and the first exception  *)
(* ends the walk; /describe stores as it goes.  POST /scan resolves the    *)
(* configuration of an instance and enqueues, and the worker resolves it   *)
(* again (what it then does is ScanQueue).                                 *)
(*                                                                         *)
(* Each call to a connector is a step: it can fail on its own account      *)
(* (a server that is unreachable, a query that fails), and it refuses      *)
(* what Connectors says.                                                   *)
(***************************************************************************)
EXTENDS ConfigResolution

CONSTANTS
    Environments,   \* DB_TARGETS and the variables it is read with
    Asked,          \* the requests that are made
    Content,        \* for each type, its schemas and their tables, in order
    BadTables,      \* tables whose description fails with a ValueError
    Retries,        \* values of LITELLM_MAX_RETRIES
    MaxFaults       \* bound on calls that fail on their own account

Kinds == {"connect", "instances", "schemas", "tables", "describe", "scan"}

\* What the models of the requests let them name, and SQLite and DynamoDB have one schema.
ASSUME RequestsAssumption ==
    /\ \A e \in Environments : e.names \in Seq([words : Seq(STRING), spelling : STRING])
    /\ \A r \in Asked :
         /\ r.kind \in Kinds /\ r.ai \in BOOLEAN /\ r.save \in BOOLEAN
         /\ r.ai => r.kind = "describe"
         /\ {r.limit, r.offset} \subseteq Int \cup {NoName}
         /\ r.kind \in {"connect", "instances"} => r.instance = NoName
         /\ r.kind \in {"connect", "instances", "schemas"} => r.schema = NoName
         /\ r.kind # "describe" => r.table = NoName
    /\ Content \in [Types -> Seq([schema : STRING, tables : Seq(STRING)])]
    /\ \A t \in Types : \A i, j \in DOMAIN Content[t] :
          Content[t][i].schema = Content[t][j].schema => i = j
    /\ \A t \in {"sqlite", "dynamodb"} : Len(Content[t]) = 1
    /\ Retries \subseteq Nat /\ MaxFaults \in Nat

AI == INSTANCE AiDocumentation

VARIABLES
    environment,   \* fixed at the start, with retries and installed
    retries,
    installed,     \* is litellm?
    catalogs,      \* the catalogs of each Trino and Athena configuration
    request,
    pc,
    todo,          \* what is left of the loops, from the outermost to the innermost
    at,            \* where they are: configuration, instance, schema, table
    call,          \* the call to the model
    answer, saved,
    status,        \* of the response; 0 before
    matching,      \* configurations found to own the instance
    job,           \* the scope in the queue
    work,          \* what the worker makes of it: state, and configurations it takes it to
    faults

setting == <<environment, retries, installed, request>>
walk == <<todo, at, call, answer, saved>>
scan == <<matching, job, work>>
vars == <<setting, catalogs, pc, walk, status, scan, faults>>

\* The service reads its environment once.
Started == [e \in Environments |-> T!Configurations(e.names, e.variables)]
Configs == Started[environment]
Names == environment.names
NoTodo == [configs |-> <<>>, instances |-> <<>>, schemas |-> <<>>, tables |-> <<>>]
Nowhere == [config |-> NoName, instance |-> NoName, schema |-> NoName, table |-> NoName]

\* A service whose configurations raise does not start.
Init ==
    /\ environment \in Environments
    /\ retries \in Retries /\ installed \in BOOLEAN
    /\ catalogs = [n \in {Names[i] : i \in DOMAIN Names} |-> {"hive", "tpch"}]
    /\ request \in Asked
    /\ (~request.ai => installed /\ \A r \in Retries : retries <= r)
    /\ pc = IF Configs = NoName THEN "unstarted" ELSE "received"
    /\ todo = NoTodo /\ at = Nowhere /\ call = AI!Begun(NoName)
    /\ answer = <<>> /\ saved = <<>>
    /\ status = 0
    /\ matching = <<>> /\ job = NoName /\ work = [state |-> "waiting", configs |-> <<>>]
    /\ faults = 0

-----------------------------------------------------------------------------
(* Exceptions and responses                                                *)

\* Mutant: any exception of a scan is 503.
Status_ScanUnavailable(kind, error) ==
    CASE kind = "scan" -> 503
      [] error = "ValueError" -> 400
      [] OTHER -> 500

\* The except clauses of the routes.  The ConnectionError is Python's, which the
\* connectors raise; that of redis-py is not one.
Status(kind, error) ==
    CASE error = "ValueError" -> 400
      [] error = "ConnectionError" /\ kind = "scan" -> 503
      [] OTHER -> 500

Raise(error) ==
    /\ status' = Status(request.kind, error)
    /\ pc' = "done"

\* A call that fails on its own account: no connection, or a failing query.
Fails ==
    /\ faults < MaxFaults
    /\ faults' = faults + 1
    /\ \E error \in {"ConnectionError", "RuntimeError"} : Raise(error)

Refused == Raise("ValueError") /\ UNCHANGED faults

\* The query of what is not there, or of a page that is no SQL.
QueryRaises == Raise("RuntimeError") /\ UNCHANGED faults

Config == Configs[at.config]
Type == ConnectorType(Config)
Schemas == [i \in DOMAIN Content[Type] |-> Content[Type][i].schema]
Tables(schema) ==
    LET i == {k \in DOMAIN Content[Type] : Content[Type][k].schema = schema}
    IN  IF i = {} THEN <<>> ELSE Content[Type][CHOOSE k \in i : TRUE].tables

InOrder(S) == CHOOSE s \in SetToSeqs(S) : TRUE

\* The items of an answer name the place they are from.
Item(x) == [config |-> x.config, instance |-> x.instance, schema |-> x.schema,
            table |-> x.table, doc |-> NoName, error |-> FALSE]

-----------------------------------------------------------------------------
(* The walk                                                                *)

Chosen(name, all) == IF name # NoName THEN <<name>> ELSE all

Receive ==
    /\ pc = "received"
    /\ IF request.kind = "scan" /\ (request.config # NoName \/ request.instance = NoName)
       THEN pc' = "enqueue" /\ UNCHANGED todo
       ELSE /\ pc' = IF request.kind = "scan" THEN "resolve" ELSE "walk"
            /\ todo' = [NoTodo EXCEPT !.configs = Chosen(request.config, Names)]
    /\ UNCHANGED <<setting, catalogs, at, call, answer, saved, status, scan, faults>>

Walking(level) ==
    /\ pc = "walk"
    /\ level = "configs" => todo.instances = <<>> /\ todo.schemas = <<>> /\ todo.tables = <<>>
    /\ level = "instances" => todo.schemas = <<>> /\ todo.tables = <<>>
    /\ level = "schemas" => todo.tables = <<>>
    /\ todo[level] # <<>>

\* list_instances of ConfigService, or the instance that was asked for.
NextConfig ==
    /\ Walking("configs")
    /\ LET name == Head(todo.configs)
           listed == IF name \in DOMAIN Configs
                     THEN InOrder(ListInstances(Configs[name], catalogs[name])) ELSE <<>>
           asks == request.kind \in {"connect", "instances"} \/ request.instance = NoName
           here == [Nowhere EXCEPT !.config = name]
       IN  /\ at' = here
           /\ \/ /\ asks /\ name \notin DOMAIN Configs
                 /\ Refused /\ UNCHANGED <<todo, answer>>
              \/ asks /\ name \in DOMAIN Configs /\ Fails /\ UNCHANGED <<todo, answer>>
              \/ /\ ~asks \/ name \in DOMAIN Configs
                 /\ todo' = [todo EXCEPT !.configs = Tail(@), !.instances =
                      IF request.kind \in {"connect", "instances"} THEN <<>>
                      ELSE Chosen(request.instance, listed)]
                 /\ answer' = IF request.kind # "instances" THEN answer
                              ELSE answer \o [i \in DOMAIN listed |->
                                     Item([here EXCEPT !.instance = listed[i]])]
                 /\ UNCHANGED <<pc, status, faults>>
    /\ UNCHANGED <<setting, catalogs, call, saved, scan>>

\* Trino and Athena take any instance, and fail on the query of a catalog they lack.
NoCatalog(instance) == Type \in {"trino", "athena"} /\ instance \notin catalogs[at.config]

\* _get_connector_for_host, and list_schemas if no schema is asked for.
NextInstance ==
    /\ Walking("instances")
    /\ LET instance == Head(todo.instances)
           here == [at EXCEPT !.instance = instance, !.schema = NoName, !.table = NoName]
           lists == request.kind = "schemas" \/ request.schema = NoName
           known == at.config \in DOMAIN Configs
           refused == IF known THEN lists /\ Refuses(Config, "schemas", instance) ELSE TRUE
           raises == known /\ lists /\ NoCatalog(instance)
       IN  /\ at' = here
           /\ \/ refused /\ Refused /\ UNCHANGED <<todo, answer>>
              \/ raises /\ QueryRaises /\ UNCHANGED <<todo, answer>>
              \/ known /\ Fails /\ UNCHANGED <<todo, answer>>
              \/ /\ ~refused /\ ~raises
                 /\ todo' = [todo EXCEPT !.instances = Tail(@), !.schemas =
                      IF request.kind = "schemas" THEN <<>> ELSE Chosen(request.schema, Schemas)]
                 /\ answer' = IF request.kind # "schemas" THEN answer
                              ELSE answer \o [i \in DOMAIN Schemas |->
                                     Item([here EXCEPT !.schema = Schemas[i]])]
                 /\ UNCHANGED <<pc, status, faults>>
    /\ UNCHANGED <<setting, catalogs, call, saved, scan>>

\* SQLite and DynamoDB refuse a schema that is not theirs, and Glue fails on one that
\* is not there; validate_limit_offset refuses a limit or an offset below zero.
WrongSchema(schema) == Type \in {"sqlite", "dynamodb"} /\ schema # Schemas[1]
NoSchema(schema) == Type = "athena" /\ schema \notin Range(Schemas)

BadPage ==
    request.kind = "tables" /\ \E n \in {request.limit, request.offset} : n # NoName /\ n < 0

NoPage == request.kind = "tables" /\ Unpaged(Type, request.limit, request.offset)

\* Mutant: the page is of all the tables before it.
Listed_Whole(schema) == Tables(schema)

\* list_tables with the limit and the offset of the request, which count in each
\* schema anew.
Listed(schema) ==
    IF request.kind = "tables" THEN Slice(Tables(schema), request.limit, request.offset)
    ELSE Slice(Tables(schema), NoName, NoName)

\* list_tables, if no table is asked for.
NextSchema ==
    /\ Walking("schemas")
    /\ LET schema == Head(todo.schemas)
           here == [at EXCEPT !.schema = schema, !.table = NoName]
           lists == request.kind = "tables" \/ request.table = NoName
           refused == lists /\ (\/ Refuses(Config, "tables", at.instance)
                                \/ WrongSchema(schema) \/ BadPage)
           raises == lists /\ (NoSchema(schema) \/ NoCatalog(at.instance) \/ NoPage)
       IN  /\ at' = here
           /\ \/ refused /\ Refused /\ UNCHANGED <<todo, answer>>
              \/ ~refused /\ raises /\ QueryRaises /\ UNCHANGED <<todo, answer>>
              \/ lists /\ Fails /\ UNCHANGED <<todo, answer>>
              \/ /\ ~refused /\ ~raises
                 /\ todo' = [todo EXCEPT !.schemas = Tail(@), !.tables =
                      IF request.kind = "tables" THEN <<>>
                      ELSE Chosen(request.table, Listed(schema))]
                 /\ answer' = IF request.kind # "tables" THEN answer
                              ELSE answer \o [i \in DOMAIN Listed(schema) |->
                                     Item([here EXCEPT !.table = Listed(schema)[i]])]
                 /\ UNCHANGED <<pc, status, faults>>
    /\ UNCHANGED <<setting, catalogs, call, saved, scan>>

\* A description is asked for by instance, schema and name: DynamoDB looks at the
\* name only.
DescribeRefused ==
    \/ Refuses(Config, "describe", at.instance)
    \/ Type = "sqlite" /\ WrongSchema(at.schema)

\* PostgreSQL, SQLite and Trino describe a table that is not there as empty, and a
\* collection that is not there has no $jsonSchema.
TableAbsent(table) ==
    /\ table \notin Range(Tables(IF Type = "dynamodb" THEN Schemas[1] ELSE at.schema))
    /\ Type \in {"mysql", "duckdb", "athena", "dynamodb"}

DescribeTable ==
    /\ pc = "walk" /\ todo.tables # <<>>
    /\ LET table == Head(todo.tables)
           bad == \/ table \in BadTables
                  \/ Type = "mongodb" /\ table \notin Range(Tables(at.schema))
           raises == NoCatalog(at.instance) \/ TableAbsent(table)
           refused == DescribeRefused \/ (bad /\ ~raises)
       IN  /\ at' = [at EXCEPT !.table = table]
           /\ \/ refused /\ Refused /\ UNCHANGED <<todo, call>>
              \/ ~refused /\ raises /\ QueryRaises /\ UNCHANGED <<todo, call>>
              \/ Fails /\ UNCHANGED <<todo, call>>
              \/ /\ ~refused /\ ~raises
                 /\ todo' = [todo EXCEPT !.tables = Tail(@)]
                 /\ call' = AI!Begun(table)
                 /\ pc' = IF request.ai THEN "document" ELSE "append"
                 /\ UNCHANGED <<status, faults>>
    /\ UNCHANGED <<setting, catalogs, answer, saved, scan>>

\* generate_table_documentation: an exception would leave the walk.
Document ==
    /\ pc = "document"
    /\ \E next \in AI!Outcomes(call, retries, installed) :
         /\ call' = next
         /\ IF next.raised THEN Raise("RuntimeError")
            ELSE /\ pc' = IF next.over THEN "append" ELSE pc
                 /\ UNCHANGED status
    /\ UNCHANGED <<setting, catalogs, todo, at, answer, saved, scan, faults>>

\* Mutant: a table that the model did not document is not stored.
Collect_Documented ==
    /\ pc = "append"
    /\ answer' = Append(answer, [Item(at) EXCEPT !.doc = call.doc, !.error = call.error])
    /\ pc' = IF request.save /\ ~call.error THEN "save" ELSE "walk"
    /\ UNCHANGED <<setting, catalogs, todo, at, call, saved, status, scan, faults>>

\* The description joins the answer before it is stored.
Collect ==
    /\ pc = "append"
    /\ answer' = Append(answer, [Item(at) EXCEPT !.doc = call.doc, !.error = call.error])
    /\ pc' = IF request.save THEN "save" ELSE "walk"
    /\ UNCHANGED <<setting, catalogs, todo, at, call, saved, status, scan, faults>>

\* A failed write is logged and no more; a failed export raises, the record stored.
SaveFails ==
    \/ UNCHANGED <<saved, status>> /\ pc' = "walk"
    \/ Raise("OSError") /\ saved' = Append(saved, at)

Save ==
    /\ pc = "save"
    /\ \/ /\ saved' = Append(saved, at) /\ pc' = "walk"
          /\ UNCHANGED <<status, faults>>
       \/ faults < MaxFaults /\ faults' = faults + 1 /\ SaveFails
    /\ UNCHANGED <<setting, catalogs, todo, at, call, answer, scan>>

Finish ==
    /\ pc = "walk" /\ todo = NoTodo
    /\ pc' = "done" /\ status' = 200
    /\ UNCHANGED <<setting, catalogs, walk, scan, faults>>

-----------------------------------------------------------------------------
(* A scan                                                                  *)

\* Mutant: the configurations after the first that owns the instance are not looked at.
Resolved_First(name, owns) ==
    [todo EXCEPT !.configs = IF owns THEN <<>> ELSE Tail(@)]

\* What is left of resolve_configurations_for_instance.
Resolved(name, owns) == [todo EXCEPT !.configs = Tail(@)]

Resolve ==
    /\ pc = "resolve" /\ todo.configs # <<>>
    /\ LET name == Head(todo.configs)
           owns == Matches(Configs[name], request.instance, catalogs[name])
       IN  \/ /\ MatchAsks(Configs[name]) /\ Fails
              /\ UNCHANGED <<todo, matching>>
           \/ /\ todo' = Resolved(name, owns)
              /\ matching' = IF owns THEN Append(matching, name) ELSE matching
              /\ UNCHANGED <<pc, status, faults>>
    /\ UNCHANGED <<setting, catalogs, at, call, answer, saved, job, work>>

\* Nobody owns the instance.
Reject ==
    /\ pc = "resolve" /\ todo.configs = <<>> /\ matching = <<>>
    /\ Refused
    /\ UNCHANGED <<setting, catalogs, walk, scan>>

\* The only owner becomes part of the scope; several leave it open.
Enqueue ==
    /\ \/ pc = "enqueue"
       \/ pc = "resolve" /\ todo.configs = <<>> /\ matching # <<>>
    /\ \/ /\ job' = [config |-> IF Len(matching) = 1 THEN matching[1] ELSE request.config,
                     instance |-> request.instance]
          /\ status' = 202 /\ pc' = "done" /\ UNCHANGED faults
       \/ /\ faults < MaxFaults /\ faults' = faults + 1
          /\ Raise("RedisError") /\ UNCHANGED job
    /\ UNCHANGED <<setting, catalogs, walk, matching, work>>

\* A catalog is removed before the worker gets to the job.
DropCatalog ==
    /\ job # NoName /\ work.state = "waiting"
    /\ \E n \in DOMAIN catalogs, c \in {"hive", "tpch"} :
         /\ Cardinality(catalogs[n]) > 1 /\ c \in catalogs[n]
         /\ catalogs' = [catalogs EXCEPT ![n] = @ \ {c}]
    /\ UNCHANGED <<setting, pc, walk, status, scan, faults>>

\* The configurations that execute takes a job to.
Scope(scope) ==
    IF scope.config # NoName THEN <<scope.config>>
    ELSE IF scope.instance = NoName THEN Names
    ELSE FlattenSeq([i \in DOMAIN Names |->
           IF Matches(Configs[Names[i]], scope.instance, catalogs[Names[i]])
           THEN <<Names[i]>> ELSE <<>>])

\* The worker's filter raises outside of the try block of execute: the job fails.
Execute ==
    /\ job # NoName /\ work.state = "waiting"
    /\ \/ work' = [state |-> "taken", configs |-> Scope(job)] /\ UNCHANGED faults
       \/ /\ job.config = NoName /\ job.instance # NoName
          /\ \E i \in DOMAIN Names : MatchAsks(Configs[Names[i]])
          /\ faults < MaxFaults /\ faults' = faults + 1
          /\ work' = [work EXCEPT !.state = "failed"]
    /\ UNCHANGED <<setting, catalogs, pc, walk, status, matching, job>>

Next ==
    \/ Receive \/ NextConfig \/ NextInstance \/ NextSchema \/ DescribeTable
    \/ Document \/ Collect \/ Save \/ Finish
    \/ Resolve \/ Reject \/ Enqueue \/ DropCatalog \/ Execute

Spec == Init /\ [][Next]_vars

-----------------------------------------------------------------------------
(* Properties                                                              *)

\* The type invariant: the loops hold names, and the call to the model stays
\* within LITELLM_MAX_RETRIES.
RequestsTypeOK ==
    /\ pc \in {"unstarted", "received", "walk", "document", "append", "save",
               "resolve", "enqueue", "done"}
    /\ status \in {0, 200, 202, 400, 500, 503}
    /\ status # 0 <=> pc = "done"
    /\ \A i \in DOMAIN todo.configs : todo.configs[i] \in Range(Names) \cup {request.config}
    /\ call.attempts \in 0..retries
    /\ work.state \in {"waiting", "taken", "failed"}
    /\ faults \in 0..MaxFaults

\* The targets a started service has are all of those in DB_TARGETS, in spite of what
\* is wrong with one (configurations.py get_target_configurations), and each has the
\* parameters that its connector requires.
StartsWhole ==
    pc # "unstarted" =>
        /\ DOMAIN Configs = Range(Names)
        /\ \A n \in Range(Names) :
             LET params == T!Params(Configs[n].type)
             IN  \A p \in DOMAIN params :
                   params[p].kind = "required" => Configs[n].params[p] # NoName

\* The variables of a target, whatever its type.
ReadBy(name) == UNION {T!VariablesOf(name, t) : t \in T!Supported}

\* Targets with different keys read different variables: no suffix of one is taken
\* for part of the key of another (configurations.py _target_key, _target_env).  The
\* environment is that of the initial state throughout.
TargetsApart ==
    pc \in {"received", "unstarted"} => \A i, j \in DOMAIN Names :
        T!Key(Names[i]) # T!Key(Names[j]) => ReadBy(Names[i]) \cap ReadBy(Names[j]) = {}

\* What the targets of a configuration list, they own: an instance that list_instances
\* gives is resolved to its configuration and not refused by it (config_service.py
\* configuration_matches_instance).  Except for Trino: its instances are catalogs, and
\* its configuration is matched by host.
OwnersResolve ==
    pc # "unstarted" =>
        \A n \in DOMAIN Configs : ConnectorType(Configs[n]) # "trino" =>
            \A instance \in ListInstances(Configs[n], catalogs[n]) :
                /\ Matches(Configs[n], instance, catalogs[n])
                /\ \A op \in {"schemas", "tables", "describe"} : ~Refuses(Configs[n], op, instance)

\* The configurations, instances, schemas and tables that a request is about.
InstancesOf(name) ==
    Chosen(request.instance, InOrder(ListInstances(Configs[name], catalogs[name])))
SchemasOf(name) ==
    Chosen(request.schema, LET c == Content[ConnectorType(Configs[name])]
                           IN  [i \in DOMAIN c |-> c[i].schema])
Without(tables) ==
    IF request.offset = NoName THEN tables ELSE SubSeq(tables, request.offset + 1, Len(tables))
FirstOnes(tables) ==
    IF request.limit = NoName \/ request.limit > Len(tables) THEN tables
    ELSE SubSeq(tables, 1, request.limit)
TablesOf(name, schema) ==
    LET here == {c \in Range(Content[ConnectorType(Configs[name])]) : c.schema = schema}
        tables == IF here = {} THEN <<>> ELSE (CHOOSE c \in here : TRUE).tables
    IN  IF request.kind = "tables" THEN FirstOnes(Without(tables)) ELSE Chosen(request.table, tables)

Spot(name, instance, schema, table) ==
    [config |-> name, instance |-> instance, schema |-> schema, table |-> table]

AskedOfSchema(name, instance, schema) ==
    IF request.kind = "schemas" THEN <<Spot(name, instance, schema, NoName)>>
    ELSE [k \in DOMAIN TablesOf(name, schema) |->
            Spot(name, instance, schema, TablesOf(name, schema)[k])]

AskedOfInstance(name, instance) ==
    IF request.kind = "instances" THEN <<Spot(name, instance, NoName, NoName)>>
    ELSE FlattenSeq([k \in DOMAIN SchemasOf(name) |->
                       AskedOfSchema(name, instance, SchemasOf(name)[k])])

AskedOfConfig(name) ==
    IF request.kind = "connect" THEN <<>>
    ELSE FlattenSeq([k \in DOMAIN InstancesOf(name) |->
                       AskedOfInstance(name, InstancesOf(name)[k])])

Asking == LET names == Chosen(request.config, Names)
          IN  FlattenSeq([k \in DOMAIN names |-> AskedOfConfig(names[k])])

Place(x) == Spot(x.config, x.instance, x.schema, x.table)
Places(list) == [i \in DOMAIN list |-> Place(list[i])]

\* An answer with status 200 is what was asked for, all of it, once and in order, with
\* offset and limit counting anew in each schema (the list and describe services).
AnswerIsScope == status = 200 => Places(answer) = Asking

\* What is described is stored, one table behind at most and in the same order, with or
\* without a document and whatever ends the walk; a failed write loses its own table
\* only (describe_table_service.py 89-102).
SavedKeepsUp ==
    request.save /\ request.kind = "describe" =>
        \E lost \in SUBSET DOMAIN answer :
            /\ Cardinality(lost) <= faults + (IF pc = "save" THEN 1 ELSE 0)
            /\ saved = FlattenSeq([i \in DOMAIN answer |->
                          IF i \in lost THEN <<>> ELSE <<Place(answer[i])>>])

\* With AI documentation asked for, an answered table has the document that was generated
\* for it or an error, and no failure of the model ends the request (ai_service.py 21-26).
AiNeverBlocks ==
    /\ request.ai => \A i \in DOMAIN answer :
         answer[i].doc = (IF answer[i].error THEN NoName ELSE answer[i].table)
    /\ ~call.raised

\* An item of an answer comes from a configuration that owns its instance; DynamoDB
\* describes a table whatever the instance (the checks of the instance in the connectors,
\* and the queries of a catalog).
OnlyOwnersAnswer ==
    \A i \in DOMAIN answer :
        LET config == Configs[answer[i].config]
        IN  \/ ConnectorType(config) = "dynamodb" /\ request.table # NoName
            \/ answer[i].instance \in ListInstances(config, catalogs[answer[i].config])

\* A scan of an instance that is accepted for its owners is taken to them and to no other
\* configuration, unless a catalog has gone since (scan_service.py 25-34 and
\* scan_executor_service.py 50-57).
ScanReachesOwners ==
    work.state = "taken" /\ request.config = NoName /\ request.instance # NoName
    /\ (\A n \in DOMAIN catalogs : Cardinality(catalogs[n]) = 2) =>
        /\ work.configs # <<>>
        /\ Range(work.configs) =
             {n \in DOMAIN Configs : Matches(Configs[n], request.instance, catalogs[n])}

\* What a request asks for that one of its configurations does not have: an instance, a
\* schema or a table.
Walked == Range(Chosen(request.config, Names)) \cap DOMAIN Configs
Missing ==
    \E n \in Walked :
        LET content == Content[ConnectorType(Configs[n])]
        IN  \/ /\ request.instance # NoName
               /\ request.instance \notin ListInstances(Configs[n], catalogs[n])
            \/ /\ request.schema # NoName
               /\ \A k \in DOMAIN content : content[k].schema # request.schema
            \/ /\ request.table # NoName
               /\ \E k \in DOMAIN content :
                     /\ request.schema = NoName \/ content[k].schema = request.schema
                     /\ request.table \notin Range(content[k].tables)

\* A page that SQLite cannot write, one that every connector refuses, and a description
\* that fails.
OffsetAlone ==
    /\ request.kind = "tables" /\ request.limit = NoName /\ request.offset # NoName
    /\ \E n \in Walked : ConnectorType(Configs[n]) = "sqlite"
Negative == \E n \in {request.limit, request.offset} \ {NoName} : n < 0
Indescribable ==
    \E n \in Walked : LET content == Content[ConnectorType(Configs[n])]
        IN  \E k \in DOMAIN content : Range(content[k].tables) \cap BadTables # {}

\* A request fails for a reason that is in the request and the configurations it walks, or
\* in a call that failed: 503 for a scan that met a failure, 500 for a failure, for what is
\* not there and for SQLite's OFFSET without LIMIT, 400 for what is refused; a scan is
\* refused only when no configuration matches its instance.  Any other request is served
\* (the except clauses of main.py).
FailuresExplained ==
    /\ status = 503 => request.kind = "scan" /\ faults > 0
    /\ status = 500 => faults > 0 \/ (request.kind # "scan" /\ (Missing \/ OffsetAlone))
    /\ status = 400 =>
         IF request.kind = "scan"
         THEN \A n \in DOMAIN Configs : ~Matches(Configs[n], request.instance, catalogs[n])
         ELSE \/ request.config # NoName /\ request.config \notin DOMAIN Configs
              \/ Missing
              \/ request.kind = "tables" /\ Negative
              \/ request.kind = "describe" /\ Indescribable
=============================================================================

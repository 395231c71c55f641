--------------------------- MODULE Introspection ---------------------------
(***************************************************************************)
(* The four operations of a connector (list_instances, list_schemas,       *)
(* list_tables, describe_table) as the threads of the API and the workers  *)
(* run them: they ask the cache in Redis, put several queries to the       *)
(* database one after the other, build the answer and store it in the      *)
(* cache.  Meanwhile the database is altered, entries expire, Redis fails, *)
(* and connections break.                                                  *)
(*                                                                         *)
(* The configurations are of one type and share the first coordinate (see  *)
(* KeyPlace) if they are not files; each stands for a server of its own.   *)
(* A server goes through a history of definitions of one table.  What a    *)
(* query returns is known by the version that the server had when it ran.  *)
(* Different operations share nothing but the pools, so that one at a time *)
(* is looked at.                                                           *)
(***************************************************************************)
EXTENDS Connectors

CONSTANTS
    Threads,
    Servers,
    Cases,       \* the types, operations, histories and numbers of calls looked at
    PoolSize,    \* pool_size
    MaxFaults,   \* bound on failed queries, calls to Redis and breaks
    None

ASSUME IntrospectionAssumption ==
    /\ PoolSize \in Nat \ {0}
    /\ MaxFaults \in Nat
    /\ NoName \notin Int
    /\ \A c \in Cases : c.type \in Types /\ c.calls \in Nat
          /\ c.history \in Seq(Range(c.history)) \ {<<>>}
          /\ c.op \in {"instances", "schemas", "tables", "describe"}

\* What every database sees to: the columns of a table and of its key are in an order, an
\* index has a column or an expression, a table's foreign keys differ in their names (in
\* SQLite, where a name need not be given, in their ids), and keys and indexes are made of
\* columns of the table; only a collection may have an index on what its $jsonSchema leaves
\* out.  A table of DynamoDB has a partition key.
ASSUME DefinitionsAssumption ==
    \A c \in Cases : \A d \in Range(c.history) :
        /\ d.cols \in Seq(Range(d.cols))
        /\ d.key \in Seq(Range(d.cols)) /\ (c.type = "dynamodb" /\ d.exists => d.key # <<>>)
        /\ \A i \in d.ixs :
              /\ i = [name |-> i.name, cols |-> i.cols, unique |-> i.unique, primary |-> i.primary]
              /\ i.cols \in Seq(Range(i.cols)) \ {<<>>}
              /\ c.type # "mongodb" => Range(i.cols) \subseteq Range(d.cols) \cup {Expr}
        /\ \A f \in d.fks :
              /\ IsFiniteSet(f.pairs) /\ \A p \in f.pairs : p[1] \in Range(d.cols)
              /\ \A g \in d.fks : f.name = g.name => f = g

VARIABLES
    type, op, history,   \* fixed at the start
    ver,      \* the version of each server
    cache,    \* the entry of each key, or None
    used,     \* connections that have left each configuration's pool
    idle,     \* the connection in it, for a pool with minconn = 1
    broken,   \* have connections of this server been broken?
    thread,   \* the local state of each thread
    floor,    \* the last stored entry of a refresh, for each key
    raced,    \* has an introspection begun before it stored after it?
    calls,    \* calls still to be made
    faults

database == <<type, op, history, ver>>
pools == <<used, idle, broken>>
ghosts == <<floor, raced>>
vars == <<database, cache, pools, thread, ghosts, calls, faults>>

Config(s) == [main |-> IF type \in {"sqlite", "duckdb"} THEN s ELSE "main", rest |-> s]
Instances(s) == {Config(s).main, "other"}

Key(s, instance) == <<KeyPlace(type, Config(s)), instance>>
Keys == UNION {{Key(s, instance) : instance \in Instances(s)} : s \in Servers}

\* An entry: the server asked, its version at the beginning, and those that the
\* queries found, 0 for one that failed and was passed over.
Entry(s, begun, read) == [server |-> s, begun |-> begun, read |-> read]

Idle == [pc |-> "idle", server |-> None, instance |-> None, refresh |-> FALSE,
         begun |-> 1, read |-> <<>>, conn |-> "none", answer |-> None,
         floor |-> None, raced |-> FALSE]   \* of its key, when it asks

Init ==
    /\ \E c \in Cases : type = c.type /\ op = c.op /\ history = c.history
                        /\ calls = c.calls
    /\ ver = [s \in Servers |-> 1]
    /\ cache = [k \in Keys |-> None]
    /\ used = [s \in Servers |-> 0]
    /\ idle = [s \in Servers |-> IF type = "postgres" THEN "good" ELSE "none"]
    /\ broken = [s \in Servers |-> FALSE]
    /\ thread = [t \in Threads |-> Idle]
    /\ floor = [k \in Keys |-> None] /\ raced = [k \in Keys |-> FALSE]
    /\ faults = 0

KeyOf(t) == Key(thread[t].server, thread[t].instance)
Todo == Queries(type, op)

\* The definition that each query of an answer found.
Definition(v) == IF v = 0 THEN NoTable ELSE history[v]
Found(read) ==
    [q \in {Todo[i] : i \in DOMAIN read} |->
        Definition(read[CHOOSE i \in DOMAIN read : Todo[i] = q])]

-----------------------------------------------------------------------------
(* The cache (CacheManager)                                                *)

\* An empty list in the cache counts as no answer.
Answers(entry) ==
    entry # None /\ ~(op = "tables" /\ ~Definition(entry.read[1]).exists)

AfterMiss(instance, s) ==
    IF Rejects(type, op, instance, Config(s)) THEN "failed"
    ELSE IF Todo = <<>> THEN "store" ELSE "query"

\* A call of an operation and get_cached_data; a call to Redis that fails is a
\* miss.
Ask(t, s, instance, refresh) ==
    /\ thread[t].pc = "idle" /\ calls > 0
    /\ calls' = calls - 1
    /\ LET k == Key(s, instance)
           call == [Idle EXCEPT !.server = s, !.instance = instance,
                      !.refresh = refresh, !.begun = ver[s],
                      !.floor = floor[k], !.raced = raced[k]]
           miss == [call EXCEPT !.pc = AfterMiss(instance, s)]
       IN  \/ /\ thread' = [thread EXCEPT ![t] =
                    IF ~refresh /\ Answers(cache[k])
                    THEN [call EXCEPT !.pc = "answered", !.answer = cache[k]]
                    ELSE miss]
              /\ UNCHANGED faults
           \/ /\ ~refresh /\ faults < MaxFaults
              /\ faults' = faults + 1
              /\ thread' = [thread EXCEPT ![t] = miss]
    /\ UNCHANGED <<database, cache, pools, ghosts>>

\* Mutant: an entry that is there is kept.
Stored_KeepsOld(k, entry) ==
    cache' = [cache EXCEPT ![k] = IF cache[k] # None THEN cache[k] ELSE entry]

Stored(k, entry) == cache' = [cache EXCEPT ![k] = entry]

\* set_cached_data; when it fails the answer is given all the same.
Store(t) ==
    /\ thread[t].pc = "store"
    /\ LET k == KeyOf(t)
           entry == Entry(thread[t].server, thread[t].begun, thread[t].read)
       IN  /\ thread' = [thread EXCEPT ![t].pc = "answered", ![t].answer = entry]
           /\ \/ /\ Stored(k, entry)
                 /\ raced' = [raced EXCEPT ![k] = thread[t].floor # floor[k]]
                 /\ floor' = IF thread[t].refresh THEN [floor EXCEPT ![k] = entry] ELSE floor
                 /\ UNCHANGED faults
              \/ /\ faults < MaxFaults
                 /\ faults' = faults + 1
                 /\ UNCHANGED <<cache, ghosts>>
    /\ UNCHANGED <<database, pools, calls>>

\* The caller has the answer, or the exception.
Return(t) ==
    /\ thread[t].pc \in {"answered", "failed"}
    /\ thread' = [thread EXCEPT ![t] = Idle]
    /\ UNCHANGED <<database, cache, pools, ghosts, calls, faults>>

-----------------------------------------------------------------------------
(* Queries                                                                 *)

Pooled == {"mysql", "postgres"}

\* getconn hands out the idle connection as it is, or opens one; MySQL's pool
\* opens a broken one anew.  An empty pool raises.
Take(t) ==
    /\ thread[t].pc = "query" /\ type \in Pooled /\ thread[t].conn = "none"
    /\ LET s == thread[t].server
       IN  IF used[s] = PoolSize
           THEN /\ thread' = [thread EXCEPT ![t].pc = "failed"]
                /\ UNCHANGED <<used, idle>>
           ELSE /\ used' = [used EXCEPT ![s] = @ + 1]
                /\ thread' = [thread EXCEPT ![t].conn =
                                IF idle[s] = "none" THEN "good" ELSE idle[s]]
                /\ idle' = [idle EXCEPT ![s] = "none"]
    /\ UNCHANGED <<database, cache, broken, ghosts, calls, faults>>

\* Mutant: the connection goes back only after a query that succeeds.
Released_OnSuccess(t, succeeds) ==
    LET s == thread[t].server
    IN  IF type \notin Pooled \/ thread[t].conn = "broken" \/ ~succeeds
        THEN UNCHANGED <<used, idle>>
        ELSE /\ used' = [used EXCEPT ![s] = @ - 1]
             /\ idle' = IF type = "postgres" THEN [idle EXCEPT ![s] = "good"] ELSE idle

\* The finally block.  On a broken connection PostgreSQL's rollback raises, and
\* putconn is not reached; MySQL's connection goes back in any case.
Released(t, succeeds) ==
    LET s == thread[t].server
    IN  IF type \notin Pooled \/ (type = "postgres" /\ thread[t].conn = "broken")
        THEN UNCHANGED <<used, idle>>
        ELSE /\ used' = [used EXCEPT ![s] = @ - 1]
             /\ idle' = IF type = "postgres" THEN [idle EXCEPT ![s] = "good"] ELSE idle

\* Mutant: the last query is put again.
AfterQuery_Again(n) == IF n <= Len(Todo) THEN "query" ELSE "store"

AfterQuery(n) == IF n < Len(Todo) THEN "query" ELSE "store"

Ready(t) == thread[t].pc = "query" /\ (type \in Pooled => thread[t].conn # "none")

\* The next query of the operation is run, and its rows are made into the models.
Query(t) ==
    /\ Ready(t) /\ thread[t].conn # "broken"
    /\ LET read == Append(thread[t].read, ver[thread[t].server])
           q == Todo[Len(read)]
       IN  thread' = [thread EXCEPT ![t].read = read, ![t].conn = "none",
                        ![t].pc = IF op = "describe" /\ Undescribable(type, q, Found(read))
                                  THEN "failed" ELSE AfterQuery(Len(read))]
    /\ Released(t, TRUE)
    /\ UNCHANGED <<database, cache, broken, ghosts, calls, faults>>

\* It raises: a RuntimeError, but for those that MongoDB does without.
QueryFails(t) ==
    /\ Ready(t)
    /\ \/ thread[t].conn = "broken" /\ UNCHANGED faults
       \/ faults < MaxFaults /\ faults' = faults + 1
    /\ LET n == Len(thread[t].read) + 1
       IN  thread' = IF <<type, Todo[n]>> \in Optional
                     THEN [thread EXCEPT ![t].read = Append(@, 0), ![t].pc = AfterQuery(n)]
                     ELSE [thread EXCEPT ![t].pc = "failed", ![t].conn = "none"]
    /\ Released(t, FALSE)
    /\ UNCHANGED <<database, cache, broken, ghosts, calls>>

-----------------------------------------------------------------------------
(* The environment                                                         *)

\* Somebody alters the table.
Alter(s) ==
    /\ ver[s] < Len(history)
    /\ ver' = [ver EXCEPT ![s] = @ + 1]
    /\ UNCHANGED <<type, op, history, cache, pools, thread, ghosts, calls, faults>>

\* CACHE_TTL is over, or Redis drops the key.
Expire(k) ==
    /\ cache[k] # None
    /\ cache' = [cache EXCEPT ![k] = None]
    /\ UNCHANGED <<database, pools, thread, ghosts, calls, faults>>

\* The server ends all its connections.  MySQL's pool notices.
Break(s) ==
    /\ type = "postgres" /\ faults < MaxFaults
    /\ faults' = faults + 1
    /\ broken' = [broken EXCEPT ![s] = TRUE]
    /\ idle' = [idle EXCEPT ![s] = IF @ = "none" THEN @ ELSE "broken"]
    /\ thread' = [t \in Threads |->
                    IF thread[t].conn = "good" /\ thread[t].server = s
                    THEN [thread[t] EXCEPT !.conn = "broken"] ELSE thread[t]]
    /\ UNCHANGED <<database, cache, used, ghosts, calls>>

Next ==
    \/ \E t \in Threads :
          \/ \E s \in Servers, refresh \in BOOLEAN :
                \E instance \in Instances(s) : Ask(t, s, instance, refresh)
          \/ Take(t) \/ Query(t) \/ QueryFails(t) \/ Store(t) \/ Return(t)
    \/ \E s \in Servers : Alter(s) \/ Break(s)
    \/ \E k \in Keys : Expire(k)

Spec == Init /\ [][Next]_vars

-----------------------------------------------------------------------------
(* Properties                                                              *)

\* Every variable has its type; no pool hands out more than it has, and only a
\* query holds a connection.
IntrospectionTypeOK ==
    /\ type \in Types /\ ver \in [Servers -> 1..Len(history)]
    /\ \A k \in Keys : cache[k] # None =>
          cache[k].server \in Servers /\ Len(cache[k].read) = Len(Todo)
    /\ used \in [Servers -> 0..PoolSize]
    /\ idle \in [Servers -> {"none", "good", "broken"}]
    /\ broken \in [Servers -> BOOLEAN] /\ raced \in [Keys -> BOOLEAN]
    /\ \A t \in Threads :
          /\ thread[t].pc \in {"idle", "query", "store", "answered", "failed"}
          /\ Len(thread[t].read) <= Len(Todo)
          /\ thread[t].conn # "none" => thread[t].pc = "query"
    /\ calls \in Nat /\ faults \in 0..MaxFaults

Answered(t) == thread[t].pc = "answered"

\* With PostgreSQL, MongoDB and Trino the answer is of the server that was asked,
\* though another one of the same host shares the cache (postgres.py:99,
\* mongodb.py:113, trino.py:101).
AnswerFromOwnServer ==
    \A t \in Threads :
        Answered(t) /\ type \in {"postgres", "mongodb", "trino"} =>
            thread[t].answer.server = thread[t].server

\* What a refresh (no_cache) stored is not undone: the answers to later calls are no
\* older than it, unless an introspection begun before it was stored had stored its
\* own after it (cache_manager.py:47, 66).
RefreshHolds ==
    \A t \in Threads :
        LET last == thread[t].floor
            answer == thread[t].answer
        IN  Answered(t) /\ last # None /\ ~thread[t].raced /\ answer.server = last.server =>
                answer.begun >= last.begun

\* Whatever queries fail, a pool has again all the connections that no query
\* holds; PostgreSQL's only until connections have been broken (postgres.py:89-92,
\* mysql.py:81-85).
SlotsReturned ==
    \A s \in Servers :
        ~broken[s] =>
            used[s] = Cardinality({t \in Threads : thread[t].server = s
                                                   /\ thread[t].conn # "none"})

\* The reading below is of answers to describe_table.
Described(t) == Answered(t) /\ op = "describe"
Contents(t) == Describe(type, Found(thread[t].answer.read))
Versions(t) == Range(thread[t].answer.read)

\* Every query found the same definition d, which exists.
Untorn(t, d) == Versions(t) = {CHOOSE v \in Versions(t) : TRUE}
                /\ d = Definition(CHOOSE v \in Versions(t) : TRUE) /\ d.exists

\* The columns that a description of d shows as such.
Shown(d) == IF type \in {"trino", "athena"} THEN Unsplit(d) ELSE d.cols

\* A description without columns is of a table that has none (of a collection whose
\* $jsonSchema names none), or that was not there, and then it comes from PostgreSQL,
\* SQLite and Trino only: from no other type does a missing table or a collection
\* without a $jsonSchema pass for an empty one (postgres.py:191-217, mongodb.py:203).
EmptyHasReason ==
    \A t \in Threads :
        Described(t) /\ Contents(t).columns = <<>> =>
            LET d == Definition(thread[t].answer.read[1])
            IN  \/ type \in {"postgres", "sqlite", "trino"} /\ ~d.exists
                \/ /\ IF type = "mongodb" THEN d.validated ELSE d.exists
                   /\ Range(Shown(d)) = {}

ColumnNames(D) == {D.columns[i].name : i \in DOMAIN D.columns} \cup Range(D.partitions)

\* Keys, foreign keys, indexes and partitions speak of columns of this table, as long
\* as it is not altered between the queries; in MongoDB an index need not, and in
\* DuckDB a name may be what is left of an expression (postgres.py:265-271, 300-301).
PartsAgree ==
    \A t \in Threads : \A d \in Range(history) :
        Described(t) /\ Untorn(t, d) =>
            LET D == Contents(t)
            IN  /\ Range(D.key) \cup {f.column : f \in D.fks} \subseteq ColumnNames(D)
                /\ \A i \in DOMAIN D.columns :
                      D.columns[i].name \in Range(D.key) => ~D.columns[i].nullable
                /\ type # "mongodb" =>
                      \A i \in D.indexes : Range(i.cols) \ {Expr} \subseteq ColumnNames(D)

Pairs(fks) == UNION {{<<p[1], f.ref, p[2]>> : p \in f.pairs} : f \in fks}
Reported(D) == {<<f.column, f.table, f.refcol>> : f \in D.fks}

\* Every pair of columns of a foreign key is reported; MySQL and SQLite report no
\* other, while the join of PostgreSQL and DuckDB adds pairs to composite keys and
\* to those with a namesake (postgres.py:270, duckdb.py:185).
ForeignKeysReported ==
    \A t \in Threads : \A d \in Range(history) :
        /\ Described(t) /\ Untorn(t, d)
        /\ type \in {"mysql", "postgres", "sqlite", "duckdb"}
        => /\ Pairs(d.fks) \subseteq Reported(Contents(t))
           /\ type \in {"mysql", "sqlite"} => Reported(Contents(t)) = Pairs(d.fks)

\* No expressions, and foreign keys of one column and with names of their own.
Plain(d) ==
    /\ \A i \in d.ixs : Expr \notin Range(i.cols)
    /\ Expr \notin Range(d.split)
    /\ \A f \in d.fks : Cardinality(f.pairs) = 1 /\ \A g \in d.elsewhere : g.name # f.name

\* A plain table is described exactly: its columns in order, those that may be NULL,
\* the key in key order, the foreign keys and the indexes that the type has
\* (sqlite.py:142-178, duckdb.py:203-225).
DescriptionExact ==
    \A t \in Threads : \A d \in Range(history) :
        /\ Described(t) /\ Untorn(t, d) /\ Plain(d)
        /\ type \in {"mysql", "postgres", "sqlite", "duckdb"}
        => LET D == Contents(t)
           IN  /\ [i \in DOMAIN D.columns |-> D.columns[i].name] = d.cols
               /\ {D.columns[i].name : i \in {j \in DOMAIN D.columns : D.columns[j].nullable}}
                    = Range(d.cols) \ (d.notnull \cup Range(d.key))
               /\ D.key = d.key
               /\ Reported(D) = Pairs(d.fks)
               /\ D.indexes = IF type = "duckdb" THEN {i \in d.ixs : ~i.primary} ELSE d.ixs

\* Reading page after page gives every table once and in order, for the types that
\* order them or cut one list, and an offset alone gives the rest.  It depends on the
\* type alone, so that it is enough to look before the first call (mysql.py:135-143,
\* mongodb.py:174-176, trino.py:159-162).
PagesPartition ==
    cache = [k \in Keys |-> None] /\ thread = [t \in Threads |-> Idle] /\ type \notin Unordered =>
    \A names \in SUBSET (1..4), limit \in 1..3 :
        LET whole == Sorted(names)
            page(n) == CHOOSE p \in Pages(type, names, limit, (n - 1) * limit) : TRUE
        IN  /\ FlattenSeq([n \in 1..4 |-> page(n)]) = whole
            /\ \A offset \in 0..4 :
                  Pages(type, names, NoName, offset) = {SubSeq(whole, offset + 1, Len(whole))}
=============================================================================

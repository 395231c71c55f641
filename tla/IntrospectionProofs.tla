------------------------ MODULE IntrospectionProofs ------------------------
(***************************************************************************)
(* Theorems about Introspection, for any number of threads, servers, calls *)
(* and faults, any size of the pools, and any history of definitions.      *)
(***************************************************************************)
EXTENDS Introspection, ListLemmas, FiniteSetTheorems

-----------------------------------------------------------------------------
(* The inductive invariant                                                 *)

Operations == {"instances", "schemas", "tables", "describe"}
Places == Servers \cup {"main", "other", None}
Entries == [server : Servers, begun : Nat, read : Seq(Nat)]

ThreadState ==
    [pc : {"idle", "query", "store", "answered", "failed"}, server : Servers \cup {None},
     instance : Places, refresh : BOOLEAN, begun : Nat, read : Seq(Nat),
     conn : {"none", "good", "broken"}, answer : Entries \cup {None},
     floor : Entries \cup {None}, raced : BOOLEAN]

Shape ==
    /\ type \in Types /\ op \in Operations
    /\ history \in Seq(Range(history)) /\ Len(history) > 0
    /\ ver \in [Servers -> 1..Len(history)]
    /\ cache \in [Keys -> Entries \cup {None}]
    /\ used \in [Servers -> 0..PoolSize]
    /\ idle \in [Servers -> {"none", "good", "broken"}]
    /\ broken \in [Servers -> BOOLEAN]
    /\ thread \in [Threads -> ThreadState]
    /\ floor \in [Keys -> Entries \cup {None}]
    /\ raced \in [Keys -> BOOLEAN]
    /\ calls \in Nat /\ faults \in 0..MaxFaults

\* An entry e is no older than what the refresh f stored, if they are of one server.
NoOlder(e, f) == f # None /\ e.server = f.server => e.begun >= f.begun

\* Of which server is an entry of the server s, or of another with its key?
Own(e, s) == type \in WholeKey => e.server = s

(***************************************************************************)
(* The local state of a thread.  It holds a connection only for a query,   *)
(* and one that is broken only when connections of its server have been.   *)
(* It began no earlier than what it knows of refreshes; and its answer is  *)
(* of its server and no older than them, unless there had been a race.     *)
(***************************************************************************)
Working(w) ==
    /\ Len(w.read) <= Len(Todo)
    /\ w.pc = "query" => Len(w.read) < Len(Todo)
    /\ w.pc = "store" => Len(w.read) = Len(Todo)
    /\ w.pc # "idle" => w.server \in Servers /\ w.instance \in Instances(w.server)

Holding(w) ==
    /\ w.conn # "none" => w.pc = "query" /\ type \in Pooled
    /\ w.conn = "broken" => type = "postgres" /\ broken[w.server] = TRUE

Current(w) ==
    /\ w.pc # "idle" => w.begun <= ver[w.server] /\ NoOlder(w, w.floor)
    /\ w.pc = "answered" =>
          /\ w.answer \in Entries /\ Own(w.answer, w.server)
          /\ w.raced # TRUE => NoOlder(w.answer, w.floor)

Fine(w) == Working(w) /\ Holding(w) /\ Current(w)

(***************************************************************************)
(* An entry of the cache is whole, and no older than the last refresh, or  *)
(* raced says so; and no refresh is newer than its server.                 *)
(***************************************************************************)
EntryOK(k) ==
    /\ cache[k] # None => /\ Len(cache[k].read) = Len(Todo)
                          /\ raced[k] # TRUE => NoOlder(cache[k], floor[k])
    /\ floor[k] # None => floor[k].begun <= ver[floor[k].server]

OwnersOK ==
    \A s \in Servers : \A i \in Instances(s) :
        cache[Key(s, i)] # None => Own(cache[Key(s, i)], s)

(***************************************************************************)
(* The connections that have left the pool of a server are those that its  *)
(* queries hold, and once connections have been broken those that are lost *)
(***************************************************************************)
Holders(s) == {t \in Threads : thread[t].server = s /\ thread[t].conn # "none"}

PoolOK(s) ==
    /\ IsFiniteSet(Holders(s)) /\ Cardinality(Holders(s)) <= used[s]
    /\ broken[s] # TRUE => used[s] = Cardinality(Holders(s))
    /\ idle[s] = "broken" => type = "postgres" /\ broken[s] = TRUE

IInv ==
    /\ Shape
    /\ \A t \in Threads : Fine(thread[t])
    /\ \A k \in Keys : EntryOK(k)
    /\ OwnersOK
    /\ \A s \in Servers : PoolOK(s)

-----------------------------------------------------------------------------
(* The queries of an operation, and the keys of the cache                  *)

QueryNames == {"version", "catalogs", "schemas", "tables", "columns", "pk", "fks", "indexes",
               "index columns", "partitions"}

QueryTable == [instances : Seq(QueryNames), schemas : Seq(QueryNames),
               tables : Seq(QueryNames), describe : Seq(QueryNames)]

LEMMA QueriesAreListed ==
    ASSUME NEW ty \in Types, NEW o \in Operations
    PROVE  Queries(ty, o) \in Seq(QueryNames) /\ Len(Queries(ty, o)) \in Nat
<1>1. MysqlQueries \in QueryTable
  BY DEF MysqlQueries, QueryTable, QueryNames
<1>2. SqliteQueries \in QueryTable
  BY DEF SqliteQueries, QueryTable, QueryNames
<1>3. ASSUME NEW T \in QueryTable, NEW q \in Seq(QueryNames), NEW r \in Seq(QueryNames)
      PROVE  /\ [T EXCEPT !.describe = q] \in QueryTable
             /\ [T EXCEPT !.instances = q] \in QueryTable
             /\ [T EXCEPT !.instances = q, !.describe = r] \in QueryTable
  BY DEF QueryTable
<1>4. /\ <<>> \in Seq(QueryNames)
      /\ <<"columns">> \in Seq(QueryNames) /\ <<"catalogs">> \in Seq(QueryNames)
      /\ <<"version", "catalogs">> \in Seq(QueryNames)
      /\ <<"columns", "indexes", "partitions">> \in Seq(QueryNames)
      /\ <<"columns", "pk", "fks", "indexes", "partitions">> \in Seq(QueryNames)
  BY DEF QueryNames
<1>5. PostgresQueries \in QueryTable /\ MongoQueries \in QueryTable
  BY <1>1, <1>3, <1>4 DEF PostgresQueries, MongoQueries
<1>6. DuckdbQueries \in QueryTable /\ TrinoQueries \in QueryTable
  BY <1>1, <1>3, <1>4 DEF DuckdbQueries, TrinoQueries
<1>7. AthenaQueries \in QueryTable /\ DynamoQueries \in QueryTable
  BY <1>2, <1>3, <1>4, <1>6 DEF AthenaQueries, DynamoQueries
<1>8. PICK T \in QueryTable : Queries(ty, o) = T[o]
  BY <1>1, <1>2, <1>5, <1>6, <1>7 DEF Queries, Types
<1>9. Queries(ty, o) \in Seq(QueryNames)
  BY <1>8 DEF QueryTable, Operations
<1> QED
  BY <1>9

LEMMA TodoLength ==
    ASSUME Shape
    PROVE  Len(Todo) \in Nat
  BY QueriesAreListed DEF Shape, Todo

LEMMA KeysOfInstances ==
    ASSUME NEW s \in Servers, NEW i \in Instances(s)
    PROVE  Key(s, i) \in Keys /\ i \in Places
  BY DEF Keys, Instances, Config, Places

\* With the port and the database in the key, no other server has it.
LEMMA WholeKeysApart ==
    ASSUME type \in WholeKey, NEW s, NEW r, NEW i, NEW j, Key(s, i) = Key(r, j)
    PROVE  s = r
  BY DEF Key, KeyPlace, Config

\* What is derived from the type and the operation alone.
LEMMA SameType ==
    ASSUME UNCHANGED <<type, op>>
    PROVE  /\ Keys' = Keys /\ Todo' = Todo
           /\ \A s, i : Key(s, i)' = Key(s, i)
           /\ \A s : Instances(s)' = Instances(s)
           /\ \A e, s : Own(e, s)' <=> Own(e, s)
  BY DEF Keys, Todo, Key, Instances, Config, Own

\* A thread keeps what it has while versions grow and connections break.
LEMMA FineStays ==
    ASSUME Shape, NEW w \in ThreadState, Fine(w), UNCHANGED <<type, op>>,
           \A s \in Servers : ver[s] <= ver'[s] /\ ver'[s] \in Nat,
           \A s \in Servers : broken[s] = TRUE => broken'[s] = TRUE
    PROVE  Fine(w)'
<1>1. Working(w)'
  BY SameType DEF Fine, Working
<1>2. w.pc # "idle" => w.server \in Servers
  BY DEF Fine, Working
<1>3. Holding(w)'
  BY <1>2 DEF Fine, Holding
<1>4. Current(w)'
  <2>1. w.pc # "idle" => w.begun <= ver'[w.server]
    <3>1. \A s \in Servers : ver[s] \in Nat
      BY DEF Shape
    <3>2. w.begun \in Nat
      BY DEF ThreadState
    <3> QED
      BY <1>2, <3>1, <3>2 DEF Fine, Current
  <2> QED
    BY <2>1, SameType DEF Fine, Current, NoOlder
<1> QED
  BY <1>1, <1>3, <1>4 DEF Fine
-----------------------------------------------------------------------------
(* The initial states                                                      *)

LEMMA IntrospectionInit == Init => IInv
<1> SUFFICES ASSUME Init PROVE IInv
  OBVIOUS
<1>1. PICK c \in Cases : type = c.type /\ op = c.op /\ history = c.history /\ calls = c.calls
  BY DEF Init
<1>2. /\ type \in Types /\ op \in Operations /\ calls \in Nat
      /\ history \in Seq(Range(history)) /\ history # <<>>
  BY <1>1, IntrospectionAssumption DEF Operations
<1>3. Len(history) \in Nat /\ Len(history) > 0
  BY <1>2
<1>4. /\ \A s \in Servers : ver[s] = 1 /\ used[s] = 0 /\ broken[s] = FALSE
                            /\ idle[s] \in {"none", "good"}
      /\ \A k \in Keys : cache[k] = None /\ floor[k] = None
      /\ \A t \in Threads : thread[t] = Idle
  BY DEF Init
<1>5. <<>> \in Seq(Nat) /\ Len(<<>>) = 0
  OBVIOUS
<1>6. Idle \in ThreadState /\ Idle.pc = "idle" /\ Idle.conn = "none" /\ Idle.read = <<>>
  BY <1>5 DEF Idle, ThreadState, Places
<1>7. Shape
  <2>1. ver \in [Servers -> 1..Len(history)]
    BY <1>3 DEF Init
  <2>2. used \in [Servers -> 0..PoolSize] /\ faults \in 0..MaxFaults
    BY IntrospectionAssumption DEF Init
  <2>3. idle \in [Servers -> {"none", "good", "broken"}] /\ broken \in [Servers -> BOOLEAN]
    BY DEF Init
  <2>4. /\ cache \in [Keys -> Entries \cup {None}] /\ floor \in [Keys -> Entries \cup {None}]
        /\ raced \in [Keys -> BOOLEAN]
    BY DEF Init
  <2>5. thread \in [Threads -> ThreadState]
    BY <1>6 DEF Init
  <2> QED
    BY <1>2, <1>3, <2>1, <2>2, <2>3, <2>4, <2>5 DEF Shape
<1>8. ASSUME NEW t \in Threads PROVE Fine(thread[t])
  <2>1. Len(Todo) \in Nat
    BY <1>7, TodoLength
  <2>2. Len(Idle.read) <= Len(Todo)
    BY <1>5, <1>6, <2>1
  <2>3. Working(Idle) /\ Holding(Idle) /\ Current(Idle)
    BY <1>6, <2>2 DEF Working, Holding, Current
  <2>4. thread[t] = Idle
    BY <1>4
  <2> QED
    BY <2>3, <2>4 DEF Fine
<1>9. \A k \in Keys : EntryOK(k)
  BY <1>4 DEF EntryOK
<1>10. OwnersOK
  BY <1>4, KeysOfInstances DEF OwnersOK
<1>11. ASSUME NEW s \in Servers PROVE PoolOK(s)
  <2>1. Holders(s) = {}
    BY <1>4, <1>6 DEF Holders
  <2>2. IsFiniteSet(Holders(s)) /\ Cardinality(Holders(s)) = 0
    BY <2>1, FS_EmptySet
  <2>3. used[s] = 0 /\ idle[s] # "broken"
    BY <1>4
  <2>4. Cardinality(Holders(s)) <= used[s] /\ used[s] = Cardinality(Holders(s))
    BY <2>2, <2>3
  <2> QED
    BY <2>2, <2>3, <2>4 DEF PoolOK
<1> QED
  BY <1>7, <1>8, <1>9, <1>10, <1>11 DEF IInv

-----------------------------------------------------------------------------
(* What most steps leave alone                                             *)

LEMMA OneThread ==
    ASSUME IInv, NEW t \in Threads, NEW w \in ThreadState, Fine(w),
           thread' = [thread EXCEPT ![t] = w],
           UNCHANGED <<type, op, ver, broken>>
    PROVE  /\ thread' \in [Threads -> ThreadState] /\ thread'[t] = w
           /\ \A u \in Threads \ {t} : thread'[u] = thread[u]
           /\ \A u \in Threads : Fine(thread[u])'
<1>1. Shape
  BY DEF IInv
<1>2. /\ thread' \in [Threads -> ThreadState] /\ thread'[t] = w
      /\ \A u \in Threads \ {t} : thread'[u] = thread[u]
  BY <1>1 DEF Shape
<1>3. /\ \A s \in Servers : ver[s] <= ver'[s] /\ ver'[s] \in Nat
      /\ \A s \in Servers : broken[s] = TRUE => broken'[s] = TRUE
  BY <1>1 DEF Shape
<1>4. ASSUME NEW u \in Threads PROVE Fine(thread[u])'
  <2>1. PICK x \in ThreadState : x = thread'[u] /\ Fine(x)
    BY <1>1, <1>2 DEF IInv, Shape
  <2>2. Fine(x)'
    BY <1>1, <1>3, <2>1, FineStays
  <2> QED
    BY <2>1, <2>2 DEF Fine, Working, Holding, Current
<1> QED
  BY <1>2, <1>4

LEMMA CacheStays ==
    ASSUME IInv, UNCHANGED <<type, op, ver, cache, ghosts>>
    PROVE  /\ (\A k \in Keys : EntryOK(k))' /\ OwnersOK'
           /\ cache' \in [Keys' -> Entries \cup {None}]
           /\ floor' \in [Keys' -> Entries \cup {None}] /\ raced' \in [Keys' -> BOOLEAN]
<1>1. floor' = floor /\ raced' = raced
  BY DEF ghosts
<1>2. OwnersOK'
  BY SameType DEF IInv, OwnersOK
<1>3. (\A k \in Keys : EntryOK(k))'
  BY <1>1, SameType DEF IInv, EntryOK, NoOlder
<1> QED
  BY <1>1, <1>2, <1>3, SameType DEF IInv, Shape

LEMMA PoolsStay ==
    ASSUME IInv, UNCHANGED <<type, pools>>, \A s \in Servers : Holders(s)' = Holders(s)
    PROVE  \A s \in Servers : PoolOK(s)'
  BY DEF IInv, PoolOK, pools

\* A thread that holds no connection before or after its step changes no pool.
LEMMA EmptyHanded ==
    ASSUME NEW t \in Threads, thread[t].conn = "none", thread'[t].conn = "none",
           \A u \in Threads \ {t} : thread'[u] = thread[u]
    PROVE  \A s \in Servers : Holders(s)' = Holders(s)
  BY DEF Holders
\* A step of one thread that leaves the cache alone.
LEMMA ThreadStep ==
    ASSUME IInv, NEW t \in Threads, NEW w \in ThreadState, Fine(w),
           thread' = [thread EXCEPT ![t] = w],
           UNCHANGED <<database, cache, broken, ghosts>>,
           used' \in [Servers -> 0..PoolSize],
           idle' \in [Servers -> {"none", "good", "broken"}],
           calls' \in Nat, faults' \in 0..MaxFaults,
           \A s \in Servers : PoolOK(s)'
    PROVE  IInv'
<1>1. UNCHANGED <<type, op, history, ver, broken>>
  BY DEF database
<1>2. /\ thread' \in [Threads -> ThreadState]
      /\ \A u \in Threads : Fine(thread[u])'
  BY <1>1, OneThread
<1>3. /\ (\A k \in Keys : EntryOK(k))' /\ OwnersOK'
      /\ cache' \in [Keys' -> Entries \cup {None}]
      /\ floor' \in [Keys' -> Entries \cup {None}] /\ raced' \in [Keys' -> BOOLEAN]
  BY <1>1, CacheStays
<1>4. Shape'
  BY <1>1, <1>2, <1>3 DEF IInv, Shape
<1> QED
  BY <1>2, <1>3, <1>4 DEF IInv

LEMMA EmptyHandedStep ==
    ASSUME IInv, NEW t \in Threads, NEW w \in ThreadState, Fine(w),
           thread' = [thread EXCEPT ![t] = w],
           thread[t].conn = "none", w.conn = "none",
           UNCHANGED <<database, cache, pools, ghosts>>,
           calls' \in Nat, faults' \in 0..MaxFaults
    PROVE  IInv'
<1>1. UNCHANGED <<type, op, ver, broken, used, idle>>
  BY DEF database, pools
<1>2. thread'[t] = w /\ \A u \in Threads \ {t} : thread'[u] = thread[u]
  BY <1>1, OneThread
<1>3. \A s \in Servers : Holders(s)' = Holders(s)
  BY <1>2, EmptyHanded
<1>4. \A s \in Servers : PoolOK(s)'
  BY <1>1, <1>3, PoolsStay
<1>5. used' \in [Servers -> 0..PoolSize] /\ idle' \in [Servers -> {"none", "good", "broken"}]
  BY <1>1 DEF IInv, Shape
<1> QED
  BY <1>1, <1>4, <1>5, ThreadStep

LEMMA IdleFine ==
    ASSUME Shape
    PROVE  Idle \in ThreadState /\ Fine(Idle) /\ Idle.conn = "none"
<1>1. <<>> \in Seq(Nat) /\ Len(<<>>) = 0 /\ Len(Todo) \in Nat
  BY TodoLength
<1>2. Idle \in ThreadState /\ Idle.pc = "idle" /\ Idle.conn = "none" /\ Idle.read = <<>>
  BY <1>1 DEF Idle, ThreadState, Places
<1>3. Len(Idle.read) <= Len(Todo)
  BY <1>1, <1>2
<1>4. Working(Idle) /\ Holding(Idle) /\ Current(Idle)
  BY <1>2, <1>3 DEF Working, Holding, Current
<1> QED
  BY <1>2, <1>4 DEF Fine

LEMMA ReturnKeeps ==
    ASSUME IInv, NEW t \in Threads, Return(t)
    PROVE  IInv'
<1>1. Shape /\ Fine(thread[t])
  BY DEF IInv
<1>2. /\ thread[t].pc \in {"answered", "failed"} /\ thread' = [thread EXCEPT ![t] = Idle]
      /\ UNCHANGED <<database, cache, pools, ghosts, calls, faults>>
  BY DEF Return
<1>3. thread[t].conn = "none"
  BY <1>1, <1>2 DEF Fine, Holding
<1>4. calls' \in Nat /\ faults' \in 0..MaxFaults
  BY <1>1, <1>2 DEF Shape
<1> QED
  BY <1>1, <1>2, <1>3, <1>4, IdleFine, EmptyHandedStep

\* A call that misses, and one that is answered from the cache.
LEMMA AskKeeps ==
    ASSUME IInv, NEW t \in Threads, NEW s \in Servers, NEW i \in Instances(s),
           NEW refresh \in BOOLEAN, Ask(t, s, i, refresh)
    PROVE  IInv'
<1> DEFINE k == Key(s, i)
<1>1. Shape /\ Fine(thread[t]) /\ OwnersOK /\ \A l \in Keys : EntryOK(l)
  BY DEF IInv
<1>2. k \in Keys /\ i \in Places
  BY KeysOfInstances
<1>3. ver[s] \in Nat /\ ver[s] \in 1..Len(history) /\ Len(Todo) \in Nat
  BY <1>1, TodoLength DEF Shape
<1>4. PICK label \in {"failed", "store", "query"} : label = AfterMiss(i, s)
  BY DEF AfterMiss
<1> DEFINE call == [Idle EXCEPT !.server = s, !.instance = i, !.refresh = refresh,
                      !.begun = ver[s], !.floor = floor[k], !.raced = raced[k]]
           miss == [call EXCEPT !.pc = label]
           hit == [call EXCEPT !.pc = "answered", !.answer = cache[k]]
<1>5. /\ UNCHANGED <<database, cache, pools, ghosts>>
      /\ thread[t].pc = "idle" /\ calls > 0 /\ calls' = calls - 1
      /\ \/ thread' = [thread EXCEPT ![t] = hit] /\ cache[k] # None /\ UNCHANGED faults
         \/ thread' = [thread EXCEPT ![t] = miss]
            /\ (UNCHANGED faults \/ (faults < MaxFaults /\ faults' = faults + 1))
  BY <1>4 DEF Ask, Answers
<1>6. calls' \in Nat /\ faults' \in 0..MaxFaults
  BY <1>1, <1>5, IntrospectionAssumption DEF Shape
<1>7. floor[k] \in Entries \cup {None} /\ cache[k] \in Entries \cup {None} /\ raced[k] \in BOOLEAN
  BY <1>1, <1>2 DEF Shape
<1>8. PICK f, e, r : f = floor[k] /\ e = cache[k] /\ r = raced[k]
  OBVIOUS
<1>9. f # None => f.begun <= ver[f.server]
  BY <1>1, <1>2, <1>8 DEF EntryOK
<1>10. /\ call \in ThreadState /\ call.pc = "idle" /\ call.conn = "none" /\ call.read = <<>>
       /\ call.server = s /\ call.instance = i /\ call.begun = ver[s]
       /\ call.floor = f /\ call.raced = r
  BY <1>1, <1>2, <1>3, <1>7, <1>8, IdleFine DEF ThreadState, Idle
<1> HIDE DEF call
<1>11. /\ miss \in ThreadState /\ miss.pc = label /\ miss.conn = "none" /\ miss.read = <<>>
       /\ miss.server = s /\ miss.instance = i /\ miss.begun = ver[s]
       /\ miss.floor = f /\ miss.raced = r
  BY <1>4, <1>10 DEF ThreadState
<1>12. cache[k] # None =>
         /\ hit \in ThreadState /\ hit.pc = "answered" /\ hit.conn = "none" /\ hit.read = <<>>
         /\ hit.server = s /\ hit.instance = i /\ hit.begun = ver[s]
         /\ hit.floor = f /\ hit.raced = r /\ hit.answer = e
  BY <1>7, <1>8, <1>10 DEF ThreadState
<1> HIDE DEF miss, hit
<1>13. ASSUME NEW w, w.server = s, w.begun = ver[s], w.floor = f
       PROVE  w.begun <= ver[w.server] /\ NoOlder(w, w.floor)
  BY <1>3, <1>9, <1>13 DEF NoOlder
<1>14. Len(<<>>) = 0 /\ (Todo = <<>> => Len(Todo) = 0) /\ (Todo # <<>> => Len(Todo) > 0)
  BY <1>1, QueriesAreListed DEF Shape, Todo
<1>15. Fine(miss)
  <2>1. label = "store" => Len(Todo) = 0
    BY <1>4, <1>14 DEF AfterMiss
  <2>2. label = "query" => Len(Todo) > 0
    BY <1>4, <1>14 DEF AfterMiss
  <2>3. Working(miss)
    BY <1>3, <1>4, <1>11, <1>14, <2>1, <2>2 DEF Working
  <2>4. Holding(miss)
    BY <1>11 DEF Holding
  <2>5. Current(miss)
    BY <1>4, <1>11, <1>13 DEF Current
  <2> QED
    BY <2>3, <2>4, <2>5 DEF Fine
<1>16. ASSUME cache[k] # None PROVE Fine(hit)
  <2>1. e \in Entries /\ (r # TRUE => NoOlder(e, f)) /\ Own(e, s)
    BY <1>1, <1>2, <1>7, <1>8, <1>16 DEF EntryOK, OwnersOK
  <2>2. Working(hit)
    BY <1>3, <1>12, <1>14, <1>16 DEF Working
  <2>3. Holding(hit)
    BY <1>12, <1>16 DEF Holding
  <2>4. Current(hit)
    BY <1>12, <1>13, <1>16, <2>1 DEF Current
  <2> QED
    BY <2>2, <2>3, <2>4 DEF Fine
<1>17. thread[t].conn = "none"
  BY <1>1, <1>5 DEF Fine, Holding, Shape, ThreadState
<1> QED
  BY <1>5, <1>6, <1>11, <1>12, <1>15, <1>16, <1>17, EmptyHandedStep
-----------------------------------------------------------------------------
(* The pools                                                               *)

\* A connection leaves the pool with its holder.
LEMMA HolderAdded ==
    ASSUME IInv, NEW t \in Threads, NEW s \in Servers,
           thread[t].server = s, thread[t].conn = "none",
           thread'[t].server = s, thread'[t].conn # "none",
           \A u \in Threads \ {t} : thread'[u] = thread[u],
           used[s] # PoolSize, used' = [used EXCEPT ![s] = @ + 1],
           idle' = [idle EXCEPT ![s] = "none"],
           UNCHANGED <<type, broken>>
    PROVE  /\ \A r \in Servers : PoolOK(r)'
           /\ used' \in [Servers -> 0..PoolSize]
           /\ idle' \in [Servers -> {"none", "good", "broken"}]
<1>1. /\ used \in [Servers -> 0..PoolSize] /\ PoolSize \in Nat
      /\ idle \in [Servers -> {"none", "good", "broken"}] /\ \A r \in Servers : PoolOK(r)
  BY IntrospectionAssumption DEF IInv, Shape
<1>2. used[s] + 1 \in 0..PoolSize
  BY <1>1
<1>3. used' \in [Servers -> 0..PoolSize] /\ idle' \in [Servers -> {"none", "good", "broken"}]
  BY <1>1, <1>2
<1>4. ASSUME NEW r \in Servers, r # s PROVE PoolOK(r)'
  <2>1. Holders(r)' = Holders(r)
    BY <1>4 DEF Holders
  <2>2. used'[r] = used[r] /\ idle'[r] = idle[r]
    BY <1>1, <1>4
  <2> QED
    BY <1>1, <2>1, <2>2 DEF PoolOK
<1>5. PoolOK(s)'
  <2>1. Holders(s)' = Holders(s) \cup {t} /\ t \notin Holders(s)
    BY DEF Holders
  <2>2. IsFiniteSet(Holders(s)) /\ Cardinality(Holders(s)) \in Nat
    BY <1>1, FS_CardinalityType DEF PoolOK
  <2>3. IsFiniteSet(Holders(s)') /\ Cardinality(Holders(s)') = Cardinality(Holders(s)) + 1
    BY <2>1, <2>2, FS_AddElement
  <2>4. used'[s] = used[s] + 1 /\ idle'[s] = "none" /\ used[s] \in Nat
    BY <1>1
  <2>5. /\ Cardinality(Holders(s)) <= used[s]
        /\ broken[s] # TRUE => used[s] = Cardinality(Holders(s))
    BY <1>1 DEF PoolOK
  <2>6. Cardinality(Holders(s)') <= used'[s]
    BY <2>2, <2>3, <2>4, <2>5
  <2>7. broken'[s] # TRUE => used'[s] = Cardinality(Holders(s)')
    BY <2>3, <2>4, <2>5
  <2>8. idle'[s] # "broken"
    BY <2>4
  <2> QED
    BY <2>3, <2>6, <2>7, <2>8 DEF PoolOK
<1> QED
  BY <1>3, <1>4, <1>5

\* It returns, but for a broken one of PostgreSQL, which is lost to the pool.
LEMMA HolderRemoved ==
    ASSUME IInv, NEW t \in Threads, NEW s \in Servers, NEW succeeds,
           thread[t].server = s, thread[t].conn # "none",
           thread'[t].conn = "none", Released(t, succeeds),
           \A u \in Threads \ {t} : thread'[u] = thread[u],
           UNCHANGED <<type, broken>>
    PROVE  /\ \A r \in Servers : PoolOK(r)'
           /\ used' \in [Servers -> 0..PoolSize]
           /\ idle' \in [Servers -> {"none", "good", "broken"}]
<1> DEFINE lost == type = "postgres" /\ thread[t].conn = "broken"
<1>1. /\ used \in [Servers -> 0..PoolSize] /\ PoolSize \in Nat
      /\ idle \in [Servers -> {"none", "good", "broken"}] /\ \A r \in Servers : PoolOK(r)
      /\ Fine(thread[t])
  BY IntrospectionAssumption DEF IInv, Shape
<1>2. type \in Pooled
  BY <1>1 DEF Fine, Holding
<1>3. IF lost THEN UNCHANGED <<used, idle>>
      ELSE /\ used' = [used EXCEPT ![s] = @ - 1]
           /\ idle' = IF type = "postgres" THEN [idle EXCEPT ![s] = "good"] ELSE idle
  BY <1>2 DEF Released
<1>4. lost => broken[s] = TRUE
  BY <1>1 DEF Fine, Holding
<1>5. /\ Holders(s)' = Holders(s) \ {t} /\ t \in Holders(s)
      /\ \A r \in Servers \ {s} : Holders(r)' = Holders(r)
  BY DEF Holders
<1>6. IsFiniteSet(Holders(s)) /\ Cardinality(Holders(s)) \in Nat
  BY <1>1, FS_CardinalityType DEF PoolOK
<1>7. IsFiniteSet(Holders(s)') /\ Cardinality(Holders(s)') = Cardinality(Holders(s)) - 1
  BY <1>5, <1>6, FS_RemoveElement
<1>8. Cardinality(Holders(s)) # 0
  BY <1>5, <1>6, FS_EmptySet
<1>9. used[s] \in 1..PoolSize /\ Cardinality(Holders(s)) <= used[s]
  <2>1. Cardinality(Holders(s)) <= used[s] /\ used[s] \in 0..PoolSize
    BY <1>1 DEF PoolOK
  <2> QED
    BY <1>1, <1>6, <1>8, <2>1
<1>10. /\ used' \in [Servers -> 0..PoolSize] /\ idle' \in [Servers -> {"none", "good", "broken"}]
       /\ \A r \in Servers \ {s} : used'[r] = used[r] /\ idle'[r] = idle[r]
       /\ ~lost => used'[s] = used[s] - 1
       /\ lost => used'[s] = used[s]
       /\ idle'[s] = "broken" => idle[s] = "broken"
  <2>1. CASE lost
    BY <1>1, <1>3, <2>1
  <2>2. CASE ~lost
    <3>1. used[s] - 1 \in 0..PoolSize
      BY <1>1, <1>9
    <3>2. used' = [used EXCEPT ![s] = used[s] - 1]
      BY <1>3, <2>2
    <3> HIDE DEF lost
    <3> QED
      BY <1>1, <1>3, <2>2, <3>1, <3>2
  <2> QED
    BY <2>1, <2>2
<1> HIDE DEF lost
<1>11. ASSUME NEW r \in Servers, r # s PROVE PoolOK(r)'
  <2>1. /\ Holders(r)' = Holders(r) /\ used'[r] = used[r] /\ idle'[r] = idle[r]
        /\ type' = type /\ broken' = broken
    BY <1>5, <1>10, <1>11
  <2>2. PoolOK(r)
    BY <1>1
  <2> QED
    BY <2>1, <2>2 DEF PoolOK
<1>12. PoolOK(s)'
  <2>1. Cardinality(Holders(s)') <= used'[s]
    BY <1>6, <1>7, <1>9, <1>10
  <2>2. broken'[s] # TRUE => used'[s] = Cardinality(Holders(s)')
    BY <1>1, <1>4, <1>7, <1>10 DEF PoolOK
  <2>3. idle'[s] = "broken" => type' = "postgres" /\ broken'[s] = TRUE
    BY <1>1, <1>10 DEF PoolOK
  <2> QED
    BY <1>7, <2>1, <2>2, <2>3 DEF PoolOK
<1> QED
  BY <1>10, <1>11, <1>12

\* A query ends with its connection given up, or without one.
LEMMA QueryEnds ==
    ASSUME IInv, NEW t \in Threads, NEW w \in ThreadState, Fine(w),
           thread' = [thread EXCEPT ![t] = w], w.conn = "none",
           Ready(t), NEW succeeds, Released(t, succeeds),
           UNCHANGED <<database, cache, broken, ghosts, calls>>,
           faults' \in 0..MaxFaults
    PROVE  IInv'
<1>1. Shape /\ Fine(thread[t])
  BY DEF IInv
<1>2. UNCHANGED <<type, op, ver, broken>> /\ calls' \in Nat
  BY <1>1 DEF database, Shape
<1>3. thread'[t] = w /\ \A u \in Threads \ {t} : thread'[u] = thread[u]
  BY <1>2, OneThread
<1>4. CASE thread[t].conn = "none"
  <2>1. type \notin Pooled
    BY <1>4 DEF Ready
  <2>2. UNCHANGED pools
    BY <1>2, <2>1 DEF Released, pools
  <2> QED
    BY <1>2, <1>4, <2>2, EmptyHandedStep
<1>5. CASE thread[t].conn # "none"
  <2>1. PICK s \in Servers : s = thread[t].server
    BY <1>1 DEF Fine, Working, Ready
  <2>2. /\ \A r \in Servers : PoolOK(r)'
        /\ used' \in [Servers -> 0..PoolSize]
        /\ idle' \in [Servers -> {"none", "good", "broken"}]
    BY <1>2, <1>3, <1>5, <2>1, HolderRemoved
  <2> QED
    BY <1>2, <2>2, ThreadStep
<1> QED
  BY <1>4, <1>5
-----------------------------------------------------------------------------
(* Queries                                                                 *)

LEMMA TakeKeeps ==
    ASSUME IInv, NEW t \in Threads, Take(t)
    PROVE  IInv'
<1>1. Shape /\ Fine(thread[t]) /\ \A r \in Servers : PoolOK(r)
  BY DEF IInv
<1>2. PICK o \in ThreadState : o = thread[t] /\ Fine(o)
  BY <1>1 DEF Shape
<1>3. /\ o.pc = "query" /\ type \in Pooled /\ o.conn = "none"
      /\ UNCHANGED <<database, cache, broken, ghosts, calls, faults>>
  BY <1>2 DEF Take
<1>4. PICK s \in Servers : s = o.server
  BY <1>2, <1>3 DEF Fine, Working
<1>5. calls' \in Nat /\ faults' \in 0..MaxFaults /\ UNCHANGED <<type, op, ver, broken>>
  BY <1>1, <1>3 DEF Shape, database
<1>6. CASE used[s] = PoolSize
  <2> DEFINE w == [o EXCEPT !.pc = "failed"]
  <2>1. thread' = [thread EXCEPT ![t] = w] /\ UNCHANGED <<used, idle>>
    BY <1>1, <1>2, <1>4, <1>6 DEF Take, Shape
  <2>2. /\ w \in ThreadState /\ w.pc = "failed" /\ w.conn = "none" /\ w.read = o.read
        /\ w.server = o.server /\ w.instance = o.instance /\ w.begun = o.begun /\ w.floor = o.floor
    BY <1>3 DEF ThreadState
  <2> HIDE DEF w
  <2>3. Fine(w)
    BY <1>2, <1>3, <2>2 DEF Fine, Working, Holding, Current, NoOlder
  <2>4. UNCHANGED pools
    BY <1>5, <2>1 DEF pools
  <2> QED
    BY <1>2, <1>3, <1>5, <2>1, <2>2, <2>3, <2>4, EmptyHandedStep
<1>7. CASE used[s] # PoolSize
  <2> DEFINE c == IF idle[s] = "none" THEN "good" ELSE idle[s]
             w == [o EXCEPT !.conn = c]
  <2>1. /\ thread' = [thread EXCEPT ![t] = w] /\ used' = [used EXCEPT ![s] = @ + 1]
        /\ idle' = [idle EXCEPT ![s] = "none"]
    BY <1>1, <1>2, <1>4, <1>7 DEF Take, Shape
  <2>2. /\ c \in {"good", "broken"}
        /\ c = "broken" => type = "postgres" /\ broken[s] = TRUE
    BY <1>1 DEF Shape, PoolOK
  <2> HIDE DEF c
  <2>3. /\ w \in ThreadState /\ w.pc = "query" /\ w.conn = c /\ w.read = o.read
        /\ w.server = o.server /\ w.instance = o.instance /\ w.begun = o.begun /\ w.floor = o.floor
    BY <1>3, <2>2 DEF ThreadState
  <2> HIDE DEF w
  <2>4. Fine(w)
    BY <1>2, <1>3, <1>4, <2>2, <2>3 DEF Fine, Working, Holding, Current, NoOlder
  <2>5. thread'[t] = w /\ \A u \in Threads \ {t} : thread'[u] = thread[u]
    BY <1>5, <2>1, <2>3, <2>4, OneThread
  <2>6. /\ \A r \in Servers : PoolOK(r)'
        /\ used' \in [Servers -> 0..PoolSize]
        /\ idle' \in [Servers -> {"none", "good", "broken"}]
    <3>1. thread[t].server = s /\ thread[t].conn = "none"
      BY <1>2, <1>3, <1>4
    <3>2. thread'[t].server = s /\ thread'[t].conn # "none"
      BY <1>4, <2>2, <2>3, <2>5
    <3> QED
      BY <1>5, <1>7, <2>1, <2>5, <3>1, <3>2, HolderAdded
  <2> QED
    BY <1>3, <1>5, <2>1, <2>3, <2>4, <2>6, ThreadStep
<1> QED
  BY <1>6, <1>7

\* What becomes of a thread when a query is done, found r or did without, or has failed.
LEMMA QueryDone ==
    ASSUME IInv, NEW t \in Threads, NEW o \in ThreadState, o = thread[t], Fine(o),
           o.pc = "query", NEW v \in Nat,
           NEW label \in {"failed", AfterQuery(Len(o.read) + 1)}
    PROVE  LET w == [o EXCEPT !.read = Append(o.read, v), !.conn = "none", !.pc = label]
           IN  w \in ThreadState /\ Fine(w) /\ w.conn = "none"
<1> DEFINE read == Append(o.read, v)
           w == [o EXCEPT !.read = read, !.conn = "none", !.pc = label]
<1>1. Len(Todo) \in Nat /\ Len(o.read) < Len(Todo) /\ o.read \in Seq(Nat)
  BY TodoLength DEF IInv, Fine, Working, ThreadState
<1>2. read \in Seq(Nat) /\ Len(read) = Len(o.read) + 1 /\ Len(o.read) \in Nat
  BY <1>1
<1>3. /\ label \in {"failed", "query", "store"} /\ Len(read) <= Len(Todo)
      /\ label = "query" => Len(read) < Len(Todo)
      /\ label = "store" => Len(read) = Len(Todo)
  BY <1>1, <1>2 DEF AfterQuery
<1> HIDE DEF read
<1>4. /\ w \in ThreadState /\ w.pc = label /\ w.conn = "none" /\ w.read = read
      /\ w.server = o.server /\ w.instance = o.instance /\ w.begun = o.begun /\ w.floor = o.floor
  BY <1>2, <1>3 DEF ThreadState
<1> HIDE DEF w
<1>5. Fine(w)
  BY <1>3, <1>4 DEF Fine, Working, Holding, Current, NoOlder
<1> QED
  BY <1>4, <1>5 DEF w, read

LEMMA QueryKeeps ==
    ASSUME IInv, NEW t \in Threads, Query(t)
    PROVE  IInv'
<1>1. Shape
  BY DEF IInv
<1>2. PICK o \in ThreadState : o = thread[t] /\ Fine(o)
  BY <1>1 DEF IInv, Shape
<1> DEFINE read == Append(o.read, ver[o.server])
           q == Todo[Len(read)]
           label == IF op = "describe" /\ Undescribable(type, q, Found(read))
                    THEN "failed" ELSE AfterQuery(Len(read))
           w == [o EXCEPT !.read = read, !.conn = "none", !.pc = label]
<1>3. /\ Ready(t) /\ Released(t, TRUE) /\ o.pc = "query"
      /\ UNCHANGED <<database, cache, broken, ghosts, calls, faults>>
  BY <1>2 DEF Query, Ready
<1>4. o.server \in Servers /\ ver[o.server] \in Nat
  BY <1>1, <1>2, <1>3 DEF Fine, Working, Shape
<1>5. label \in {"failed", AfterQuery(Len(o.read) + 1)}
  <2>1. Len(read) = Len(o.read) + 1
    BY <1>4 DEF ThreadState
  <2> QED
    BY <2>1
<1>6. thread' = [thread EXCEPT ![t] = w]
  BY <1>1, <1>2 DEF Query, Shape
<1> HIDE DEF label
<1>7. w \in ThreadState /\ Fine(w) /\ w.conn = "none"
  BY <1>2, <1>3, <1>4, <1>5, QueryDone
<1>8. faults' \in 0..MaxFaults
  BY <1>1, <1>3 DEF Shape
<1> HIDE DEF w
<1> QED
  BY <1>3, <1>6, <1>7, <1>8, QueryEnds
LEMMA QueryFailsKeeps ==
    ASSUME IInv, NEW t \in Threads, QueryFails(t)
    PROVE  IInv'
<1>1. Shape
  BY DEF IInv
<1>2. PICK o \in ThreadState : o = thread[t] /\ Fine(o)
  BY <1>1 DEF IInv, Shape
<1> DEFINE n == Len(o.read) + 1
<1>3. /\ Ready(t) /\ Released(t, FALSE) /\ o.pc = "query"
      /\ UNCHANGED <<database, cache, broken, ghosts, calls>>
      /\ UNCHANGED faults \/ (faults < MaxFaults /\ faults' = faults + 1)
  BY <1>2 DEF QueryFails, Ready
<1>4. faults' \in 0..MaxFaults
  BY <1>1, <1>3, IntrospectionAssumption DEF Shape
<1>5. CASE <<type, Todo[n]>> \in Optional
  <2> DEFINE label == AfterQuery(n)
             w == [o EXCEPT !.read = Append(o.read, 0), !.conn = "none", !.pc = label]
  <2>1. type = "mongodb"
    BY <1>5 DEF Optional
  <2>2. o.conn = "none"
    BY <1>2, <2>1 DEF Fine, Holding, Pooled
  <2>3. thread' = [thread EXCEPT ![t] = [o EXCEPT !.read = Append(o.read, 0), !.pc = label]]
    BY <1>1, <1>2, <1>5 DEF QueryFails, Shape
  <2>4. [o EXCEPT !.read = Append(o.read, 0), !.pc = label] = w
    BY <2>2 DEF ThreadState
  <2>5. w \in ThreadState /\ Fine(w) /\ w.conn = "none"
    BY <1>2, <1>3, QueryDone
  <2>6. thread' = [thread EXCEPT ![t] = w]
    BY <2>3, <2>4
  <2> HIDE DEF w
  <2> QED
    BY <1>3, <1>4, <2>5, <2>6, QueryEnds
<1>6. CASE <<type, Todo[n]>> \notin Optional
  <2> DEFINE w == [o EXCEPT !.pc = "failed", !.conn = "none"]
  <2>1. thread' = [thread EXCEPT ![t] = w]
    BY <1>1, <1>2, <1>6 DEF QueryFails, Shape
  <2>2. /\ w \in ThreadState /\ w.pc = "failed" /\ w.conn = "none" /\ w.read = o.read
        /\ w.server = o.server /\ w.instance = o.instance /\ w.begun = o.begun /\ w.floor = o.floor
    BY DEF ThreadState
  <2> HIDE DEF w
  <2>3. Fine(w)
    BY <1>2, <1>3, <2>2 DEF Fine, Working, Holding, Current, NoOlder
  <2> QED
    BY <1>3, <1>4, <2>1, <2>2, <2>3, QueryEnds
<1> QED
  BY <1>5, <1>6

-----------------------------------------------------------------------------
(* The cache is written                                                    *)

\* An entry that is stored is whole and of its server; and when no refresh has stored
\* since its introspection began, it is no older than the last one.
LEMMA StoreKeeps ==
    ASSUME IInv, NEW t \in Threads, Store(t)
    PROVE  IInv'
<1>1. Shape /\ OwnersOK /\ \A k \in Keys : EntryOK(k)
  BY DEF IInv
<1>2. PICK o \in ThreadState : o = thread[t] /\ Fine(o)
  BY <1>1 DEF IInv, Shape
<1>s. PICK s \in Servers : s = o.server
  BY <1>2 DEF Store, Fine, Working
<1>3. PICK i \in Instances(s) : o.pc = "store" /\ s = o.server /\ i = o.instance
  BY <1>s, <1>2 DEF Store, Fine, Working
<1>4. PICK k \in Keys : k = Key(s, i)
  BY KeysOfInstances
<1>5. PICK e \in Entries :
        /\ e = Entry(o.server, o.begun, o.read)
        /\ e.server = s /\ e.begun = o.begun /\ e.read = o.read
  <2> DEFINE e == [server |-> s, begun |-> o.begun, read |-> o.read]
  <2>1. o.begun \in Nat /\ o.read \in Seq(Nat)
    BY DEF ThreadState
  <2>2. e \in Entries /\ e = Entry(o.server, o.begun, o.read)
    BY <1>3, <2>1 DEF Entries, Entry
  <2> QED
    BY <2>2
<1> DEFINE w == [o EXCEPT !.pc = "answered", !.answer = e]
<1>6. /\ thread' = [thread EXCEPT ![t] = w]
      /\ \/ /\ cache' = [cache EXCEPT ![k] = e]
            /\ raced' = [raced EXCEPT ![k] = o.floor # floor[k]]
            /\ floor' = IF o.refresh THEN [floor EXCEPT ![k] = e] ELSE floor
            /\ UNCHANGED faults
         \/ /\ faults < MaxFaults /\ faults' = faults + 1
            /\ UNCHANGED <<cache, ghosts>>
      /\ UNCHANGED <<database, pools, calls>>
  BY <1>1, <1>2, <1>3, <1>4, <1>5 DEF Store, Stored, KeyOf, Shape
<1>7. /\ w \in ThreadState /\ w.pc = "answered" /\ w.read = o.read /\ w.server = s
      /\ w.instance = i /\ w.begun = o.begun /\ w.floor = o.floor /\ w.answer = e
      /\ w.conn = o.conn
  BY <1>3 DEF ThreadState
<1> HIDE DEF w
<1>8. /\ o.conn = "none" /\ Len(o.read) = Len(Todo)
      /\ o.begun <= ver[s] /\ NoOlder(o, o.floor)
  BY <1>2, <1>3 DEF Fine, Working, Holding, Current
<1>9. NoOlder(e, o.floor)
  BY <1>3, <1>5, <1>8 DEF NoOlder
<1>10. Fine(w)
  <2>1. Own(e, s)
    BY <1>5 DEF Own
  <2> QED
    BY <1>2, <1>3, <1>5, <1>7, <1>8, <1>9, <2>1 DEF Fine, Working, Holding, Current, NoOlder
<1>11. UNCHANGED <<type, op, history, ver, broken, used, idle>> /\ calls' \in Nat
  BY <1>1, <1>6 DEF database, pools, Shape
<1>12. thread[t].conn = "none" /\ w.conn = "none"
  BY <1>2, <1>7, <1>8
<1>13. faults' \in 0..MaxFaults
  BY <1>1, <1>6, IntrospectionAssumption DEF Shape
<1>14. CASE UNCHANGED <<cache, ghosts>>
  BY <1>6, <1>7, <1>10, <1>11, <1>12, <1>13, <1>14, EmptyHandedStep
<1>15. ASSUME cache' = [cache EXCEPT ![k] = e],
              raced' = [raced EXCEPT ![k] = o.floor # floor[k]],
              floor' = IF o.refresh THEN [floor EXCEPT ![k] = e] ELSE floor
       PROVE  IInv'
  <2>1. /\ thread' \in [Threads -> ThreadState] /\ thread'[t] = w
        /\ \A u \in Threads \ {t} : thread'[u] = thread[u]
        /\ \A u \in Threads : Fine(thread[u])'
    BY <1>6, <1>7, <1>10, <1>11, OneThread
  <2>2. \A r \in Servers : PoolOK(r)'
    <3>1. \A r \in Servers : Holders(r)' = Holders(r)
      BY <1>12, <2>1, EmptyHanded
    <3> QED
      BY <1>6, <1>11, <3>1, PoolsStay
  <2>3. /\ cache \in [Keys -> Entries \cup {None}] /\ floor \in [Keys -> Entries \cup {None}]
        /\ raced \in [Keys -> BOOLEAN] /\ Keys' = Keys
    BY <1>1, <1>11, SameType DEF Shape
  <2>4. /\ cache' \in [Keys -> Entries \cup {None}] /\ cache'[k] = e
        /\ \A l \in Keys \ {k} : cache'[l] = cache[l]
    BY <1>15, <2>3
  <2>5. /\ floor' \in [Keys -> Entries \cup {None}] /\ floor'[k] \in {e, floor[k]}
        /\ \A l \in Keys \ {k} : floor'[l] = floor[l]
    BY <1>15, <2>3
  <2>6. /\ raced' \in [Keys -> BOOLEAN] /\ (raced'[k] # TRUE => o.floor = floor[k])
        /\ \A l \in Keys \ {k} : raced'[l] = raced[l]
    <3> DEFINE b == o.floor # floor[k]
    <3>1. b \in BOOLEAN /\ (b # TRUE => o.floor = floor[k])
      OBVIOUS
    <3>2. raced' = [raced EXCEPT ![k] = b]
      BY <1>15
    <3> HIDE DEF b
    <3> QED
      BY <2>3, <3>1, <3>2
  <2>7. Shape'
    BY <1>1, <1>11, <1>13, <2>1, <2>3, <2>4, <2>5, <2>6 DEF Shape
  <2>8. ASSUME NEW l \in Keys PROVE EntryOK(l)'
    <3>1. Todo' = Todo
      BY <1>11, SameType
    <3>2. CASE l # k
      BY <1>1, <1>11, <2>4, <2>5, <2>6, <3>1, <3>2 DEF EntryOK, NoOlder
    <3>3. CASE l = k
      <4>1. Len(cache'[k].read) = Len(Todo')
        BY <1>5, <1>8, <2>4, <3>1
      <4>2. raced'[k] # TRUE => NoOlder(e, floor'[k])
        <5>1. NoOlder(e, e)
          BY DEF NoOlder, Entries
        <5> QED
          BY <1>9, <2>5, <2>6, <5>1
      <4>3. floor'[k] # None => floor'[k].begun <= ver'[floor'[k].server]
        BY <1>1, <1>5, <1>8, <1>11, <2>5 DEF EntryOK
      <4> QED
        BY <2>4, <3>3, <4>1, <4>2, <4>3 DEF EntryOK, NoOlder
    <3> QED
      BY <3>2, <3>3
  <2>9. OwnersOK'
    <3>1. SUFFICES ASSUME NEW r \in Servers, NEW j \in Instances(r), cache'[Key(r, j)] # None,
                          type \in WholeKey
                   PROVE  cache'[Key(r, j)].server = r
      BY <1>11, SameType DEF OwnersOK, Own
    <3>2. CASE Key(r, j) = k
      BY <1>4, <1>5, <2>4, <3>1, <3>2, WholeKeysApart
    <3>3. CASE Key(r, j) # k
      BY <1>1, <2>4, <3>1, <3>3, KeysOfInstances DEF OwnersOK, Own
    <3> QED
      BY <3>2, <3>3
  <2> QED
    BY <2>1, <2>2, <2>3, <2>7, <2>8, <2>9 DEF IInv
<1> QED
  BY <1>6, <1>14, <1>15
-----------------------------------------------------------------------------
(* The environment                                                         *)

LEMMA AlterKeeps ==
    ASSUME IInv, NEW s \in Servers, Alter(s)
    PROVE  IInv'
<1>1. Shape /\ OwnersOK /\ \A k \in Keys : EntryOK(k)
  BY DEF IInv
<1>2. /\ ver[s] < Len(history) /\ ver' = [ver EXCEPT ![s] = @ + 1]
      /\ UNCHANGED <<type, op, history, cache, used, idle, broken, thread, floor, raced, calls, faults>>
  BY DEF Alter, pools, ghosts
<1>3. ver[s] + 1 \in 1..Len(history) /\ \A r \in Servers : ver[r] \in Nat
  BY <1>1, <1>2 DEF Shape
<1>4. ver' \in [Servers -> 1..Len(history)] /\ \A r \in Servers : ver[r] <= ver'[r] /\ ver'[r] \in Nat
  BY <1>1, <1>2, <1>3 DEF Shape
<1>5. Shape'
  BY <1>1, <1>2, <1>4, SameType DEF Shape
<1>6. ASSUME NEW t \in Threads PROVE Fine(thread[t])'
  <2>1. PICK x \in ThreadState : x = thread'[t] /\ Fine(x)
    BY <1>1, <1>2 DEF IInv, Shape
  <2>2. Fine(x)'
    BY <1>1, <1>2, <1>4, <2>1, FineStays
  <2> QED
    BY <2>1, <2>2 DEF Fine, Working, Holding, Current
<1>7. ASSUME NEW k \in Keys PROVE EntryOK(k)'
  <2>1. floor[k] # None => floor[k].server \in Servers /\ floor[k].begun \in Nat
    BY <1>1 DEF Shape, Entries
  <2>2. floor[k] # None => floor[k].begun <= ver'[floor[k].server]
    <3>1. SUFFICES ASSUME floor[k] # None PROVE floor[k].begun <= ver'[floor[k].server]
      OBVIOUS
    <3>2. PICK r \in Servers, n \in Nat : r = floor[k].server /\ n = floor[k].begun
      BY <2>1, <3>1
    <3>3. n <= ver[r]
      BY <1>1, <3>1, <3>2 DEF EntryOK
    <3>4. n <= ver'[r]
      BY <1>3, <1>4, <3>3
    <3> QED
      BY <3>2, <3>4
  <2> QED
    BY <1>1, <1>2, <2>2, SameType DEF EntryOK, NoOlder
<1>8. OwnersOK'
  BY <1>1, <1>2, SameType DEF OwnersOK
<1>9. \A r \in Servers : PoolOK(r)'
  <2>1. UNCHANGED pools /\ \A r \in Servers : Holders(r)' = Holders(r)
    BY <1>2 DEF Holders, pools
  <2> QED
    BY <1>2, <2>1, PoolsStay
<1> QED
  BY <1>2, <1>5, <1>6, <1>7, <1>8, <1>9, SameType DEF IInv

LEMMA ExpireKeeps ==
    ASSUME IInv, NEW k \in Keys, Expire(k)
    PROVE  IInv'
<1>1. Shape /\ OwnersOK /\ \A l \in Keys : EntryOK(l)
  BY DEF IInv
<1>2. /\ cache' = [cache EXCEPT ![k] = None]
      /\ UNCHANGED <<type, op, history, ver, used, idle, broken, thread, floor, raced, calls, faults>>
  BY DEF Expire, database, pools, ghosts
<1>3. /\ cache' \in [Keys -> Entries \cup {None}] /\ Keys' = Keys
      /\ \A l \in Keys : cache'[l] \in {None, cache[l]}
  BY <1>1, <1>2, SameType DEF Shape
<1>4. Shape'
  BY <1>1, <1>2, <1>3 DEF Shape
<1>5. ASSUME NEW t \in Threads PROVE Fine(thread[t])'
  <2>1. PICK x \in ThreadState : x = thread'[t] /\ Fine(x)
    BY <1>1, <1>2 DEF IInv, Shape
  <2>2. Fine(x)'
    <3>1. /\ UNCHANGED <<type, op, broken>>
          /\ \A r \in Servers : ver[r] <= ver'[r] /\ ver'[r] \in Nat
      BY <1>1, <1>2 DEF Shape
    <3> QED
      BY <1>1, <2>1, <3>1, FineStays
  <2> QED
    BY <2>1, <2>2 DEF Fine, Working, Holding, Current
<1>6. \A l \in Keys : EntryOK(l)'
  BY <1>1, <1>2, <1>3, SameType DEF EntryOK
<1>7. OwnersOK'
  BY <1>1, <1>2, <1>3, SameType, KeysOfInstances DEF OwnersOK
<1>8. \A r \in Servers : PoolOK(r)'
  <2>1. UNCHANGED pools /\ \A r \in Servers : Holders(r)' = Holders(r)
    BY <1>2 DEF Holders, pools
  <2> QED
    BY <1>2, <2>1, PoolsStay
<1> QED
  BY <1>3, <1>4, <1>5, <1>6, <1>7, <1>8 DEF IInv

\* The connections of a server break where they are: in the pool and with their holders.
LEMMA BreakKeeps ==
    ASSUME IInv, NEW s \in Servers, Break(s)
    PROVE  IInv'
<1>1. Shape /\ \A r \in Servers : PoolOK(r)
  BY DEF IInv
<1>2. /\ type = "postgres" /\ faults < MaxFaults /\ faults' = faults + 1
      /\ broken' = [broken EXCEPT ![s] = TRUE]
      /\ idle' = [idle EXCEPT ![s] = IF @ = "none" THEN @ ELSE "broken"]
      /\ thread' = [t \in Threads |->
                      IF thread[t].conn = "good" /\ thread[t].server = s
                      THEN [thread[t] EXCEPT !.conn = "broken"] ELSE thread[t]]
      /\ UNCHANGED <<type, op, history, ver, cache, ghosts, calls, used>>
  BY DEF Break, database
<1>3. /\ broken' \in [Servers -> BOOLEAN] /\ broken'[s] = TRUE
      /\ \A r \in Servers : broken[r] = TRUE => broken'[r] = TRUE
      /\ \A r \in Servers \ {s} : broken'[r] = broken[r] /\ idle'[r] = idle[r]
      /\ idle' \in [Servers -> {"none", "good", "broken"}]
  BY <1>1, <1>2 DEF Shape
<1>4. faults' \in 0..MaxFaults
  BY <1>1, <1>2, IntrospectionAssumption DEF Shape
<1>5. ASSUME NEW t \in Threads
      PROVE  /\ thread'[t] \in ThreadState /\ Fine(thread[t])'
             /\ thread'[t].server = thread[t].server
             /\ thread'[t].conn # "none" <=> thread[t].conn # "none"
  <2>1. PICK o \in ThreadState : o = thread[t] /\ Fine(o)
    BY <1>1 DEF IInv, Shape
  <2>2. Fine(o)'
    <3>1. /\ UNCHANGED <<type, op>>
          /\ \A r \in Servers : ver[r] <= ver'[r] /\ ver'[r] \in Nat
      BY <1>1, <1>2 DEF Shape
    <3> QED
      BY <1>1, <1>3, <2>1, <3>1, FineStays
  <2>3. CASE o.conn = "good" /\ o.server = s
    <3>1. PICK w : w = [o EXCEPT !.conn = "broken"]
      OBVIOUS
    <3>2. thread'[t] = w
      BY <1>2, <2>1, <2>3, <3>1
    <3>3. /\ w \in ThreadState /\ w.conn = "broken" /\ w.pc = o.pc /\ w.read = o.read
          /\ w.server = o.server /\ w.instance = o.instance /\ w.begun = o.begun
          /\ w.floor = o.floor /\ w.answer = o.answer /\ w.raced = o.raced
      BY <3>1 DEF ThreadState
    <3>4. o.pc = "query" /\ type \in Pooled
      BY <2>1, <2>3 DEF Fine, Holding
    <3>5. Working(w)'
      BY <2>2, <3>3 DEF Fine, Working
    <3>6. Holding(w)'
      BY <1>2, <1>3, <2>3, <3>3, <3>4 DEF Holding
    <3>7. Current(w)'
      BY <2>2, <3>3, <3>4 DEF Fine, Current, NoOlder
    <3> QED
      BY <2>1, <2>3, <3>2, <3>3, <3>5, <3>6, <3>7 DEF Fine, Working, Holding, Current
  <2>4. CASE ~(o.conn = "good" /\ o.server = s)
    <3>1. thread'[t] = o
      BY <1>2, <2>1, <2>4
    <3> QED
      BY <2>1, <2>2, <3>1 DEF Fine, Working, Holding, Current
  <2> QED
    BY <2>3, <2>4
<1>6. thread' \in [Threads -> ThreadState]
  BY <1>2, <1>5
<1>7. UNCHANGED <<type, op, ver, cache, ghosts>>
  BY <1>2
<1>8. /\ (\A k \in Keys : EntryOK(k))' /\ OwnersOK'
      /\ cache' \in [Keys' -> Entries \cup {None}]
      /\ floor' \in [Keys' -> Entries \cup {None}] /\ raced' \in [Keys' -> BOOLEAN]
  BY <1>7, CacheStays
<1>9. Shape'
  BY <1>1, <1>2, <1>3, <1>4, <1>6, <1>8 DEF Shape
<1>10. ASSUME NEW r \in Servers PROVE PoolOK(r)'
  <2>1. Holders(r)' = Holders(r)
    BY <1>5 DEF Holders
  <2> QED
    BY <1>1, <1>2, <1>3, <2>1 DEF PoolOK
<1> QED
  BY <1>5, <1>8, <1>9, <1>10 DEF IInv
-----------------------------------------------------------------------------
(* Theorems                                                                *)

LEMMA IntrospectionStep == IInv /\ [Next]_vars => IInv'
<1> SUFFICES ASSUME IInv, [Next]_vars PROVE IInv'
  OBVIOUS
<1>1. CASE UNCHANGED vars
  <2>1. /\ UNCHANGED <<type, op, history, ver, broken, used, idle, thread, calls, faults>>
        /\ UNCHANGED <<type, op, ver, cache, ghosts>> /\ UNCHANGED pools
    BY <1>1 DEF vars, database, pools
  <2>2. /\ (\A k \in Keys : EntryOK(k))' /\ OwnersOK'
        /\ cache' \in [Keys' -> Entries \cup {None}]
        /\ floor' \in [Keys' -> Entries \cup {None}] /\ raced' \in [Keys' -> BOOLEAN]
    BY <2>1, CacheStays
  <2>3. Shape'
    BY <2>1, <2>2 DEF IInv, Shape
  <2>4. \A s \in Servers : PoolOK(s)'
    <3>1. \A s \in Servers : Holders(s)' = Holders(s)
      BY <2>1 DEF Holders
    <3> QED
      BY <2>1, <3>1, PoolsStay
  <2>5. \A t \in Threads : Fine(thread[t])'
    BY <2>1, SameType DEF IInv, Fine, Working, Holding, Current, NoOlder
  <2> QED
    BY <2>2, <2>3, <2>4, <2>5 DEF IInv
<1>2. ASSUME NEW t \in Threads, NEW s \in Servers, NEW refresh \in BOOLEAN,
             \E instance \in Instances(s) : Ask(t, s, instance, refresh)
      PROVE  IInv'
  BY <1>2, AskKeeps
<1>3. ASSUME NEW t \in Threads,
             Take(t) \/ Query(t) \/ QueryFails(t) \/ Store(t) \/ Return(t)
      PROVE  IInv'
  BY <1>3, TakeKeeps, QueryKeeps, QueryFailsKeeps, StoreKeeps, ReturnKeeps
<1>4. ASSUME NEW s \in Servers, Alter(s) \/ Break(s) PROVE IInv'
  BY <1>4, AlterKeeps, BreakKeeps
<1>5. ASSUME NEW k \in Keys, Expire(k) PROVE IInv'
  BY <1>5, ExpireKeeps
<1> QED
  BY <1>1, <1>2, <1>3, <1>4, <1>5 DEF Next

\* The invariant holds in every state of every behaviour.
THEOREM IntrospectionInvariant == Spec => []IInv
<1>1. Init => IInv
  BY IntrospectionInit
<1>2. IInv /\ [Next]_vars => IInv'
  BY IntrospectionStep
<1> QED
  BY <1>1, <1>2, PTL DEF Spec

\* The variables have their types; no pool hands out more than it has, and what is in
\* the cache is the outcome of all the queries of an operation.
THEOREM IntrospectionTypeCorrect == Spec => []IntrospectionTypeOK
<1>1. ASSUME IInv PROVE IntrospectionTypeOK
  <2>1. Shape /\ \A k \in Keys : EntryOK(k)
    BY <1>1 DEF IInv
  <2>2. \A k \in Keys : cache[k] # None =>
           cache[k].server \in Servers /\ Len(cache[k].read) = Len(Todo)
    BY <2>1 DEF Shape, Entries, EntryOK
  <2>3. \A t \in Threads :
          /\ thread[t].pc \in {"idle", "query", "store", "answered", "failed"}
          /\ Len(thread[t].read) <= Len(Todo)
          /\ thread[t].conn # "none" => thread[t].pc = "query"
    BY <1>1, <2>1 DEF IInv, Shape, ThreadState, Fine, Working, Holding
  <2> QED
    BY <2>1, <2>2, <2>3 DEF Shape, IntrospectionTypeOK
<1> QED
  BY <1>1, IntrospectionInvariant, PTL

\* PostgreSQL, MongoDB and Trino never answer for another server.
THEOREM OwnServerAnswers == Spec => []AnswerFromOwnServer
<1>1. IInv => AnswerFromOwnServer
  BY DEF IInv, Fine, Current, Own, AnswerFromOwnServer, Answered, WholeKey
<1> QED
  BY <1>1, IntrospectionInvariant, PTL

\* What a refresh stored is not undone for the calls made after it.
THEOREM RefreshIsKept == Spec => []RefreshHolds
<1>1. ASSUME IInv PROVE RefreshHolds
  <2>1. SUFFICES ASSUME NEW t \in Threads, Answered(t), thread[t].floor # None, ~thread[t].raced,
                        thread[t].answer.server = thread[t].floor.server
                 PROVE  thread[t].answer.begun >= thread[t].floor.begun
    BY DEF RefreshHolds
  <2>2. Fine(thread[t])
    BY <1>1 DEF IInv
  <2> QED
    BY <2>1, <2>2 DEF Fine, Current, NoOlder, Answered
<1> QED
  BY <1>1, IntrospectionInvariant, PTL

\* The connections out of a pool are those that queries hold, however queries end.
THEOREM SlotsComeBack == Spec => []SlotsReturned
<1>1. ASSUME IInv PROVE SlotsReturned
  <2>1. SUFFICES ASSUME NEW s \in Servers, ~broken[s]
                 PROVE  used[s] = Cardinality(Holders(s))
    BY DEF SlotsReturned, Holders
  <2>2. PoolOK(s)
    BY <1>1 DEF IInv
  <2> QED
    BY <2>1, <2>2 DEF PoolOK
<1> QED
  BY <1>1, IntrospectionInvariant, PTL
-----------------------------------------------------------------------------
(* Descriptions without columns                                            *)

\* The first query of describe_table, and no other, is that for the columns.
LEMMA ColumnsComeFirst ==
    ASSUME NEW ty \in Types
    PROVE  LET todo == Queries(ty, "describe")
           IN  /\ Len(todo) \in Nat \ {0} /\ DOMAIN todo = 1..Len(todo) /\ todo[1] = "columns"
               /\ \A i \in DOMAIN todo : todo[i] = "columns" => i = 1
<1> DEFINE First(todo) ==
             /\ Len(todo) \in Nat \ {0} /\ DOMAIN todo = 1..Len(todo) /\ todo[1] = "columns"
             /\ \A i \in DOMAIN todo : todo[i] = "columns" => i = 1
<1>1. First(<<"columns">>) /\ First(<<"columns", "indexes", "partitions">>)
  OBVIOUS
<1>2. First(<<"columns", "pk", "fks", "indexes">>)
  OBVIOUS
<1>3. First(<<"columns", "pk", "fks", "indexes", "partitions">>)
  OBVIOUS
<1>4. First(<<"columns", "fks", "indexes", "index columns">>)
  <2>1. \A last : last # "columns" => First(<<"columns", "fks", "indexes", last>>)
    OBVIOUS
  <2>2. "index columns" # "columns"
    OBVIOUS
  <2> HIDE DEF First
  <2> QED
    BY <2>1, <2>2
<1> HIDE DEF First
<1>5. /\ First(MysqlQueries.describe) /\ First(PostgresQueries.describe)
      /\ First(SqliteQueries.describe) /\ First(DuckdbQueries.describe)
  BY <1>2, <1>3, <1>4 DEF MysqlQueries, PostgresQueries, SqliteQueries, DuckdbQueries
<1>6. First(MongoQueries.describe) /\ First(TrinoQueries.describe)
  BY <1>1 DEF MongoQueries, TrinoQueries, MysqlQueries
<1>7. First(AthenaQueries.describe) /\ First(DynamoQueries.describe)
  BY <1>1 DEF AthenaQueries, DynamoQueries, TrinoQueries, MysqlQueries, SqliteQueries
<1>8. First(Queries(ty, "describe"))
  BY <1>5, <1>6, <1>7 DEF Queries, Types
<1> QED
  BY <1>8 DEF First

\* What the first query found is what the description takes for the columns.
LEMMA FirstFound ==
    ASSUME Shape, op = "describe", NEW read \in Seq(Nat), Len(read) \in 1..Len(Todo)
    PROVE  Found(read)["columns"] = Definition(read[1])
<1>1. /\ Len(Todo) \in Nat /\ DOMAIN Todo = 1..Len(Todo) /\ Todo[1] = "columns"
      /\ \A i \in DOMAIN Todo : Todo[i] = "columns" => i = 1
  BY ColumnsComeFirst DEF Shape, Todo
<1>2. DOMAIN read = 1..Len(read) /\ Len(read) \in Nat
  OBVIOUS
<1>3. 1 \in DOMAIN read /\ DOMAIN read \subseteq DOMAIN Todo
  BY <1>1, <1>2
<1>4. (CHOOSE i \in DOMAIN read : Todo[i] = "columns") = 1
  BY <1>1, <1>3
<1>5. "columns" \in {Todo[i] : i \in DOMAIN read}
  BY <1>1, <1>3
<1> QED
  BY <1>4, <1>5 DEF Found

\* Every connector makes its columns of what the first query found.
LEMMA ColumnsShown ==
    ASSUME type \in Types, NEW r
    PROVE  \E nullable : Describe(type, r).columns = Named(Shown(r["columns"]), nullable)
<1> DEFINE d == r["columns"]
<1>1. CASE type = "mysql"
  <2>1. Describe(type, r).columns = Named(d.cols, Nullable(d))
    BY <1>1 DEF Describe, MysqlDescription, Description, MysqlColumns
  <2> QED
    BY <1>1, <2>1 DEF Shown
<1>2. CASE type = "postgres"
  <2>1. Describe(type, r).columns = Named(d.cols, Nullable(d))
    BY <1>2 DEF Describe, PostgresDescription, Description, PostgresColumns
  <2> QED
    BY <1>2, <2>1 DEF Shown
<1>3. CASE type = "sqlite"
  <2>1. Describe(type, r).columns = Named(d.cols, Nullable(d))
    BY <1>3 DEF Describe, SqliteDescription, Description, SqliteColumns
  <2> QED
    BY <1>3, <2>1 DEF Shown
<1>4. CASE type = "duckdb"
  <2>1. Describe(type, r).columns = Named(d.cols, Nullable(d))
    BY <1>4 DEF Describe, DuckdbDescription, Description, DuckdbColumns
  <2> QED
    BY <1>4, <2>1 DEF Shown
<1>5. CASE type = "mongodb"
  <2>1. Describe(type, r).columns = Named(d.cols, Range(d.cols) \ d.notnull)
    BY <1>5 DEF Describe, MongoDescription, Description, MongoColumns
  <2> QED
    BY <1>5, <2>1 DEF Shown
<1>6. CASE type = "trino"
  <2>1. Describe(type, r).columns = Named(Unsplit(d), Nullable(d))
    BY <1>6 DEF Describe, TrinoDescription, Description, TrinoColumns
  <2> QED
    BY <1>6, <2>1 DEF Shown
<1>7. CASE type = "athena"
  <2>1. Describe(type, r).columns = Named(Unsplit(d), Range(d.cols))
    BY <1>7 DEF Describe, AthenaDescription, Description, AthenaColumns
  <2> QED
    BY <1>7, <2>1 DEF Shown
<1>8. CASE type = "dynamodb"
  <2>1. Describe(type, r).columns = Named(d.cols, {})
    BY <1>8 DEF Describe, DynamoDescription, Description, DynamoColumns
  <2> QED
    BY <1>8, <2>1 DEF Shown
<1> QED
  BY <1>1, <1>2, <1>3, <1>4, <1>5, <1>6, <1>7, <1>8 DEF Types

LEMMA NothingNamed ==
    ASSUME NEW names, NEW nullable, Named(names, nullable) = <<>>
    PROVE  Range(names) = {}
<1>1. DOMAIN Named(names, nullable) = DOMAIN names
  BY DEF Named
<1>2. DOMAIN names = {}
  BY <1>1
<1> QED
  BY <1>2 DEF Range

(***************************************************************************)
(* What the first query of a description must have found for the others to *)
(* be put; and who must have got past it: an introspection under way, an   *)
(* answer, an entry of the cache.                                          *)
(***************************************************************************)
Solid(v) ==
    /\ type \in {"mysql", "duckdb", "athena", "dynamodb"} => Definition(v).exists
    /\ type = "mongodb" => Definition(v).validated

Begins(read) == Len(read) > 0 => Solid(read[1])

Past(w) ==
    /\ w.pc \in {"query", "store"} => Begins(w.read)
    /\ w.pc = "answered" => Begins(w.answer.read) /\ Len(w.answer.read) = Len(Todo)

BegunWell ==
    op = "describe" => /\ \A t \in Threads : Past(thread[t])
                       /\ \A k \in Keys : cache[k] # None => Begins(cache[k].read)

\* A step that leaves the definitions alone.
LEMMA BegunStays ==
    ASSUME Shape, BegunWell, UNCHANGED <<type, op, history>>,
           op = "describe" => \A t \in Threads : Past(thread'[t]),
           op = "describe" => \A k \in Keys : cache'[k] # None =>
                                 cache'[k] = cache[k] \/ Begins(cache'[k].read)
    PROVE  BegunWell'
<1>1. Keys' = Keys /\ Todo' = Todo
  BY SameType
<1>2. \A v : Solid(v)' <=> Solid(v)
  BY DEF Solid, Definition
<1>3. SUFFICES ASSUME op = "describe"
               PROVE  /\ \A t \in Threads : Past(thread[t])'
                      /\ \A k \in Keys : (cache[k] # None => Begins(cache[k].read))'
  BY <1>1 DEF BegunWell
<1>4. ASSUME NEW t \in Threads PROVE Past(thread[t])'
  <2>1. Past(thread'[t])
    BY <1>3 DEF BegunWell
  <2> QED
    BY <1>1, <1>2, <2>1 DEF Past, Begins
<1>5. ASSUME NEW k \in Keys PROVE (cache[k] # None => Begins(cache[k].read))'
  <2>1. cache'[k] # None => Begins(cache'[k].read)
    BY <1>3 DEF BegunWell
  <2> QED
    BY <1>2, <2>1 DEF Begins
<1> QED
  BY <1>4, <1>5
\* The same for a step of the thread t.
LEMMA BegunKeeps ==
    ASSUME Shape, BegunWell, UNCHANGED <<type, op, history>>, NEW t \in Threads,
           \A u \in Threads \ {t} : thread'[u] = thread[u],
           op = "describe" => Past(thread'[t]),
           op = "describe" => \A k \in Keys : cache'[k] # None =>
                                 cache'[k] = cache[k] \/ Begins(cache'[k].read)
    PROVE  BegunWell'
<1>1. op = "describe" => \A u \in Threads : Past(thread'[u])
  BY DEF BegunWell
<1> QED
  BY <1>1, BegunStays

\* A call begins with no query, or ends with what is in the cache.
LEMMA AskBegins ==
    ASSUME IInv, BegunWell, NEW t \in Threads, NEW s \in Servers, NEW i \in Instances(s),
           NEW refresh \in BOOLEAN, Ask(t, s, i, refresh)
    PROVE  BegunWell'
<1>1. Shape /\ \A l \in Keys : EntryOK(l)
  BY DEF IInv
<1>2. PICK k \in Keys : k = Key(s, i)
  BY KeysOfInstances
<1>3. PICK label \in {"failed", "store", "query"} : label = AfterMiss(i, s)
  BY DEF AfterMiss
<1> DEFINE call == [Idle EXCEPT !.server = s, !.instance = i, !.refresh = refresh,
                      !.begun = ver[s], !.floor = floor[k], !.raced = raced[k]]
           miss == [call EXCEPT !.pc = label]
           hit == [call EXCEPT !.pc = "answered", !.answer = cache[k]]
<1>4. /\ UNCHANGED <<type, op, history, cache>>
      /\ \/ thread' = [thread EXCEPT ![t] = hit] /\ cache[k] # None
         \/ thread' = [thread EXCEPT ![t] = miss]
  BY <1>2, <1>3 DEF Ask, Answers, database
<1>5. miss.pc = label /\ miss.read = <<>> /\ hit.pc = "answered" /\ hit.answer = cache[k]
  BY DEF Idle
<1> HIDE DEF miss, hit, call
<1>6. /\ thread'[t] = miss \/ (thread'[t] = hit /\ cache[k] # None)
      /\ \A u \in Threads \ {t} : thread'[u] = thread[u]
  BY <1>1, <1>4 DEF Shape
<1>7. ASSUME op = "describe" PROVE Past(thread'[t])
  <2>1. Past(miss)
    <3>1. Begins(miss.read)
      BY <1>5 DEF Begins
    <3> QED
      BY <1>3, <1>5, <3>1 DEF Past
  <2>2. ASSUME cache[k] # None PROVE Past(hit)
    <3>1. Begins(cache[k].read) /\ Len(cache[k].read) = Len(Todo)
      BY <1>1, <1>7, <2>2 DEF BegunWell, EntryOK
    <3> QED
      BY <1>5, <3>1 DEF Past
  <2> QED
    BY <1>6, <2>1, <2>2
<1> QED
  BY <1>1, <1>4, <1>6, <1>7, BegunKeeps

LEMMA QueryBegins ==
    ASSUME IInv, BegunWell, NEW t \in Threads, Query(t) \/ QueryFails(t)
    PROVE  BegunWell'
<1>1. Shape
  BY DEF IInv
<1>2. PICK o \in ThreadState : o = thread[t] /\ Fine(o)
  BY <1>1 DEF IInv, Shape
<1>3. o.pc = "query" /\ UNCHANGED <<type, op, history, cache, ver>>
  BY <1>2 DEF Query, QueryFails, Ready, database
<1>4. /\ Len(Todo) \in Nat /\ Len(o.read) \in Nat /\ Len(o.read) < Len(Todo) /\ o.read \in Seq(Nat)
      /\ o.server \in Servers /\ ver[o.server] \in Nat
  BY <1>1, <1>2, <1>3, TodoLength DEF Fine, Working, ThreadState, Shape
<1>5. \A u \in Threads \ {t} : thread'[u] = thread[u]
  BY <1>1 DEF Query, QueryFails, Shape
<1>6. ASSUME op = "describe", Query(t) PROVE Past(thread'[t])
  <2> DEFINE read == Append(o.read, ver[o.server])
             q == Todo[Len(read)]
             label == IF op = "describe" /\ Undescribable(type, q, Found(read))
                      THEN "failed" ELSE AfterQuery(Len(read))
  <2>1. thread'[t].pc = label /\ thread'[t].read = read
    <3>1. thread' = [thread EXCEPT ![t] = [o EXCEPT !.read = read, !.conn = "none", !.pc = label]]
      BY <1>1, <1>2, <1>6 DEF Query, Shape
    <3> HIDE DEF label, read
    <3> QED
      BY <1>1, <3>1 DEF Shape, ThreadState
  <2>2. /\ read \in Seq(Nat) /\ Len(read) = Len(o.read) + 1
        /\ read[1] = IF Len(o.read) = 0 THEN ver[o.server] ELSE o.read[1]
    BY <1>4
  <2>3. label \in {"failed", "query", "store"}
    BY DEF AfterQuery
  <2>4. label # "failed" => ~Undescribable(type, q, Found(read))
    BY <1>6
  <2> HIDE DEF label
  <2>5. ASSUME label # "failed" PROVE Solid(read[1])
    <3>1. CASE Len(o.read) = 0
      <4>1. Len(read) = 1 /\ Len(read) \in 1..Len(Todo)
        BY <1>4, <2>2, <3>1
      <4>2. q = "columns"
        BY <1>1, <1>6, <4>1, ColumnsComeFirst DEF Shape, Todo
      <4> HIDE DEF read, q
      <4>3. Found(read)["columns"] = Definition(read[1])
        BY <1>1, <1>6, <2>2, <4>1, FirstFound
      <4>4. ~Undescribable(type, "columns", Found(read))
        BY <2>4, <2>5, <4>2
      <4> QED
        BY <4>3, <4>4 DEF Undescribable, Solid
    <3>2. CASE Len(o.read) # 0
      <4>1. Begins(o.read)
        BY <1>2, <1>3, <1>6 DEF BegunWell, Past
      <4> QED
        BY <1>4, <2>2, <3>2, <4>1 DEF Begins
    <3> QED
      BY <3>1, <3>2
  <2> HIDE DEF read
  <2> QED
    BY <2>1, <2>3, <2>5 DEF Past, Begins
<1>7. ASSUME op = "describe", QueryFails(t) PROVE Past(thread'[t])
  <2> DEFINE n == Len(o.read) + 1
  <2>1. CASE <<type, Todo[n]>> \in Optional
    <3>1. n # 1
      <4>1. Todo[1] = "columns"
        BY <1>1, <1>7, ColumnsComeFirst DEF Shape, Todo
      <4> QED
        BY <2>1, <4>1 DEF Optional
    <3>2. Begins(o.read) /\ Len(o.read) > 0
      BY <1>2, <1>3, <1>4, <1>7, <3>1 DEF BegunWell, Past
    <3> DEFINE read == Append(o.read, 0)
               label == AfterQuery(n)
    <3>3. thread' = [thread EXCEPT ![t] = [o EXCEPT !.read = read, !.pc = label]]
      BY <1>1, <1>2, <1>7, <2>1 DEF QueryFails, Shape
    <3>4. read[1] = o.read[1]
      BY <1>4, <3>2
    <3>5. label \in {"query", "store"}
      BY DEF AfterQuery
    <3> HIDE DEF read, label
    <3>6. thread'[t].pc = label /\ thread'[t].read = read
      BY <1>1, <3>3 DEF Shape, ThreadState
    <3> QED
      BY <3>2, <3>4, <3>5, <3>6 DEF Past, Begins
  <2>2. CASE <<type, Todo[n]>> \notin Optional
    <3>1. thread'[t].pc = "failed"
      BY <1>1, <1>2, <1>7, <2>2 DEF QueryFails, Shape, ThreadState
    <3> QED
      BY <3>1 DEF Past
  <2> QED
    BY <2>1, <2>2
<1> QED
  BY <1>1, <1>3, <1>5, <1>6, <1>7, BegunKeeps
\* What is stored, and answered, is what the queries have found.
LEMMA StoreBegins ==
    ASSUME IInv, BegunWell, NEW t \in Threads, Store(t)
    PROVE  BegunWell'
<1>1. Shape
  BY DEF IInv
<1>2. PICK o \in ThreadState : o = thread[t] /\ Fine(o)
  BY <1>1 DEF IInv, Shape
<1>3. PICK k \in Keys : k = KeyOf(t)
  BY <1>2, KeysOfInstances DEF KeyOf, Store, Fine, Working
<1> DEFINE e == Entry(o.server, o.begun, o.read)
<1>4. e.read = o.read
  BY DEF Entry
<1> HIDE DEF e
<1>5. /\ o.pc = "store" /\ UNCHANGED <<type, op, history>>
      /\ thread' = [thread EXCEPT ![t] = [o EXCEPT !.pc = "answered", !.answer = e]]
      /\ UNCHANGED cache \/ cache' = [cache EXCEPT ![k] = e]
  BY <1>1, <1>2, <1>3 DEF Store, Stored, database, Shape, e
<1>6. thread'[t].pc = "answered" /\ thread'[t].answer = e
  BY <1>1, <1>5 DEF Shape, ThreadState
<1>7. \A u \in Threads \ {t} : thread'[u] = thread[u]
  BY <1>1, <1>5 DEF Shape
<1>8. ASSUME op = "describe" PROVE Begins(e.read) /\ Len(e.read) = Len(Todo)
  BY <1>2, <1>4, <1>5, <1>8 DEF BegunWell, Past, Fine, Working
<1>9. op = "describe" => Past(thread'[t])
  BY <1>6, <1>8 DEF Past
<1>10. \A l \in Keys : cache'[l] = cache[l] \/ cache'[l] = e
  BY <1>1, <1>5 DEF Shape
<1> QED
  BY <1>1, <1>5, <1>7, <1>8, <1>9, <1>10, BegunKeeps

LEMMA BegunStep == IInv /\ BegunWell /\ [Next]_vars => BegunWell'
<1> SUFFICES ASSUME IInv, BegunWell, [Next]_vars PROVE BegunWell'
  OBVIOUS
<1>1. Shape
  BY DEF IInv
<1>2. CASE UNCHANGED vars
  <2>1. UNCHANGED <<type, op, history, cache, thread>>
    BY <1>2 DEF vars, database
  <2>2. op = "describe" => \A t \in Threads : Past(thread'[t])
    BY <2>1 DEF BegunWell
  <2> QED
    BY <1>1, <2>1, <2>2, BegunStays
<1>3. ASSUME NEW t \in Threads, NEW s \in Servers, NEW refresh \in BOOLEAN,
             \E instance \in Instances(s) : Ask(t, s, instance, refresh)
      PROVE  BegunWell'
  BY <1>3, AskBegins
<1>4. ASSUME NEW t \in Threads, Query(t) \/ QueryFails(t) \/ Store(t) PROVE BegunWell'
  BY <1>4, QueryBegins, StoreBegins
<1>5. ASSUME NEW t \in Threads, Take(t) \/ Return(t) PROVE BegunWell'
  <2>1. /\ UNCHANGED <<type, op, history, cache>>
        /\ \A u \in Threads \ {t} : thread'[u] = thread[u]
    BY <1>1, <1>5 DEF Take, Return, database, Shape
  <2>2. \/ thread'[t].pc \in {"failed", "idle"}
        \/ thread'[t].pc = "query" /\ thread[t].pc = "query" /\ thread'[t].read = thread[t].read
    BY <1>1, <1>5 DEF Take, Return, Shape, ThreadState, Idle
  <2>3. op = "describe" => Past(thread'[t])
    BY <2>2 DEF BegunWell, Past
  <2> QED
    BY <1>1, <2>1, <2>3, BegunKeeps
<1>6. ASSUME NEW s \in Servers, Alter(s) \/ Break(s) PROVE BegunWell'
  <2>1. UNCHANGED <<type, op, history, cache>>
    BY <1>6 DEF Alter, Break, database
  <2>2. ASSUME NEW t \in Threads
        PROVE  /\ thread'[t].pc = thread[t].pc /\ thread'[t].read = thread[t].read
               /\ thread'[t].answer = thread[t].answer
    <3>1. PICK o \in ThreadState : o = thread[t]
      BY <1>1 DEF Shape
    <3>2. thread'[t] = o \/ thread'[t] = [o EXCEPT !.conn = "broken"]
      BY <1>6, <3>1 DEF Alter, Break
    <3>3. PICK w : w = [o EXCEPT !.conn = "broken"]
      OBVIOUS
    <3>4. w.pc = o.pc /\ w.read = o.read /\ w.answer = o.answer
      BY <3>3 DEF ThreadState
    <3> QED
      BY <3>1, <3>2, <3>3, <3>4
  <2>3. op = "describe" => \A t \in Threads : Past(thread'[t])
    BY <2>2 DEF BegunWell, Past
  <2> QED
    BY <1>1, <2>1, <2>3, BegunStays
<1>7. ASSUME NEW k \in Keys, Expire(k) PROVE BegunWell'
  <2>1. UNCHANGED <<type, op, history, thread>> /\ cache' = [cache EXCEPT ![k] = None]
    BY <1>7 DEF Expire, database
  <2>2. \A l \in Keys : cache'[l] # None => cache'[l] = cache[l]
    BY <1>1, <2>1 DEF Shape
  <2>3. op = "describe" => \A t \in Threads : Past(thread'[t])
    BY <2>1 DEF BegunWell
  <2> QED
    BY <1>1, <2>1, <2>2, <2>3, BegunStays
<1> QED
  BY <1>2, <1>3, <1>4, <1>5, <1>6, <1>7 DEF Next

\* What DefinitionsAssumption says of a definition.
Sound(d) ==
    /\ d.cols \in Seq(Range(d.cols))
    /\ d.key \in Seq(Range(d.cols))
    /\ \A i \in d.ixs :
          /\ i = [name |-> i.name, cols |-> i.cols, unique |-> i.unique, primary |-> i.primary]
          /\ i.cols \in Seq(Range(i.cols)) \ {<<>>}
    /\ \A f \in d.fks :
          /\ IsFiniteSet(f.pairs) /\ \A p \in f.pairs : p[1] \in Range(d.cols)
          /\ \A g \in d.fks : f.name = g.name => f = g

SoundFor(ty, d) ==
    /\ ty # "mongodb" => \A i \in d.ixs : Range(i.cols) \subseteq Range(d.cols) \cup {Expr}
    /\ ty = "dynamodb" /\ d.exists => d.key # <<>>

SoundHistory == \A d \in Range(history) : Sound(d) /\ SoundFor(type, d)

\* Whoever is past the first query of a description found with it what the others need.
THEOREM BegunInvariant == Spec => [](IInv /\ BegunWell /\ SoundHistory)
<1>1. Init => IInv /\ BegunWell /\ SoundHistory
  <2> SUFFICES ASSUME Init PROVE IInv /\ BegunWell /\ SoundHistory
    OBVIOUS
  <2>1. /\ \A t \in Threads : thread[t] = Idle
        /\ \A k \in Keys : cache[k] = None
    BY DEF Init
  <2>2. Idle.pc = "idle"
    BY DEF Idle
  <2>3. \A t \in Threads : Past(thread[t])
    BY <2>1, <2>2 DEF Past
  <2>4. SoundHistory
    <3>1. PICK c \in Cases : history = c.history /\ type = c.type
      BY DEF Init
    <3>2. ASSUME NEW d \in Range(c.history)
          PROVE  Sound(d) /\ SoundFor(c.type, d)
      BY DefinitionsAssumption DEF Sound, SoundFor
    <3> QED
      BY <3>1, <3>2 DEF SoundHistory
  <2> QED
    BY <2>1, <2>3, <2>4, IntrospectionInit DEF BegunWell
<1>2. [Next]_vars => history' = history /\ type' = type
  <2> SUFFICES ASSUME [Next]_vars PROVE history' = history /\ type' = type
    OBVIOUS
  <2>1. CASE UNCHANGED vars
    BY <2>1 DEF vars, database
  <2>2. ASSUME NEW t \in Threads, NEW s \in Servers, NEW refresh \in BOOLEAN,
               NEW i \in Instances(s), Ask(t, s, i, refresh)
        PROVE  history' = history /\ type' = type
    BY <2>2 DEF Ask, database
  <2>3. ASSUME NEW t \in Threads,
               Take(t) \/ Query(t) \/ QueryFails(t) \/ Store(t) \/ Return(t)
        PROVE  history' = history /\ type' = type
    BY <2>3 DEF Take, Query, QueryFails, Store, Return, database
  <2>4. ASSUME NEW s \in Servers, Alter(s) \/ Break(s)
        PROVE  history' = history /\ type' = type
    BY <2>4 DEF Alter, Break, database
  <2>5. ASSUME NEW k \in Keys, Expire(k) PROVE history' = history /\ type' = type
    BY <2>5 DEF Expire, database
  <2> QED
    BY <2>1, <2>2, <2>3, <2>4, <2>5 DEF Next
<1>3. SoundHistory /\ history' = history /\ type' = type => SoundHistory'
  BY DEF SoundHistory
<1>4. IInv /\ BegunWell /\ SoundHistory /\ [Next]_vars => (IInv /\ BegunWell /\ SoundHistory)'
  BY <1>2, <1>3, IntrospectionStep, BegunStep
<1> QED
  BY <1>1, <1>4, PTL DEF Spec

\* A description without columns is of a table that has none, or was not there and of a
\* type that says nothing of it.
THEOREM EmptyIsExplained == Spec => []EmptyHasReason
<1>1. ASSUME IInv, BegunWell PROVE EmptyHasReason
  <2> SUFFICES ASSUME NEW t \in Threads, Described(t), Contents(t).columns = <<>>,
                      NEW read, read = thread[t].answer.read, NEW d, d = Definition(read[1])
               PROVE  \/ type \in {"postgres", "sqlite", "trino"} /\ ~d.exists
                      \/ /\ IF type = "mongodb" THEN d.validated ELSE d.exists
                         /\ Range(Shown(d)) = {}
    BY DEF EmptyHasReason
  <2>1. Shape /\ op = "describe" /\ thread[t].pc = "answered"
    BY <1>1 DEF IInv, Described, Answered
  <2>2. read \in Seq(Nat)
    BY <1>1, <2>1 DEF IInv, Fine, Current, Entries
  <2>3. Begins(read) /\ Len(read) = Len(Todo)
    BY <1>1, <2>1 DEF BegunWell, Past
  <2>4. Len(Todo) \in Nat \ {0}
    BY <2>1, ColumnsComeFirst DEF Shape, Todo
  <2>5. Len(read) \in 1..Len(Todo) /\ Solid(read[1])
    BY <2>3, <2>4 DEF Begins
  <2>6. Found(read)["columns"] = d
    BY <2>1, <2>2, <2>5, FirstFound
  <2>7. PICK nullable : Describe(type, Found(read)).columns = Named(Shown(d), nullable)
    BY <2>1, <2>6, ColumnsShown DEF Shape
  <2>8. Range(Shown(d)) = {}
    BY <2>7, NothingNamed DEF Contents
  <2>9. type \in Types
    BY <2>1 DEF Shape
  <2> QED
    BY <2>5, <2>8, <2>9 DEF Solid, Types
<1> QED
  BY <1>1, BegunInvariant, PTL

-----------------------------------------------------------------------------
(* Descriptions of plain tables                                            *)

LEMMA ColumnsExact ==
    ASSUME NEW d, Sound(d), NEW D, D.columns = Named(d.cols, Nullable(d))
    PROVE  /\ [i \in DOMAIN D.columns |-> D.columns[i].name] = d.cols
           /\ {D.columns[i].name : i \in {j \in DOMAIN D.columns : D.columns[j].nullable}}
                = Range(d.cols) \ (d.notnull \cup Range(d.key))
<1> DEFINE named == Named(d.cols, Nullable(d))
           columns == D.columns
<1>0. /\ DOMAIN named = DOMAIN d.cols
      /\ \A i \in DOMAIN d.cols : named[i].name = d.cols[i]
                                  /\ (named[i].nullable <=> d.cols[i] \in Nullable(d))
  BY DEF Named
<1> HIDE DEF named
<1>1. /\ DOMAIN columns = DOMAIN d.cols
      /\ \A i \in DOMAIN d.cols : columns[i].name = d.cols[i]
                                  /\ (columns[i].nullable <=> d.cols[i] \in Nullable(d))
  <2>1. columns = named
    BY DEF named
  <2> HIDE DEF columns
  <2> QED
    BY <1>0, <2>1
<1>2. d.cols = [i \in DOMAIN d.cols |-> d.cols[i]]
  BY DEF Sound
<1> HIDE DEF columns
<1>3. [i \in DOMAIN columns |-> columns[i].name] = d.cols
  BY <1>1, <1>2
<1>4. {columns[i].name : i \in {j \in DOMAIN columns : columns[j].nullable}} = Nullable(d)
  <2>1. \A i \in DOMAIN columns : columns[i].nullable => columns[i].name \in Nullable(d)
    BY <1>1
  <2>2. \A c \in Nullable(d) : \E i \in DOMAIN columns : columns[i].nullable /\ columns[i].name = c
    BY <1>1 DEF Nullable, Range
  <2> QED
    BY <2>1, <2>2
<1>5. Nullable(d) = Range(d.cols) \ (d.notnull \cup Range(d.key))
  BY DEF Nullable
<1>6. {columns[i].name : i \in {j \in DOMAIN columns : columns[j].nullable}}
        = Range(d.cols) \ (d.notnull \cup Range(d.key))
  BY <1>4, <1>5
<1> QED
  BY <1>3, <1>6 DEF columns

\* A row for each pair of columns.
Row(f, p) == [column |-> p[1], table |-> f.ref, refcol |-> p[2], name |-> f.name]

LEMMA PairRowsAre ==
    ASSUME NEW d, NEW x
    PROVE  x \in PairRows(d) <=> \E f \in d.fks : \E p \in f.pairs : x = Row(f, p)
  BY DEF PairRows, Row

LEMMA PairsAre ==
    ASSUME NEW fks, NEW x
    PROVE  x \in Pairs(fks) <=> \E f \in fks : \E p \in f.pairs : x = <<p[1], f.ref, p[2]>>
  BY DEF Pairs

LEMMA SameMembers == ASSUME NEW A, NEW B, \A x : x \in A <=> x \in B PROVE A = B
  OBVIOUS

LEMMA PairRowsReported ==
    ASSUME NEW d, NEW D, D.fks = PairRows(d) \/ D.fks = SqliteForeignKeys(d)
    PROVE  Reported(D) = Pairs(d.fks)
<1> DEFINE Anon(f, p) == [Row(f, p) EXCEPT !.name = NoName]
<1>1. \A f, p : /\ Row(f, p).column = p[1] /\ Row(f, p).table = f.ref /\ Row(f, p).refcol = p[2]
                /\ Anon(f, p).column = p[1] /\ Anon(f, p).table = f.ref /\ Anon(f, p).refcol = p[2]
  BY DEF Row
<1>2. \A x : x \in SqliteForeignKeys(d) <=> \E f \in d.fks : \E p \in f.pairs : x = Anon(f, p)
  BY PairRowsAre DEF SqliteForeignKeys
<1> HIDE DEF Anon
<1>3. CASE D.fks = PairRows(d)
  <2>1. \A x : x \in Reported(D) <=> \E f \in d.fks : \E p \in f.pairs : x = <<p[1], f.ref, p[2]>>
    BY <1>1, <1>3, PairRowsAre DEF Reported
  <2>2. \A x : x \in Reported(D) <=> x \in Pairs(d.fks)
    BY <2>1, PairsAre
  <2> QED
    BY <2>2, SameMembers
<1>4. CASE D.fks = SqliteForeignKeys(d)
  <2>1. \A x : x \in D.fks <=> \E f \in d.fks : \E p \in f.pairs : x = Anon(f, p)
    BY <1>2, <1>4
  <2>2. \A x : x \in Reported(D) <=> \E f \in d.fks : \E p \in f.pairs : x = <<p[1], f.ref, p[2]>>
    BY <1>1, <2>1 DEF Reported
  <2>3. \A x : x \in Reported(D) <=> x \in Pairs(d.fks)
    BY <2>2, PairsAre
  <2> QED
    BY <2>3, SameMembers
<1> QED
  BY <1>3, <1>4

\* The rows of the join: each column with each referenced one, of constraints of one name.
LEMMA JoinedRowsAre ==
    ASSUME NEW d, NEW x
    PROVE  x \in JoinedRows(d) <=>
             \E f \in d.fks : \E g \in d.fks \cup d.elsewhere : f.name = g.name /\
                \E p \in f.pairs, q \in g.pairs :
                   x = [column |-> p[1], table |-> g.ref, refcol |-> q[2], name |-> f.name]
<1> DEFINE Rows(f, g) == {[column |-> p[1], table |-> g.ref, refcol |-> q[2], name |-> f.name] :
                          p \in f.pairs, q \in g.pairs}
           J == {j \in d.fks \X (d.fks \cup d.elsewhere) : j[1].name = j[2].name}
<1>1. JoinedRows(d) = UNION {Rows(j[1], j[2]) : j \in J}
  BY DEF JoinedRows
<1>2. \A f, g : x \in Rows(f, g) <=> \E p \in f.pairs, q \in g.pairs :
                   x = [column |-> p[1], table |-> g.ref, refcol |-> q[2], name |-> f.name]
  OBVIOUS
<1> HIDE DEF Rows
<1>3. x \in JoinedRows(d) <=> \E j \in J : x \in Rows(j[1], j[2])
  BY <1>1
<1>4. (\E j \in J : x \in Rows(j[1], j[2])) <=>
        \E f \in d.fks : \E g \in d.fks \cup d.elsewhere : f.name = g.name /\ x \in Rows(f, g)
  <2>1. ASSUME NEW f \in d.fks, NEW g \in d.fks \cup d.elsewhere, f.name = g.name, x \in Rows(f, g)
        PROVE  \E j \in J : x \in Rows(j[1], j[2])
    <3>1. <<f, g>> \in J /\ <<f, g>>[1] = f /\ <<f, g>>[2] = g
      BY <2>1
    <3> QED
      BY <2>1, <3>1
  <2>2. ASSUME NEW j \in J
        PROVE  j[1] \in d.fks /\ j[2] \in d.fks \cup d.elsewhere /\ j[1].name = j[2].name
    OBVIOUS
  <2> HIDE DEF J
  <2> QED
    BY <2>1, <2>2
<1> QED
  BY <1>2, <1>3, <1>4

\* In a plain table the join pairs each constraint with itself alone.
LEMMA JoinedRowsArePairRows ==
    ASSUME NEW d, Sound(d), Plain(d)
    PROVE  JoinedRows(d) = PairRows(d)
<1>1. ASSUME NEW f \in d.fks PROVE \E p : f.pairs = {p}
  <2>1. IsFiniteSet(f.pairs) /\ Cardinality(f.pairs) = 1
    BY DEF Plain, Sound
  <2> QED
    BY <2>1, FS_Singleton
<1>2. \A f \in d.fks : \A g \in d.fks \cup d.elsewhere : f.name = g.name => f = g
  BY DEF Sound, Plain
<1>3. ASSUME NEW x
      PROVE  x \in JoinedRows(d) <=>
               \E f \in d.fks : \E g \in d.fks \cup d.elsewhere : f.name = g.name /\
                  \E p \in f.pairs, q \in g.pairs :
                     x = [column |-> p[1], table |-> g.ref, refcol |-> q[2], name |-> f.name]
  BY JoinedRowsAre
<1>4. ASSUME NEW x
      PROVE  x \in JoinedRows(d) <=> \E f \in d.fks : \E p \in f.pairs : x = Row(f, p)
  BY <1>1, <1>2, <1>3 DEF Row
<1>5. \A x : x \in JoinedRows(d) <=> x \in PairRows(d)
  BY <1>4, PairRowsAre
<1> QED
  BY <1>5, SameMembers

\* What is left of a list of its entries in a set.
LEMMA OnlyOf ==
    ASSUME NEW T, NEW list \in Seq(T), NEW S
    PROVE  /\ Only(list, S) \in Seq(T) /\ Range(Only(list, S)) = Range(list) \cap S
           /\ Range(list) \subseteq S => Only(list, S) = list
<1> DEFINE ones == [i \in DOMAIN list |-> IF list[i] \in S THEN <<list[i]>> ELSE <<>>]
<1>1. DOMAIN list = 1..Len(list) /\ Len(list) \in Nat /\ \A i \in DOMAIN list : list[i] \in T
  OBVIOUS
<1>2. \A i \in DOMAIN list : (IF list[i] \in S THEN <<list[i]>> ELSE <<>>) \in Seq(T)
  BY <1>1
<1>3. ones \in Seq(Seq(T)) /\ DOMAIN ones = DOMAIN list
  BY <1>1, <1>2
<1>4. \A i \in DOMAIN list : Range(ones[i]) = {list[i]} \cap S
  <2>1. \A x : Range(<<x>>) = {x}
    BY DEF Range
  <2>2. Range(<<>>) = {}
    BY DEF Range
  <2> QED
    BY <2>1, <2>2
<1>5. Range(list) \subseteq S => ones = [i \in DOMAIN list |-> <<list[i]>>]
  BY DEF Range
<1>6. Only(list, S) = FlattenSeq(ones)
  BY DEF Only
<1> HIDE DEF ones
<1>7. FlattenSeq(ones) \in Seq(T)
  BY <1>3, FlattenType
<1>8. Range(FlattenSeq(ones)) = Range(list) \cap S
  <2>1. Range(FlattenSeq(ones)) = UNION {Range(ones[i]) : i \in DOMAIN ones}
    BY <1>3, FlattenMembers
  <2>2. \A x : x \in Range(FlattenSeq(ones)) <=> \E i \in DOMAIN list : x = list[i] /\ x \in S
    BY <1>3, <1>4, <2>1
  <2> QED
    BY <2>2 DEF Range
<1>9. Range(list) \subseteq S => FlattenSeq(ones) = list
  BY <1>5, FlattenOnes
<1> QED
  BY <1>6, <1>7, <1>8, <1>9

\* The indexes of a plain table are reported whole.
LEMMA IndexesExact ==
    ASSUME NEW d, Sound(d), Plain(d)
    PROVE  /\ PostgresIndexes(d) = d.ixs /\ SqliteIndexes(d, d) = d.ixs
           /\ DuckdbIndexes(d) = {i \in d.ixs : ~i.primary}
<1>1. ASSUME NEW i \in d.ixs
      PROVE  /\ Expr \notin Range(i.cols) /\ NoExpr(i.cols) = i.cols /\ i.cols # <<>>
             /\ [i EXCEPT !.cols = i.cols] = i
  <2>1. Expr \notin Range(i.cols)
    BY DEF Plain
  <2>2. i = [name |-> i.name, cols |-> i.cols, unique |-> i.unique, primary |-> i.primary]
    BY DEF Sound
  <2>3. [i EXCEPT !.cols = i.cols] = i
    BY <2>2
  <2>4. i.cols \in Seq(Range(i.cols)) /\ i.cols # <<>>
    BY DEF Sound
  <2>5. NoExpr(i.cols) = i.cols
    BY <2>1, <2>4, OnlyOf DEF NoExpr
  <2> QED
    BY <2>1, <2>3, <2>4, <2>5
<1>2. PostgresIndexes(d) = d.ixs
  <2>1. {j \in d.ixs : NoExpr(j.cols) # <<>>} = d.ixs
    BY <1>1
  <2>2. \A i \in d.ixs : [i EXCEPT !.cols = NoExpr(@)] = i
    BY <1>1
  <2> QED
    BY <2>1, <2>2 DEF PostgresIndexes
<1>3. SqliteIndexes(d, d) = d.ixs
  BY DEF SqliteIndexes
<1>4. DuckdbIndexes(d) = {i \in d.ixs : ~i.primary}
  <2> DEFINE Cut(i) == [i EXCEPT !.cols = SubSeq(@, 1, CHOOSE n \in DOMAIN @ :
                                            @[n] = Expr /\ \A m \in 1..(n - 1) : @[m] # Expr)]
  <2>1. DuckdbIndexes(d) = {IF Expr \notin Range(i.cols) THEN i ELSE Cut(i) :
                            i \in {j \in d.ixs : ~j.primary}}
    BY DEF DuckdbIndexes
  <2> HIDE DEF Cut
  <2> QED
    BY <1>1, <2>1
<1> QED
  BY <1>2, <1>3, <1>4

Has(todo, q) == \E i \in DOMAIN todo : todo[i] = q

LEMMA QueriesPut ==
    /\ \A ty \in {"mysql", "postgres", "duckdb"} : \A q \in {"columns", "pk", "fks", "indexes"} :
          Has(Queries(ty, "describe"), q)
    /\ \A q \in {"columns", "fks", "indexes", "index columns"} : Has(Queries("sqlite", "describe"), q)
<1>1. \A q \in {"columns", "pk", "fks", "indexes"} :
         /\ Has(<<"columns", "pk", "fks", "indexes">>, q)
         /\ Has(<<"columns", "pk", "fks", "indexes", "partitions">>, q)
  BY DEF Has
<1>2. \A q \in {"columns", "fks", "indexes", "index columns"} :
         Has(<<"columns", "fks", "indexes", "index columns">>, q)
  <2>1. \A a, b, c, e : \A q \in {a, b, c, e} : Has(<<a, b, c, e>>, q)
    BY DEF Has
  <2> QED
    BY <2>1
<1>3. /\ Queries("mysql", "describe") = <<"columns", "pk", "fks", "indexes">>
      /\ Queries("duckdb", "describe") = <<"columns", "pk", "fks", "indexes">>
      /\ Queries("postgres", "describe") = <<"columns", "pk", "fks", "indexes", "partitions">>
      /\ Queries("sqlite", "describe") = <<"columns", "fks", "indexes", "index columns">>
  BY DEF Queries, MysqlQueries, DuckdbQueries, PostgresQueries, SqliteQueries
<1> QED
  BY <1>1, <1>2, <1>3

\* When all the queries found one definition, each is answered with it.
LEMMA OneFound ==
    ASSUME NEW read \in Seq(Nat), Todo \in Seq(QueryNames), Len(read) = Len(Todo),
           NEW v, Range(read) = {v}, NEW i \in DOMAIN Todo
    PROVE  Found(read)[Todo[i]] = Definition(v)
<1>1. DOMAIN read = DOMAIN Todo
  OBVIOUS
<1>2. \A j \in DOMAIN read : read[j] = v
  BY DEF Range
<1>3. PICK j \in DOMAIN read : j = CHOOSE k \in DOMAIN read : Todo[k] = Todo[i]
  BY <1>1
<1>4. Todo[i] \in {Todo[k] : k \in DOMAIN read}
  BY <1>1
<1>5. Found(read)[Todo[i]] = Definition(read[j])
  BY <1>3, <1>4 DEF Found
<1> QED
  BY <1>2, <1>5

\* The queries found d, each of them.
AllFound(r, d, ty) ==
    /\ r["columns"] = d /\ r["fks"] = d /\ r["indexes"] = d
    /\ ty # "sqlite" => r["pk"] = d
    /\ ty = "sqlite" => r["index columns"] = d

\* What the description D says of the table d.
Tells(D, d, ty) ==
    /\ D.columns = Named(d.cols, Nullable(d)) /\ D.key = d.key
    /\ D.fks = PairRows(d) \/ D.fks = SqliteForeignKeys(d)
    /\ D.indexes = IF ty = "duckdb" THEN {i \in d.ixs : ~i.primary} ELSE d.ixs

\* The description of a plain table that was not altered meanwhile.
LEMMA PlainDescribed ==
    ASSUME NEW d, Sound(d), Plain(d), NEW r, NEW ty \in {"mysql", "postgres", "sqlite", "duckdb"},
           AllFound(r, d, ty)
    PROVE  Tells(Describe(ty, r), d, ty)
<1> USE DEF AllFound
<1>1. CASE ty = "mysql"
  BY <1>1 DEF Describe, MysqlDescription, Description, MysqlColumns, MysqlKey, MysqlForeignKeys,
              MysqlIndexes, Tells
<1>2. CASE ty = "postgres"
  <2>1. /\ Describe(ty, r).columns = Named(d.cols, Nullable(d)) /\ Describe(ty, r).key = d.key
        /\ Describe(ty, r).fks = JoinedRows(d) /\ Describe(ty, r).indexes = PostgresIndexes(d)
    BY <1>2 DEF Describe, PostgresDescription, Description, PostgresColumns, PostgresKey,
                PostgresForeignKeys
  <2> QED
    BY <1>2, <2>1, JoinedRowsArePairRows, IndexesExact DEF Tells
<1>3. CASE ty = "sqlite"
  <2>1. /\ Describe(ty, r).columns = Named(d.cols, Nullable(d)) /\ Describe(ty, r).key = d.key
        /\ Describe(ty, r).fks = SqliteForeignKeys(d) /\ Describe(ty, r).indexes = SqliteIndexes(d, d)
    BY <1>3 DEF Describe, SqliteDescription, Description, SqliteColumns, SqliteKey
  <2> QED
    BY <1>3, <2>1, IndexesExact DEF Tells
<1>4. CASE ty = "duckdb"
  <2>1. /\ Describe(ty, r).columns = Named(d.cols, Nullable(d)) /\ Describe(ty, r).key = d.key
        /\ Describe(ty, r).fks = JoinedRows(d) /\ Describe(ty, r).indexes = DuckdbIndexes(d)
    BY <1>4 DEF Describe, DuckdbDescription, Description, DuckdbColumns, DuckdbKey,
                DuckdbForeignKeys
  <2> QED
    BY <1>4, <2>1, JoinedRowsArePairRows, IndexesExact DEF Tells
<1> QED
  BY <1>1, <1>2, <1>3, <1>4

\* What the queries found, when the table was not altered between them.
LEMMA UntornFound ==
    ASSUME IInv, BegunWell, NEW t \in Threads, NEW d, Described(t), Untorn(t, d),
           type \in {"mysql", "postgres", "sqlite", "duckdb"}
    PROVE  AllFound(Found(thread[t].answer.read), d, type)
<1> DEFINE read == thread[t].answer.read
           r == Found(read)
<1>1. Shape /\ op = "describe" /\ thread[t].pc = "answered"
  BY DEF IInv, Described, Answered
<1>2. read \in Seq(Nat) /\ Len(read) = Len(Todo)
  BY <1>1 DEF IInv, Fine, Current, Entries, BegunWell, Past
<1>3. Todo \in Seq(QueryNames)
  BY <1>1, QueriesAreListed DEF Shape, Todo
<1>4. PICK v : Range(read) = {v} /\ d = Definition(v)
  BY DEF Untorn, Versions
<1> HIDE DEF read
<1>5. \A i \in DOMAIN Todo : r[Todo[i]] = d
  BY <1>2, <1>3, <1>4, OneFound
<1> HIDE DEF r
<1>6. Todo = Queries(type, "describe")
  BY <1>1 DEF Todo
<1>7. \A q : Has(Todo, q) => r[q] = d
  BY <1>5 DEF Has
<1>8. CASE type # "sqlite"
  <2>1. \A q \in {"columns", "pk", "fks", "indexes"} : Has(Todo, q)
    BY <1>6, <1>8, QueriesPut
  <2> QED
    BY <1>7, <1>8, <2>1 DEF r, read, AllFound
<1>9. CASE type = "sqlite"
  <2>1. \A q \in {"columns", "fks", "indexes", "index columns"} : Has(Todo, q)
    BY <1>6, <1>9, QueriesPut
  <2> QED
    BY <1>7, <1>9, <2>1 DEF r, read, AllFound
<1> QED
  BY <1>8, <1>9

\* The foreign keys of a description, by the type of the database.
LEMMA ForeignKeysTold ==
    ASSUME NEW d, NEW r, NEW ty \in {"mysql", "postgres", "sqlite", "duckdb"}, AllFound(r, d, ty),
           NEW D, D = Describe(ty, r)
    PROVE  /\ ty = "mysql" => D.fks = PairRows(d)
           /\ ty = "sqlite" => D.fks = SqliteForeignKeys(d)
           /\ ty \in {"postgres", "duckdb"} => D.fks = JoinedRows(d)
<1>1. CASE ty = "mysql"
  BY <1>1 DEF AllFound, Describe, MysqlDescription, Description, MysqlForeignKeys
<1>2. CASE ty = "sqlite"
  BY <1>2 DEF AllFound, Describe, SqliteDescription, Description
<1>3. CASE ty = "postgres"
  BY <1>3 DEF AllFound, Describe, PostgresDescription, Description, PostgresForeignKeys
<1>4. CASE ty = "duckdb"
  BY <1>4 DEF AllFound, Describe, DuckdbDescription, Description, DuckdbForeignKeys
<1> QED
  BY <1>1, <1>2, <1>3, <1>4

\* The join pairs every constraint with itself at least.
LEMMA JoinedRowsCover ==
    ASSUME NEW d PROVE PairRows(d) \subseteq JoinedRows(d)
<1>1. SUFFICES ASSUME NEW f \in d.fks, NEW p \in f.pairs PROVE Row(f, p) \in JoinedRows(d)
  BY PairRowsAre
<1> DEFINE J == {j \in d.fks \X (d.fks \cup d.elsewhere) : j[1].name = j[2].name}
           Rows(j) == {[column |-> a[1], table |-> j[2].ref, refcol |-> b[2], name |-> j[1].name] :
                       a \in j[1].pairs, b \in j[2].pairs}
<1>2. <<f, f>> \in J
  OBVIOUS
<1>3. Row(f, p) \in Rows(<<f, f>>)
  BY DEF Row
<1>4. JoinedRows(d) = UNION {Rows(j) : j \in J}
  BY DEF JoinedRows
<1> HIDE DEF J, Rows
<1> QED
  BY <1>2, <1>3, <1>4

\* Every pair of columns of a foreign key is reported, and by MySQL and SQLite no other.
THEOREM EveryForeignKeyReported == Spec => []ForeignKeysReported
<1>1. ASSUME IInv, BegunWell PROVE ForeignKeysReported
  <2> SUFFICES ASSUME NEW t \in Threads, NEW d, Described(t), Untorn(t, d),
                      type \in {"mysql", "postgres", "sqlite", "duckdb"}
               PROVE  /\ Pairs(d.fks) \subseteq Reported(Contents(t))
                      /\ type \in {"mysql", "sqlite"} => Reported(Contents(t)) = Pairs(d.fks)
    BY DEF ForeignKeysReported
  <2>1. AllFound(Found(thread[t].answer.read), d, type)
    BY <1>1, UntornFound
  <2>2. PICK D : D = Contents(t) /\ D = Describe(type, Found(thread[t].answer.read))
    BY DEF Contents
  <2>3. CASE type \in {"mysql", "sqlite"}
    <3>1. D.fks = PairRows(d) \/ D.fks = SqliteForeignKeys(d)
      BY <2>1, <2>2, <2>3, ForeignKeysTold
    <3>2. Reported(D) = Pairs(d.fks)
      BY <3>1, PairRowsReported
    <3> QED
      BY <2>2, <3>2
  <2>4. CASE type \in {"postgres", "duckdb"}
    <3>1. D.fks = JoinedRows(d)
      BY <2>1, <2>2, <2>4, ForeignKeysTold
    <3>2. PICK E : E = [fks |-> PairRows(d)]
      OBVIOUS
    <3>3. Reported(E) = Pairs(d.fks)
      BY <3>2, PairRowsReported
    <3>4. E.fks \subseteq D.fks
      BY <3>1, <3>2, JoinedRowsCover
    <3>5. Reported(E) \subseteq Reported(D)
      BY <3>4 DEF Reported
    <3> QED
      BY <2>2, <2>4, <3>3, <3>5
  <2> QED
    BY <2>3, <2>4
<1> QED
  BY <1>1, BegunInvariant, PTL

\* A plain table that is not altered between the queries is described exactly.
THEOREM PlainTablesExact == Spec => []DescriptionExact
<1>1. ASSUME IInv, BegunWell, SoundHistory PROVE DescriptionExact
  <2> SUFFICES ASSUME NEW t \in Threads, NEW d \in Range(history),
                      Described(t), Untorn(t, d), Plain(d),
                      type \in {"mysql", "postgres", "sqlite", "duckdb"}
               PROVE  LET D == Contents(t)
                      IN  /\ [i \in DOMAIN D.columns |-> D.columns[i].name] = d.cols
                          /\ {D.columns[i].name : i \in {j \in DOMAIN D.columns : D.columns[j].nullable}}
                               = Range(d.cols) \ (d.notnull \cup Range(d.key))
                          /\ D.key = d.key
                          /\ Reported(D) = Pairs(d.fks)
                          /\ D.indexes = IF type = "duckdb" THEN {i \in d.ixs : ~i.primary} ELSE d.ixs
    BY DEF DescriptionExact
  <2> DEFINE D == Contents(t)
  <2>1. AllFound(Found(thread[t].answer.read), d, type)
    BY <1>1, UntornFound
  <2>2. Sound(d)
    BY <1>1 DEF SoundHistory
  <2>3. Tells(D, d, type)
    BY <2>1, <2>2, PlainDescribed DEF Contents
  <2> HIDE DEF D
  <2>4. Reported(D) = Pairs(d.fks)
    BY <2>3, PairRowsReported DEF Tells
  <2>5. /\ [i \in DOMAIN D.columns |-> D.columns[i].name] = d.cols
         /\ {D.columns[i].name : i \in {j \in DOMAIN D.columns : D.columns[j].nullable}}
              = Range(d.cols) \ (d.notnull \cup Range(d.key))
    BY <2>2, <2>3, ColumnsExact DEF Tells
  <2> QED
    BY <2>3, <2>4, <2>5 DEF Tells, D
<1> QED
  BY <1>1, BegunInvariant, PTL
-----------------------------------------------------------------------------
(* What the parts of a description speak of                                *)

\* The columns of a list, and those of them that may be NULL.
LEMMA ColumnsNamed ==
    ASSUME NEW names, NEW nullable, NEW D, D.columns = Named(names, nullable)
    PROVE  /\ Range(names) \subseteq ColumnNames(D)
           /\ \A i \in DOMAIN D.columns :
                 D.columns[i].nullable <=> D.columns[i].name \in nullable
<1> DEFINE columns == D.columns
<1>1. /\ DOMAIN Named(names, nullable) = DOMAIN names
      /\ \A i \in DOMAIN names : /\ Named(names, nullable)[i].name = names[i]
                                 /\ Named(names, nullable)[i].nullable <=> names[i] \in nullable
  BY DEF Named
<1>2. columns = Named(names, nullable)
  OBVIOUS
<1> HIDE DEF columns
<1>3. /\ DOMAIN columns = DOMAIN names
      /\ \A i \in DOMAIN names : /\ columns[i].name = names[i]
                                 /\ columns[i].nullable <=> names[i] \in nullable
  BY <1>1, <1>2
<1>4. Range(names) \subseteq {columns[i].name : i \in DOMAIN columns}
  BY <1>3 DEF Range
<1> QED
  BY <1>3, <1>4 DEF columns, ColumnNames

\* A foreign key is reported with a column of its own.
LEMMA ForeignKeysSpeakOf ==
    ASSUME NEW d, Sound(d), NEW fks, fks \in {PairRows(d), SqliteForeignKeys(d), JoinedRows(d)}
    PROVE  \A f \in fks : f.column \in Range(d.cols)
<1>1. \A f \in d.fks : \A p \in f.pairs : p[1] \in Range(d.cols)
  BY DEF Sound
<1>2. \A f \in PairRows(d) : f.column \in Range(d.cols)
  BY <1>1, PairRowsAre DEF Row
<1>3. \A f \in SqliteForeignKeys(d) : f.column \in Range(d.cols)
  <2> DEFINE Anon(f, p) == [Row(f, p) EXCEPT !.name = NoName]
  <2>1. \A f, p : Anon(f, p).column = p[1]
    BY DEF Row
  <2>2. \A x \in SqliteForeignKeys(d) : \E f \in d.fks : \E p \in f.pairs : x = Anon(f, p)
    BY PairRowsAre DEF SqliteForeignKeys
  <2> HIDE DEF Anon
  <2> QED
    BY <1>1, <2>1, <2>2
<1>4. \A f \in JoinedRows(d) : f.column \in Range(d.cols)
  BY <1>1, JoinedRowsAre
<1> QED
  BY <1>2, <1>3, <1>4

LEMMA FirstPart ==
    ASSUME NEW T, NEW s \in Seq(T), NEW k \in DOMAIN s
    PROVE  SubSeq(s, 1, k) \in Seq(T) /\ Range(SubSeq(s, 1, k)) \subseteq Range(s)
<1>1. k \in 1..Len(s) /\ Len(s) \in Nat /\ DOMAIN s = 1..Len(s)
  OBVIOUS
<1>2. /\ DOMAIN SubSeq(s, 1, k) = 1..k /\ SubSeq(s, 1, k) \in Seq(T)
      /\ \A i \in 1..k : SubSeq(s, 1, k)[i] = s[i]
  BY <1>1
<1>3. 1..k \subseteq DOMAIN s
  BY <1>1
<1> QED
  BY <1>2, <1>3 DEF Range

\* The first expression among the parts of an index is there.
LEMMA FirstExpression ==
    ASSUME NEW s, s \in Seq(Range(s)), Expr \in Range(s)
    PROVE  (CHOOSE n \in DOMAIN s : s[n] = Expr /\ \A m \in 1..(n - 1) : s[m] # Expr) \in DOMAIN s
<1> DEFINE S == {n \in DOMAIN s : s[n] = Expr}
<1>1. DOMAIN s = 1..Len(s) /\ Len(s) \in Nat
  OBVIOUS
<1>2. S # {} /\ S \subseteq Nat
  BY <1>1 DEF Range
<1> HIDE DEF S
<1>3. PICK x \in S : \A y \in S : x <= y
  BY <1>2, Least
<1>4. x \in DOMAIN s /\ s[x] = Expr
  BY <1>3 DEF S
<1>5. ASSUME NEW m \in 1..(x - 1) PROVE s[m] # Expr
  <2>1. m \in DOMAIN s /\ ~(x <= m)
    BY <1>1, <1>4
  <2> QED
    BY <1>3, <2>1 DEF S
<1> QED
  BY <1>4, <1>5

\* The parts of an index are columns of the table or expressions.
LEMMA IndexesSpeakOf ==
    ASSUME NEW d, Sound(d), NEW C, \A i \in d.ixs : Range(i.cols) \subseteq C \cup {Expr},
           NEW ixs, ixs \in {MysqlIndexes(d), PostgresIndexes(d), SqliteIndexes(d, d),
                             DuckdbIndexes(d), DynamoIndexes(d)}
    PROVE  \A i \in ixs : Range(i.cols) \ {Expr} \subseteq C
<1>1. ASSUME NEW i \in d.ixs
      PROVE  /\ i = [name |-> i.name, cols |-> i.cols, unique |-> i.unique, primary |-> i.primary]
             /\ i.cols \in Seq(Range(i.cols)) /\ Range(i.cols) \ {Expr} \subseteq C
  BY DEF Sound
<1>2. ASSUME NEW i \in d.ixs, NEW list PROVE [i EXCEPT !.cols = list].cols = list
  BY <1>1
<1>3. CASE ixs = MysqlIndexes(d) \/ ixs = SqliteIndexes(d, d)
  <2>1. ixs = d.ixs
    BY <1>3 DEF MysqlIndexes, SqliteIndexes
  <2> QED
    BY <1>1, <2>1
<1>4. CASE ixs = PostgresIndexes(d)
  <2>1. \A i \in ixs : \E j \in d.ixs : i = [j EXCEPT !.cols = NoExpr(j.cols)]
    BY <1>4 DEF PostgresIndexes
  <2>2. \A j \in d.ixs : Range(NoExpr(j.cols)) \subseteq Range(j.cols)
    BY <1>1, OnlyOf DEF NoExpr
  <2> QED
    BY <1>1, <1>2, <2>1, <2>2
<1>5. CASE ixs = DuckdbIndexes(d)
  <2> DEFINE first(s) == CHOOSE n \in DOMAIN s : s[n] = Expr /\ \A m \in 1..(n - 1) : s[m] # Expr
             cut(s) == SubSeq(s, 1, first(s))
  <2>1. \A i \in ixs : \E j \in d.ixs : IF Expr \notin Range(j.cols) THEN i = j
                                        ELSE i = [j EXCEPT !.cols = cut(j.cols)]
    BY <1>5 DEF DuckdbIndexes
  <2>2. ASSUME NEW j \in d.ixs, Expr \in Range(j.cols)
        PROVE  Range(cut(j.cols)) \subseteq Range(j.cols)
    <3>1. j.cols \in Seq(Range(j.cols)) /\ first(j.cols) \in DOMAIN j.cols
      BY <1>1, <2>2, FirstExpression
    <3> HIDE DEF first
    <3> QED
      BY <3>1, FirstPart
  <2> HIDE DEF cut
  <2> QED
    BY <1>1, <1>2, <2>1, <2>2
<1>6. CASE ixs = DynamoIndexes(d)
  <2>1. \A i \in ixs : \E j \in d.ixs : i = [j EXCEPT !.unique = FALSE, !.primary = FALSE]
    BY <1>6 DEF DynamoIndexes
  <2>2. \A j \in d.ixs : [j EXCEPT !.unique = FALSE, !.primary = FALSE].cols = j.cols
    BY <1>1
  <2> QED
    BY <1>1, <2>1, <2>2
<1> QED
  BY <1>3, <1>4, <1>5, <1>6

\* What a description of d speaks of: the columns it shows and no other.
SpeaksOf(D, d) ==
    /\ \E nullable : D.columns = Named(d.cols, nullable) /\ nullable \cap Range(d.key) = {}
    /\ Range(D.key) \subseteq Range(d.key)
    /\ \A f \in D.fks : f.column \in Range(d.cols)
    /\ \A i \in D.indexes : Range(i.cols) \ {Expr} \subseteq Range(d.cols)

\* MongoDB, Trino and Athena give no keys, and the last two no indexes.
Unkeyed(D, ty) == D.key = <<>> /\ D.fks = {} /\ (ty # "mongodb" => D.indexes = {})

LEMMA PartsTold ==
    ASSUME NEW d, Sound(d), NEW ty \in Types, SoundFor(ty, d), d.exists, NEW r, r["columns"] = d,
           ty \in {"mysql", "postgres", "sqlite", "duckdb"} => AllFound(r, d, ty),
           NEW D, D = Describe(ty, r)
    PROVE  Unkeyed(D, ty) \/ SpeaksOf(D, d)
<1>1. Nullable(d) \cap Range(d.key) = {} /\ {} \cap Range(d.key) = {}
  BY DEF Nullable
<1>2. ty # "mongodb" => \A i \in d.ixs : Range(i.cols) \subseteq Range(d.cols) \cup {Expr}
  BY DEF SoundFor
<1>3. CASE ty \in {"mysql", "postgres", "sqlite", "duckdb"}
  <2>1. /\ D.columns = Named(d.cols, Nullable(d)) /\ D.key = d.key
        /\ D.indexes \in {MysqlIndexes(d), PostgresIndexes(d), SqliteIndexes(d, d), DuckdbIndexes(d)}
    <3>1. CASE ty = "mysql"
      BY <3>1 DEF AllFound, Describe, MysqlDescription, Description, MysqlColumns, MysqlKey
    <3>2. CASE ty = "postgres"
      BY <3>2 DEF AllFound, Describe, PostgresDescription, Description, PostgresColumns, PostgresKey
    <3>3. CASE ty = "sqlite"
      BY <3>3 DEF AllFound, Describe, SqliteDescription, Description, SqliteColumns, SqliteKey
    <3>4. CASE ty = "duckdb"
      BY <3>4 DEF AllFound, Describe, DuckdbDescription, Description, DuckdbColumns, DuckdbKey
    <3> QED
      BY <1>3, <3>1, <3>2, <3>3, <3>4
  <2>2. \A f \in D.fks : f.column \in Range(d.cols)
    BY <1>3, ForeignKeysTold, ForeignKeysSpeakOf
  <2>3. \A i \in D.indexes : Range(i.cols) \ {Expr} \subseteq Range(d.cols)
    BY <1>2, <1>3, <2>1, IndexesSpeakOf
  <2> QED
    BY <1>1, <2>1, <2>2, <2>3 DEF SpeaksOf
<1>4. CASE ty = "dynamodb"
  <2>1. /\ D.columns = Named(d.cols, {}) /\ D.key = SubSeq(d.key, 1, 1) /\ D.fks = {}
        /\ D.indexes = DynamoIndexes(d)
    BY <1>4 DEF Describe, DynamoDescription, Description, DynamoColumns, DynamoKey
  <2>2. Range(D.key) \subseteq Range(d.key)
    <3>1. d.key \in Seq(Range(d.cols)) /\ d.key # <<>>
      BY <1>4 DEF Sound, SoundFor
    <3>2. 1 \in DOMAIN d.key
      BY <3>1
    <3> QED
      BY <2>1, <3>1, <3>2, FirstPart
  <2>3. \A i \in D.indexes : Range(i.cols) \ {Expr} \subseteq Range(d.cols)
    BY <1>2, <1>4, <2>1, IndexesSpeakOf
  <2> QED
    BY <1>1, <2>1, <2>2, <2>3 DEF SpeaksOf
<1>5. CASE ty = "mongodb"
  BY <1>5 DEF Describe, MongoDescription, Description, Unkeyed
<1>6. CASE ty = "trino"
  BY <1>6 DEF Describe, TrinoDescription, Description, Unkeyed
<1>7. CASE ty = "athena"
  BY <1>7 DEF Describe, AthenaDescription, Description, Unkeyed
<1> QED
  BY <1>3, <1>4, <1>5, <1>6, <1>7 DEF Types

\* The keys, foreign keys and indexes of a description are of columns that it shows, for any
\* definition of a table that was not altered between the queries, whatever it shares names
\* with (postgres.py:265-271, 300-301; duckdb.py:203-225).
THEOREM PartsSpeakOfColumns == Spec => []PartsAgree
<1>1. ASSUME IInv, BegunWell, SoundHistory PROVE PartsAgree
  <2> SUFFICES ASSUME NEW t \in Threads, NEW d \in Range(history), Described(t), Untorn(t, d),
                      NEW D, D = Contents(t)
               PROVE  /\ Range(D.key) \cup {f.column : f \in D.fks} \subseteq ColumnNames(D)
                      /\ \A i \in DOMAIN D.columns :
                            D.columns[i].name \in Range(D.key) => ~D.columns[i].nullable
                      /\ type # "mongodb" =>
                            \A i \in D.indexes : Range(i.cols) \ {Expr} \subseteq ColumnNames(D)
    BY DEF PartsAgree
  <2> DEFINE read == thread[t].answer.read
  <2>1. Sound(d) /\ SoundFor(type, d) /\ d.exists /\ type \in Types
    BY <1>1 DEF SoundHistory, Untorn, IInv, Shape
  <2>2. Found(read)["columns"] = d
    <3>1. Shape /\ op = "describe" /\ thread[t].pc = "answered"
      BY <1>1 DEF IInv, Described, Answered
    <3>2. read \in Seq(Nat) /\ Len(read) = Len(Todo)
      BY <1>1, <3>1 DEF IInv, Fine, Current, Entries, BegunWell, Past
    <3>3. Len(Todo) \in Nat \ {0}
      BY <3>1, ColumnsComeFirst DEF Shape, Todo
    <3>4. PICK v : Range(read) = {v} /\ d = Definition(v)
      BY DEF Untorn, Versions
    <3> HIDE DEF read
    <3>5. 1 \in DOMAIN read /\ Len(read) \in 1..Len(Todo)
      BY <3>2, <3>3
    <3>6. read[1] = v
      BY <3>4, <3>5 DEF Range
    <3> QED
      BY <3>1, <3>2, <3>4, <3>5, <3>6, FirstFound
  <2>3. type \in {"mysql", "postgres", "sqlite", "duckdb"} => AllFound(Found(read), d, type)
    BY <1>1, UntornFound
  <2>4. D = Describe(type, Found(read))
    BY DEF Contents
  <2> HIDE DEF read
  <2>5. Unkeyed(D, type) \/ SpeaksOf(D, d)
    BY <2>1, <2>2, <2>3, <2>4, PartsTold
  <2>6. CASE Unkeyed(D, type)
    BY <2>6 DEF Unkeyed, Range
  <2>7. CASE SpeaksOf(D, d)
    <3>1. PICK nullable : D.columns = Named(d.cols, nullable) /\ nullable \cap Range(d.key) = {}
      BY <2>7 DEF SpeaksOf
    <3>2. /\ Range(d.cols) \subseteq ColumnNames(D)
          /\ \A i \in DOMAIN D.columns :
                D.columns[i].nullable <=> D.columns[i].name \in nullable
      BY <3>1, ColumnsNamed
    <3>3. Range(d.key) \subseteq Range(d.cols)
      BY <2>1 DEF Sound, Range
    <3> QED
      BY <2>7, <3>1, <3>2, <3>3 DEF SpeaksOf
  <2> QED
    BY <2>5, <2>6, <2>7
<1> QED
  BY <1>1, BegunInvariant, PTL

-----------------------------------------------------------------------------
(* Pages                                                                   *)

\* Where the n-th page of a list of size names ends, and what it adds to those before it.
EndOf(n, limit, size) == IF n * limit > size THEN size ELSE n * limit

LEMMA NextPage ==
    ASSUME NEW T, NEW list \in Seq(T), NEW limit \in Nat \ {0}, NEW n \in Nat \ {0}, NoName \notin Int
    PROVE  /\ Slice(list, limit, (n - 1) * limit) \in Seq(T)
           /\ SubSeq(list, 1, EndOf(n, limit, Len(list)))
                = Joined(SubSeq(list, 1, EndOf(n - 1, limit, Len(list))),
                         Slice(list, limit, (n - 1) * limit))
           /\ SubSeq(list, 1, EndOf(n, limit, Len(list))) \in Seq(T)
<1> DEFINE size == Len(list)
           start == (n - 1) * limit
           end == IF start + limit > size THEN size ELSE start + limit
<1>1. /\ size \in Nat /\ start \in Nat /\ n * limit = start + limit
      /\ start # NoName /\ limit # NoName
  BY SMTT(30)
<1>2. \A a, b \in Int : 1 <= a /\ b <= size => SubSeq(list, a, b) \in Seq(T)
  <2> TAKE a, b \in Int
  <2>1. \A i \in a..b : 1 <= a /\ b <= size => list[i] \in T
    OBVIOUS
  <2> QED
    BY <2>1, SubSeqProperties
<1>3. Slice(list, limit, start) = SubSeq(list, start + 1, end)
  BY <1>1 DEF Slice
<1>4. EndOf(n, limit, size) = end /\ EndOf(n - 1, limit, size) = IF start > size THEN size ELSE start
  BY <1>1 DEF EndOf
<1> HIDE DEF size, start
<1>5. end \in Nat /\ end <= size
  BY <1>1
<1>6. Slice(list, limit, start) \in Seq(T) /\ SubSeq(list, 1, end) \in Seq(T)
  <2>1. start + 1 \in Int /\ 1 <= start + 1 /\ 1 \in Int /\ 1 <= 1 /\ end \in Int
    BY <1>1, <1>5
  <2> HIDE DEF end
  <2>2. SubSeq(list, start + 1, end) \in Seq(T) /\ SubSeq(list, 1, end) \in Seq(T)
    BY <1>2, <1>5, <2>1, Zenon
  <2> QED
    BY <1>3, <2>2
<1>7. SubSeq(list, 1, end) = Joined(SubSeq(list, 1, IF start > size THEN size ELSE start),
                                    SubSeq(list, start + 1, end))
  <2>1. CASE start < size
    <3>1. start \in 0..size /\ end \in start..size /\ 1 \in 1..(size + 1) /\ ~(start > size)
      BY <1>1, <2>1
    <3>2. SubSeq(list, 1, start) \o SubSeq(list, start + 1, end) = SubSeq(list, 1, end)
      <4>1. start \in (1 - 1)..Len(list) /\ end \in start..Len(list) /\ 1 \in 1..(Len(list) + 1)
        BY <3>1 DEF size
      <4> HIDE DEF end
      <4> QED
        BY <4>1, ConcatAdjacentSubSeq
    <3> QED
      BY <3>1, <3>2 DEF Joined
  <2>2. CASE ~(start < size)
    <3>1. end = size /\ (IF start > size THEN size ELSE start) = size
      BY <1>1, <2>2
    <3>2. SubSeq(list, start + 1, end) = <<>>
      <4>1. start + 1 \in Int /\ end \in Int /\ end < start + 1
        BY <1>1, <2>2, <3>1
      <4> HIDE DEF end
      <4> QED
        BY <4>1, SubSeqEmpty
    <3>3. SubSeq(list, 1, end) \o <<>> = SubSeq(list, 1, end)
      BY <1>6, ConcatEmptySeq
    <3> HIDE DEF end
    <3> QED
      BY <3>1, <3>2, <3>3 DEF Joined
  <2> QED
    BY <2>1, <2>2
<1> HIDE DEF end
<1> QED
  BY <1>3, <1>4, <1>6, <1>7 DEF size, start

\* Pages of a limit, one after the other and as many as there are, give the list.
THEOREM PagesJoin ==
    ASSUME NEW T, NEW list \in Seq(T), NEW limit \in Nat \ {0}, NoName \notin Int,
           NEW count \in Nat, Len(list) <= count * limit
    PROVE  FlattenSeq([n \in 1..count |-> Slice(list, limit, (n - 1) * limit)]) = list
<1> DEFINE page(n) == Slice(list, limit, (n - 1) * limit)
           upto(n) == SubSeq(list, 1, EndOf(n, limit, Len(list)))
           pages == [n \in 1..count |-> page(n)]
           f == [n \in 1..count |-> upto(n)]
<1>1. ASSUME NEW n \in 1..count
      PROVE  page(n) \in Seq(T) /\ upto(n) \in Seq(T) /\ upto(n) = Joined(upto(n - 1), page(n))
  <2>1. n \in Nat \ {0}
    OBVIOUS
  <2> QED
    BY <2>1, IntrospectionAssumption, NextPage
<1>2. upto(0) = <<>>
  <2>1. EndOf(0, limit, Len(list)) = 0
    <3>1. 0 * limit = 0 /\ Len(list) \in Nat
      OBVIOUS
    <3> QED
      BY <3>1 DEF EndOf
  <2> QED
    BY <2>1, SubSeqEmpty
<1>3. upto(count) = list
  <2>1. EndOf(count, limit, Len(list)) = Len(list)
    <3>1. count * limit \in Nat /\ Len(list) \in Nat
      OBVIOUS
    <3> QED
      BY <3>1 DEF EndOf
  <2> QED
    BY <2>1, SubSeqFull
<1> HIDE DEF page, upto
<1>4. /\ DOMAIN pages = 1..count /\ \A n \in 1..count : pages[n] = page(n)
      /\ pages = [n \in 1..count |-> pages[n]]
      /\ DOMAIN f = 1..count /\ \A n \in 1..count : f[n] = upto(n)
      /\ f = [n \in 1..count |-> f[n]]
  OBVIOUS
<1> HIDE DEF pages, f
<1>5. pages \in Seq(Seq(T)) /\ Len(pages) = count
  <2>1. \A n \in 1..count : pages[n] \in Seq(T)
    BY <1>1, <1>4
  <2> QED
    BY <1>4, <2>1
<1>6. ASSUME NEW n \in 1..count PROVE f[n] = Step(f, pages, n)
  <2>1. CASE n = 1
    <3>1. upto(n) = Joined(<<>>, page(n))
      BY <1>1, <1>2, <2>1
    <3>2. Joined(<<>>, page(n)) = page(n)
      BY <1>1, ConcatEmptySeq DEF Joined
    <3> QED
      BY <1>4, <2>1, <3>1, <3>2 DEF Step
  <2>2. CASE n # 1
    <3>1. n - 1 \in 1..count
      BY <2>2
    <3> QED
      BY <1>1, <1>4, <2>2, <3>1 DEF Step
  <2> QED
    BY <2>1, <2>2
<1>7. Joins(f, pages, count)
  BY <1>4, <1>6, Zenon DEF Joins
<1>8. FlattenSeq(pages) = IF count = 0 THEN pages ELSE f[count]
  BY <1>5, <1>7, FlattenIs
<1>9. CASE count = 0
  <2>1. pages = <<>> /\ upto(count) = <<>>
    BY <1>2, <1>5, <1>9
  <2> QED
    BY <1>3, <1>8, <1>9, <2>1 DEF pages, page
<1>10. CASE count # 0
  <2>1. f[count] = list
    BY <1>3, <1>4, <1>10
  <2> QED
    BY <1>8, <1>10, <2>1 DEF pages, page
<1> QED
  BY <1>9, <1>10

\* Some names in their order are a list of as many.
LEMMA SortedList ==
    ASSUME NEW names \in SUBSET (1..4)
    PROVE  /\ Sorted(names) \in Seq(Range(Sorted(names)))
           /\ Len(Sorted(names)) \in 0..4
<1>1. IsFiniteSet(1..4) /\ Cardinality(1..4) = 4
  <2>1. \A a, b \in Int : IsFiniteSet(a..b) /\ Cardinality(a..b) = IF a > b THEN 0 ELSE b - a + 1
    BY FS_Interval
  <2>2. (IF 1 > 4 THEN 0 ELSE 4 - 1 + 1) = 4
    OBVIOUS
  <2>3. 1 \in Int /\ 4 \in Int
    OBVIOUS
  <2> QED
    BY <2>1, <2>2, <2>3, Zenon
<1>2. IsFiniteSet(names) /\ Cardinality(names) \in 0..4
  <2>1. IsFiniteSet(names) /\ Cardinality(names) <= Cardinality(1..4)
    BY <1>1, FS_Subset, Zenon
  <2>2. Cardinality(names) \in Nat
    BY <2>1, FS_CardinalityType
  <2> QED
    BY <1>1, <2>1, <2>2
<1> DEFINE size == Cardinality(names)
           nth(i) == CHOOSE n \in names : Cardinality({m \in names : m < n}) = i - 1
           sorted == [i \in 1..size |-> nth(i)]
<1>3. sorted = Sorted(names)
  BY DEF Sorted
<1> HIDE DEF nth, size
<1>4. size \in 0..4
  BY <1>2 DEF size
<1>5. sorted \in Seq(Range(sorted)) /\ Len(sorted) = size
  <2>1. DOMAIN sorted = 1..size /\ \A i \in 1..size : sorted[i] \in Range(sorted)
    BY DEF Range
  <2> QED
    BY <1>4, <2>1
<1> HIDE DEF sorted
<1> QED
  BY <1>3, <1>4, <1>5

\* The pages of a list of tables make the list, for the types that order the tables or cut
\* one list, and the names, limits and offsets of the property.
THEOREM PagesMakeTheList == Spec => []PagesPartition
<1>1. PagesPartition
  <2> SUFFICES ASSUME type \notin Unordered, NEW names \in SUBSET (1..4), NEW limit \in 1..3,
                      NEW whole, whole = Sorted(names)
               PROVE  /\ FlattenSeq([n \in 1..4 |->
                             CHOOSE p \in Pages(type, names, limit, (n - 1) * limit) : TRUE]) = whole
                      /\ \A offset \in 0..4 : Pages(type, names, NoName, offset)
                                                = {SubSeq(whole, offset + 1, Len(whole))}
    BY DEF PagesPartition
  <2>1. NoName \notin Int
    BY IntrospectionAssumption
  <2>2. \A l, o : Pages(type, names, l, o) = {Slice(whole, l, o)}
    BY DEF Pages, Unpaged, Listings, Unordered
  <2>3. whole \in Seq(Range(whole)) /\ Len(whole) \in 0..4
    BY SortedList
  <2>4. FlattenSeq([n \in 1..4 |-> Slice(whole, limit, (n - 1) * limit)]) = whole
    <3>1. limit \in Nat \ {0} /\ 4 <= 4 * limit
      OBVIOUS
    <3> DEFINE T == Range(whole)
    <3>2. whole \in Seq(T) /\ 4 \in Nat
      BY <2>3
    <3>3. Len(whole) <= 4 * limit
      <4>1. \A m, k \in Int : m \in 0..4 /\ 4 <= k => m <= k
        OBVIOUS
      <4>2. Len(whole) \in Int /\ 4 * limit \in Int
        BY <2>3
      <4> QED
        BY <2>3, <3>1, <4>1, <4>2, Zenon
    <3> HIDE DEF T
    <3>4. ASSUME NEW S, NEW l \in Seq(S), NEW k \in Nat \ {0}, NEW c \in Nat, Len(l) <= c * k
          PROVE  FlattenSeq([n \in 1..c |-> Slice(l, k, (n - 1) * k)]) = l
      <4>1. NoName \notin Int
        BY <2>1
      <4> QED
        BY <4>1, <3>4, PagesJoin
    <3> DEFINE last == 4
    <3>5. last \in Nat /\ Len(whole) <= last * limit
      BY <3>3
    <3> HIDE DEF last
    <3>6. FlattenSeq([n \in 1..last |-> Slice(whole, limit, (n - 1) * limit)]) = whole
      BY <3>1, <3>2, <3>4, <3>5
    <3> QED
      BY <3>6, Zenon DEF last
  <2>5. \A n \in 1..4 : (CHOOSE p \in Pages(type, names, limit, (n - 1) * limit) : TRUE)
                          = Slice(whole, limit, (n - 1) * limit)
    BY <2>2
  <2>6. ASSUME NEW offset \in 0..4
        PROVE  Pages(type, names, NoName, offset) = {SubSeq(whole, offset + 1, Len(whole))}
    BY <2>1, <2>2 DEF Slice
  <2> QED
    BY <2>4, <2>5, <2>6
<1> QED
  BY <1>1, PTL
=============================================================================

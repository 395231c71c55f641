# A model of multi-db-describer

multi-db-describer (irides) describes the tables of many databases: it reads their
structure, documents it with a language model when asked, keeps the result as JSON
files that humans annotate, and derives Markdown and OKF exports. Whole instances are
scanned by a queue of jobs on Redis. This directory holds TLA+ modules of it, TLC
runs of them, and theorems checked by TLAPS.

## The system's parts

| part | code (under src/) | state | operations | hard behaviour |
| --- | --- | --- | --- | --- |
| scan queue | core/db_connector/job_store.py | Redis: a hash and a results list per job, a sorted set of jobs, a stream with one consumer group and its pending entries list (PEL) | enqueue, read_pending, reclaim_abandoned, ack, mark_*, append_result, get_job, get_results, list_jobs | redelivery, lost replies, crashes between calls, idle time, three TTLs that run apart |
| scan worker | worker/src/main.py | the message in hand; the reclaimed batch | _poll, _process, signal handler | crash and restart anywhere, slow messages, order of mark and ack |
| scan executor | worker/src/services/scan_executor_service.py | count and errors of one execution | execute | partial failure: a result stored and not counted; the instance is resolved a second time |
| metadata store | core/db_connector/storage.py | one JSON file per table, on a volume that the API, the workers, CLI and MCP share | save_table_metadata, update_table_metadata, get/find, listings | read-modify-write without a lock, a write that first empties the file |
| artifact store | core/db_connector/exporting/ | Markdown files, OKF concepts, index.md | export | the index is a read of all concepts and then a write |
| cache | core/db_connector/cache_manager.py | Redis keys with a TTL | get_cached_data, set_cached_data | stale fills, keys shared by two servers, calls that fail |
| connectors | core/db_connector/connectors/ | pools of connections; nothing else | list_*, describe_table | a description put together from several queries, a connection that is not given back, what a missing table looks like |
| configuration | core/db_connector/configurations.py, config_service.py, manager.py | environment, a registry of connectors | get_target_configurations, resolve_configurations_for_instance, configuration_matches_instance | a target that is wrong, names that fall together, which configuration owns an instance |
| AI documentation | core/db_connector/ai_service.py | last_error | generate_table_documentation | retries, edges of the retry limit |
| API | api/src/ | none of its own | connect, instances, schemas, tables, describe, scan, metadata routes | one failing table ends a describe halfway; which failure gives which status |
| MCP, CLI, web UI | mcp/, cli/, api/src/static | none | translate calls | none |

How they interact. `POST /scan` resolves the configuration of the instance and calls
JobStore.enqueue. A worker reads or reclaims the message, resolves the scope again, and
ScanExecutorService describes each table through a connector (and its cache), appends the
result, and saves it to the metadata store, which exports it. The worker then marks the
job and acknowledges the message. Clients poll the job's hash. `POST /describe` walks the
same configurations, instances, schemas and tables in a thread of the API
(asyncio.to_thread), saving as it goes, while the other routes run one at a time on the
event loop. `PATCH /metadata/...` edits the same JSON files that scans rewrite.

What makes each part correct: a job ends, once, with a status that is true of its
results, and can be read for as long as its TTL says (queue, worker, executor); what
humans wrote survives scans, a document can always be read, exports and index follow the
documents (stores); a cached answer is of the server that was asked and no older than the
last refresh (cache); as many connections are returned as are taken, and a description is
of one table that exists (connectors); an instance is found in each configuration that
owns it (configuration); a request gets all that it asked for or a status that says why
not (API).

## The modules

| module | what it is |
| --- | --- |
| ScanJobs | abstract specification: the record of a job as `GET /scan/{id}` shows it, without messages or workers |
| ScanQueue, MCScanQueue | the stream, the PEL, the job records, the worker's loop and the executor |
| ScanQueueProofs, ScanExclusionProofs, ScanResultsProofs | theorems about ScanQueue |
| JobRecords, MCJobRecords | the keys of a job with their TTLs, the list of jobs, and the reads of the API |
| JobRecordsProofs | theorems about JobRecords |
| ArtifactStore | the export files and the OKF index, as state and effects |
| MetadataDocs | abstract specification: a document per table that changes as a whole |
| MetadataStore, MCMetadataStore | FileMetadataStore, step by step, composed with ArtifactStore |
| MetadataStoreProofs | theorems about MetadataStore, among them that it implements MetadataDocs |
| Connectors | operators: cache keys, checks, queries and failures of each connector, and what each query makes of a table |
| Introspection, MCIntrospection | threads that run the operations of a connector through the cache and the pools |
| IntrospectionProofs | theorems about Introspection |
| Targets | operators: from the environment to the configurations |
| ConfigResolution | operators: the instances of a configuration and the configurations of an instance |
| AiDocumentation | operators: one call of generate_table_documentation, attempt by attempt |
| Requests, MCRequests | a request to the API from the configurations to the answer, composed of the three above and Connectors |
| RequestsProofs | theorems about Requests and the operators it is composed of |
| ListLemmas | lemmas about numbers and about lists put together, for the proof modules |

An MC module holds the instances of its module for TLC. Definitions whose comment starts
with "Mutant" are wrong versions of the definition that follows them. No specification
uses them; each shows that a property notices that bug.

### ScanQueue

A stream entry and its job are one number, since `enqueue` writes both in one
transaction. `owner`, `idle` and `delivered` are the consumer group: owner[e] is the
consumer of a pending entry (None: not in the PEL), idle holds the entries that
min_idle_ms (30 s) have passed for, delivered is the group's last-delivered id. `status`,
`resultCount`, `error`, `results` are the job's hash and list; `worker[c]` is the local
state of the process with consumer name c. One step of a worker is one call to Redis or
one table of the scan:

| actions | code |
| --- | --- |
| Enqueue, EnqueueForeign | JobStore.enqueue; an entry without a job_id |
| Start | the worker's constructor: _ensure_stream_group, which goes on without Redis |
| ListPending, Claim | reclaim_abandoned: XPENDING and filter, then XCLAIM |
| Read, ReadNothing | read_pending: XREADGROUP |
| SkipForeign, MarkRunning | the head of _process |
| DescribeTable, DescribeFails, SaveFails | one round of the inner loop of execute, with its `except` |
| ConfigFails, ExecuteRaises | the outer `except` of execute; an exception before its loop |
| Finish, MarkFailed, Ack | the rest of _process |
| ListPendingFails, ClaimFails, ReadFails, FinishFails | a Redis call raises, before or after Redis has applied it |
| BecomeIdle | time passes |
| Stop, Crash | SIGTERM; SIGKILL, or an exception outside execute's try |

A worker that restarts keeps its consumer name: it is the host name and process id, and
a restarted container keeps both (`restart: always` in worker/docker-compose.yml).

Bounds: NumEntries, NumTables, MaxRestarts (crashes and stops), MaxLost (failed calls)
and MaxSlow (messages that become idle while a live worker holds them). With MaxSlow = 0
a worker is done with each message within min_idle_ms; several properties hold under
that assumption only, and a run shows what happens without it. ClaimCount is
reclaim_abandoned's count, 10 in the code and smaller here so that the window fills.

Abstractions: the scope of a job is a fixed sequence of tables with their configurations;
the order and the outcomes of the loops are kept, the listing calls are not steps of their
own, and TTLs are left to JobRecords. A reclaimed batch is processed in the order of its
ids, the order in which XPENDING lists it.

### JobRecords

The same keys seen over days. `record[j]` is the hash (None when there is none): its
result_count, and whether the fields of `enqueue` are there, since a mark alone (HSET)
brings back an expired hash without them and without a TTL. `results[j]` is the length of
the list, `listed` the sorted set. recordEnd, resultsEnd and listedEnd say when Redis drops
them; Tick advances the clock and drops them. A tick stands for any good part of
RESULTS_TTL, and steps between two ticks for anything that happens meanwhile.

| actions | code |
| --- | --- |
| Create, Enqueue | the id and created_at of a job; the transaction of JobStore.enqueue, which may come later |
| MarkRunning, AppendResult, MarkEnd | the worker's writes, with a second execution after a crash |
| GetJob, GetResults | GET /scan/{id}: the hash, then the list |
| ListIds, ReadListed, ListDone | GET /scans: ZREVRANGE with its limit, then one get_job per id |
| Reply | the response |

`reader` is one request: what it has read so far. `expired` and `known` observe whether a
list expired since the request began and which jobs it had to find. One reader is enough:
readers change nothing.

### MetadataStore, ArtifactStore

`file[c]` is the JSON file of one table in configuration c: Absent, a record, or Torn
(not JSON). Paths has one member per configuration that owns a table of the same
instance, schema and name, because an edit finds its file by those names only.
An operation reads and computes (Save, SaveUnchanged, Patch), opens the file, which
empties it (Open), writes it (Flush), and exports: ExportMarkdown, ExportConcept,
ListBundle, WriteIndex. WriteFails is a write that raises, Abort an export that raises or
a process that is killed. Where two processes had a file open at once the outcome is the
writer's text or no JSON: the longer of two texts can show behind the shorter one. The
event loop of the API, which serves the edits, is one process (Editors); describes in the
API's threads and scans in workers are the others.

`noted`, `disturbed` and `bundleDisturbed` observe: the owner that the last stored edit
gave, the paths on which a read-modify-write overlapped another or was cut after the file
was emptied, and whether that happened to the index. They guard nothing. The owner stands for
all custom fields. An edit gives any of the fields a value, the schema description and the AI
documentation too; a null, which takes one away, is not among the values. MaxOps and MaxFaults
bound operations and faults.

### Connectors, Introspection

A table is a record of what the queries look at: its columns in order, NOT NULLs, keys,
foreign keys, indexes and partitions, each column a number. A server goes through a
`history` of definitions of one table; a query is known by the version it ran on. That is
all the data the properties need: an answer is the list of the versions its queries found,
and Describe(type, ...) is the TableDescription that the connector makes of those.

| actions | code |
| --- | --- |
| Ask | the head of an operation: get_cached_data unless no_cache, then the check of the instance |
| Take, Query, QueryFails | getconn or get_connection; execute and fetch; the `finally` that gives the connection back |
| Store | set_cached_data |
| Return | the answer or exception reaches the caller |
| Alter, Break, Expire | a table is altered or dropped, a server ends its connections, a key's time is over |

Connectors says, for each of the eight types, which coordinates are part of a cache key
(KeyPlace), what is refused (Rejects), the queries of an operation in their order
(Queries), what makes a query raise (Undescribable, Optional), and what it makes of the
definition: MysqlColumns, PostgresForeignKeys, DuckdbIndexes and so on, one per query.
`floor` and `raced` observe the last stored refresh of a key and whether an introspection
that began before it has stored its own answer after it; a call carries both as they were
when it asked.

### Targets, ConfigResolution, AiDocumentation, Requests

Targets turns DB_TARGETS and the variables into configurations, parameter by parameter
with the names tried, the conversion and the default of each. Names are sequences of words,
so that two target names with one key, or a suffix of one that continues the key of another,
are told apart or not as in the code. ConfigResolution is ConfigService. AiDocumentation
is the loop of attempts as a function from the state of a call to its next states.

Requests has one action per round of a loop of the API services: NextConfig, NextInstance,
NextSchema (`todo` holds what is left of each loop), DescribeTable, Document, Collect, Save,
Finish; Resolve, Reject, Enqueue for POST /scan and Execute for what the worker makes of
the scope; DropCatalog, because catalogs can go in between. Raise is the way out of any of
them: the exception's class decides the status, as in the `except` clauses of main.py. A call
raises because a fault makes it (Fails), because the connector refuses what it is asked
(Refused) or because its query is of something that is not there or is no SQL (QueryRaises:
a catalog, a table, a database of Glue, SQLite's OFFSET without LIMIT). The limit and the offset
of POST /tables are any integers, or none. The service has one request at a time: what
requests share is in Introspection, MetadataStore and ScanQueue.

## The runs

| run | shows | instance |
| --- | --- | --- |
| scan_safety | TypeOK, ExclusiveExecution, AckedIsTerminal and ImplementsScanJobs: with no slow message no two live workers hold one, an acknowledged job is final, and the pipeline implements ScanJobs | 2 workers, 2 jobs and a foreign entry between them, 2 tables of 2 configurations, 1 restart, 1 failed call |
| scan_slow | CompletedMeansDescribed, ResultsBackTheCount, OneDeliveryIsExact, TerminalLeftByRedelivery: what stays true when a message is executed by two workers at once | 2 workers, 1 job, 3 tables, 1 slow message, 1 restart, 1 failed call |
| scan_liveness | EveryJobEnds | 2 workers, 2 jobs, 2 restarts, 2 failed calls |
| scan_reclaimed_twice | ExclusiveExecution fails with one slow message | 2 workers, 1 job, no fault |
| scan_same_name | EveryJobEnds fails with a single worker: it never reclaims its own entry | 1 worker, 1 restart |
| scan_left_running | EveryJobEnds fails: one worker acknowledges what another re-executes and then loses in a crash | 2 workers, 1 slow, 1 restart |
| job_records | RecordsTypeOK, KeptIsListed, ResultsOutliveRecord, AnswerIsBacked, ListIsNewest, EnqueueHeals | 3 jobs, one of them executed up to twice, a TTL of 2 ticks in 3, limits -1 to 1 |
| store | StoreTypeOK, Readable, AnnotationsKept, IndexComplete, ExportsAgree, ImplementsDocs | the API's edits and two processes that save, 2 documents, 2 schemas, 3 operations, 1 fault |
| store_annotation_lost | AnnotationsNeverLost (README.md:165 without a condition) fails | the edits and a scan, no fault |
| store_index_lost | IndexMaintained (README.md:95) fails | 2 scans, 2 operations, no fault |
| introspection | IntrospectionTypeOK, AnswerFromOwnServer, RefreshHolds, SlotsReturned over all operations; EmptyHasReason, PartsAgree, ForeignKeysReported, DescriptionExact of describe_table; PagesPartition | 2 threads, 2 servers, pools of 1, 1 fault, 2 definitions, 1 to 4 calls; for each type and operation |
| requests | RequestsTypeOK, StartsWhole, TargetsApart, OwnersResolve, AnswerIsScope, SavedKeepsUp, AiNeverBlocks, OnlyOwnersAnswer, ScanReachesOwners, FailuresExplained | 10 environments of one or two targets that cover all types, every kind of request, with limits and offsets from -1 to 1 and without, 0 or 2 retries, 1 fault |

Why the bounds are enough. Two jobs make the PEL window of one entry hide the other; two
tables of two configurations separate the inner and the outer `except`; one restart and one
failed call let each of them fall between any two steps. In the liveness run two calls fail, so
that both workers can have started without making the consumer group, the case in which a job waits
for ever and that EveryJobEnds has to except. Three operations on documents are
a scan, an edit and another scan, the shortest history that loses an annotation or reveals
a stale export. Three jobs and a clock that passes the TTL once let the third submission
prune the first job while the second stays. Two threads and two definitions give every
order of a stale fill and a torn description, and the definitions are chosen to differ in what
one connector and another make of them: composite and namesake foreign keys, expressions in
indexes and partitions, keys out of column order, an implicit reference. Two
targets are the fewest that share a host, a key or a name. Consumers, paths, schemas, threads
and servers are symmetric where no run distinguishes them; the liveness runs use no symmetry.
The runs with CHECK_DEADLOCK FALSE end when their operations, calls or the request are used up.

Fairness (FairSpec). Weak fairness of each worker's Progress: the loop in ScanWorker.start
never stops by itself. That each call in it returns or raises is an assumption: the client of
JobStore has a timeout for connecting and none for answers (job_store.py:45-52), so a Redis
that accepts a command and never answers would hold the worker, which no run shows. Of Start:
containers have `restart: always`. Of BecomeIdle: time passes. None of Fault: crashes
and lost replies need not happen, and are bounded in each run. Enqueue is not fair. The other
components have no liveness of their own: a request or an operation that is not cut runs
straight to its end.

What the violations show is in PROJECT.json under "findings", each with the line that
says otherwise. Some properties hold only with an exception, named in their comments,
which is a peculiarity of the code:

- 503 "Queue unavailable" (main.py:267) is for Python's ConnectionError. redis-py's is another
  class, so an unreachable Redis gives 500, and 503 says that a database could not be
  reached while the instance was resolved (FailuresExplained).
- The instances of Trino and Presto are catalogs, while a configuration with a host is
  matched by the host: what POST /instances lists POST /scan rejects (OwnersResolve).
- The consumer group is made by the constructor of JobStore only, and a failure there is logged.
  If it fails in the API and in every worker, submissions are accepted and each read of a worker
  is answered NOGROUP, which read_pending turns into "no messages": jobs wait until some process
  starts again (EveryJobEnds is of the jobs for which the group is there).
- An offset without a limit is a syntax error in SQLite, and POST /tables answers it with 500; a
  catalog that Trino or Athena does not have gives 500 as well, where the other connectors
  refuse the instance with 400 (FailuresExplained).
- With an instance and no configuration, POST /describe asks every configuration, and the first
  that does not own it ends the request (FailuresExplained).
- MySQL, Athena and DynamoDB leave the port, the user or the endpoint out of their cache keys
  (AnswerFromOwnServer is not for them).
- PostgreSQL, SQLite and Trino describe a table that is not there as one without columns, and
  cache that (EmptyHasReason). PostgreSQL and DuckDB add pairs to composite foreign
  keys (ForeignKeysReported).
- A query on a broken connection costs PostgreSQL's pool a slot for good (SlotsReturned).
- A mark on a job whose hash has expired makes GET /scans fail until the next submission
  (EnqueueHeals); a limit of 0 lists every job (ListIsNewest).

## The theorems

All are proved for any values of the constants, from the named assumptions of the modules
(ConsumersAssumption, SizesAssumption, ConfigOfAssumption; RecordsAssumption;
ValuesAssumption, StoreAssumption; IntrospectionAssumption, DefinitionsAssumption;
RequestsAssumption). Each rests
on an inductive invariant, which is what the text below is about. ListLemmas has what they
share: FlattenSeq, by which the loops that collect lists are modelled, is taken apart at its
first and its last list, and a set of natural numbers has a least member (Least), from which
each fact about lists of any length is proved as a set of lengths without a counterexample.

The scan pipeline:

- TypeCorrect (ScanQueueProofs): Spec => []TypeOK. TypeOK is inductive with the bookkeeping
  it contains: only delivered entries are in the PEL or held by a worker, only entries of
  the PEL are idle, and an execution has counted fewer tables than its position.
- Exclusive (ScanExclusionProofs): with MaxSlow = 0, no two workers hold one message.
  Exclusion alone is not inductive: a claim or an acknowledgement could break it. The
  invariant HeldIsOwned adds that a held message is owned by its holder and not idle, so
  XCLAIM, which takes idle entries only, never takes a held one.
- AckedTerminal (ScanExclusionProofs): with MaxSlow = 0, an acknowledged job has a terminal
  status and nobody works on it. The invariant MarkedBeforeAck adds that a worker at its
  ack has a terminal mark in the record, which no other worker can have touched, by
  Exclusive.
- CompletedDescribed (ScanResultsProofs): completed means that every table has a result and
  was counted, with no assumption on slow messages. The invariant says of each execution
  without an error that it has counted, and has stored a result for, every table it passed;
  results only grow, so what other executions do cannot break it.
- CountBackedByResults, OneDeliveryExact, TerminalLeft (ScanResultsProofs), with no
  assumption on slow messages either. For the first, CountBacked says that what an execution
  has counted is no more than the results it has passed, and a mark of any execution carries
  such a count. For the second and the third, an action property, FirstDelivery says of a job that
  XCLAIM has not moved that one worker at most has it, that nothing has happened to it while
  it waits, that its results are in the order of the scan and of tables that the worker has
  passed, and that a terminal status in the except branch is a mark whose reply was lost.
- PipelineImplementsScanJobs (ScanExclusionProofs): with MaxSlow = 0, Spec =>
  ImplementsScanJobs. A job is open while its entry is not settled, and its record is its hash
  and its list; each step of Next is shown to be a step of ScanJobs or to leave the client's
  view alone. By HeldIsOwned a worker's job is open, and by MarkedBeforeAck its acknowledgement
  retires a job with a terminal record.

The records of jobs:

- RecordsTypeCorrect, JobsKept, ResultsKept, AnswersBacked, SubmissionHeals
  (JobRecordsProofs), for any TTL. The invariant RecordsInv orders the three expiries: while
  a job is younger than the TTL its hash and the sorted set are there and end no earlier than
  that, and a whole hash ends within a TTL from now and no later than its list, since every
  result renews the list and no mark renews the hash. What the hash counts, and what the
  execution under way has counted, is in the list; a request in progress adds that the count
  it has read is still backed unless the list expired. The bound on the length of a list
  is inductive only together with the number of executions begun.
- ListsNewest (JobRecordsProofs). ListInv says of GET /scans in progress that the jobs found
  so far are in descending order and newer than those still to be read, that together they are
  no more than the limit, and that each of the newest known at the beginning is among them or
  has expired. It needs that the numbers of jobs follow created_at, and that the newest n of a
  set with more than n members are its n greatest, which Least and NewestAtMost prove.

The stores:

- StoreTypeCorrect, DocumentsReadable, AnnotationsSurvive, IndexIsComplete
  (MetadataStoreProofs). The invariant StoreInv says of each undisturbed document that at
  most one operation is between its read and its write, that the record it will write was
  made from what the file holds, and that the file is no JSON exactly while
  that operation has it open; and the like of the index.
- StoreImplementsDocs (MetadataStoreProofs): Spec => ImplementsDocs. A document counts as
  changed when the file is opened (Doc maps an open file to the record about to be
  written), a disturbed document is Unknown, and every other step is a stutter; that
  the record follows from the document as it was is DocOK of StoreInv.

- ExportsOfTheDocument (MetadataStoreProofs), an action property: an operation that no other
  has met is the only one at its path, so that what it exports is what it stored and what the
  file still has when it ends.

The connectors, with cache and pools:

- IntrospectionTypeCorrect, OwnServerAnswers, RefreshIsKept, SlotsComeBack
  (IntrospectionProofs), for any number of threads, servers and calls. The invariant IInv says
  of an entry in the cache that it is of a server with its key and no older than the last
  refresh stored under the key, unless `raced`; of a thread, that its reading began no earlier
  than the refresh it knows of, and that it holds a connection only while it queries; and
  of a pool, that what has left it is what its queries hold, once no connection is lost.
  PostgreSQL, MongoDB and Trino have a key per server, hence OwnServerAnswers.
- EmptyIsExplained (IntrospectionProofs), for any histories of a table. IInv does not say what
  the queries of a call found; BegunWell adds that whoever is past the first query, and every
  description in the cache, began with a definition that the type does not refuse (the check
  for a missing table, or for a $jsonSchema, is made on the first answer only: an alteration
  meanwhile cannot undo it), and that an answer has a version for each query of its call.
- EveryForeignKeyReported, PlainTablesExact (IntrospectionProofs), for any definition of a
  table. With BegunWell, queries that found one version found one definition (UntornFound);
  the rest is about what each connector makes of it: the columns keep their order
  (ColumnsExact), PostgreSQL's and DuckDB's join of information_schema covers the rows of the
  constraints (JoinedRowsCover) and in a plain table adds none (JoinedRowsArePairRows), and
  indexes without expressions come whole (IndexesExact). DefinitionsAssumption is what any
  database sees to: columns are in an order, an index has a column or an expression, and the
  constraints of a table differ in their names.
- PartsSpeakOfColumns (IntrospectionProofs), for any definition of a table. SpeaksOf is the
  property for one description, and is proved of what each connector makes of one
  definition: JoinedRowsAre says what the rows of PostgreSQL's and DuckDB's join are, OnlyOf
  what is left of an index or a partition without its expressions, and FirstPart and
  FirstExpression what is left when the parts are cut at one. DefinitionsAssumption adds, for this,
  that the key, the foreign keys and (in MongoDB not) the indexes of a table are of its
  columns, and that a table of DynamoDB has a partition key.
- PagesMakeTheList (IntrospectionProofs) rests on PagesJoin: for a list and a limit of any size, the
  first n pages put together are the list up to n times the limit, or all of it.

The requests:

- RequestsTypeCorrect, ServiceStartsWhole, VariablesNeverShared, ListedInstancesResolve,
  DocumentsNeverBlock, AnswersFromOwners, FailuresHaveReasons (RequestsProofs), for any
  environments, content, requests and number of failures. VariablesNeverShared is a
  fact about names: the last word of each suffix that a parameter is read from tells how many words
  the suffix has (LastWords), so that a variable determines the key of its target.
  The others are parts of RequestsInv: Control (the status and the failures so far agree), Loops
  (what the loops hold), CallOK (the call to the model is one
  that generate_table_documentation can have made), Owners (what is answered or about to be is of a
  configuration that owns the instance) and Reasons: unless the request names
  something that a configuration it walks does not have (Missing), the walk is at instances,
  schemas and tables that were listed (AtListed), where only the page or the description of a bad
  table is refused and only SQLite's offset raises; and resolve has
  passed only configurations that do not match. The assumptions are that requests have
  the kinds of main.py, each with the fields that its route takes, that AI documentation
  is for describe only, that the schemas of a database differ in their names, and that
  SQLite and DynamoDB have one schema.
- ScansGoToOwners (RequestsProofs). ScanInv says of a request for an instance, while both
  catalogs are there, that resolve has found owners only and that every owner is found or
  left to resolve; that the job in the queue names the one owner, or none for the worker to
  resolve again; and that the worker's resolution gives all of them (ScopeIsOwning).
- StoredKeepsUp (RequestsProofs). SavedInv is the property with the tables that are lost as
  its witness: Collect adds the table to the answer and, until it is written, to those; a
  failed write leaves it there and counts a failure.
- AnswersAreWhole (RequestsProofs). The answer alone says nothing of what is still to come,
  so WholeInv says that the answer followed by Pending, which is what the four
  loops have left from the innermost to the outermost, is what was asked for. Each action moves
  one item from one loop to the next (FirstConfig to FirstTable), and with the loops empty
  Pending is (NothingLeft).

Three properties were wrong as first stated, and the attempt to prove them showed it where the
instances did not. RefreshHolds took a race to be visible when the answer arrives; with four calls
it can be over by then, and a call now carries what it knew when it asked.
FailuresExplained said at first that a rejected scan names an instance that no configuration lists;
a Trino target alone is rejected with a catalog that it does list, so it is now about matching.
EmptyHasReason took every description without columns to be of a missing table; a table may
have none, and a MongoDB $jsonSchema need not name a property. The three cases are among the
runs.

Only model-checked:

- EveryJobEnds: liveness and ENABLED are beyond the prover.

SelectSeq and SortSeq are opaque to the prover: Connectors selects with FlattenSeq (Only) and
orders names by how many come before each (Sorted), which say the same and can be reasoned about.

## Plan

Done: the scan pipeline, the records of jobs, the stores with their refinement, the
connectors with cache and pools, the configurations, the requests; and the theorems above,
which state every property of the passing runs except EveryJobEnds. Worth adding when
the code changes there:

1. The collisions of sanitised names, as a map from tables to paths in MetadataStore.
2. The listings of metadata, with documents that come and go between two pages.

## Not modelled

- The rendering of Markdown and YAML, and the parsing of front matter: layout. ArtifactStore
  names what an export keeps of a record.
- The web UI, MCP and CLI: they keep no state and translate calls to those modelled.
- The listings of metadata (GET /metadata): they read the names of files and directories, page
  by page, and change nothing.
- The replacement of characters in file names, and the quoting of identifiers in SQL: conversions
  of strings that no property here is about.
- Types, comments and defaults of columns; the prompt to the language model and the removal of
  code fences; logging.

Redis, the databases, the file system and the clock are modelled from how the code uses
them: XREADGROUP, XPENDING, XCLAIM and XACK by their effect on the PEL, a key with a TTL as
gone when its time is over, `open` with "w" as emptying the file, os.replace as atomic, a
query as a read of the present definition.

----------------------------- MODULE JobRecords -----------------------------
(***************************************************************************)
(* The keys that JobStore keeps for a scan job, and how long they live: a  *)
(* hash that expires RESULTS_TTL after the submission, a results list that *)
(* every result renews, and a sorted set of all jobs, pruned and renewed   *)
(* by each submission.  Redis drops a key when its time is over, whatever  *)
(* the worker still does with it.  The API reads the keys one at a time    *)
(* (GET /scan/{id} with include_results, GET /scans).                      *)
(*                                                                         *)
(* Jobs are numbered in the order of created_at, which is also the order   *)
(* of their scores.  A tick is a good part of the seven days.              *)
(***************************************************************************)
EXTENDS Integers, Sequences, FiniteSets

CONSTANTS
    NumJobs,     \* bound on the jobs submitted
    TTL,         \* RESULTS_TTL, in ticks
    MaxTime,     \* bound on the clock
    NumTables,   \* tables that an execution describes at most
    Scanned,     \* the jobs that a worker gets to
    MaxRuns,     \* bound on the executions of a job: the first and the reclaimed
    Limits,      \* limits that GET /scans is called with
    None

ASSUME RecordsAssumption ==
    /\ NumJobs \in Nat /\ MaxTime \in Nat /\ NumTables \in Nat /\ MaxRuns \in Nat
    /\ TTL \in Nat \ {0}
    /\ Limits \subseteq Int /\ Scanned \subseteq 1..NumJobs
    /\ None \notin [count : 0..NumTables, whole : BOOLEAN]

Jobs == 1..NumJobs

VARIABLES
    now,
    submitted,    \* jobs created so far; created[j] is the time of each
    created,
    enqueued,     \* those whose transaction Redis has executed
    record,       \* the hash of each job, or None
    recordEnd,    \* when it expires; Never for a hash without a TTL
    results,      \* the length of the results list (0: no list)
    resultsEnd,
    listed,       \* the members of the sorted set
    listedEnd,
    execution,    \* what a worker is doing for each job
    reader        \* what the API is answering

keys == <<record, recordEnd, results, resultsEnd, listed, listedEnd>>
vars == <<now, submitted, created, enqueued, keys, execution, reader>>

\* The fields of the hash that matter here: result_count (0 when unset), and
\* whether all the fields of enqueue are there; a mark alone leaves no job_id.
Record == [count : 0..NumTables, whole : BOOLEAN]

Never == MaxTime + TTL + 1

\* The local state of a request: the next read, what was read, the answer.
Unread == [pc |-> "idle", job |-> 0, count |-> 0, results |-> 0,
           expired |-> FALSE,   \* has a results list expired meanwhile?
           limit |-> 1, known |-> {}, rest |-> {}, jobs |-> <<>>]

Waiting == [pc |-> "waiting", count |-> 0, runs |-> 0]

Init ==
    /\ now = 0 /\ submitted = 0
    /\ created = [j \in Jobs |-> 0] /\ enqueued = {}
    /\ record = [j \in Jobs |-> None] /\ recordEnd = [j \in Jobs |-> 0]
    /\ results = [j \in Jobs |-> 0] /\ resultsEnd = [j \in Jobs |-> 0]
    /\ listed = {} /\ listedEnd = 0
    /\ execution = [j \in Jobs |-> Waiting]
    /\ reader = Unread

\* Redis drops the keys whose time is over.
Tick ==
    /\ now < MaxTime
    /\ now' = now + 1
    /\ record' = [j \in Jobs |-> IF recordEnd[j] <= now' THEN None ELSE record[j]]
    /\ results' = [j \in Jobs |-> IF resultsEnd[j] <= now' THEN 0 ELSE results[j]]
    /\ listed' = IF listedEnd <= now' THEN {} ELSE listed
    /\ reader' = [reader EXCEPT !.expired = @ \/ results' # results]
    /\ recordEnd' = [j \in Jobs |-> IF recordEnd[j] <= now' THEN 0 ELSE recordEnd[j]]
    /\ resultsEnd' = [j \in Jobs |-> IF resultsEnd[j] <= now' THEN 0 ELSE resultsEnd[j]]
    /\ listedEnd' = IF listedEnd <= now' THEN 0 ELSE listedEnd
    /\ UNCHANGED <<submitted, created, enqueued, execution>>

-----------------------------------------------------------------------------
(* POST /scan: ScanService.enqueue_scan and JobStore.enqueue               *)

\* The job gets its id and created_at; the call to Redis may take its time.
Create ==
    /\ submitted < NumJobs
    /\ submitted' = submitted + 1
    /\ created' = [created EXCEPT ![submitted'] = now]
    /\ UNCHANGED <<now, enqueued, keys, execution, reader>>

\* Mutant: < for <=.
Pruned_TooFew(t) == {j \in Jobs : created[j] < t - TTL}

\* Mutant: RESULTS_TTL is not taken off.
Pruned_All(t) == {j \in Jobs : created[j] < t}

\* zremrangebyscore -inf .. created_at - RESULTS_TTL
Pruned(t) == {j \in Jobs : created[j] <= t - TTL}

\* The transaction, as a whole.
Enqueue(j) ==
    /\ j <= submitted /\ j \notin enqueued
    /\ enqueued' = enqueued \cup {j}
    /\ record' = [record EXCEPT ![j] = [count |-> 0, whole |-> TRUE]]
    /\ recordEnd' = [recordEnd EXCEPT ![j] = now + TTL]
    /\ listed' = (listed \cup {j}) \ Pruned(created[j])
    /\ listedEnd' = now + TTL
    /\ UNCHANGED <<now, submitted, created, results, resultsEnd, execution, reader>>

-----------------------------------------------------------------------------
(* The worker's writes                                                     *)

\* Mutant: the mark renews the TTL of the hash.
HSet_Renews(j, count) ==
    /\ record' = [record EXCEPT ![j] =
                    [count |-> count, whole |-> record[j] # None /\ record[j].whole]]
    /\ recordEnd' = [recordEnd EXCEPT ![j] = now + TTL]

\* Mutant: HINCRBY for HSET.
HSet_Adds(j, count) ==
    /\ record' = [record EXCEPT ![j] =
                    [count |-> count + (IF record[j] = None THEN 0 ELSE record[j].count),
                     whole |-> record[j] # None /\ record[j].whole]]
    /\ recordEnd' = IF record[j] = None THEN [recordEnd EXCEPT ![j] = Never] ELSE recordEnd

\* HSET of a hash that has expired creates one with these fields and no TTL.
HSet(j, count) ==
    /\ record' = [record EXCEPT ![j] =
                    [count |-> count, whole |-> record[j] # None /\ record[j].whole]]
    /\ recordEnd' = IF record[j] = None THEN [recordEnd EXCEPT ![j] = Never] ELSE recordEnd

StoredCount(j) == IF record[j] = None THEN 0 ELSE record[j].count

\* mark_running, on the first delivery or when the message is reclaimed: the
\* execution before this one, if it has not ended, was cut by a crash.
MarkRunning(j) ==
    /\ j \in enqueued \cap Scanned
    /\ execution[j].runs < MaxRuns
    /\ HSet(j, StoredCount(j))
    /\ execution' = [execution EXCEPT ![j] =
                       [pc |-> "running", count |-> 0, runs |-> execution[j].runs + 1]]
    /\ UNCHANGED <<now, submitted, created, enqueued, results, resultsEnd, listed,
                   listedEnd, reader>>

Running(j) == execution[j].pc = "running"

\* Mutant: a result that could not be stored is counted.
AppendResult_Dropped(j) ==
    /\ Running(j) /\ execution[j].count < NumTables
    /\ execution' = [execution EXCEPT ![j].count = @ + 1]
    /\ UNCHANGED <<now, submitted, created, enqueued, keys, reader>>

\* append_result: every result renews the list.
AppendResult(j) ==
    /\ Running(j) /\ execution[j].count < NumTables
    /\ results' = [results EXCEPT ![j] = results[j] + 1]
    /\ resultsEnd' = [resultsEnd EXCEPT ![j] = now + TTL]
    /\ execution' = [execution EXCEPT ![j].count = @ + 1]
    /\ UNCHANGED <<now, submitted, created, enqueued, record, recordEnd, listed, listedEnd,
                   reader>>

\* mark_completed and mark_partial write the count, mark_failed does not.
MarkEnd(j) ==
    /\ Running(j)
    /\ HSet(j, execution[j].count) \/ HSet(j, StoredCount(j))
    /\ execution' = [execution EXCEPT ![j].pc = "waiting"]
    /\ UNCHANGED <<now, submitted, created, enqueued, results, resultsEnd, listed,
                   listedEnd, reader>>

-----------------------------------------------------------------------------
(* The API's reads: one call to Redis per step                             *)

Readable(j) == record[j] # None /\ record[j].whole

\* GET /scan/{id}: 404 without a hash, 500 without a job_id in it; with
\* include_results the list is read after the hash.
GetJob(j) ==
    /\ reader.pc = "idle"
    /\ j \in enqueued
    /\ reader' = IF ~Readable(j) THEN [Unread EXCEPT !.pc = "failed"]
                 ELSE [Unread EXCEPT !.pc = "results", !.job = j, !.count = record[j].count]
    /\ UNCHANGED <<now, submitted, created, enqueued, keys, execution>>

GetResults ==
    /\ reader.pc = "results"
    /\ reader' = [reader EXCEPT !.pc = "job", !.results = results[reader.job]]
    /\ UNCHANGED <<now, submitted, created, enqueued, keys, execution>>

\* The members of S above all but n - 1 of it.
Newest(S, n) == {j \in S : Cardinality({k \in S : k > j}) < n}

\* zrevrange 0 .. limit - 1, where an end below zero counts from the last member:
\* a limit of 0 is no limit, one of -1 leaves the oldest out.
ZRevRange(limit) ==
    Newest(listed, IF limit >= 1 THEN limit ELSE Cardinality(listed) + limit)

\* GET /scans, the ids.
ListIds(limit) ==
    /\ reader.pc = "idle"
    /\ reader' = [Unread EXCEPT !.pc = "list", !.limit = limit, !.rest = ZRevRange(limit),
                                !.known = {j \in enqueued : now < created[j] + TTL}]
    /\ UNCHANGED <<now, submitted, created, enqueued, keys, execution>>

\* Mutant: the ids are taken in the order of the set.
ReadListed_Oldest ==
    /\ reader.pc = "list"
    /\ \E j \in reader.rest :
          /\ \A k \in reader.rest : j <= k
          /\ reader' = IF record[j] # None /\ ~Readable(j) THEN [Unread EXCEPT !.pc = "failed"]
                       ELSE [reader EXCEPT !.rest = @ \ {j},
                               !.jobs = IF record[j] = None THEN @ ELSE Append(@, j)]
    /\ UNCHANGED <<now, submitted, created, enqueued, keys, execution>>

\* One get_job: an expired job is left out, one without a job_id fails the whole
\* request.
ReadListed ==
    /\ reader.pc = "list"
    /\ \E j \in reader.rest :
          /\ \A k \in reader.rest : j >= k
          /\ reader' = IF record[j] # None /\ ~Readable(j) THEN [Unread EXCEPT !.pc = "failed"]
                       ELSE [reader EXCEPT !.rest = @ \ {j},
                               !.jobs = IF record[j] = None THEN @ ELSE Append(@, j)]
    /\ UNCHANGED <<now, submitted, created, enqueued, keys, execution>>

ListDone ==
    /\ reader.pc = "list" /\ reader.rest = {}
    /\ reader' = [reader EXCEPT !.pc = "jobs"]
    /\ UNCHANGED <<now, submitted, created, enqueued, keys, execution>>

\* The response is sent.
Reply ==
    /\ reader.pc \in {"job", "jobs", "failed"}
    /\ reader' = Unread
    /\ UNCHANGED <<now, submitted, created, enqueued, keys, execution>>

Next ==
    \/ Tick \/ Create
    \/ \E j \in Jobs :
          Enqueue(j) \/ MarkRunning(j) \/ AppendResult(j) \/ MarkEnd(j) \/ GetJob(j)
    \/ \E limit \in Limits : ListIds(limit)
    \/ GetResults \/ ReadListed \/ ListDone \/ Reply

Spec == Init /\ [][Next]_vars

-----------------------------------------------------------------------------
(* Properties                                                              *)

\* Every variable has its type; times lie within the clock and one TTL, results
\* are those of at most MaxRuns executions.
RecordsTypeOK ==
    /\ now \in 0..MaxTime /\ submitted \in 0..NumJobs
    /\ created \in [Jobs -> 0..MaxTime]
    /\ enqueued \subseteq 1..submitted
    /\ record \in [Jobs -> Record \cup {None}] /\ recordEnd \in [Jobs -> 0..Never]
    /\ results \in [Jobs -> 0..(MaxRuns * NumTables)]
    /\ resultsEnd \in [Jobs -> 0..Never]
    /\ listed \subseteq enqueued /\ listedEnd \in 0..Never
    /\ execution \in [Jobs -> [pc : {"waiting", "running"}, count : 0..NumTables,
                               runs : 0..MaxRuns]]
    /\ reader.pc \in {"idle", "results", "job", "list", "jobs", "failed"}
    /\ reader.job \in Jobs \cup {0}

\* For RESULTS_TTL after its creation a submitted job can be read and is in the
\* list of jobs, whatever other submissions prune and whenever a slow call to
\* Redis got through (job_store.py:168-176).
KeptIsListed ==
    \A j \in enqueued : now < created[j] + TTL => Readable(j) /\ j \in listed

\* A hash that can be read and counts n results has them: the list never expires
\* before the hash (job_store.py:169, 231-235).
ResultsOutliveRecord ==
    \A j \in Jobs : Readable(j) => record[j].count <= results[j]

\* An answer of GET /scan/{id} with a result_count of n brings at least n
\* results, though it is put together from two reads with the worker at
\* work between them, unless the list expired there (main.py:285-291).
AnswerIsBacked ==
    reader.pc = "job" /\ ~reader.expired => reader.count <= reader.results

\* An answer of GET /scans is newest first and, with a positive limit, no longer
\* than that and complete: of the jobs still kept when it is sent, those that were
\* among the newest when it began (job_store.py:251-259).
ListIsNewest ==
    reader.pc = "jobs" =>
        /\ \A i, k \in DOMAIN reader.jobs : i < k => reader.jobs[i] > reader.jobs[k]
        /\ reader.limit >= 1 =>
              /\ Len(reader.jobs) <= reader.limit
              /\ \A j \in Newest(reader.known, reader.limit) :
                    now < created[j] + TTL => \E i \in DOMAIN reader.jobs : reader.jobs[i] = j

\* A mark that comes after the hash expired leaves a job that GET /scans fails on;
\* the next submission takes it off the list, unless its call was held up
\* (job_store.py:171-175, 199-225).
EnqueueHeals ==
    [][\A j \in enqueued' \ enqueued :
          created[j] = now => \A k \in listed' : record'[k] # None => record'[k].whole]_vars
=============================================================================

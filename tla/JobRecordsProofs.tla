-------------------------- MODULE JobRecordsProofs --------------------------
(***************************************************************************)
(* Theorems about JobRecords, for any number of jobs, results, executions  *)
(* and requests, and any length of the TTL.                                *)
(***************************************************************************)
EXTENDS JobRecords, ListLemmas, FiniteSetTheorems

-----------------------------------------------------------------------------
(* The inductive invariant                                                 *)

ReaderState ==
    [pc : {"idle", "results", "job", "list", "jobs", "failed"}, job : Jobs \cup {0},
     count : Nat, results : Nat, expired : BOOLEAN, limit : Int,
     known : SUBSET Jobs, rest : SUBSET Jobs, jobs : Seq(Jobs)]

\* RecordsTypeOK with the bound on the results left out (ResultsBounded has it)
\* and the rest of the reader.
ShapeOK ==
    /\ now \in 0..MaxTime /\ submitted \in 0..NumJobs
    /\ created \in [Jobs -> 0..MaxTime]
    /\ enqueued \subseteq 1..submitted
    /\ record \in [Jobs -> Record \cup {None}] /\ recordEnd \in [Jobs -> 0..Never]
    /\ results \in [Jobs -> Nat] /\ resultsEnd \in [Jobs -> 0..Never]
    /\ listed \subseteq enqueued /\ listedEnd \in 0..Never
    /\ execution \in [Jobs -> [pc : {"waiting", "running"}, count : 0..NumTables,
                               runs : 0..MaxRuns]]
    /\ reader \in ReaderState

\* Jobs are created in the past.
CreatedBefore == \A j \in 1..submitted : created[j] <= now

\* Nothing is kept of a job whose transaction has not been executed.
NotYet(j) ==
    j \notin enqueued => record[j] = None /\ results[j] = 0 /\ execution[j] = Waiting

\* While the job is young its keys are there, and end no earlier than it.
Kept(j) ==
    j \in enqueued /\ now < created[j] + TTL =>
        /\ Readable(j) /\ created[j] + TTL <= recordEnd[j]
        /\ j \in listed /\ created[j] + TTL <= listedEnd

\* A whole hash has a TTL, which the list of results does not fall short of; the
\* list has what the hash counts, and what the execution would write there.
Backed(j) ==
    Readable(j) =>
        /\ recordEnd[j] <= now + TTL
        /\ record[j].count <= results[j] /\ execution[j].count <= results[j]
        /\ results[j] > 0 => recordEnd[j] <= resultsEnd[j]

\* Each execution before the last has left at most NumTables results.
ResultsBounded(j) ==
    /\ execution[j].runs = 0 => results[j] = 0 /\ execution[j] = Waiting
    /\ execution[j].runs > 0 =>
          results[j] + NumTables <= execution[j].runs * NumTables + execution[j].count

JobInv(j) == NotYet(j) /\ Kept(j) /\ Backed(j) /\ ResultsBounded(j)

\* What GET /scan/{id} has read of the count stays true of the list it reads next.
ReaderInv ==
    /\ reader.pc = "results" => reader.job \in Jobs
    /\ reader.pc = "results" /\ ~reader.expired => reader.count <= results[reader.job]
    /\ reader.pc = "job" /\ ~reader.expired => reader.count <= reader.results

RecordsInv ==
    ShapeOK /\ CreatedBefore /\ (\A j \in Jobs : JobInv(j)) /\ ReaderInv

-----------------------------------------------------------------------------
(* Lemmas                                                                  *)

\* The hash before and after a mark: it can be read after it when it could be
\* before, with the same end and the count written.
LEMMA HSetWrites ==
    ASSUME ShapeOK, NEW j \in Jobs, NEW n \in 0..NumTables, HSet(j, n)
    PROVE  /\ record' \in [Jobs -> Record \cup {None}] /\ recordEnd' \in [Jobs -> 0..Never]
           /\ \A k \in Jobs \ {j} : record'[k] = record[k] /\ recordEnd'[k] = recordEnd[k]
           /\ record[j] = None => record'[j].whole = FALSE
           /\ record[j] # None => /\ record'[j].whole = record[j].whole
                                  /\ recordEnd'[j] = recordEnd[j]
           /\ record'[j] # None /\ record'[j].count = n
<1> DEFINE w == record[j] # None /\ record[j].whole
           r == [count |-> n, whole |-> w]
<1>1. Never \in 0..Never
  BY RecordsAssumption DEF Never
<1>2. w \in BOOLEAN
  OBVIOUS
<1>3. r \in Record /\ r # None
  <2>1. \A b \in BOOLEAN : [count |-> n, whole |-> b] \in Record
    BY DEF Record
  <2>2. r \in Record
    BY <1>2, <2>1
  <2> QED
    BY <2>2, RecordsAssumption DEF Record
<1>4. record' = [record EXCEPT ![j] = r]
  BY DEF HSet
<1>5. record[j] # None => w = record[j].whole
  BY DEF ShapeOK, Record
<1>6. record[j] = None => w = FALSE
  OBVIOUS
<1>7. r.whole = w /\ r.count = n
  OBVIOUS
<1> HIDE DEF r, w
<1>8. record'[j] = r /\ record' \in [Jobs -> Record \cup {None}]
      /\ \A k \in Jobs \ {j} : record'[k] = record[k]
  BY <1>3, <1>4 DEF ShapeOK
<1>9. /\ recordEnd' \in [Jobs -> 0..Never]
      /\ \A k \in Jobs \ {j} : recordEnd'[k] = recordEnd[k]
      /\ record[j] # None => recordEnd'[j] = recordEnd[j]
  BY <1>1 DEF HSet, ShapeOK
<1> QED
  BY <1>3, <1>5, <1>6, <1>7, <1>8, <1>9

\* A job keeps its part of the invariant when its own keys and its execution stay,
\* and while it is young it is not pruned.
LEMMA JobFrame ==
    ASSUME ShapeOK, NEW k \in Jobs, JobInv(k),
           now' = now, created'[k] = created[k],
           k \in enqueued' <=> k \in enqueued,
           record'[k] = record[k], recordEnd'[k] = recordEnd[k],
           results'[k] = results[k], resultsEnd'[k] = resultsEnd[k],
           execution'[k] = execution[k],
           k \in enqueued /\ now < created[k] + TTL /\ k \in listed => k \in listed',
           listedEnd' \in Int, listedEnd <= listedEnd'
    PROVE  JobInv(k)'
<1>1. created[k] \in Nat /\ listedEnd \in Int /\ TTL \in Nat
  BY RecordsAssumption DEF ShapeOK, Never
<1>2. NotYet(k)' /\ Backed(k)' /\ ResultsBounded(k)'
  BY DEF JobInv, NotYet, Backed, ResultsBounded, Readable
<1>3. Kept(k)'
  BY <1>1 DEF JobInv, Kept, Readable
<1> QED
  BY <1>2, <1>3 DEF JobInv

\* A step that touches neither the results nor the reader keeps the reader's part.
LEMMA ReaderFrame ==
    ASSUME ReaderInv, reader' = reader, \A k \in Jobs : results[k] \in Nat,
           \A k \in Jobs : results'[k] \in Nat /\ results[k] <= results'[k],
           reader.count \in Nat
    PROVE  ReaderInv'
  BY DEF ReaderInv

-----------------------------------------------------------------------------
(* Every step keeps the invariant                                          *)

LEMMA InitRecords == Init => RecordsInv
<1> SUFFICES ASSUME Init PROVE RecordsInv
  OBVIOUS
<1> USE RecordsAssumption DEF Init
<1>1. reader \in ReaderState
  BY DEF Unread, ReaderState
<1>2. Waiting \in [pc : {"waiting", "running"}, count : 0..NumTables, runs : 0..MaxRuns]
  BY DEF Waiting
<1>3. ShapeOK
  BY <1>1, <1>2 DEF ShapeOK, Never
<1>4. CreatedBefore
  BY DEF CreatedBefore
<1>5. ASSUME NEW j \in Jobs PROVE JobInv(j)
  <2>1. record[j] = None /\ results[j] = 0 /\ execution[j] = Waiting
    OBVIOUS
  <2>2. Waiting.runs = 0
    BY DEF Waiting
  <2> QED
    BY <2>1, <2>2 DEF JobInv, NotYet, Kept, Backed, ResultsBounded, Readable
<1>6. ReaderInv
  BY DEF ReaderInv, Unread
<1> QED
  BY <1>3, <1>4, <1>5, <1>6 DEF RecordsInv

\* A submitted job is created now and is young.
LEMMA CreateKeeps ==
    ASSUME RecordsInv, Create
    PROVE  RecordsInv'
<1> USE RecordsAssumption
<1>1. submitted' \in Jobs /\ submitted' = submitted + 1 /\ submitted \in Nat
  BY DEF RecordsInv, ShapeOK, Create, Jobs
<1>2. created' \in [Jobs -> 0..MaxTime] /\ created'[submitted'] = now
      /\ \A j \in Jobs \ {submitted'} : created'[j] = created[j]
  BY <1>1 DEF RecordsInv, ShapeOK, Create
<1>3. ShapeOK'
  <2>1. submitted' \in 0..NumJobs /\ enqueued' \subseteq 1..submitted'
    BY <1>1 DEF RecordsInv, ShapeOK, Create, Jobs
  <2> QED
    BY <1>2, <2>1 DEF RecordsInv, ShapeOK, Create, keys
<1>4. CreatedBefore'
  <2>1. now' = now /\ now \in Int
    BY DEF RecordsInv, ShapeOK, Create
  <2>2. ASSUME NEW j \in 1..submitted' PROVE created'[j] <= now
    <3>1. CASE j = submitted'
      BY <1>2, <2>1, <3>1
    <3>2. CASE j # submitted'
      <4>1. j \in 1..submitted /\ j \in Jobs \ {submitted'}
        BY <1>1, <3>2 DEF Jobs
      <4> QED
        BY <1>2, <4>1 DEF RecordsInv, CreatedBefore
    <3> QED
      BY <3>1, <3>2
  <2> QED
    BY <2>1, <2>2 DEF CreatedBefore
<1>5. ASSUME NEW j \in Jobs PROVE JobInv(j)'
  <2>1. CASE j = submitted'
    <3>1. j \notin enqueued
      BY <1>1, <2>1 DEF RecordsInv, ShapeOK
    <3>2. record[j] = None /\ results[j] = 0 /\ execution[j] = Waiting
      BY <3>1 DEF RecordsInv, JobInv, NotYet
    <3>3. Waiting.runs = 0
      BY DEF Waiting
    <3> QED
      BY <3>1, <3>2, <3>3
      DEF Create, keys, JobInv, NotYet, Kept, Backed, ResultsBounded, Readable
  <2>2. CASE j # submitted'
    BY <1>2, <2>2, JobFrame DEF RecordsInv, ShapeOK, Create, keys, Never
  <2> QED
    BY <2>1, <2>2
<1>6. ReaderInv'
  BY DEF Create, keys, RecordsInv, ReaderInv
<1> QED
  BY <1>3, <1>4, <1>5, <1>6 DEF RecordsInv

\* What expires is old: a young job keeps its keys, and a hash that can be read
\* its results.
LEMMA TickKeeps ==
    ASSUME RecordsInv, Tick
    PROVE  RecordsInv'
<1> USE RecordsAssumption
<1>1. now \in Nat /\ now' = now + 1 /\ now' \in 0..MaxTime
  BY DEF RecordsInv, ShapeOK, Tick
<1>2. UNCHANGED <<submitted, created, enqueued, execution>>
  BY DEF Tick
<1>3. ASSUME NEW j \in Jobs
      PROVE  /\ recordEnd[j] <= now' => record'[j] = None /\ recordEnd'[j] = 0
             /\ ~(recordEnd[j] <= now') => record'[j] = record[j] /\ recordEnd'[j] = recordEnd[j]
             /\ resultsEnd[j] <= now' => results'[j] = 0 /\ resultsEnd'[j] = 0
             /\ ~(resultsEnd[j] <= now') =>
                   results'[j] = results[j] /\ resultsEnd'[j] = resultsEnd[j]
  BY DEF Tick
<1>4. ShapeOK'
  <2>1. record' \in [Jobs -> Record \cup {None}]
    BY DEF Tick, RecordsInv, ShapeOK
  <2>2. recordEnd' \in [Jobs -> 0..Never] /\ resultsEnd' \in [Jobs -> 0..Never]
    BY DEF Tick, RecordsInv, ShapeOK, Never
  <2>3. results' \in [Jobs -> Nat]
    BY DEF Tick, RecordsInv, ShapeOK
  <2>4. listed' \subseteq enqueued' /\ listedEnd' \in 0..Never
    BY DEF Tick, RecordsInv, ShapeOK, Never
  <2>5. reader' \in ReaderState
    <3>1. reader \in ReaderState /\ (reader.expired \/ results' # results) \in BOOLEAN
      BY DEF RecordsInv, ShapeOK, ReaderState
    <3> QED
      BY <3>1 DEF Tick, ReaderState
  <2> QED
    BY <1>1, <1>2, <2>1, <2>2, <2>3, <2>4, <2>5 DEF RecordsInv, ShapeOK
<1>5. CreatedBefore'
  <2>1. \A j \in 1..submitted : created[j] \in Int
    BY DEF RecordsInv, ShapeOK, Jobs
  <2> QED
    BY <1>1, <1>2, <2>1 DEF RecordsInv, CreatedBefore
<1>6. ASSUME NEW j \in Jobs PROVE JobInv(j)'
  <2>1. /\ created[j] \in Nat /\ recordEnd[j] \in Nat /\ resultsEnd[j] \in Nat
        /\ listedEnd \in Nat /\ results[j] \in Nat /\ JobInv(j)
    BY DEF RecordsInv, ShapeOK, Never
  <2>2. NotYet(j)'
    BY <1>2, <1>3, <2>1 DEF JobInv, NotYet
  <2>3. Kept(j)'
    <3>1. SUFFICES ASSUME j \in enqueued, now' < created[j] + TTL
                   PROVE  /\ Readable(j)' /\ created[j] + TTL <= recordEnd'[j]
                          /\ j \in listed' /\ created[j] + TTL <= listedEnd'
      BY <1>2 DEF Kept
    <3>2. /\ Readable(j) /\ created[j] + TTL <= recordEnd[j]
          /\ j \in listed /\ created[j] + TTL <= listedEnd
      BY <1>1, <2>1, <3>1 DEF JobInv, Kept
    <3>3. ~(recordEnd[j] <= now') /\ ~(listedEnd <= now')
      BY <1>1, <2>1, <3>1, <3>2
    <3> QED
      BY <1>3, <3>2, <3>3 DEF Tick, Readable
  <2>4. Backed(j)'
    <3>1. SUFFICES ASSUME Readable(j)'
                   PROVE  /\ recordEnd'[j] <= now' + TTL
                          /\ record'[j].count <= results'[j] /\ execution'[j].count <= results'[j]
                          /\ results'[j] > 0 => recordEnd'[j] <= resultsEnd'[j]
      BY DEF Backed
    <3>2. ~(recordEnd[j] <= now') /\ record'[j] = record[j] /\ recordEnd'[j] = recordEnd[j]
      BY <1>3, <3>1 DEF Readable
    <3>3. /\ recordEnd[j] <= now + TTL
          /\ record[j].count <= results[j] /\ execution[j].count <= results[j]
          /\ results[j] > 0 => recordEnd[j] <= resultsEnd[j]
      BY <2>1, <3>1, <3>2 DEF JobInv, Backed, Readable
    <3>4. results'[j] = results[j] /\ (results[j] > 0 => resultsEnd'[j] = resultsEnd[j])
      BY <1>1, <1>3, <2>1, <3>2, <3>3
    <3> QED
      BY <1>1, <1>2, <2>1, <3>2, <3>3, <3>4
  <2>5. ResultsBounded(j)'
    <3>1. results'[j] = 0 \/ results'[j] = results[j]
      BY <1>3, <2>1, <1>1
    <3>2. execution'[j].runs \in Nat /\ execution'[j].count \in Nat
      BY <1>2 DEF RecordsInv, ShapeOK
    <3>3. execution[j].runs > 0 => NumTables <= execution[j].runs * NumTables
      BY <1>2, <3>2
    <3> QED
      BY <1>2, <2>1, <3>1, <3>2, <3>3 DEF JobInv, ResultsBounded
  <2> QED
    BY <2>2, <2>3, <2>4, <2>5 DEF JobInv
<1>7. ReaderInv'
  <2>1. /\ reader'.pc = reader.pc /\ reader'.job = reader.job /\ reader'.count = reader.count
        /\ reader'.results = reader.results
        /\ reader'.expired = (reader.expired \/ results' # results)
    BY DEF Tick, RecordsInv, ShapeOK, ReaderState
  <2>2. ~reader'.expired => ~reader.expired /\ results' = results
    BY <2>1
  <2> QED
    BY <2>1, <2>2 DEF RecordsInv, ReaderInv
<1> QED
  BY <1>4, <1>5, <1>6, <1>7 DEF RecordsInv

\* The submission prunes no young job, and renews the set for as long as any job
\* submitted so far is young.
LEMMA EnqueueKeeps ==
    ASSUME RecordsInv, NEW j \in Jobs, Enqueue(j)
    PROVE  RecordsInv'
<1> USE RecordsAssumption
<1> DEFINE r == [count |-> 0, whole |-> TRUE]
<1>1. /\ now' = now /\ now \in Nat /\ now <= MaxTime /\ submitted' = submitted
      /\ created' = created /\ \A k \in Jobs : created[k] \in Nat
      /\ UNCHANGED <<results, resultsEnd, execution, reader>>
  BY DEF RecordsInv, ShapeOK, Enqueue
<1>2. j \in 1..submitted /\ j \notin enqueued /\ enqueued' = enqueued \cup {j}
  BY DEF Enqueue, Jobs, RecordsInv, ShapeOK
<1>3. r \in Record /\ r # None
  <2>1. \A b \in BOOLEAN : [count |-> 0, whole |-> b] \in Record
    BY DEF Record
  <2> QED
    BY <2>1 DEF Record
<1>4. /\ record' \in [Jobs -> Record \cup {None}] /\ record'[j] = r
      /\ \A k \in Jobs \ {j} : record'[k] = record[k]
  BY <1>3 DEF RecordsInv, ShapeOK, Enqueue
<1>5. now + TTL \in 0..Never
  BY <1>1 DEF Never
<1>6. /\ recordEnd' \in [Jobs -> 0..Never] /\ recordEnd'[j] = now + TTL
      /\ \A k \in Jobs \ {j} : recordEnd'[k] = recordEnd[k]
  BY <1>5 DEF RecordsInv, ShapeOK, Enqueue
<1>7. listed' = (listed \cup {j}) \ Pruned(created[j]) /\ listedEnd' = now + TTL
  BY DEF Enqueue
<1>8. ShapeOK'
  <2>1. listed' \subseteq enqueued' /\ enqueued' \subseteq 1..submitted'
    BY <1>1, <1>2, <1>7 DEF RecordsInv, ShapeOK
  <2> QED
    BY <1>1, <1>4, <1>5, <1>6, <1>7, <2>1 DEF RecordsInv, ShapeOK
<1>9. CreatedBefore'
  BY <1>1 DEF RecordsInv, CreatedBefore
<1>10. ASSUME NEW k \in Jobs, now < created[k] + TTL PROVE k \notin Pruned(created[j])
  <2>1. created[j] <= now
    BY <1>2 DEF RecordsInv, CreatedBefore
  <2> QED
    BY <1>1, <1>10, <2>1 DEF Pruned
<1>11. ASSUME NEW k \in 1..submitted PROVE created[k] + TTL <= listedEnd'
  <2>1. created[k] <= now
    BY DEF RecordsInv, CreatedBefore
  <2>2. k \in Jobs
    BY DEF RecordsInv, ShapeOK, Jobs
  <2> QED
    BY <1>1, <1>7, <2>1, <2>2
<1>12. ASSUME NEW k \in Jobs PROVE JobInv(k)'
  <2>1. CASE k = j
    <3>1. results[j] = 0 /\ execution[j] = Waiting /\ Waiting.count = 0
      BY <1>2 DEF RecordsInv, JobInv, NotYet, Waiting
    <3>2. Readable(j)'
      BY <1>3, <1>4 DEF Readable
    <3>3. NotYet(j)'
      BY <1>2 DEF NotYet
    <3>4. Kept(j)'
      BY <1>1, <1>2, <1>6, <1>7, <1>10, <1>11, <3>2 DEF Kept, RecordsInv, CreatedBefore
    <3>5. Backed(j)'
      BY <1>1, <1>4, <1>6, <3>1 DEF Backed
    <3>6. ResultsBounded(j)'
      BY <1>1 DEF RecordsInv, JobInv, ResultsBounded
    <3> QED
      BY <2>1, <3>3, <3>4, <3>5, <3>6 DEF JobInv
  <2>2. CASE k # j
    <3>1. JobInv(k) /\ (k \in enqueued' <=> k \in enqueued)
      BY <1>2, <2>2 DEF RecordsInv
    <3>2. NotYet(k)' /\ Backed(k)' /\ ResultsBounded(k)'
      BY <1>1, <1>4, <1>6, <2>2, <3>1 DEF JobInv, NotYet, Backed, ResultsBounded, Readable
    <3>3. Kept(k)'
      <4>1. k \in enqueued => k \in 1..submitted
        BY DEF RecordsInv, ShapeOK
      <4> QED
        BY <1>1, <1>4, <1>6, <1>7, <1>10, <1>11, <2>2, <3>1, <4>1 DEF JobInv, Kept, Readable
    <3> QED
      BY <3>2, <3>3 DEF JobInv
  <2> QED
    BY <2>1, <2>2
<1>13. ReaderInv'
  BY <1>1 DEF RecordsInv, ReaderInv
<1> QED
  BY <1>8, <1>9, <1>12, <1>13 DEF RecordsInv

Executions == [pc : {"waiting", "running"}, count : 0..NumTables, runs : 0..MaxRuns]

\* A mark that writes a count the list has keeps the invariant: it neither
\* prolongs a whole hash nor makes one of what it leaves of an expired one.
LEMMA MarkKeeps ==
    ASSUME RecordsInv, NEW j \in enqueued, NEW n \in 0..NumTables, HSet(j, n),
           NEW w \in Executions, execution' = [execution EXCEPT ![j] = w],
           UNCHANGED <<now, submitted, created, enqueued, results, resultsEnd, listed,
                       listedEnd, reader>>,
           Readable(j) => n <= results[j] /\ w.count <= results[j],
           w.runs > 0, results[j] + NumTables <= w.runs * NumTables + w.count
    PROVE  RecordsInv'
<1> USE RecordsAssumption
<1>1. j \in Jobs
  BY DEF RecordsInv, ShapeOK, Jobs
<1>2. ShapeOK
  BY DEF RecordsInv
<1>3. /\ record' \in [Jobs -> Record \cup {None}] /\ recordEnd' \in [Jobs -> 0..Never]
      /\ \A k \in Jobs \ {j} : record'[k] = record[k] /\ recordEnd'[k] = recordEnd[k]
      /\ record[j] = None => record'[j].whole = FALSE
      /\ record[j] # None => /\ record'[j].whole = record[j].whole
                             /\ recordEnd'[j] = recordEnd[j]
      /\ record'[j] # None /\ record'[j].count = n
  BY <1>1, <1>2, HSetWrites
<1>4. execution' \in [Jobs -> Executions] /\ execution'[j] = w
      /\ \A k \in Jobs \ {j} : execution'[k] = execution[k]
  BY <1>1, <1>2 DEF ShapeOK, Executions
<1>5. ShapeOK'
  BY <1>2, <1>3, <1>4 DEF ShapeOK, Executions
<1>6. CreatedBefore' /\ ReaderInv'
  BY DEF RecordsInv, CreatedBefore, ReaderInv
<1>7. Readable(j) => Readable(j)' /\ recordEnd'[j] = recordEnd[j]
  BY <1>3 DEF Readable
<1>8. Readable(j)' => Readable(j)
  BY <1>3 DEF Readable
<1>9. JobInv(j)'
  <2>1. JobInv(j)
    BY <1>1 DEF RecordsInv
  <2>2. NotYet(j)' /\ ResultsBounded(j)'
    BY <1>4 DEF NotYet, ResultsBounded
  <2>3. Kept(j)'
    BY <1>7, <2>1 DEF JobInv, Kept
  <2>4. Backed(j)'
    BY <1>3, <1>4, <1>7, <1>8, <2>1 DEF JobInv, Backed
  <2> QED
    BY <2>2, <2>3, <2>4 DEF JobInv
<1>10. ASSUME NEW k \in Jobs \ {j} PROVE JobInv(k)'
  BY <1>2, <1>3, <1>4, JobFrame DEF RecordsInv, ShapeOK, Never
<1> QED
  BY <1>5, <1>6, <1>9, <1>10 DEF RecordsInv

\* What a job's own record says of its executions.
LEMMA JobFacts ==
    ASSUME RecordsInv, NEW j \in Jobs
    PROVE  /\ execution[j] \in Executions /\ results[j] \in Nat /\ JobInv(j)
           /\ StoredCount(j) \in 0..NumTables
           /\ Readable(j) => StoredCount(j) <= results[j]
<1>1. execution[j] \in Executions /\ results[j] \in Nat /\ JobInv(j)
  BY DEF RecordsInv, ShapeOK, Executions
<1>2. StoredCount(j) \in 0..NumTables
  BY RecordsAssumption DEF RecordsInv, ShapeOK, StoredCount, Record
<1>3. Readable(j) => StoredCount(j) = record[j].count
  BY DEF Readable, StoredCount
<1> QED
  BY <1>1, <1>2, <1>3 DEF JobInv, Backed

LEMMA MarkRunningKeeps ==
    ASSUME RecordsInv, NEW j \in Jobs, MarkRunning(j)
    PROVE  RecordsInv'
<1> USE RecordsAssumption
<1> DEFINE w == [pc |-> "running", count |-> 0, runs |-> execution[j].runs + 1]
<1>1. /\ execution[j] \in Executions /\ results[j] \in Nat /\ JobInv(j)
      /\ StoredCount(j) \in 0..NumTables
      /\ Readable(j) => StoredCount(j) <= results[j]
  BY JobFacts
<1>2. execution[j].runs < MaxRuns /\ execution[j].runs \in Nat
  BY <1>1 DEF MarkRunning, Executions
<1>3. w \in Executions /\ w.count = 0 /\ w.runs = execution[j].runs + 1
  BY <1>2 DEF Executions
<1> HIDE DEF w
<1>4. results[j] + NumTables <= w.runs * NumTables + w.count
  <2> DEFINE p == execution[j].runs * NumTables
  <2>1. execution[j].runs = 0 => results[j] = 0
    BY <1>1 DEF JobInv, ResultsBounded
  <2>2. execution[j].runs > 0 => results[j] + NumTables <= p + execution[j].count
    BY <1>1 DEF JobInv, ResultsBounded
  <2>3. execution[j].count \in Nat /\ execution[j].count <= NumTables
    BY <1>1 DEF Executions
  <2>4. w.runs * NumTables = p + NumTables /\ p \in Nat
    BY <1>2, <1>3
  <2> HIDE DEF p
  <2> QED
    BY <1>1, <1>2, <1>3, <2>1, <2>2, <2>3, <2>4
<1>5. /\ j \in enqueued /\ HSet(j, StoredCount(j)) /\ execution' = [execution EXCEPT ![j] = w]
      /\ UNCHANGED <<now, submitted, created, enqueued, results, resultsEnd, listed,
                     listedEnd, reader>>
  BY DEF MarkRunning, w
<1>6. w.runs > 0 /\ w.count <= results[j]
  BY <1>1, <1>2, <1>3
<1> QED
  BY <1>1, <1>3, <1>4, <1>5, <1>6, MarkKeeps

LEMMA MarkEndKeeps ==
    ASSUME RecordsInv, NEW j \in Jobs, MarkEnd(j)
    PROVE  RecordsInv'
<1> USE RecordsAssumption
<1> DEFINE w == [execution[j] EXCEPT !.pc = "waiting"]
<1>1. /\ execution[j] \in Executions /\ results[j] \in Nat /\ JobInv(j)
      /\ StoredCount(j) \in 0..NumTables
      /\ Readable(j) => StoredCount(j) <= results[j]
  BY JobFacts
<1>2. execution[j].pc = "running"
  BY DEF MarkEnd, Running
<1>3. execution[j].runs > 0
  <2>1. execution[j] # Waiting
    BY <1>2 DEF Waiting
  <2> QED
    BY <1>1, <2>1 DEF JobInv, ResultsBounded, Executions
<1>4. j \in enqueued
  BY <1>1, <1>2 DEF JobInv, NotYet, Waiting
<1>5. w \in Executions /\ w.count = execution[j].count /\ w.runs = execution[j].runs
  BY <1>1 DEF Executions
<1>6. /\ Readable(j) => execution[j].count <= results[j]
      /\ results[j] + NumTables <= w.runs * NumTables + w.count
  BY <1>1, <1>3, <1>5 DEF JobInv, Backed, ResultsBounded
<1>7. /\ execution' = [execution EXCEPT ![j] = w]
      /\ UNCHANGED <<now, submitted, created, enqueued, results, resultsEnd, listed,
                     listedEnd, reader>>
  BY DEF MarkEnd
<1>8. execution[j].count \in 0..NumTables
  BY <1>1 DEF Executions
<1> HIDE DEF w
<1>9. CASE HSet(j, execution[j].count)
  BY <1>3, <1>4, <1>5, <1>6, <1>7, <1>8, <1>9, MarkKeeps
<1>10. CASE HSet(j, StoredCount(j))
  BY <1>1, <1>3, <1>4, <1>5, <1>6, <1>7, <1>10, MarkKeeps
<1> QED
  BY <1>9, <1>10 DEF MarkEnd

\* A result makes the list longer and outlive the hash.
LEMMA AppendResultKeeps ==
    ASSUME RecordsInv, NEW j \in Jobs, AppendResult(j)
    PROVE  RecordsInv'
<1> USE RecordsAssumption
<1> DEFINE w == [execution[j] EXCEPT !.count = execution[j].count + 1]
<1>1. execution[j] \in Executions /\ results[j] \in Nat /\ JobInv(j)
  BY JobFacts
<1>2. execution[j].pc = "running" /\ execution[j].count < NumTables
  BY DEF AppendResult, Running
<1>3. execution[j].runs > 0 /\ j \in enqueued
  <2>1. execution[j] # Waiting
    BY <1>2 DEF Waiting
  <2> QED
    BY <1>1, <2>1 DEF JobInv, NotYet, ResultsBounded, Executions
<1>4. w \in Executions /\ w.count = execution[j].count + 1 /\ w.runs = execution[j].runs
  BY <1>1, <1>2 DEF Executions
<1>5. /\ UNCHANGED <<now, submitted, created, enqueued, record, recordEnd, listed,
                     listedEnd, reader>>
      /\ execution' = [execution EXCEPT ![j] = w]
      /\ results' = [results EXCEPT ![j] = results[j] + 1]
      /\ resultsEnd' = [resultsEnd EXCEPT ![j] = now + TTL]
  BY DEF AppendResult
<1> HIDE DEF w
<1>6. ShapeOK /\ now + TTL \in 0..Never
  BY DEF RecordsInv, ShapeOK, Never
<1>7. /\ execution' \in [Jobs -> Executions] /\ execution'[j] = w
      /\ \A k \in Jobs \ {j} : execution'[k] = execution[k]
  BY <1>4, <1>5, <1>6 DEF ShapeOK, Executions
<1>8. /\ results' \in [Jobs -> Nat] /\ results'[j] = results[j] + 1
      /\ \A k \in Jobs \ {j} : results'[k] = results[k]
  BY <1>5, <1>6 DEF ShapeOK
<1>9. /\ resultsEnd' \in [Jobs -> 0..Never] /\ resultsEnd'[j] = now + TTL
      /\ \A k \in Jobs \ {j} : resultsEnd'[k] = resultsEnd[k]
  BY <1>5, <1>6 DEF ShapeOK
<1>10. ShapeOK'
  BY <1>5, <1>6, <1>7, <1>8, <1>9 DEF ShapeOK, Executions
<1>11. CreatedBefore'
  BY <1>5 DEF RecordsInv, CreatedBefore
<1>12. JobInv(j)'
  <2>1. NotYet(j)' /\ Kept(j)'
    BY <1>1, <1>3, <1>5 DEF JobInv, NotYet, Kept, Readable
  <2>2. Backed(j)'
    <3>1. SUFFICES ASSUME Readable(j)
                   PROVE  /\ recordEnd[j] <= now + TTL
                          /\ record[j].count <= results'[j] /\ w.count <= results'[j]
                          /\ recordEnd[j] <= resultsEnd'[j]
      BY <1>5, <1>7 DEF Backed, Readable
    <3>2. recordEnd[j] <= now + TTL /\ record[j].count <= results[j]
          /\ execution[j].count <= results[j]
      BY <1>1, <3>1 DEF JobInv, Backed
    <3>3. record[j] \in Record /\ record[j].count \in Int /\ execution[j].count \in Int
      BY <1>1, <1>6, <3>1 DEF ShapeOK, Readable, Record, Executions
    <3> QED
      BY <1>1, <1>4, <1>8, <1>9, <3>2, <3>3
  <2>3. ResultsBounded(j)'
    <3>1. results[j] + NumTables <= w.runs * NumTables + execution[j].count
      BY <1>1, <1>3, <1>4 DEF JobInv, ResultsBounded
    <3>2. w.runs \in Nat /\ execution[j].count \in Nat /\ w.runs * NumTables \in Nat
      BY <1>1, <1>4 DEF Executions
    <3>3. results'[j] + NumTables <= w.runs * NumTables + w.count
      BY <1>1, <1>4, <1>8, <3>1, <3>2
    <3> QED
      BY <1>3, <1>4, <1>7, <3>2, <3>3 DEF ResultsBounded
  <2> QED
    BY <2>1, <2>2, <2>3 DEF JobInv
<1>13. ASSUME NEW k \in Jobs \ {j} PROVE JobInv(k)'
  BY <1>5, <1>6, <1>7, <1>8, <1>9, JobFrame DEF RecordsInv, ShapeOK, Never
<1>14. ReaderInv'
  <2>1. reader.count \in Nat /\ reader' = reader
    BY <1>5, <1>6 DEF ShapeOK, ReaderState
  <2>2. \A k \in Jobs : results[k] \in Nat /\ results'[k] \in Nat /\ results[k] <= results'[k]
    BY <1>6, <1>8 DEF ShapeOK
  <2> QED
    BY <2>1, <2>2, ReaderFrame DEF RecordsInv
<1> QED
  BY <1>10, <1>11, <1>12, <1>13, <1>14 DEF RecordsInv

-----------------------------------------------------------------------------
(* The reads                                                               *)

ReaderMoves == GetResults \/ ReadListed \/ ListDone \/ Reply
               \/ (\E j \in Jobs : GetJob(j)) \/ (\E limit \in Limits : ListIds(limit))

LEMMA ReadsKeep ==
    ASSUME RecordsInv, ReaderMoves
    PROVE  RecordsInv'
<1>1. UNCHANGED <<now, submitted, created, enqueued, record, recordEnd, results, resultsEnd,
                  listed, listedEnd, execution>>
  BY DEF ReaderMoves, GetResults, ReadListed, ListDone, Reply, GetJob, ListIds, keys
<1>2. CreatedBefore' /\ \A j \in Jobs : JobInv(j)'
  BY <1>1 DEF RecordsInv, CreatedBefore, JobInv, NotYet, Kept, Backed, ResultsBounded,
              Readable
<1>3. reader \in ReaderState
  BY DEF RecordsInv, ShapeOK
<1>4. Unread \in ReaderState /\ Unread.pc = "idle" /\ Unread.expired = FALSE
  BY DEF Unread, ReaderState
<1>5. SUFFICES reader' \in ReaderState /\ ReaderInv'
  BY <1>1, <1>2 DEF RecordsInv, ShapeOK
<1>6. ASSUME reader' = [Unread EXCEPT !.pc = "failed"] \/ reader' = Unread
      PROVE  reader' \in ReaderState /\ ReaderInv'
  BY <1>4, <1>6 DEF ReaderState, ReaderInv
<1>7. ASSUME NEW j \in Jobs, GetJob(j) PROVE reader' \in ReaderState /\ ReaderInv'
  <2>1. CASE ~Readable(j)
    BY <1>6, <1>7, <2>1 DEF GetJob
  <2>2. CASE Readable(j)
    <3>1. record[j].count \in Nat /\ record[j].count <= results[j]
      BY <2>2, RecordsAssumption
      DEF RecordsInv, ShapeOK, JobInv, Backed, Readable, Record
    <3>2. reader' = [Unread EXCEPT !.pc = "results", !.job = j, !.count = record[j].count]
      BY <1>7, <2>2 DEF GetJob
    <3> QED
      BY <1>1, <1>4, <3>1, <3>2 DEF ReaderState, ReaderInv
  <2> QED
    BY <2>1, <2>2
<1>8. ASSUME GetResults PROVE reader' \in ReaderState /\ ReaderInv'
  <2>1. reader.job \in Jobs /\ results[reader.job] \in Nat
    BY <1>8 DEF GetResults, RecordsInv, ReaderInv, ShapeOK
  <2>2. ~reader.expired => reader.count <= results[reader.job]
    BY <1>8 DEF GetResults, RecordsInv, ReaderInv
  <2>3. reader' = [reader EXCEPT !.pc = "job", !.results = results[reader.job]]
    BY <1>8 DEF GetResults
  <2> QED
    BY <1>3, <2>1, <2>2, <2>3 DEF ReaderState, ReaderInv
<1>9. ASSUME NEW limit \in Limits, ListIds(limit) PROVE reader' \in ReaderState /\ ReaderInv'
  <2> DEFINE known == {j \in enqueued : now < created[j] + TTL}
  <2>1. limit \in Int /\ enqueued \subseteq Jobs /\ listed \subseteq Jobs
    BY RecordsAssumption DEF RecordsInv, ShapeOK, Jobs
  <2>2. known \in SUBSET Jobs /\ ZRevRange(limit) \in SUBSET Jobs
    BY <2>1 DEF ZRevRange, Newest
  <2>3. reader' = [Unread EXCEPT !.pc = "list", !.limit = limit, !.rest = ZRevRange(limit),
                                 !.known = known]
    BY <1>9 DEF ListIds
  <2> HIDE DEF known
  <2> QED
    BY <1>4, <2>1, <2>2, <2>3 DEF ReaderState, ReaderInv
<1>10. ASSUME ReadListed PROVE reader' \in ReaderState /\ ReaderInv'
  <2>1. PICK j \in reader.rest :
          reader' = IF record[j] # None /\ ~Readable(j) THEN [Unread EXCEPT !.pc = "failed"]
                    ELSE [reader EXCEPT !.rest = @ \ {j},
                            !.jobs = IF record[j] = None THEN @ ELSE Append(@, j)]
    BY <1>10 DEF ReadListed
  <2> DEFINE next == IF record[j] = None THEN reader.jobs ELSE Append(reader.jobs, j)
  <2>2. j \in Jobs /\ reader.rest \ {j} \in SUBSET Jobs
    BY <1>3 DEF ReaderState
  <2>3. next \in Seq(Jobs)
    BY <1>3, <2>2 DEF ReaderState
  <2>4. \/ reader' = [Unread EXCEPT !.pc = "failed"]
        \/ reader' = [reader EXCEPT !.rest = reader.rest \ {j}, !.jobs = next]
    BY <2>1
  <2> HIDE DEF next
  <2>5. CASE reader' = [reader EXCEPT !.rest = reader.rest \ {j}, !.jobs = next]
    <3>1. reader.pc = "list"
      BY <1>10 DEF ReadListed
    <3> QED
      BY <1>3, <2>2, <2>3, <2>5, <3>1 DEF ReaderState, ReaderInv
  <2> QED
    BY <1>6, <2>4, <2>5
<1>11. ASSUME ListDone PROVE reader' \in ReaderState /\ ReaderInv'
  BY <1>3, <1>11 DEF ListDone, ReaderState, ReaderInv
<1> QED
  BY <1>6, <1>7, <1>8, <1>9, <1>10, <1>11 DEF ReaderMoves, Reply

-----------------------------------------------------------------------------
(* Theorems                                                                *)

LEMMA StepKeeps == RecordsInv /\ [Next]_vars => RecordsInv'
<1> SUFFICES ASSUME RecordsInv, [Next]_vars PROVE RecordsInv'
  OBVIOUS
<1>1. CASE UNCHANGED vars
  BY <1>1 DEF vars, keys, RecordsInv, ShapeOK, CreatedBefore, JobInv, NotYet, Kept, Backed,
              ResultsBounded, ReaderInv, Readable
<1>2. CASE Tick
  BY <1>2, TickKeeps
<1>3. CASE Create
  BY <1>3, CreateKeeps
<1>4. ASSUME NEW j \in Jobs, Enqueue(j) \/ MarkRunning(j) \/ AppendResult(j) \/ MarkEnd(j)
      PROVE  RecordsInv'
  BY <1>4, EnqueueKeeps, MarkRunningKeeps, AppendResultKeeps, MarkEndKeeps
<1>5. CASE ReaderMoves
  BY <1>5, ReadsKeep
<1> QED
  BY <1>1, <1>2, <1>3, <1>4, <1>5 DEF Next, ReaderMoves

\* The invariant holds in every state of every behaviour.
THEOREM RecordsInvariant == Spec => []RecordsInv
<1>1. Init => RecordsInv
  BY InitRecords
<1>2. RecordsInv /\ [Next]_vars => RecordsInv'
  BY StepKeeps
<1> QED
  BY <1>1, <1>2, PTL DEF Spec

\* The variables have their types; the list of results of a job is no longer than
\* what MaxRuns executions put there.
THEOREM RecordsTypeCorrect == Spec => []RecordsTypeOK
<1>1. ASSUME RecordsInv PROVE RecordsTypeOK
  <2>1. ASSUME NEW j \in Jobs PROVE results[j] \in 0..(MaxRuns * NumTables)
    <3> DEFINE r == execution[j].runs
               p == r * NumTables
               m == MaxRuns * NumTables
    <3>1. /\ execution[j] \in Executions /\ results[j] \in Nat
          /\ ResultsBounded(j)
      BY <1>1, JobFacts DEF JobInv
    <3>2. r \in Nat /\ r <= MaxRuns /\ MaxRuns \in Nat /\ NumTables \in Nat
          /\ execution[j].count \in Nat /\ execution[j].count <= NumTables
      BY <3>1, RecordsAssumption DEF Executions
    <3>3. r = 0 => results[j] = 0
      BY <3>1 DEF ResultsBounded
    <3>4. r > 0 => results[j] + NumTables <= p + execution[j].count
      BY <3>1 DEF ResultsBounded
    <3> HIDE DEF r
    <3>5. p \in Nat /\ m \in Nat
      BY <3>2
    <3>6. p <= m
      <4>1. (MaxRuns - r) * NumTables \in Nat
        BY <3>2
      <4>2. (MaxRuns - r) * NumTables = m - p
        BY <3>2
      <4> HIDE DEF p, m
      <4> QED
        BY <3>5, <4>1, <4>2
    <3> HIDE DEF p
    <3>7. results[j] <= m
      <4> HIDE DEF m
      <4> QED
        BY <3>1, <3>2, <3>3, <3>4, <3>5, <3>6
    <3> QED
      BY <3>1, <3>5, <3>7
  <2>2. results \in [Jobs -> 0..(MaxRuns * NumTables)]
    BY <1>1, <2>1 DEF RecordsInv, ShapeOK
  <2> QED
    BY <1>1, <2>2 DEF RecordsInv, ShapeOK, ReaderState, RecordsTypeOK
<1> QED
  BY <1>1, RecordsInvariant, PTL

\* A job is kept and listed for RESULTS_TTL, whatever other submissions do.
THEOREM JobsKept == Spec => []KeptIsListed
<1>1. RecordsInv => KeptIsListed
  <2>1. RecordsInv => enqueued \subseteq Jobs
    BY RecordsAssumption DEF RecordsInv, ShapeOK, Jobs
  <2> QED
    BY <2>1 DEF RecordsInv, JobInv, Kept, KeptIsListed
<1> QED
  BY <1>1, RecordsInvariant, PTL

\* The results a job counts are there for as long as the job is.
THEOREM ResultsKept == Spec => []ResultsOutliveRecord
<1>1. RecordsInv => ResultsOutliveRecord
  BY DEF RecordsInv, JobInv, Backed, ResultsOutliveRecord
<1> QED
  BY <1>1, RecordsInvariant, PTL

\* The two reads of GET /scan/{id} agree, with any number of workers between them.
THEOREM AnswersBacked == Spec => []AnswerIsBacked
<1>1. RecordsInv => AnswerIsBacked
  BY DEF RecordsInv, ReaderInv, AnswerIsBacked
<1> QED
  BY <1>1, RecordsInvariant, PTL

\* Submitting a job takes off the list every job whose hash was made by a mark.
THEOREM SubmissionHeals == Spec => EnqueueHeals
<1> DEFINE Heals == \A j \in enqueued' \ enqueued :
                       created[j] = now => \A k \in listed' : record'[k] # None => record'[k].whole
<1>1. ASSUME RecordsInv, [Next]_vars PROVE Heals
  <2>1. SUFFICES ASSUME NEW j \in enqueued' \ enqueued, created[j] = now,
                        NEW k \in listed', record'[k] # None
                 PROVE  record'[k].whole
    OBVIOUS
  <2>2. j \in Jobs /\ Enqueue(j)
    <3>1. enqueued' # enqueued
      BY <2>1
    <3>2. PICK i \in Jobs : Enqueue(i)
      BY <1>1, <3>1 DEF vars, keys, Next, Tick, Create, MarkRunning, AppendResult, MarkEnd,
                        GetJob, ListIds, GetResults, ReadListed, ListDone, Reply
    <3>3. enqueued' = enqueued \cup {i}
      BY <3>2 DEF Enqueue
    <3> QED
      BY <2>1, <3>2, <3>3
  <2>3. record' = [record EXCEPT ![j] = [count |-> 0, whole |-> TRUE]]
    BY <2>2 DEF Enqueue
  <2>4. CASE k = j
    BY <1>1, <2>2, <2>3, <2>4 DEF RecordsInv, ShapeOK
  <2>5. CASE k # j
    <3>1. k \in listed /\ k \notin Pruned(created[j])
      BY <2>1, <2>2, <2>5 DEF Enqueue
    <3>2. k \in enqueued /\ k \in Jobs
      BY <1>1, <3>1, RecordsAssumption DEF RecordsInv, ShapeOK, Jobs
    <3>3. created[k] \in Int /\ now \in Int /\ TTL \in Int
      BY <1>1, <3>2, RecordsAssumption DEF RecordsInv, ShapeOK
    <3>4. now < created[k] + TTL
      BY <2>1, <3>1, <3>2, <3>3 DEF Pruned
    <3>5. Readable(k)
      BY <1>1, <3>2, <3>4 DEF RecordsInv, JobInv, Kept
    <3>6. record'[k] = record[k]
      BY <1>1, <2>3, <2>5, <3>2 DEF RecordsInv, ShapeOK
    <3> QED
      BY <3>5, <3>6 DEF Readable
  <2> QED
    BY <2>4, <2>5
<1>2. RecordsInv /\ [Next]_vars => [Heals]_vars
  BY <1>1
<1> QED
  BY <1>2, RecordsInvariant, PTL DEF Spec, EnqueueHeals
-----------------------------------------------------------------------------
(* The answer of GET /scans                                                *)

\* Jobs are numbered in the order of created_at.
InOrder == \A i, k \in 1..submitted : i < k => created[i] <= created[k]

\* While the ids are read one by one: the jobs found so far are newest first, ahead of
\* those that are left, and with them no more than the limit.
Sorted(jobs, rest) ==
    /\ \A i, k \in DOMAIN jobs : i < k => jobs[i] > jobs[k]
    /\ \A i \in DOMAIN jobs, j \in rest : jobs[i] > j

Found(j) == \E i \in DOMAIN reader.jobs : reader.jobs[i] = j

Listing ==
    /\ reader.known \subseteq enqueued
    /\ Sorted(reader.jobs, reader.rest)
    /\ reader.limit >= 1 =>
          /\ Len(reader.jobs) + Cardinality(reader.rest) <= reader.limit
          /\ \A j \in Newest(reader.known, reader.limit) :
                now < created[j] + TTL => j \in reader.rest \/ Found(j)

ListInv ==
    /\ InOrder
    /\ reader.pc \in {"list", "jobs"} => Listing
    /\ reader.pc = "jobs" => reader.rest = {}

\* The n newest of a set of jobs are at most n: below the oldest of them there are
\* fewer than n others.
LEMMA NewestAtMost ==
    ASSUME NEW S \in SUBSET Jobs, NEW n \in Nat, n >= 1
    PROVE  IsFiniteSet(Newest(S, n)) /\ Cardinality(Newest(S, n)) <= n
<1> DEFINE N == Newest(S, n)
<1>1. IsFiniteSet(S)
  <2>1. IsFiniteSet(1..NumJobs)
    BY RecordsAssumption, FS_Interval
  <2> QED
    BY <2>1, FS_Subset DEF Jobs
<1>2. N \in SUBSET S /\ N \in SUBSET Nat
  <2>1. N \subseteq S
    BY DEF Newest
  <2>2. S \subseteq Nat
    BY DEF Jobs
  <2> HIDE DEF N
  <2> QED
    BY <2>1, <2>2
<1>3. IsFiniteSet(N)
  BY <1>1, <1>2, FS_Subset
<1> HIDE DEF N
<1>4. CASE N = {}
  <2>1. Cardinality(N) = 0
    BY <1>4, FS_EmptySet
  <2> QED
    BY <1>3, <2>1 DEF N
<1>5. CASE N # {}
  <2>1. PICK m \in N : \A y \in N : m <= y
    BY <1>2, <1>5, Least
  <2> DEFINE Above == {k \in S : k > m}
  <2>2. m \in S /\ Cardinality(Above) < n
    BY <2>1 DEF N, Newest
  <2>3. Above \in SUBSET S
    OBVIOUS
  <2>4. N \subseteq Above \cup {m}
    <3>1. \A y \in N : y \in S /\ y \in Nat /\ m \in Nat /\ m <= y
      BY <1>2, <2>1
    <3> QED
      BY <3>1
  <2>5. m \notin Above
    BY <1>2
  <2> HIDE DEF Above
  <2>6. IsFiniteSet(Above) /\ Cardinality(Above) \in Nat
    BY <1>1, <2>3, FS_Subset, FS_CardinalityType
  <2>7. IsFiniteSet(Above \cup {m}) /\ Cardinality(Above \cup {m}) = Cardinality(Above) + 1
    BY <2>5, <2>6, FS_AddElement
  <2>8. Cardinality(N) <= Cardinality(Above \cup {m}) /\ Cardinality(N) \in Nat
    BY <1>3, <2>4, <2>7, FS_Subset, FS_CardinalityType
  <2>9. Cardinality(N) <= n
    BY <2>2, <2>6, <2>7, <2>8
  <2> QED
    BY <1>3, <2>9 DEF N
<1> QED
  BY <1>4, <1>5

\* The order of jobs, and the times of those submitted, stay.
LEMMA OrderStays ==
    ASSUME RecordsInv, InOrder, [Next]_vars
    PROVE  /\ InOrder'
           /\ now <= now' /\ enqueued \subseteq enqueued'
           /\ \A j \in enqueued : created'[j] = created[j]
<1> USE RecordsAssumption
<1>1. ShapeOK /\ CreatedBefore /\ enqueued \subseteq Jobs
  <2>1. ShapeOK /\ CreatedBefore
    BY DEF RecordsInv
  <2>2. enqueued \subseteq Jobs
    BY <2>1 DEF ShapeOK, Jobs
  <2> QED
    BY <2>1, <2>2
<1>2. CASE Create
  <2>1. submitted' = submitted + 1 /\ submitted \in Nat /\ submitted' \in Jobs
    BY <1>1, <1>2 DEF Create, ShapeOK, Jobs
  <2>2. now' = now /\ now \in Int /\ enqueued' = enqueued
    BY <1>1, <1>2 DEF Create, ShapeOK
  <2>3. created'[submitted'] = now /\ \A j \in Jobs \ {submitted'} : created'[j] = created[j]
    BY <1>1, <1>2, <2>1 DEF Create, ShapeOK
  <2>4. \A j \in 1..submitted : j \in Jobs \ {submitted'} /\ created[j] <= now
    BY <1>1, <2>1 DEF CreatedBefore, Jobs
  <2>5. \A j \in enqueued : created'[j] = created[j]
    BY <1>1, <2>3, <2>4 DEF ShapeOK
  <2>6. ASSUME NEW i \in 1..submitted', NEW k \in 1..submitted', i < k
        PROVE  created'[i] <= created'[k]
    <3>1. i \in 1..submitted
      BY <2>1, <2>6
    <3>2. CASE k = submitted'
      BY <2>3, <2>4, <3>1, <3>2
    <3>3. CASE k # submitted'
      <4>1. k \in 1..submitted
        BY <2>1, <3>3
      <4> QED
        BY <2>3, <2>4, <2>6, <3>1, <4>1 DEF InOrder
    <3> QED
      BY <3>2, <3>3
  <2> QED
    BY <2>2, <2>5, <2>6 DEF InOrder
<1>3. CASE ~Create
  <2>1. submitted' = submitted /\ created' = created
    BY <1>3 DEF vars, keys, Next, Tick, Enqueue, MarkRunning, AppendResult, MarkEnd,
                GetJob, ListIds, GetResults, ReadListed, ListDone, Reply
  <2>2. now \in Nat
    BY <1>1 DEF ShapeOK
  <2>3. now' = now \/ now' = now + 1
    BY <1>3 DEF vars, keys, Next, Tick, Enqueue, MarkRunning, AppendResult, MarkEnd,
                GetJob, ListIds, GetResults, ReadListed, ListDone, Reply
  <2>4. enqueued \subseteq enqueued'
    BY <1>3 DEF vars, keys, Next, Tick, Enqueue, MarkRunning, AppendResult, MarkEnd,
                GetJob, ListIds, GetResults, ReadListed, ListDone, Reply
  <2> QED
    BY <2>1, <2>2, <2>3, <2>4 DEF InOrder
<1> QED
  BY <1>2, <1>3

\* When an answer begins, the young jobs are on the list and nothing older comes
\* before them there: the newest of them are the newest of the list.
LEMMA NewestListed ==
    ASSUME RecordsInv, InOrder, NEW n \in Nat,
           NEW j \in Newest({k \in enqueued : now < created[k] + TTL}, n)
    PROVE  j \in Newest(listed, n)
<1> USE RecordsAssumption
<1> DEFINE Young == {k \in enqueued : now < created[k] + TTL}
<1>1. j \in Young /\ Cardinality({k \in Young : k > j}) < n
  BY DEF Newest
<1>2. /\ enqueued \subseteq 1..submitted /\ 1..submitted \subseteq Jobs
      /\ listed \subseteq enqueued /\ now \in Int
      /\ \A k \in Jobs : created[k] \in Int
  BY DEF RecordsInv, ShapeOK, Jobs
<1>3. \A k \in Young : k \in listed
  BY <1>2 DEF RecordsInv, JobInv, Kept
<1>4. ASSUME NEW k \in listed, k > j PROVE k \in Young
  <2>1. k \in enqueued /\ k \in 1..submitted /\ j \in 1..submitted /\ j < k
    BY <1>1, <1>2, <1>4
  <2>2. created[j] <= created[k]
    BY <2>1 DEF InOrder
  <2>3. created[j] \in Int /\ created[k] \in Int /\ now < created[j] + TTL
    BY <1>1, <1>2, <2>1
  <2> QED
    BY <1>2, <2>1, <2>2, <2>3
<1>5. {k \in listed : k > j} = {k \in Young : k > j}
  BY <1>3, <1>4
<1> QED
  BY <1>1, <1>3, <1>5 DEF Newest

\* What is left of an answer stays right while others write, prune and expire keys.
LEMMA ListingStays ==
    ASSUME RecordsInv, InOrder, Listing, [Next]_vars,
           /\ reader'.known = reader.known /\ reader'.rest = reader.rest
           /\ reader'.jobs = reader.jobs /\ reader'.limit = reader.limit
    PROVE  Listing'
<1> USE RecordsAssumption
<1>1. /\ now <= now' /\ enqueued \subseteq enqueued'
      /\ \A j \in enqueued : created'[j] = created[j]
  BY OrderStays
<1>2. enqueued \subseteq Jobs /\ now \in Int /\ \A j \in Jobs : created[j] \in Int
  BY DEF RecordsInv, ShapeOK, Jobs
<1>3. now' \in Int
  <2>1. RecordsInv'
    BY StepKeeps
  <2> QED
    BY <2>1 DEF RecordsInv, ShapeOK
<1> DEFINE newest == Newest(reader.known, reader.limit)
<1>4. newest \subseteq enqueued /\ newest' = newest
  BY DEF Listing, Newest
<1>5. \A j \in enqueued : now' < created'[j] + TTL => now < created[j] + TTL
  BY <1>1, <1>2, <1>3
<1>6. reader'.known \subseteq enqueued'
  BY <1>1 DEF Listing
<1>7. reader.limit >= 1 => \A j \in newest :
        now' < created'[j] + TTL => j \in reader'.rest \/ Found(j)'
  <2>1. reader.limit >= 1 => \A j \in newest :
          now < created[j] + TTL => j \in reader.rest \/ Found(j)
    BY DEF Listing
  <2> HIDE DEF newest
  <2> QED
    BY <1>4, <1>5, <2>1 DEF Found
<1>8. /\ Sorted(reader.jobs, reader.rest)
      /\ reader.limit >= 1 => Len(reader.jobs) + Cardinality(reader.rest) <= reader.limit
  BY DEF Listing
<1> QED
  BY <1>6, <1>7, <1>8 DEF Listing

\* What zrevrange gives is a good start of an answer.
LEMMA ListIdsBegins ==
    ASSUME RecordsInv, InOrder, NEW limit \in Limits, ListIds(limit)
    PROVE  Listing'
<1> USE RecordsAssumption
<1> DEFINE known == {j \in enqueued : now < created[j] + TTL}
<1>1. reader' = [Unread EXCEPT !.pc = "list", !.limit = limit, !.rest = ZRevRange(limit),
                               !.known = known]
      /\ UNCHANGED <<now, created, enqueued>>
  BY DEF ListIds
<1>2. known \subseteq enqueued /\ listed \in SUBSET Jobs /\ limit \in Int
  BY DEF RecordsInv, ShapeOK, Jobs
<1>3. \A j \in Newest(known, limit) : limit >= 1 => j \in ZRevRange(limit)
  BY <1>2, NewestListed DEF ZRevRange
<1>4. limit >= 1 => IsFiniteSet(ZRevRange(limit)) /\ Cardinality(ZRevRange(limit)) <= limit
  BY <1>2, NewestAtMost DEF ZRevRange
<1>5. limit >= 1 => Cardinality(ZRevRange(limit)) \in Nat
  BY <1>4, FS_CardinalityType
<1> HIDE DEF known
<1>6. /\ reader'.limit = limit /\ reader'.rest = ZRevRange(limit) /\ reader'.known = known
      /\ reader'.jobs = <<>>
  BY <1>1 DEF Unread
<1>7. Len(reader'.jobs) = 0 /\ DOMAIN reader'.jobs = {}
  BY <1>6
<1>8. Sorted(reader'.jobs, reader'.rest)
  BY <1>7 DEF Sorted
<1>9. reader'.known \subseteq enqueued'
  BY <1>1, <1>2, <1>6
<1> QED
  BY <1>2, <1>3, <1>4, <1>5, <1>6, <1>7, <1>8, <1>9 DEF Listing

\* The next job read is the newest of those left; it is found unless it has expired,
\* which a young job has not.
LEMMA ReadListedKeeps ==
    ASSUME RecordsInv, Listing, ReadListed, reader'.pc = "list"
    PROVE  Listing'
<1> USE RecordsAssumption
<1>1. reader \in ReaderState /\ enqueued \subseteq Jobs
  BY DEF RecordsInv, ShapeOK, Jobs
<1>2. PICK j \in reader.rest :
        /\ \A k \in reader.rest : j >= k
        /\ reader' = IF record[j] # None /\ ~Readable(j) THEN [Unread EXCEPT !.pc = "failed"]
                     ELSE [reader EXCEPT !.rest = @ \ {j},
                             !.jobs = IF record[j] = None THEN @ ELSE Append(@, j)]
  BY DEF ReadListed
<1> DEFINE next == IF record[j] = None THEN reader.jobs ELSE Append(reader.jobs, j)
<1>3. reader' = [reader EXCEPT !.rest = reader.rest \ {j}, !.jobs = next]
  <2>1. [Unread EXCEPT !.pc = "failed"].pc = "failed"
    BY DEF Unread
  <2> QED
    BY <1>2, <2>1
<1>4. /\ reader.jobs \in Seq(Jobs) /\ reader.rest \subseteq Jobs /\ j \in Jobs
      /\ reader.limit \in Int
  BY <1>1 DEF ReaderState
<1>5. /\ Len(Append(reader.jobs, j)) = Len(reader.jobs) + 1
      /\ Append(reader.jobs, j)[Len(reader.jobs) + 1] = j
      /\ \A i \in 1..Len(reader.jobs) : Append(reader.jobs, j)[i] = reader.jobs[i]
  BY <1>4
<1>6. /\ DOMAIN reader.jobs = 1..Len(reader.jobs) /\ Len(reader.jobs) \in Nat
      /\ DOMAIN Append(reader.jobs, j) = 1..(Len(reader.jobs) + 1)
  BY <1>4
<1>7. \A i \in 1..Len(reader.jobs) : reader.jobs[i] \in Int
  BY <1>4 DEF Jobs
<1>8. \A k \in reader.rest \ {j} : j > k
  BY <1>2, <1>4 DEF Jobs
<1>9. Sorted(next, reader.rest \ {j})
  <2>1. CASE record[j] = None
    BY <2>1 DEF Listing, Sorted
  <2>2. CASE record[j] # None
    <3>1. next = Append(reader.jobs, j)
      BY <2>2
    <3>2. ASSUME NEW i \in DOMAIN next, NEW k \in DOMAIN next, i < k
          PROVE  next[i] > next[k]
      <4>1. i \in 1..Len(reader.jobs) /\ next[i] = reader.jobs[i]
        BY <1>5, <1>6, <3>1, <3>2
      <4>2. CASE k \in 1..Len(reader.jobs)
        BY <1>5, <1>6, <3>1, <3>2, <4>1, <4>2 DEF Listing, Sorted
      <4>3. CASE k = Len(reader.jobs) + 1
        BY <1>5, <1>6, <3>1, <4>1, <4>3 DEF Listing, Sorted
      <4> QED
        BY <1>6, <3>1, <3>2, <4>2, <4>3
    <3>3. ASSUME NEW i \in DOMAIN next, NEW k \in reader.rest \ {j}
          PROVE  next[i] > k
      <4>1. CASE i \in 1..Len(reader.jobs)
        BY <1>5, <1>6, <3>1, <4>1 DEF Listing, Sorted
      <4>2. CASE i = Len(reader.jobs) + 1
        BY <1>5, <1>8, <3>1, <4>2
      <4> QED
        BY <1>6, <3>1, <4>1, <4>2
    <3> QED
      BY <3>2, <3>3 DEF Sorted
  <2> QED
    BY <2>1, <2>2
<1>10. ASSUME reader.limit >= 1
       PROVE  Len(next) + Cardinality(reader.rest \ {j}) <= reader.limit
  <2>1. IsFiniteSet(reader.rest)
    <3>1. IsFiniteSet(1..NumJobs)
      BY FS_Interval
    <3> QED
      BY <1>4, <3>1, FS_Subset DEF Jobs
  <2>2. Cardinality(reader.rest) \in Nat
        /\ Cardinality(reader.rest \ {j}) = Cardinality(reader.rest) - 1
    BY <2>1, FS_RemoveElement, FS_CardinalityType
  <2>3. Len(next) <= Len(reader.jobs) + 1 /\ Len(next) \in Nat
    BY <1>5, <1>6
  <2>4. Len(reader.jobs) + Cardinality(reader.rest) <= reader.limit
    BY <1>10 DEF Listing
  <2> HIDE DEF next
  <2> QED
    BY <1>4, <1>6, <2>2, <2>3, <2>4
<1>11. ASSUME reader.limit >= 1, NEW k \in Newest(reader.known, reader.limit),
              now < created[k] + TTL
       PROVE  k \in reader.rest \ {j} \/ \E i \in DOMAIN next : next[i] = k
  <2>1. k \in reader.rest \/ Found(k)
    BY <1>11 DEF Listing
  <2>2. ASSUME Found(k) PROVE \E i \in DOMAIN next : next[i] = k
    <3>1. PICK i \in 1..Len(reader.jobs) : reader.jobs[i] = k
      BY <1>6, <2>2 DEF Found
    <3>2. i \in DOMAIN next /\ next[i] = k
      BY <1>5, <1>6, <3>1
    <3> QED
      BY <3>2
  <2>3. ASSUME k = j PROVE \E i \in DOMAIN next : next[i] = k
    <3>1. k \in enqueued
      BY <1>11 DEF Listing, Newest
    <3>2. Readable(k)
      BY <1>1, <1>11, <3>1 DEF RecordsInv, JobInv, Kept
    <3>3. next = Append(reader.jobs, j)
      BY <2>3, <3>2 DEF Readable
    <3>4. Len(reader.jobs) + 1 \in DOMAIN next /\ next[Len(reader.jobs) + 1] = k
      BY <1>5, <1>6, <2>3, <3>3
    <3> QED
      BY <3>4
  <2> QED
    BY <2>1, <2>2, <2>3
<1> HIDE DEF next
<1>12. /\ reader'.jobs = next /\ reader'.rest = reader.rest \ {j}
       /\ reader'.known = reader.known /\ reader'.limit = reader.limit
  BY <1>1, <1>3 DEF ReaderState
<1>13. UNCHANGED <<now, created, enqueued>>
  BY DEF ReadListed
<1> QED
  BY <1>9, <1>10, <1>11, <1>12, <1>13 DEF Listing, Found

\* Every step keeps the invariant of the list.
LEMMA ListStepKeeps == RecordsInv /\ ListInv /\ [Next]_vars => ListInv'
<1> SUFFICES ASSUME RecordsInv, ListInv, [Next]_vars PROVE ListInv'
  OBVIOUS
<1>1. InOrder' /\ InOrder
  BY OrderStays DEF ListInv
<1>2. reader \in ReaderState
  BY DEF RecordsInv, ShapeOK
<1>3. ASSUME /\ reader'.pc = reader.pc \/ (reader.pc = "list" /\ reader'.pc = "jobs")
             /\ reader'.known = reader.known /\ reader'.rest = reader.rest
             /\ reader'.jobs = reader.jobs /\ reader'.limit = reader.limit,
             reader'.pc = "jobs" => reader.rest = {}
      PROVE  ListInv'
  BY <1>1, <1>3, ListingStays DEF ListInv
<1>4. CASE reader' = reader
  BY <1>3, <1>4 DEF ListInv
<1>5. CASE Tick
  <2>1. /\ reader'.pc = reader.pc /\ reader'.known = reader.known /\ reader'.rest = reader.rest
        /\ reader'.jobs = reader.jobs /\ reader'.limit = reader.limit
    BY <1>2, <1>5 DEF Tick, ReaderState
  <2> QED
    BY <1>3, <2>1 DEF ListInv
<1>6. CASE ListDone
  <2>1. /\ reader.pc = "list" /\ reader.rest = {} /\ reader'.pc = "jobs"
        /\ reader'.known = reader.known /\ reader'.rest = reader.rest
        /\ reader'.jobs = reader.jobs /\ reader'.limit = reader.limit
    BY <1>2, <1>6 DEF ListDone, ReaderState
  <2> QED
    BY <1>3, <2>1
<1>7. ASSUME reader'.pc \notin {"list", "jobs"} PROVE ListInv'
  BY <1>1, <1>7 DEF ListInv
<1>8. CASE ReadListed
  <2>1. reader'.pc \in {"list", "failed"} /\ reader.pc = "list"
    <3>1. [Unread EXCEPT !.pc = "failed"].pc = "failed"
      BY DEF Unread
    <3>2. \A r, s : [reader EXCEPT !.rest = r, !.jobs = s].pc = reader.pc
      BY <1>2 DEF ReaderState
    <3> QED
      BY <1>8, <3>1, <3>2 DEF ReadListed
  <2>2. CASE reader'.pc = "list"
    BY <1>1, <1>8, <2>1, <2>2, ReadListedKeeps DEF ListInv
  <2> QED
    BY <1>7, <2>1, <2>2
<1>9. ASSUME NEW limit \in Limits, ListIds(limit) PROVE ListInv'
  <2>1. reader'.pc = "list"
    BY <1>9 DEF ListIds, Unread
  <2> QED
    BY <1>1, <1>9, <2>1, ListIdsBegins DEF ListInv
<1>10. ASSUME (\E j \in Jobs : GetJob(j)) \/ GetResults \/ Reply PROVE ListInv'
  <2>1. ASSUME NEW j \in Jobs, GetJob(j) PROVE reader'.pc \in {"results", "failed"}
    BY <2>1 DEF GetJob, Unread
  <2>2. ASSUME GetResults PROVE reader'.pc = "job"
    BY <1>2, <2>2 DEF GetResults, ReaderState
  <2>3. ASSUME Reply PROVE reader'.pc = "idle"
    BY <2>3 DEF Reply, Unread
  <2> QED
    BY <1>7, <1>10, <2>1, <2>2, <2>3
<1>11. \/ reader' = reader \/ Tick \/ ListDone \/ ReadListed
       \/ (\E limit \in Limits : ListIds(limit))
       \/ (\E j \in Jobs : GetJob(j)) \/ GetResults \/ Reply
  BY DEF Next, vars, Create, Enqueue, MarkRunning, AppendResult, MarkEnd
<1> QED
  BY <1>4, <1>5, <1>6, <1>8, <1>9, <1>10, <1>11

\* GET /scans brings the newest jobs, in order and as many as asked for, whatever
\* is submitted, pruned or expires between the reads of its answer.
THEOREM ListsNewest == Spec => []ListIsNewest
<1>1. Init => ListInv
  <2>1. Init => Unread.pc = "idle" /\ reader = Unread /\ submitted = 0
    BY DEF Init, Unread
  <2> QED
    BY <2>1 DEF ListInv, InOrder
<1>2. RecordsInv /\ ListInv /\ [Next]_vars => ListInv'
  BY ListStepKeeps
<1>3. RecordsInv /\ ListInv => ListIsNewest
  <2> SUFFICES ASSUME RecordsInv, ListInv, reader.pc = "jobs" PROVE ListIsNewest
    BY DEF ListIsNewest
  <2>1. Listing /\ reader.rest = {} /\ reader \in ReaderState
    BY DEF ListInv, RecordsInv, ShapeOK
  <2>2. Cardinality(reader.rest) = 0 /\ Len(reader.jobs) \in Nat
    BY <2>1, FS_EmptySet DEF ReaderState
  <2> QED
    BY <2>1, <2>2 DEF Listing, Sorted, Found, ListIsNewest
<1> QED
  BY <1>1, <1>2, <1>3, RecordsInvariant, PTL DEF Spec
=============================================================================

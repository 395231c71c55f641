----------------------------- MODULE ScanQueue -----------------------------
(***************************************************************************)
(* The scan pipeline: the API enqueues scan jobs on a Redis stream         *)
(* (JobStore), and the workers of the consumer group "scan-workers" read,  *)
(* reclaim, execute and acknowledge them (ScanWorker, ScanExecutorService).*)
(*                                                                         *)
(* A stream entry and the job it announces are one number: the entry's     *)
(* position in the stream.  Redis gives every entry a larger id than the   *)
(* one before, and enqueue writes the job's hash and its entry in one      *)
(* MULTI/EXEC pipeline, so a job exists exactly when its entry does.       *)
(* One step of a worker is one call to Redis, or one table of the scan.    *)
(***************************************************************************)
EXTENDS Integers, Sequences, FiniteSets

CONSTANTS
    Consumers,    \* consumer names: one per worker container, kept by a restart
    None,         \* no consumer
    NumEntries,   \* bound on the length of the stream
    Foreign,      \* entries without a job_id, written by some other client
    NumTables,    \* tables in the scope of a job, scanned in this order
    ConfigOf,     \* the configuration each table belongs to, non-decreasing
    ClaimCount,   \* reclaim_abandoned's count: pending entries it looks at
    MaxRestarts,  \* bound on crashes and stops of workers
    MaxLost,      \* bound on Redis calls that end in an error
    MaxSlow       \* bound on messages held for longer than min_idle_ms

Entries == 1..NumEntries
Tables == 1..NumTables
Jobs == Entries \ Foreign

ASSUME ConsumersAssumption == None \notin Consumers
ASSUME SizesAssumption ==
    /\ NumEntries \in Nat /\ Foreign \subseteq Entries
    /\ NumTables \in Nat \ {0} /\ ClaimCount \in Nat \ {0}
    /\ MaxRestarts \in Nat /\ MaxLost \in Nat /\ MaxSlow \in Nat
ASSUME ConfigOfAssumption ==
    /\ ConfigOf \in [Tables -> Nat]
    /\ \A s, t \in Tables : s <= t => ConfigOf[s] <= ConfigOf[t]

VARIABLES
    group,        \* does the consumer group exist?
    sent,         \* entries in the stream
    delivered,    \* the group's last-delivered id
    owner,        \* pending entries list: the consumer of each entry, or None
    idle,         \* pending entries delivered at least min_idle_ms ago
    redelivered,  \* entries delivered more than once (by XCLAIM)
    status,       \* the job's hash: status,
    resultCount,  \*   result_count (0 when unset),
    error,        \*   and whether error is set
    results,      \* the job's results list: the tables described
    worker,       \* what each worker process is doing
    restarts, lost, slow   \* how much of each bound is spent

stream == <<group, sent, delivered, owner, idle, redelivered>>
job == <<status, resultCount, error, results>>
faults == <<restarts, lost, slow>>
vars == <<stream, job, worker, faults>>

Terminal == {"completed", "partial", "failed"}

(***************************************************************************)
(* The local state of _poll and _process.  pc is the next call:            *)
(*   poll   XPENDING, at the top of the loop      claim  XCLAIM            *)
(*   read   XREADGROUP                            begin  take a message    *)
(*   scan   execute                               except mark_failed       *)
(*   ack    XACK                                                           *)
(***************************************************************************)
WorkerState ==
    [pc : {"down", "poll", "claim", "read", "begin", "scan", "except", "ack"},
     cand : SUBSET Entries,    \* idle_ids: what XPENDING found abandoned
     batch : SUBSET Entries,   \* messages delivered and not yet begun
     fresh : BOOLEAN,          \* were they read (else reclaimed)?
     entry : 0..NumEntries,    \* the message being processed
     next : 1..(NumTables + 1),
     count : 0..NumTables,     \* ScanExecutionResult
     errs : BOOLEAN]

Down == [pc |-> "down", cand |-> {}, batch |-> {}, fresh |-> FALSE,
         entry |-> 0, next |-> 1, count |-> 0, errs |-> FALSE]
Polling == [Down EXCEPT !.pc = "poll"]

Init ==
    /\ group \in BOOLEAN   \* whether the API, at its start, could create it
    /\ sent = 0 /\ delivered = 0
    /\ owner = [e \in Entries |-> None]
    /\ idle = {} /\ redelivered = {}
    /\ status = [e \in Entries |-> "none"]
    /\ resultCount = [e \in Entries |-> 0]
    /\ error = [e \in Entries |-> FALSE]
    /\ results = [e \in Entries |-> <<>>]
    /\ worker = [c \in Consumers |-> Down]
    /\ restarts = 0 /\ lost = 0 /\ slow = 0

-----------------------------------------------------------------------------
(* The stream, its consumer group and the pending entries list (PEL).      *)

\* JobStore.enqueue: one transaction writes the hash and the entry.
Enqueue ==
    /\ sent < NumEntries
    /\ sent + 1 \in Jobs
    /\ sent' = sent + 1
    /\ status' = [status EXCEPT ![sent + 1] = "pending"]
    /\ UNCHANGED <<group, delivered, owner, idle, redelivered, resultCount,
                   error, results, worker, faults>>

\* An entry that is no job: _process has a branch for it.
EnqueueForeign ==
    /\ sent < NumEntries
    /\ sent + 1 \in Foreign
    /\ sent' = sent + 1
    /\ UNCHANGED <<group, delivered, owner, idle, redelivered, job, worker, faults>>

InPel == {e \in Entries : owner[e] # None}

\* XPENDING - + count: the oldest entries of the PEL.
Window == {e \in InPel : Cardinality({f \in InPel : f < e}) < ClaimCount}

\* Mutant: idle_ids is always empty (a misread field of the XPENDING reply).
Abandoned_Never(c) == {e \in Window : e \in idle /\ owner[e] # c /\ FALSE}

\* The filter of reclaim_abandoned: idle, and not delivered to this name.
Abandoned(c) == {e \in Window : e \in idle /\ owner[e] # c}

\* The messages a worker process holds in memory, not acknowledged yet.
Held(c) == worker[c].batch \cup ({worker[c].entry} \ {0})

HeldByOwner(e) == owner[e] # None /\ e \in Held(owner[e])

\* min_idle_ms passes after a delivery.  With MaxSlow = 0 a worker is done
\* with every message it holds before that.
BecomeIdle(e) ==
    /\ e \in InPel \ idle
    /\ IF HeldByOwner(e) THEN slow < MaxSlow /\ slow' = slow + 1 ELSE slow' = slow
    /\ idle' = idle \cup {e}
    /\ UNCHANGED <<group, sent, delivered, owner, redelivered, job, worker,
                   restarts, lost>>

\* Mutant: XCLAIM with idle=min_idle_ms, so that what was claimed is idle at once.
DeliverTo_StillIdle(c, S) ==
    /\ owner' = [e \in Entries |-> IF e \in S THEN c ELSE owner[e]]
    /\ UNCHANGED idle

\* A consumer becomes the owner of entries; their idle time restarts.
DeliverTo(c, S) ==
    /\ owner' = [e \in Entries |-> IF e \in S THEN c ELSE owner[e]]
    /\ idle' = idle \ S

LoseCall == lost < MaxLost /\ lost' = lost + 1

-----------------------------------------------------------------------------
(* ScanWorker._poll                                                        *)

\* The constructor of JobStore creates the group at the start of the stream,
\* and goes on without it when Redis does not answer.
Start(c) ==
    /\ worker[c].pc = "down"
    /\ \/ group' = TRUE /\ UNCHANGED lost
       \/ UNCHANGED group /\ LoseCall
    /\ worker' = [worker EXCEPT ![c] = Polling]
    /\ UNCHANGED <<sent, delivered, owner, idle, redelivered, job, restarts, slow>>

GoTo(c, label) == worker' = [worker EXCEPT ![c].pc = label]

\* reclaim_abandoned, XPENDING and the filter.
ListPending(c) ==
    /\ worker[c].pc = "poll"
    /\ worker' = [worker EXCEPT ![c] =
                    [@ EXCEPT !.pc = IF Abandoned(c) = {} THEN "read" ELSE "claim",
                              !.cand = Abandoned(c)]]
    /\ UNCHANGED <<stream, job, faults>>

ListPendingFails(c) ==
    /\ worker[c].pc = "poll"
    /\ LoseCall
    /\ GoTo(c, "read")
    /\ UNCHANGED <<stream, job, restarts, slow>>

\* XCLAIM gives what is still pending and still idle.
Claimable(c) == worker[c].cand \cap InPel \cap idle

Claim(c) ==
    /\ worker[c].pc = "claim"
    /\ DeliverTo(c, Claimable(c))
    /\ redelivered' = redelivered \cup Claimable(c)
    /\ worker' = [worker EXCEPT ![c] =
                    [@ EXCEPT !.pc = IF Claimable(c) = {} THEN "read" ELSE "begin",
                              !.cand = {}, !.batch = Claimable(c), !.fresh = FALSE]]
    /\ UNCHANGED <<group, sent, delivered, job, faults>>

\* The call fails, before or after Redis has applied it: no message to process.
ClaimFails(c) ==
    /\ worker[c].pc = "claim"
    /\ LoseCall
    /\ \/ /\ DeliverTo(c, Claimable(c))
          /\ redelivered' = redelivered \cup Claimable(c)
       \/ UNCHANGED <<owner, idle, redelivered>>
    /\ worker' = [worker EXCEPT ![c] = [@ EXCEPT !.pc = "read", !.cand = {}]]
    /\ UNCHANGED <<group, sent, delivered, job, restarts, slow>>

\* read_pending: XREADGROUP of the next entry never delivered.
Read(c) ==
    /\ worker[c].pc = "read"
    /\ group /\ delivered < sent
    /\ delivered' = delivered + 1
    /\ DeliverTo(c, {delivered + 1})
    /\ worker' = [worker EXCEPT ![c] =
                    [@ EXCEPT !.pc = "begin", !.batch = {delivered + 1}, !.fresh = TRUE]]
    /\ UNCHANGED <<group, sent, redelivered, job, faults>>

\* Nothing within block_ms, or NOGROUP: read_pending returns [].
ReadNothing(c) ==
    /\ worker[c].pc = "read"
    /\ ~group \/ delivered = sent
    /\ GoTo(c, "poll")
    /\ UNCHANGED <<stream, job, faults>>

ReadFails(c) ==
    /\ worker[c].pc = "read"
    /\ LoseCall
    /\ \/ /\ group /\ delivered < sent
          /\ delivered' = delivered + 1
          /\ DeliverTo(c, {delivered + 1})
       \/ UNCHANGED <<delivered, owner, idle>>
    /\ GoTo(c, "poll")
    /\ UNCHANGED <<group, sent, redelivered, job, restarts, slow>>

-----------------------------------------------------------------------------
(* ScanWorker._process                                                     *)

\* _poll takes the messages of a batch in the order of their ids.
IsNext(c, e) ==
    /\ worker[c].pc = "begin"
    /\ e \in worker[c].batch
    /\ \A f \in worker[c].batch : e <= f

\* Mutant: the message just done stays in the batch.
AfterMessage_Again(w, batch) ==
    [Down EXCEPT !.pc = "begin", !.batch = batch \cup {w.entry}, !.fresh = w.fresh]

\* The worker once it is done with a message: the rest of the batch, then,
\* after the reclaimed ones, a fresh message, and else the next poll.
AfterMessage(w, batch) ==
    [Down EXCEPT !.pc = IF batch # {} THEN "begin" ELSE IF w.fresh THEN "poll" ELSE "read",
                 !.batch = batch, !.fresh = IF batch # {} THEN w.fresh ELSE FALSE]

\* XACK takes the entry out of the PEL, whoever owns it by now.
AckEntry(e) ==
    /\ owner' = [owner EXCEPT ![e] = None]
    /\ idle' = idle \ {e}

SkipForeign(c) == \E e \in Foreign :
    /\ IsNext(c, e)
    /\ AckEntry(e)
    /\ worker' = [worker EXCEPT ![c] = AfterMessage(worker[c], worker[c].batch \ {e})]
    /\ UNCHANGED <<group, sent, delivered, redelivered, job, faults>>

MarkRunning(c) == \E e \in Jobs :
    /\ IsNext(c, e)
    /\ status' = [status EXCEPT ![e] = "running"]
    /\ worker' = [worker EXCEPT ![c] =
                    [@ EXCEPT !.pc = "scan", !.batch = worker[c].batch \ {e}, !.entry = e,
                              !.next = 1, !.count = 0, !.errs = FALSE]]
    /\ UNCHANGED <<stream, resultCount, error, results, faults>>

-----------------------------------------------------------------------------
(* ScanExecutorService.execute: one step per table                         *)

AtTable(c) == worker[c].pc = "scan" /\ worker[c].next <= NumTables

AppendResult(e, t) == results' = [results EXCEPT ![e] = Append(@, t)]

Advance(c, next, count, errs) ==
    worker' = [worker EXCEPT ![c] =
                 [@ EXCEPT !.next = next, !.count = count, !.errs = errs]]

DescribeTable(c) ==
    /\ AtTable(c)
    /\ AppendResult(worker[c].entry, worker[c].next)
    /\ Advance(c, worker[c].next + 1, worker[c].count + 1, worker[c].errs)
    /\ UNCHANGED <<stream, status, resultCount, error, faults>>

\* describe_table raises, or append_result does before Redis has applied it.
DescribeFails(c) ==
    /\ AtTable(c)
    /\ Advance(c, worker[c].next + 1, worker[c].count, TRUE)
    /\ UNCHANGED <<stream, job, faults>>

\* Mutant: a save error makes the table be described again.
SaveFails_Retried(c) ==
    /\ AtTable(c)
    /\ AppendResult(worker[c].entry, worker[c].next)
    /\ UNCHANGED <<stream, status, resultCount, error, worker, faults>>

\* Mutant: the count is raised before the result is stored.
SaveFails_Counted(c) ==
    /\ AtTable(c)
    /\ Advance(c, worker[c].next + 1, worker[c].count + 1, TRUE)
    /\ UNCHANGED <<stream, job, faults>>

\* append_result is applied, and then it or save_table_metadata raises.
SaveFails(c) ==
    /\ AtTable(c)
    /\ AppendResult(worker[c].entry, worker[c].next)
    /\ Advance(c, worker[c].next + 1, worker[c].count, TRUE)
    /\ UNCHANGED <<stream, status, resultCount, error, faults>>

\* Mutant: one position too far.
AfterConfig_TooFar(t) == 2 + Cardinality({s \in Tables : ConfigOf[s] <= ConfigOf[t]})

\* The first position after the tables of t's configuration.
AfterConfig(t) == 1 + Cardinality({s \in Tables : ConfigOf[s] <= ConfigOf[t]})

\* Resolving hosts, or listing schemas or tables, raises: the rest of the
\* configuration is skipped.  It may be the one whose last table was just done.
ConfigFails(c) ==
    /\ worker[c].pc = "scan"
    /\ \E t \in Tables \cap {worker[c].next - 1, worker[c].next} :
          Advance(c, AfterConfig(t), worker[c].count, TRUE)
    /\ UNCHANGED <<stream, job, faults>>

\* Mutant: the exception is logged and the message acknowledged.
ExecuteRaises_Swallowed(c) ==
    /\ worker[c].pc = "scan" /\ worker[c].next = 1 /\ ~worker[c].errs
    /\ GoTo(c, "ack")
    /\ UNCHANGED <<stream, job, faults>>

\* Listing the configurations, or building a service, raises before the loop.
ExecuteRaises(c) ==
    /\ worker[c].pc = "scan" /\ worker[c].next = 1 /\ ~worker[c].errs
    /\ GoTo(c, "except")
    /\ UNCHANGED <<stream, job, faults>>

-----------------------------------------------------------------------------
(* The end of _process: the terminal mark and the acknowledgement          *)

\* Mutant: the errors of an execution are only logged.
Outcome_IgnoresErrors(w) == IF w.count > 0 THEN "completed" ELSE "failed"

Outcome(w) == IF ~w.errs THEN "completed"
              ELSE IF w.count > 0 THEN "partial" ELSE "failed"

\* mark_completed, mark_partial and mark_failed write different fields.
Mark(e, outcome, n) ==
    /\ status' = [status EXCEPT ![e] = outcome]
    /\ resultCount' = [resultCount EXCEPT ![e] = IF outcome = "failed" THEN @ ELSE n]
    /\ error' = [error EXCEPT ![e] = IF outcome = "completed" THEN @ ELSE TRUE]

ScanDone(c) == worker[c].pc = "scan" /\ worker[c].next > NumTables

Finish(c) ==
    /\ ScanDone(c)
    /\ Mark(worker[c].entry, Outcome(worker[c]), worker[c].count)
    /\ GoTo(c, "ack")
    /\ UNCHANGED <<stream, results, faults>>

\* The mark raises, applied or not: the except branch follows.
FinishFails(c) ==
    /\ ScanDone(c)
    /\ LoseCall
    /\ \/ Mark(worker[c].entry, Outcome(worker[c]), worker[c].count)
       \/ UNCHANGED <<status, resultCount, error>>
    /\ GoTo(c, "except")
    /\ UNCHANGED <<stream, results, restarts, slow>>

MarkFailed(c) ==
    /\ worker[c].pc = "except"
    /\ Mark(worker[c].entry, "failed", 0)
    /\ GoTo(c, "ack")
    /\ UNCHANGED <<stream, results, faults>>

Ack(c) ==
    /\ worker[c].pc = "ack"
    /\ AckEntry(worker[c].entry)
    /\ worker' = [worker EXCEPT ![c] = AfterMessage(worker[c], worker[c].batch)]
    /\ UNCHANGED <<group, sent, delivered, redelivered, job, faults>>

-----------------------------------------------------------------------------
(* The end of a worker process                                             *)

\* SIGTERM: the loop ends once the messages in hand are done.
Stop(c) ==
    /\ worker[c].pc = "poll"
    /\ restarts < MaxRestarts /\ restarts' = restarts + 1
    /\ worker' = [worker EXCEPT ![c] = Down]
    /\ UNCHANGED <<stream, job, lost, slow>>

\* SIGKILL, or an exception of a Redis call outside execute's try: the process
\* forgets all it holds.
Crash(c) ==
    /\ worker[c].pc \notin {"down", "poll"}
    /\ restarts < MaxRestarts /\ restarts' = restarts + 1
    /\ worker' = [worker EXCEPT ![c] = Down]
    /\ UNCHANGED <<stream, job, lost, slow>>

-----------------------------------------------------------------------------
Progress(c) ==
    \/ ListPending(c) \/ Claim(c) \/ Read(c) \/ ReadNothing(c)
    \/ SkipForeign(c) \/ MarkRunning(c)
    \/ DescribeTable(c) \/ DescribeFails(c) \/ SaveFails(c)
    \/ ConfigFails(c) \/ ExecuteRaises(c)
    \/ Finish(c) \/ MarkFailed(c) \/ Ack(c)

Fault(c) ==
    \/ ListPendingFails(c) \/ ClaimFails(c) \/ ReadFails(c) \/ FinishFails(c)
    \/ Stop(c) \/ Crash(c)

Next ==
    \/ Enqueue
    \/ EnqueueForeign
    \/ \E e \in Entries : BecomeIdle(e)
    \/ \E c \in Consumers : Start(c) \/ Progress(c) \/ Fault(c)

Spec == Init /\ [][Next]_vars

\* A stopped worker is restarted (restart: always), and time passes.  That every call to
\* Redis, a database or the model returns or raises is an assumption: the client of
\* JobStore has a timeout for connecting and none for answers (job_store.py:45-52).
\* Faults need not happen.
Fairness ==
    /\ \A c \in Consumers : WF_vars(Start(c)) /\ WF_vars(Progress(c))
    /\ \A e \in Entries : WF_vars(BecomeIdle(e))

FairSpec == Spec /\ Fairness

-----------------------------------------------------------------------------
(* Properties                                                              *)

StreamOK ==
    /\ group \in BOOLEAN
    /\ sent \in 0..NumEntries /\ delivered \in 0..sent
    /\ owner \in [Entries -> Consumers \cup {None}]
    /\ InPel \subseteq 1..delivered
    /\ idle \subseteq InPel /\ redelivered \subseteq 1..delivered

JobsOK ==
    /\ status \in [Entries -> {"none", "pending", "running"} \cup Terminal]
    /\ resultCount \in [Entries -> 0..NumTables]
    /\ error \in [Entries -> BOOLEAN]
    /\ results \in [Entries -> Seq(Tables)]

\* A worker that executes has a job at hand, it counted no more tables than it
\* passed, and what it holds was delivered.
WorkersOK ==
    /\ worker \in [Consumers -> WorkerState]
    /\ \A c \in Consumers :
          /\ worker[c].pc \in {"scan", "except", "ack"} => worker[c].entry \in Jobs
          /\ worker[c].count < worker[c].next
          /\ Held(c) \subseteq 1..delivered

FaultsOK == restarts \in 0..MaxRestarts /\ lost \in 0..MaxLost /\ slow \in 0..MaxSlow

\* Every variable has its type, and the bookkeeping is in order: only delivered
\* entries are pending or held, and only pending ones are idle.
TypeOK == StreamOK /\ JobsOK /\ WorkersOK /\ FaultsOK

Settled(e) == e <= delivered /\ owner[e] = None

Described(j) == {results[j][i] : i \in DOMAIN results[j]}

\* No message is in two live workers at once: what the consumer group and the
\* idle time of reclaim_abandoned are for (job_store.py:279-312).
ExclusiveExecution ==
    \A c, d \in Consumers : c # d => Held(c) \cap Held(d) = {}

\* A job whose message is acknowledged has a terminal status, and keeps it: no
\* worker acknowledges before the mark (main.py:144-177), and none is still
\* at work on a job that another has acknowledged.
AckedIsTerminal ==
    \A j \in Jobs : Settled(j) => /\ status[j] \in Terminal
                                  /\ \A c \in Consumers : j \notin Held(c)

\* completed means that each table in scope has a result and was counted, over
\* all orders of executions, errors and crashes (main.py:158-171).
CompletedMeansDescribed ==
    \A j \in Jobs : status[j] = "completed" =>
        Tables \subseteq Described(j) /\ resultCount[j] = NumTables

\* result_count never promises more tables than get_results gives: a result is
\* stored before it is counted (scan_executor_service.py:124-139), and another
\* execution only adds results.
ResultsBackTheCount ==
    \A j \in Jobs : resultCount[j] <= Cardinality(Described(j))

\* Duplicated results, and an error left on a completed job, come from a second
\* delivery only (main.py:144-177 clears neither).
OneDeliveryIsExact ==
    \A j \in Jobs \ redelivered :
        /\ Len(results[j]) = Cardinality(Described(j))
        /\ status[j] = "completed" => ~error[j] /\ resultCount[j] = Len(results[j])

\* A terminal status a client has read changes only when the job is delivered
\* again, or when the call that wrote it reported an error (main.py:158-174).
TerminalLeftByRedelivery ==
    [][\A j \in Jobs : status[j] \in Terminal /\ status'[j] # status[j] =>
          j \in redelivered \/ (lost > 0 /\ status'[j] = "failed")]_vars

\* The client's view: the jobs whose entries are not settled are open, and the
\* record of a job is its hash and its list of results.
Open == {j \in Jobs : j <= sent /\ ~Settled(j)}
Retired == {j \in Jobs : Settled(j)}
OfJobs(f) == [j \in Jobs |-> f[j]]

Client == INSTANCE ScanJobs WITH
    open <- Open, retired <- Retired,
    status <- OfJobs(status), resultCount <- OfJobs(resultCount),
    error <- OfJobs(error), results <- OfJobs(results)

\* Unless a worker holds a message for too long, the pipeline keeps the promise
\* of ScanJobs: an acknowledged job's record is final (main.py:112-177).
ImplementsScanJobs == Client!Spec

\* Every enqueued job ends, acknowledged and with a terminal status, after all
\* crashes and lost replies (worker/README.md:32-33), once the consumer group is there.
\* Only constructors of JobStore create the group (job_store.py:53, 144-156): when
\* those of the API and of all workers fail, read_pending swallows Redis's NOGROUP
\* at every poll, and jobs wait until a process is started again.
EveryJobEnds ==
    \A j \in Jobs : (j <= sent /\ group) ~> (Settled(j) /\ status[j] \in Terminal)

=============================================================================

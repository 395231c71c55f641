-------------------------- MODULE ScanQueueProofs --------------------------
(* Theorems about ScanQueue, for every value of its constants. *)
EXTENDS ScanQueue, FiniteSetTheorems, TLAPS

-----------------------------------------------------------------------------
\* Skipping the rest of a configuration moves on, at most to the end.
LEMMA AfterConfigMovesOn ==
    ASSUME NEW t \in Tables
    PROVE  AfterConfig(t) \in (t + 1)..(NumTables + 1)
<1> DEFINE S == {s \in Tables : ConfigOf[s] <= ConfigOf[t]}
<1>1. NumTables \in Nat /\ t \in 1..NumTables
  BY SizesAssumption DEF Tables
<1>2. IsFiniteSet(Tables) /\ Cardinality(Tables) = NumTables
  BY <1>1, FS_Interval DEF Tables
<1>3. IsFiniteSet(1..t) /\ Cardinality(1..t) = t
  BY <1>1, FS_Interval
<1>4. S \subseteq Tables
  OBVIOUS
<1>5. 1..t \subseteq S
  BY <1>1, ConfigOfAssumption DEF Tables
<1> HIDE DEF S
<1>6. IsFiniteSet(S) /\ Cardinality(S) <= NumTables
  BY <1>2, <1>4, FS_Subset
<1>7. Cardinality(1..t) <= Cardinality(S)
  BY <1>5, <1>6, FS_Subset
<1>8. Cardinality(S) \in Nat
  BY <1>6, FS_CardinalityType
<1> QED
  BY <1>1, <1>3, <1>6, <1>7, <1>8 DEF AfterConfig, S

\* The state of a worker after a message is well formed.
LEMMA AfterMessageType ==
    ASSUME NEW w \in WorkerState, NEW b \in SUBSET Entries
    PROVE  /\ AfterMessage(w, b) \in WorkerState
           /\ AfterMessage(w, b).pc \in {"begin", "poll", "read"}
           /\ AfterMessage(w, b).batch = b
           /\ AfterMessage(w, b).entry = 0
           /\ AfterMessage(w, b).count = 0
           /\ AfterMessage(w, b).next = 1
<1> DEFINE lab == IF b # {} THEN "begin" ELSE IF w.fresh THEN "poll" ELSE "read"
           fr == IF b # {} THEN w.fresh ELSE FALSE
<1>1. AfterMessage(w, b) = [Down EXCEPT !.pc = lab, !.batch = b, !.fresh = fr]
  BY DEF AfterMessage
<1>2. lab \in {"begin", "poll", "read"}
  OBVIOUS
<1>3. fr \in BOOLEAN
  BY DEF WorkerState
<1>4. 0 \in 0..NumEntries /\ 1 \in 1..(NumTables + 1) /\ 0 \in 0..NumTables
  BY SizesAssumption
<1> HIDE DEF lab, fr
<1> QED
  BY <1>1, <1>2, <1>3, <1>4 DEF WorkerState, Down

\* What WorkersOK says of one worker, when n entries are delivered.
GoodWorker(w, n) ==
    /\ w \in WorkerState
    /\ w.pc \in {"scan", "except", "ack"} => w.entry \in Jobs
    /\ w.count < w.next
    /\ w.batch \cup ({w.entry} \ {0}) \subseteq 1..n

LEMMA WorkersAreGood ==
    ASSUME WorkersOK, NEW c \in Consumers
    PROVE  GoodWorker(worker[c], delivered)
  BY DEF WorkersOK, GoodWorker, Held

\* A step of one worker keeps WorkersOK when its new state is good.
LEMMA WorkerStep ==
    ASSUME TypeOK, delivered' \in Nat, delivered <= delivered',
           NEW c \in Consumers, NEW w, GoodWorker(w, delivered'),
           worker' = [worker EXCEPT ![c] = w]
    PROVE  WorkersOK'
<1>1. delivered \in Nat /\ 1..delivered \subseteq 1..delivered'
  BY SizesAssumption DEF TypeOK, StreamOK
<1>2. /\ worker' \in [Consumers -> WorkerState]
      /\ worker'[c] = w
      /\ \A d \in Consumers \ {c} : worker'[d] = worker[d]
  BY DEF TypeOK, WorkersOK, GoodWorker
<1>3. \A d \in Consumers : GoodWorker(worker'[d], delivered')
  BY <1>1, <1>2 DEF TypeOK, WorkersOK, GoodWorker, Held
<1> QED
  BY <1>2, <1>3 DEF WorkersOK, GoodWorker, Held

-----------------------------------------------------------------------------
(* Type correctness                                                        *)

LEMMA InitType == Init => TypeOK
<1> SUFFICES ASSUME Init PROVE TypeOK
  OBVIOUS
<1> USE SizesAssumption DEF Init
<1>1. Down \in WorkerState
  BY DEF WorkerState, Down, Entries
<1>2. StreamOK /\ FaultsOK
  BY DEF StreamOK, FaultsOK, InPel, Entries
<1>3. JobsOK
  BY DEF JobsOK, Terminal
<1>4. WorkersOK
  BY <1>1 DEF WorkersOK, Held, Down
<1> QED
  BY <1>2, <1>3, <1>4 DEF TypeOK

LEMMA EnqueueType ==
    ASSUME TypeOK, Enqueue \/ EnqueueForeign
    PROVE  TypeOK'
<1>1. UNCHANGED <<group, delivered, owner, idle, redelivered, resultCount,
                  error, results, worker, faults>>
  BY DEF Enqueue, EnqueueForeign, job
<1>2. sent' = sent + 1 /\ sent' \in Entries
  BY SizesAssumption DEF Enqueue, EnqueueForeign, TypeOK, StreamOK, Entries
<1>3. StreamOK'
  BY <1>1, <1>2, SizesAssumption DEF TypeOK, StreamOK, InPel, Entries
<1>4. JobsOK'
  BY <1>1, <1>2 DEF Enqueue, EnqueueForeign, job, TypeOK, JobsOK
<1>5. WorkersOK' /\ FaultsOK'
  BY <1>1 DEF TypeOK, WorkersOK, FaultsOK, Held, faults
<1> QED
  BY <1>3, <1>4, <1>5 DEF TypeOK

LEMMA BecomeIdleType ==
    ASSUME TypeOK, NEW e \in Entries, BecomeIdle(e)
    PROVE  TypeOK'
<1>1. slow' \in 0..MaxSlow
  BY SizesAssumption DEF BecomeIdle, TypeOK, FaultsOK
<1>2. e \in InPel /\ idle' = idle \cup {e}
  BY DEF BecomeIdle
<1>3. UNCHANGED <<group, sent, delivered, owner, redelivered, job, worker,
                  restarts, lost>>
  BY DEF BecomeIdle
<1> QED
  BY <1>1, <1>2, <1>3
     DEF TypeOK, StreamOK, JobsOK, WorkersOK, FaultsOK, InPel, Held, job

\* Delivering entries, old or new, to a consumer keeps the PEL in order.
LEMMA DeliverType ==
    ASSUME TypeOK, NEW c \in Consumers, NEW S \in SUBSET Entries, DeliverTo(c, S),
           group' \in BOOLEAN, UNCHANGED sent,
           delivered' \in delivered..sent, S \subseteq 1..delivered',
           redelivered' \subseteq redelivered \cup S
    PROVE  StreamOK'
<1>1. delivered \in Nat /\ sent \in 0..NumEntries /\ 1..delivered \subseteq 1..delivered'
  BY SizesAssumption DEF TypeOK, StreamOK
<1>2. owner' \in [Entries -> Consumers \cup {None}]
  BY DEF DeliverTo, TypeOK, StreamOK
<1>3. \A e \in Entries : owner'[e] = IF e \in S THEN c ELSE owner[e]
  BY DEF DeliverTo
<1>4. InPel' = InPel \cup S
  BY <1>3, ConsumersAssumption DEF InPel
<1>5. idle' \subseteq InPel'
  BY <1>4 DEF DeliverTo, TypeOK, StreamOK
<1>6. InPel' \subseteq 1..delivered' /\ redelivered' \subseteq 1..delivered'
  BY <1>1, <1>4 DEF TypeOK, StreamOK
<1> QED
  BY <1>1, <1>2, <1>5, <1>6, SizesAssumption DEF TypeOK, StreamOK

\* Acknowledging an entry keeps the PEL in order.
LEMMA AckType ==
    ASSUME TypeOK, NEW e \in Entries, AckEntry(e),
           UNCHANGED <<group, sent, delivered, redelivered>>
    PROVE  StreamOK' /\ InPel' = InPel \ {e}
<1>1. InPel' = InPel \ {e}
  BY DEF AckEntry, InPel, TypeOK, StreamOK
<1> QED
  BY <1>1 DEF AckEntry, TypeOK, StreamOK

\* The steps of _poll.
LEMMA PollType ==
    ASSUME TypeOK, NEW c \in Consumers,
           \/ Start(c) \/ ListPending(c) \/ ListPendingFails(c)
           \/ Claim(c) \/ ClaimFails(c) \/ Read(c) \/ ReadNothing(c) \/ ReadFails(c)
           \/ Stop(c) \/ Crash(c)
    PROVE  TypeOK'
<1> DEFINE w == worker[c]
<1>0. /\ GoodWorker(w, delivered) /\ worker \in [Consumers -> WorkerState]
      /\ delivered \in Nat /\ sent \in Nat /\ delivered <= sent /\ sent <= NumEntries
  BY WorkersAreGood, SizesAssumption DEF TypeOK, WorkersOK, StreamOK
<1>d. GoodWorker(Down, delivered) /\ GoodWorker(Polling, delivered)
  <2>1. Down \in WorkerState /\ Polling \in WorkerState
    <3>1. Down \in WorkerState
      BY SizesAssumption DEF Down, WorkerState, Entries
    <3> QED
      BY <3>1 DEF Polling, WorkerState
  <2>2. ~(Down.pc \in {"scan", "except", "ack"}) /\ ~(Polling.pc \in {"scan", "except", "ack"})
    BY DEF Down, Polling
  <2>3. /\ Down.count = 0 /\ Down.next = 1 /\ Down.batch = {} /\ Down.entry = 0
        /\ Polling.count = 0 /\ Polling.next = 1 /\ Polling.batch = {} /\ Polling.entry = 0
    BY DEF Down, Polling
  <2> QED
    BY <2>1, <2>2, <2>3 DEF GoodWorker
<1>g. ASSUME NEW label \in {"poll", "read"}
      PROVE  GoodWorker([w EXCEPT !.pc = label], delivered)
  <2> DEFINE v == [w EXCEPT !.pc = label]
  <2>1. v \in WorkerState /\ v.pc = label
    BY <1>0 DEF GoodWorker, WorkerState
  <2>2. v.entry = w.entry /\ v.batch = w.batch /\ v.count = w.count /\ v.next = w.next
    BY <1>0 DEF GoodWorker, WorkerState
  <2> QED
    BY <1>0, <1>g, <2>1, <2>2 DEF GoodWorker
<1>w. ASSUME NEW v, GoodWorker(v, delivered), UNCHANGED delivered,
             worker' = [worker EXCEPT ![c] = v]
      PROVE  WorkersOK'
  <2>1. delivered' = delivered /\ delivered' \in Nat /\ delivered <= delivered'
    BY <1>0, <1>w
  <2>2. GoodWorker(v, delivered')
    BY <2>1, <1>w
  <2> QED
    BY <2>1, <2>2, <1>w, WorkerStep
<1>j. ASSUME UNCHANGED job PROVE JobsOK'
  BY <1>j DEF job, TypeOK, JobsOK
<1>l. ASSUME LoseCall, UNCHANGED <<restarts, slow>> PROVE FaultsOK'
  BY <1>l, SizesAssumption DEF LoseCall, TypeOK, FaultsOK
<1>f. ASSUME UNCHANGED faults PROVE FaultsOK'
  BY <1>f DEF faults, TypeOK, FaultsOK
<1>s. ASSUME UNCHANGED stream PROVE StreamOK' /\ UNCHANGED delivered
  BY <1>s DEF stream, TypeOK, StreamOK, InPel
<1>a. Claimable(c) \in SUBSET Entries /\ Claimable(c) \subseteq 1..delivered
  BY DEF Claimable, InPel, TypeOK, StreamOK
<1>1. CASE Start(c)
  <2>1. worker' = [worker EXCEPT ![c] = Polling] /\ UNCHANGED delivered
    BY <1>1 DEF Start
  <2>2. WorkersOK'
    BY <1>d, <1>w, <2>1
  <2>3. StreamOK' /\ JobsOK'
    BY <1>1, <1>j DEF Start, TypeOK, StreamOK, InPel
  <2>4. FaultsOK'
    BY <1>1, <1>l, <1>f DEF Start, faults
  <2> QED
    BY <2>2, <2>3, <2>4 DEF TypeOK
<1>2. CASE ListPending(c)
  <2> DEFINE v == [w EXCEPT !.pc = IF Abandoned(c) = {} THEN "read" ELSE "claim",
                            !.cand = Abandoned(c)]
  <2>1. worker' = [worker EXCEPT ![c] = v]
    BY <1>2 DEF ListPending
  <2>2. Abandoned(c) \subseteq Entries
    BY DEF Abandoned, Window, InPel
  <2>3. GoodWorker(v, delivered)
    BY <1>0, <2>2 DEF GoodWorker, WorkerState
  <2>4. UNCHANGED <<stream, job, faults>>
    BY <1>2 DEF ListPending
  <2> QED
    BY <1>s, <1>j, <1>f, <1>w, <2>1, <2>3, <2>4 DEF TypeOK
<1>3. CASE ListPendingFails(c)
  <2>1. worker' = [worker EXCEPT ![c] = [w EXCEPT !.pc = "read"]]
    BY <1>3 DEF ListPendingFails, GoTo
  <2>2. UNCHANGED <<stream, job, restarts, slow>> /\ LoseCall
    BY <1>3 DEF ListPendingFails
  <2> QED
    BY <1>s, <1>j, <1>l, <1>w, <1>g, <2>1, <2>2 DEF TypeOK
<1>4. CASE Claim(c)
  <2> DEFINE v == [w EXCEPT !.pc = IF Claimable(c) = {} THEN "read" ELSE "begin",
                            !.cand = {}, !.batch = Claimable(c), !.fresh = FALSE]
             label == IF Claimable(c) = {} THEN "read" ELSE "begin"
  <2>1. /\ worker' = [worker EXCEPT ![c] = v]
        /\ DeliverTo(c, Claimable(c)) /\ redelivered' = redelivered \cup Claimable(c)
        /\ UNCHANGED <<group, sent, delivered, job, faults>> /\ w.pc = "claim"
    BY <1>4 DEF Claim
  <2>2. label \in {"read", "begin"}
    OBVIOUS
  <2>3. v = [w EXCEPT !.pc = label, !.cand = {}, !.batch = Claimable(c), !.fresh = FALSE]
    OBVIOUS
  <2> HIDE DEF label, v
  <2>4. GoodWorker(v, delivered)
    BY <1>0, <1>a, <2>2, <2>3 DEF GoodWorker, WorkerState
  <2>5. StreamOK'
    BY <1>0, <1>a, <2>1, DeliverType DEF TypeOK, StreamOK
  <2> QED
    BY <1>j, <1>f, <1>w, <2>1, <2>4, <2>5 DEF TypeOK
<1>5. CASE ClaimFails(c)
  <2> DEFINE v == [w EXCEPT !.pc = "read", !.cand = {}]
  <2>1. /\ worker' = [worker EXCEPT ![c] = v]
        /\ UNCHANGED <<group, sent, delivered, job, restarts, slow>> /\ LoseCall
    BY <1>5 DEF ClaimFails
  <2>2. GoodWorker(v, delivered)
    BY <1>0 DEF GoodWorker, WorkerState
  <2>3. StreamOK'
    <3>1. CASE UNCHANGED <<owner, idle, redelivered>>
      BY <2>1, <3>1 DEF TypeOK, StreamOK, InPel
    <3>2. CASE DeliverTo(c, Claimable(c)) /\ redelivered' = redelivered \cup Claimable(c)
      BY <1>0, <1>a, <2>1, <3>2, DeliverType DEF TypeOK, StreamOK
    <3> QED
      BY <1>5, <3>1, <3>2 DEF ClaimFails
  <2> QED
    BY <1>j, <1>l, <1>w, <2>1, <2>2, <2>3 DEF TypeOK
<1>r. ASSUME group, delivered < sent, delivered' = delivered + 1, UNCHANGED <<group, sent, redelivered>>,
             DeliverTo(c, {delivered + 1})
      PROVE  /\ StreamOK' /\ delivered + 1 \in Entries
             /\ delivered' \in Nat /\ delivered <= delivered'
             /\ \A v : GoodWorker(v, delivered) => GoodWorker(v, delivered')
  <2>1. delivered + 1 \in Entries
    BY <1>0, <1>r, SizesAssumption DEF Entries
  <2>2. {delivered + 1} \subseteq 1..delivered' /\ delivered' \in delivered..sent
    BY <1>0, <1>r
  <2>3. StreamOK'
    BY <1>r, <2>1, <2>2, DeliverType DEF TypeOK, StreamOK
  <2>4. 1..delivered \subseteq 1..delivered'
    BY <1>0, <1>r
  <2> QED
    BY <1>0, <1>r, <2>1, <2>3, <2>4 DEF GoodWorker
<1>6. CASE Read(c)
  <2> DEFINE v == [w EXCEPT !.pc = "begin", !.batch = {delivered + 1}, !.fresh = TRUE]
  <2>1. /\ worker' = [worker EXCEPT ![c] = v]
        /\ group /\ delivered < sent /\ delivered' = delivered + 1
        /\ UNCHANGED <<group, sent, redelivered, job, faults>>
        /\ DeliverTo(c, {delivered + 1})
    BY <1>6 DEF Read
  <2>2. GoodWorker(w, delivered')
    BY <1>0, <1>r, <2>1
  <2>3. {delivered + 1} \subseteq 1..delivered'
    BY <1>0, <2>1
  <2>4. GoodWorker(v, delivered')
    BY <1>r, <2>1, <2>2, <2>3 DEF GoodWorker, WorkerState
  <2>5. WorkersOK'
    BY <1>r, <2>1, <2>4, WorkerStep
  <2> QED
    BY <1>j, <1>f, <1>r, <2>1, <2>5 DEF TypeOK
<1>7. CASE ReadNothing(c)
  <2>1. worker' = [worker EXCEPT ![c] = [w EXCEPT !.pc = "poll"]]
    BY <1>7 DEF ReadNothing, GoTo
  <2>2. UNCHANGED <<stream, job, faults>>
    BY <1>7 DEF ReadNothing
  <2> QED
    BY <1>s, <1>j, <1>f, <1>w, <1>g, <2>1, <2>2 DEF TypeOK
<1>8. CASE ReadFails(c)
  <2>1. /\ worker' = [worker EXCEPT ![c] = [w EXCEPT !.pc = "poll"]]
        /\ UNCHANGED <<group, sent, redelivered, job, restarts, slow>> /\ LoseCall
    BY <1>8 DEF ReadFails, GoTo
  <2>2. StreamOK' /\ WorkersOK'
    <3>1. CASE UNCHANGED <<delivered, owner, idle>>
      BY <1>g, <1>w, <2>1, <3>1 DEF TypeOK, StreamOK, InPel
    <3>2. CASE /\ group /\ delivered < sent /\ delivered' = delivered + 1
               /\ DeliverTo(c, {delivered + 1})
      <4>1. GoodWorker([w EXCEPT !.pc = "poll"], delivered')
        BY <1>g, <1>r, <2>1, <3>2
      <4> QED
        BY <1>r, <2>1, <3>2, <4>1, WorkerStep
    <3> QED
      BY <1>8, <3>1, <3>2 DEF ReadFails
  <2> QED
    BY <1>j, <1>l, <2>1, <2>2 DEF TypeOK
<1>9. CASE Stop(c) \/ Crash(c)
  <2>1. /\ worker' = [worker EXCEPT ![c] = Down]
        /\ UNCHANGED <<stream, job, lost, slow>>
        /\ restarts < MaxRestarts /\ restarts' = restarts + 1
    BY <1>9 DEF Stop, Crash
  <2>2. FaultsOK'
    BY <2>1, SizesAssumption DEF TypeOK, FaultsOK
  <2> QED
    BY <1>s, <1>j, <1>w, <1>d, <2>1, <2>2 DEF TypeOK
<1> QED
  BY <1>1, <1>2, <1>3, <1>4, <1>5, <1>6, <1>7, <1>8, <1>9

\* The steps of _process and execute.
LEMMA ProcessType ==
    ASSUME TypeOK, NEW c \in Consumers,
           \/ SkipForeign(c) \/ MarkRunning(c) \/ DescribeTable(c) \/ DescribeFails(c)
           \/ SaveFails(c) \/ ConfigFails(c) \/ ExecuteRaises(c)
           \/ Finish(c) \/ FinishFails(c) \/ MarkFailed(c) \/ Ack(c)
    PROVE  TypeOK'
<1> DEFINE w == worker[c]
           e == worker[c].entry
<1>0. /\ GoodWorker(w, delivered) /\ worker \in [Consumers -> WorkerState]
      /\ delivered \in Nat /\ NumTables \in Nat
  BY WorkersAreGood, SizesAssumption DEF TypeOK, WorkersOK, StreamOK
<1>1. Jobs \subseteq Entries /\ Foreign \subseteq Entries
  BY SizesAssumption DEF Jobs
<1>w. ASSUME NEW v, GoodWorker(v, delivered), UNCHANGED stream,
             worker' = [worker EXCEPT ![c] = v]
      PROVE  WorkersOK' /\ StreamOK'
  <2>1. delivered' = delivered /\ delivered' \in Nat /\ delivered <= delivered'
    BY <1>0, <1>w DEF stream
  <2>2. GoodWorker(v, delivered')
    BY <2>1, <1>w
  <2> QED
    BY <2>1, <2>2, <1>w, WorkerStep DEF stream, TypeOK, StreamOK, InPel
<1>j. ASSUME UNCHANGED job PROVE JobsOK'
  BY <1>j DEF job, TypeOK, JobsOK
<1>f. ASSUME UNCHANGED faults PROVE FaultsOK'
  BY <1>f DEF faults, TypeOK, FaultsOK
<1>m. ASSUME NEW j \in Jobs, NEW outcome \in Terminal, NEW n \in 0..NumTables,
             Mark(j, outcome, n), UNCHANGED results
      PROVE  JobsOK'
  BY <1>m, <1>1 DEF Mark, TypeOK, JobsOK
<1>a. ASSUME NEW j \in Entries, AckEntry(j), NEW b \in SUBSET w.batch,
             worker' = [worker EXCEPT ![c] = AfterMessage(w, b)],
             UNCHANGED <<group, sent, delivered, redelivered, job, faults>>
      PROVE  TypeOK'
  <2>1. StreamOK'
    BY <1>a, AckType
  <2>2. w \in WorkerState /\ b \in SUBSET Entries /\ b \subseteq 1..delivered
    BY <1>0, <1>a DEF GoodWorker, WorkerState
  <2>3. GoodWorker(AfterMessage(w, b), delivered)
    <3> DEFINE v == AfterMessage(w, b)
    <3>1. /\ v \in WorkerState /\ v.pc \in {"begin", "poll", "read"} /\ v.batch = b
          /\ v.entry = 0 /\ v.count = 0 /\ v.next = 1
      BY <2>2, AfterMessageType
    <3>2. ~(v.pc \in {"scan", "except", "ack"})
      BY <3>1
    <3> HIDE DEF v
    <3>3. v.batch \cup ({v.entry} \ {0}) \subseteq 1..delivered
      BY <2>2, <3>1
    <3>4. v.count < v.next
      BY <3>1
    <3>5. GoodWorker(v, delivered)
      BY <3>1, <3>2, <3>3, <3>4 DEF GoodWorker
    <3> QED
      BY <3>5 DEF v
  <2>4. delivered' = delivered /\ delivered' \in Nat /\ delivered <= delivered'
    BY <1>0, <1>a
  <2>5. WorkersOK'
    BY <1>a, <2>3, <2>4, WorkerStep
  <2> QED
    BY <1>a, <1>j, <1>f, <2>1, <2>5 DEF TypeOK
<1>2. CASE SkipForeign(c)
  <2> PICK f \in Foreign :
        /\ AckEntry(f) /\ worker' = [worker EXCEPT ![c] = AfterMessage(w, w.batch \ {f})]
        /\ UNCHANGED <<group, sent, delivered, redelivered, job, faults>>
    BY <1>2 DEF SkipForeign
  <2>1. worker' = [worker EXCEPT ![c] = AfterMessage(w, w.batch \ {f})]
    OBVIOUS
  <2>2. w.batch \ {f} \in SUBSET w.batch /\ f \in Entries
    BY <1>1
  <2> QED
    BY <1>a, <2>1, <2>2
<1>3. CASE MarkRunning(c)
  <2> PICK j \in Jobs :
        /\ IsNext(c, j) /\ status' = [status EXCEPT ![j] = "running"]
        /\ worker' = [worker EXCEPT ![c] =
                        [@ EXCEPT !.pc = "scan", !.batch = w.batch \ {j}, !.entry = j,
                                  !.next = 1, !.count = 0, !.errs = FALSE]]
        /\ UNCHANGED <<stream, resultCount, error, results, faults>>
    BY <1>3 DEF MarkRunning
  <2> DEFINE v == [w EXCEPT !.pc = "scan", !.batch = w.batch \ {j}, !.entry = j,
                            !.next = 1, !.count = 0, !.errs = FALSE]
  <2>1. worker' = [worker EXCEPT ![c] = v]
    OBVIOUS
  <2>2. j \in w.batch /\ w \in WorkerState /\ w.batch \subseteq 1..delivered /\ j \in Entries
    BY <1>0, <1>1 DEF IsNext, GoodWorker
  <2>3. v \in WorkerState
    <3>1. 1 \in 1..(NumTables + 1) /\ 0 \in 0..NumTables /\ j \in 0..NumEntries
      BY <1>0, <2>2, SizesAssumption DEF Entries
    <3> QED
      BY <2>2, <3>1 DEF WorkerState
  <2>4. v.pc = "scan" /\ v.batch = w.batch \ {j} /\ v.entry = j /\ v.next = 1 /\ v.count = 0
    BY <2>2 DEF WorkerState
  <2> HIDE DEF v
  <2>5. GoodWorker(v, delivered)
    BY <2>2, <2>3, <2>4 DEF GoodWorker
  <2>6. JobsOK'
    BY <1>1 DEF TypeOK, JobsOK
  <2> QED
    BY <1>w, <1>f, <2>1, <2>5, <2>6 DEF TypeOK
<1>4. ASSUME w.pc = "scan"
      PROVE  e \in Jobs /\ e \in Entries
  BY <1>0, <1>1, <1>4 DEF GoodWorker
<1>5. ASSUME w.pc = "scan", NEW n \in w.next..(NumTables + 1),
             NEW k \in {w.count, w.count + 1}, k < n, NEW x \in BOOLEAN
      PROVE  GoodWorker([w EXCEPT !.next = n, !.count = k, !.errs = x], delivered)
  <2> DEFINE v == [w EXCEPT !.next = n, !.count = k, !.errs = x]
  <2>1. w \in WorkerState /\ w.next \in 1..(NumTables + 1) /\ w.count \in 0..NumTables
    BY <1>0 DEF GoodWorker, WorkerState
  <2>2. n \in 1..(NumTables + 1) /\ k \in 0..NumTables
    BY <1>0, <1>5, <2>1
  <2>3. v \in WorkerState
    BY <1>5, <2>1, <2>2 DEF WorkerState
  <2>4. v.pc = w.pc /\ v.entry = w.entry /\ v.batch = w.batch /\ v.next = n /\ v.count = k
    BY <2>1 DEF WorkerState
  <2> HIDE DEF v
  <2>5. GoodWorker(v, delivered)
    BY <1>0, <1>5, <2>3, <2>4 DEF GoodWorker
  <2> QED
    BY <2>5 DEF v
<1>n. w.next \in Nat /\ w.count \in Nat /\ w.errs \in BOOLEAN /\ w.count < w.next
  BY <1>0 DEF GoodWorker, WorkerState
<1>r. ASSUME NEW t \in Tables, NEW j \in Entries, AppendResult(j, t),
             UNCHANGED <<status, resultCount, error>>
      PROVE  JobsOK'
  <2>1. Append(results[j], t) \in Seq(Tables)
    BY DEF TypeOK, JobsOK
  <2> QED
    BY <1>r, <2>1 DEF AppendResult, TypeOK, JobsOK
<1>g. ASSUME NEW label \in {"except", "ack"}, w.pc \in {"scan", "except"}
      PROVE  GoodWorker([w EXCEPT !.pc = label], delivered)
  <2> DEFINE v == [w EXCEPT !.pc = label]
  <2>1. v \in WorkerState
    BY <1>0 DEF GoodWorker, WorkerState
  <2>2. v.entry = w.entry /\ v.batch = w.batch /\ v.count = w.count /\ v.next = w.next
    BY <1>0 DEF GoodWorker, WorkerState
  <2> HIDE DEF v
  <2>3. GoodWorker(v, delivered)
    BY <1>0, <1>g, <2>1, <2>2 DEF GoodWorker
  <2> QED
    BY <2>3 DEF v
<1>6. CASE DescribeTable(c)
  <2>1. /\ w.pc = "scan" /\ w.next \in Tables /\ AppendResult(e, w.next)
        /\ worker' = [worker EXCEPT ![c] =
                        [w EXCEPT !.next = w.next + 1, !.count = w.count + 1, !.errs = w.errs]]
        /\ UNCHANGED <<stream, status, resultCount, error, faults>>
    BY <1>6, <1>0, <1>n DEF DescribeTable, AtTable, Advance, Tables, GoodWorker, WorkerState
  <2>2. w.next + 1 \in w.next..(NumTables + 1) /\ w.count + 1 < w.next + 1
    BY <1>0, <1>n, <2>1 DEF Tables
  <2>3. GoodWorker([w EXCEPT !.next = w.next + 1, !.count = w.count + 1, !.errs = w.errs],
                   delivered)
    BY <1>5, <1>n, <2>1, <2>2
  <2> QED
    BY <1>4, <1>w, <1>f, <1>r, <2>1, <2>3 DEF TypeOK
<1>7. CASE DescribeFails(c) \/ SaveFails(c)
  <2>1. /\ w.pc = "scan" /\ w.next \in Tables
        /\ worker' = [worker EXCEPT ![c] =
                        [w EXCEPT !.next = w.next + 1, !.count = w.count, !.errs = TRUE]]
        /\ UNCHANGED <<stream, status, resultCount, error, faults>>
    BY <1>7, <1>0, <1>n
       DEF DescribeFails, SaveFails, AtTable, Advance, Tables, GoodWorker, WorkerState, job
  <2>2. w.next + 1 \in w.next..(NumTables + 1) /\ w.count < w.next + 1
    BY <1>0, <1>n, <2>1 DEF Tables
  <2>3. GoodWorker([w EXCEPT !.next = w.next + 1, !.count = w.count, !.errs = TRUE], delivered)
    BY <1>5, <1>n, <2>1, <2>2
  <2>4. JobsOK'
    BY <1>4, <1>7, <1>j, <1>r, <2>1 DEF DescribeFails, SaveFails
  <2> QED
    BY <1>w, <1>f, <2>1, <2>3, <2>4 DEF TypeOK
<1>8. CASE ConfigFails(c)
  <2> PICK t \in Tables \cap {w.next - 1, w.next} :
        Advance(c, AfterConfig(t), w.count, TRUE)
    BY <1>8 DEF ConfigFails
  <2>1. w.pc = "scan" /\ UNCHANGED <<stream, job, faults>>
    BY <1>8 DEF ConfigFails
  <2>2. t + 1 \in Nat /\ w.next <= t + 1
    BY <1>0, <1>n DEF Tables
  <2>3. AfterConfig(t) \in (t + 1)..(NumTables + 1)
    BY AfterConfigMovesOn
  <2>4. AfterConfig(t) \in w.next..(NumTables + 1) /\ w.count < AfterConfig(t)
    BY <1>0, <1>n, <2>2, <2>3
  <2>5. GoodWorker([w EXCEPT !.next = AfterConfig(t), !.count = w.count, !.errs = TRUE],
                   delivered)
    BY <1>5, <2>1, <2>4
  <2>6. worker' = [worker EXCEPT ![c] =
                     [w EXCEPT !.next = AfterConfig(t), !.count = w.count, !.errs = TRUE]]
    BY DEF Advance
  <2> QED
    BY <1>w, <1>f, <1>j, <2>1, <2>5, <2>6 DEF TypeOK
<1>9. CASE ExecuteRaises(c)
  <2>1. /\ worker' = [worker EXCEPT ![c] = [w EXCEPT !.pc = "except"]]
        /\ w.pc = "scan" /\ UNCHANGED <<stream, job, faults>>
    BY <1>9 DEF ExecuteRaises, GoTo
  <2> QED
    BY <1>w, <1>f, <1>j, <1>g, <2>1 DEF TypeOK
<1>o. Outcome(w) \in Terminal /\ w.count \in 0..NumTables
  BY <1>0 DEF Outcome, Terminal, GoodWorker, WorkerState
<1>10. CASE Finish(c)
  <2>1. /\ worker' = [worker EXCEPT ![c] = [w EXCEPT !.pc = "ack"]]
        /\ w.pc = "scan" /\ Mark(e, Outcome(w), w.count)
        /\ UNCHANGED <<stream, results, faults>>
    BY <1>10 DEF Finish, ScanDone, GoTo
  <2> QED
    BY <1>4, <1>w, <1>f, <1>m, <1>g, <1>o, <2>1 DEF TypeOK
<1>11. CASE FinishFails(c)
  <2>1. /\ worker' = [worker EXCEPT ![c] = [w EXCEPT !.pc = "except"]]
        /\ w.pc = "scan" /\ LoseCall /\ UNCHANGED <<stream, results, restarts, slow>>
        /\ \/ Mark(e, Outcome(w), w.count)
           \/ UNCHANGED <<status, resultCount, error>>
    BY <1>11 DEF FinishFails, ScanDone, GoTo
  <2>2. FaultsOK'
    BY <2>1, SizesAssumption DEF LoseCall, TypeOK, FaultsOK
  <2>3. JobsOK'
    BY <1>4, <1>j, <1>m, <1>o, <2>1 DEF job
  <2> QED
    BY <1>w, <1>g, <2>1, <2>2, <2>3 DEF TypeOK
<1>12. CASE MarkFailed(c)
  <2>1. /\ worker' = [worker EXCEPT ![c] = [w EXCEPT !.pc = "ack"]]
        /\ w.pc = "except" /\ Mark(e, "failed", 0)
        /\ UNCHANGED <<stream, results, faults>>
    BY <1>12 DEF MarkFailed, GoTo
  <2>2. e \in Jobs /\ "failed" \in Terminal /\ 0 \in 0..NumTables
    BY <1>0, <2>1 DEF GoodWorker, Terminal
  <2> QED
    BY <1>w, <1>f, <1>m, <1>g, <2>1, <2>2 DEF TypeOK
<1>13. CASE Ack(c)
  <2>1. /\ worker' = [worker EXCEPT ![c] = AfterMessage(w, w.batch)]
        /\ w.pc = "ack" /\ AckEntry(e)
        /\ UNCHANGED <<group, sent, delivered, redelivered, job, faults>>
    BY <1>13 DEF Ack
  <2>2. e \in Entries
    BY <1>0, <1>1, <2>1 DEF GoodWorker
  <2> QED
    BY <1>a, <2>1, <2>2
<1> QED
  BY <1>2, <1>3, <1>6, <1>7, <1>8, <1>9, <1>10, <1>11, <1>12, <1>13

\* Every variable keeps its type, and the pending entries list, the messages
\* held by the workers and the position of the group stay in order, for any
\* number of workers, jobs, tables and faults.
THEOREM TypeCorrect == Spec => []TypeOK
<1>1. TypeOK /\ [Next]_vars => TypeOK'
  <2> SUFFICES ASSUME TypeOK, [Next]_vars PROVE TypeOK'
    OBVIOUS
  <2>1. CASE Enqueue \/ EnqueueForeign
    BY <2>1, EnqueueType
  <2>2. ASSUME NEW e \in Entries, BecomeIdle(e) PROVE TypeOK'
    BY <2>2, BecomeIdleType
  <2>3. ASSUME NEW c \in Consumers, Start(c) \/ Progress(c) \/ Fault(c) PROVE TypeOK'
    BY <2>3, PollType, ProcessType DEF Progress, Fault
  <2>4. CASE UNCHANGED vars
    BY <2>4 DEF vars, stream, job, faults, TypeOK, StreamOK, JobsOK, WorkersOK,
                FaultsOK, InPel, Held
  <2> QED
    BY <2>1, <2>2, <2>3, <2>4 DEF Next
<1> QED
  BY InitType, <1>1, PTL DEF Spec

-----------------------------------------------------------------------------
(* What the steps of one worker do to its state: for the other proofs      *)

LEMMA OneWorkerMoves ==
    ASSUME TypeOK, NEW c \in Consumers, Start(c) \/ Progress(c) \/ Fault(c)
    PROVE  /\ TypeOK'
           /\ worker \in [Consumers -> WorkerState] /\ worker[c] \in WorkerState
           /\ worker'[c] \in WorkerState
           /\ worker' = [worker EXCEPT ![c] = worker'[c]]
           /\ \A d \in Consumers \ {c} : worker'[d] = worker[d]
<1>1. TypeOK'
  BY PollType, ProcessType DEF Progress, Fault
<1>2. \E w : worker' = [worker EXCEPT ![c] = w]
  BY DEF Start, Progress, Fault, ListPending, Claim, Read, ReadNothing, SkipForeign,
         MarkRunning, DescribeTable, DescribeFails, SaveFails, ConfigFails, Advance,
         ExecuteRaises, Finish, MarkFailed, Ack, GoTo, ListPendingFails, ClaimFails,
         ReadFails, FinishFails, Stop, Crash
<1> QED
  BY <1>1, <1>2 DEF TypeOK, WorkersOK

\* Moving to the next call, or to the next table, keeps the messages.
LEMMA GoToEffect ==
    ASSUME worker \in [Consumers -> WorkerState], NEW c \in Consumers, NEW label, GoTo(c, label)
    PROVE  /\ worker'[c].pc = label
           /\ worker'[c].batch = worker[c].batch
           /\ worker'[c].entry = worker[c].entry
  BY DEF GoTo, WorkerState

LEMMA AdvanceEffect ==
    ASSUME worker \in [Consumers -> WorkerState], NEW c \in Consumers, NEW n, NEW k, NEW x,
           Advance(c, n, k, x)
    PROVE  /\ worker'[c].batch = worker[c].batch
           /\ worker'[c].entry = worker[c].entry
           /\ worker'[c].pc = worker[c].pc
           /\ worker'[c].next = n /\ worker'[c].count = k /\ worker'[c].errs = x
  BY DEF Advance, WorkerState

\* The steps of _poll, and the acknowledgements, leave the worker outside of
\* _process.
LEMMA PollEffect ==
    ASSUME TypeOK, NEW c \in Consumers,
           \/ Start(c) \/ ListPending(c) \/ ListPendingFails(c)
           \/ Claim(c) \/ ClaimFails(c) \/ Read(c) \/ ReadNothing(c) \/ ReadFails(c)
           \/ Stop(c) \/ Crash(c)
    PROVE  worker'[c].pc \in {"down", "poll", "claim", "read", "begin"}
<1>0. worker \in [Consumers -> WorkerState] /\ worker[c] \in WorkerState
  BY DEF TypeOK, WorkersOK
<1>1. CASE Start(c) \/ Stop(c) \/ Crash(c)
  BY <1>0, <1>1 DEF Start, Stop, Crash, Down, Polling
<1>2. CASE ListPendingFails(c) \/ ReadNothing(c) \/ ReadFails(c)
  BY <1>0, <1>2, GoToEffect DEF ListPendingFails, ReadNothing, ReadFails
<1>3. CASE ListPending(c)
  BY <1>0, <1>3 DEF ListPending, WorkerState
<1>4. CASE Claim(c)
  BY <1>0, <1>4 DEF Claim, WorkerState
<1>5. CASE ClaimFails(c)
  BY <1>0, <1>5 DEF ClaimFails, WorkerState
<1>6. CASE Read(c)
  BY <1>0, <1>6 DEF Read, WorkerState
<1> QED
  BY <1>1, <1>2, <1>3, <1>4, <1>5, <1>6

LEMMA AckEffect ==
    ASSUME TypeOK, NEW c \in Consumers, SkipForeign(c) \/ Ack(c)
    PROVE  worker'[c].pc \in {"begin", "poll", "read"}
<1>0. worker \in [Consumers -> WorkerState] /\ worker[c] \in WorkerState
  BY DEF TypeOK, WorkersOK
<1>1. \E b \in SUBSET Entries : worker' = [worker EXCEPT ![c] = AfterMessage(worker[c], b)]
  <2>1. worker[c].batch \in SUBSET Entries /\ \A f : worker[c].batch \ {f} \in SUBSET Entries
    BY <1>0 DEF WorkerState
  <2> QED
    BY <2>1 DEF SkipForeign, Ack
<1> QED
  BY <1>0, <1>1, AfterMessageType
=============================================================================

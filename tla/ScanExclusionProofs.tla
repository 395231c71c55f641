------------------------ MODULE ScanExclusionProofs ------------------------
(***************************************************************************)
(* When no worker keeps a message for longer than min_idle_ms, a message   *)
(* is in one live worker at a time, an acknowledged job is final, and the  *)
(* pipeline implements ScanJobs.                                           *)
(***************************************************************************)
EXTENDS ScanResultsProofs

\* The invariant behind ExclusiveExecution: a worker holds only messages the
\* PEL names it for, and their idle time is short.  Without the second part
\* another worker could claim what this one holds.
HeldIsOwned ==
    \A c \in Consumers :
        /\ \A e \in Held(c) : owner[e] = c /\ e \notin idle
        /\ worker[c].entry \notin worker[c].batch

\* The invariant behind AckedIsTerminal: the mark precedes XACK.
MarkedBeforeAck ==
    /\ \A j \in Jobs : Settled(j) => status[j] \in Terminal
    /\ \A c \in Consumers : worker[c].pc = "ack" => status[worker[c].entry] \in Terminal

-----------------------------------------------------------------------------
\* What a worker holds after each of its steps.
LEMMA HeldBySteps ==
    ASSUME TypeOK, NEW c \in Consumers, NEW w \in WorkerState,
           worker' = [worker EXCEPT ![c] = w]
    PROVE  /\ worker' \in [Consumers -> WorkerState]
           /\ worker'[c] = w
           /\ Held(c)' = w.batch \cup ({w.entry} \ {0})
           /\ \A d \in Consumers \ {c} : worker'[d] = worker[d] /\ Held(d)' = Held(d)
  BY DEF TypeOK, WorkersOK, Held

\* Delivering entries that nobody holds.
LEMMA DeliverKeepsOwned ==
    ASSUME TypeOK, HeldIsOwned, NEW c \in Consumers, NEW S \in SUBSET Entries,
           DeliverTo(c, S), \A d \in Consumers : S \cap Held(d) = {},
           NEW w \in WorkerState, worker' = [worker EXCEPT ![c] = w],
           w.batch \subseteq S \cup worker[c].batch,
           w.entry = 0 \/ (w.entry = worker[c].entry /\ w.entry \notin w.batch),
           0 \notin w.batch
    PROVE  HeldIsOwned'
<1>1. /\ worker'[c] = w /\ Held(c)' = w.batch \cup ({w.entry} \ {0})
      /\ \A d \in Consumers \ {c} : worker'[d] = worker[d] /\ Held(d)' = Held(d)
  BY HeldBySteps
<1>2. \A e \in Entries : owner'[e] = IF e \in S THEN c ELSE owner[e]
  BY DEF DeliverTo
<1>3. \A d \in Consumers : Held(d) \subseteq Entries
  BY SizesAssumption DEF TypeOK, WorkersOK, WorkerState, Held, Entries
<1>4. \A d \in Consumers \ {c} : \A e \in Held(d)' : owner'[e] = d /\ e \notin idle'
  BY <1>1, <1>2, <1>3 DEF HeldIsOwned, DeliverTo
<1>5. Held(c)' \subseteq S \cup Held(c)
  BY <1>1 DEF Held
<1>6. \A e \in Held(c)' : owner'[e] = c /\ e \notin idle'
  BY <1>2, <1>3, <1>5 DEF HeldIsOwned, DeliverTo
<1> QED
  BY <1>1, <1>4, <1>6 DEF HeldIsOwned

\* Acknowledging a message this worker holds, and holding it no more.
LEMMA AckKeepsOwned ==
    ASSUME TypeOK, HeldIsOwned, NEW c \in Consumers, NEW e \in Held(c), AckEntry(e),
           NEW w \in WorkerState, worker' = [worker EXCEPT ![c] = w],
           w.entry = 0, w.batch \subseteq worker[c].batch \ {0, e}
    PROVE  HeldIsOwned'
<1>0. /\ worker'[c] = w /\ Held(c)' = w.batch \cup ({w.entry} \ {0})
      /\ \A d \in Consumers \ {c} : worker'[d] = worker[d] /\ Held(d)' = Held(d)
  BY HeldBySteps
<1>1. Held(c)' = w.batch
  BY <1>0
<1>2. \A f \in Entries \ {e} : owner'[f] = owner[f]
  BY DEF AckEntry, TypeOK, StreamOK
<1>3. \A d \in Consumers : Held(d) \subseteq Entries
  BY SizesAssumption DEF TypeOK, WorkersOK, WorkerState, Held, Entries
<1>4. \A d \in Consumers \ {c} : e \notin Held(d)
  BY DEF HeldIsOwned
<1>5. \A d \in Consumers \ {c} : \A f \in Held(d)' : owner'[f] = d /\ f \notin idle'
  BY <1>0, <1>2, <1>3, <1>4 DEF HeldIsOwned, AckEntry
<1>6. \A f \in Held(c)' : f \in Held(c) \ {e} /\ owner'[f] = c /\ f \notin idle'
  BY <1>1, <1>2, <1>3 DEF HeldIsOwned, AckEntry, Held
<1> QED
  BY <1>0, <1>1, <1>5, <1>6 DEF HeldIsOwned

\* A step that touches neither the PEL nor what the worker holds.
LEMMA SameHeldKeepsOwned ==
    ASSUME TypeOK, HeldIsOwned, NEW c \in Consumers, UNCHANGED <<owner, idle>>,
           NEW w \in WorkerState, worker' = [worker EXCEPT ![c] = w],
           \/ w.batch = worker[c].batch /\ w.entry = worker[c].entry
           \/ w.batch = {} /\ w.entry = 0
           \/ w.entry \in worker[c].batch /\ w.batch = worker[c].batch \ {w.entry}
    PROVE  HeldIsOwned'
<1>1. /\ worker'[c] = w /\ Held(c)' = w.batch \cup ({w.entry} \ {0})
      /\ \A d \in Consumers \ {c} : worker'[d] = worker[d] /\ Held(d)' = Held(d)
  BY HeldBySteps
<1>2. Held(c)' \subseteq Held(c) /\ w.entry \notin w.batch
  BY <1>1 DEF HeldIsOwned, Held
<1> QED
  BY <1>1, <1>2 DEF HeldIsOwned

\* The entries a step delivers are held by nobody.
LEMMA NobodyHolds ==
    ASSUME TypeOK, HeldIsOwned, NEW c \in Consumers, NEW d \in Consumers
    PROVE  /\ Claimable(c) \cap Held(d) = {}
           /\ {delivered + 1} \cap Held(d) = {}
           /\ 0 \notin Held(d)
<1>1. Claimable(c) \cap Held(d) = {}
  BY DEF Claimable, HeldIsOwned
<1>2. Held(d) \subseteq 1..delivered /\ delivered \in Nat
  BY SizesAssumption DEF TypeOK, WorkersOK, StreamOK
<1> QED
  BY <1>1, <1>2

LEMMA OwnedPoll ==
    ASSUME TypeOK, HeldIsOwned, NEW c \in Consumers,
           \/ Start(c) \/ ListPending(c) \/ ListPendingFails(c)
           \/ Claim(c) \/ ClaimFails(c) \/ Read(c) \/ ReadNothing(c) \/ ReadFails(c)
           \/ Stop(c) \/ Crash(c)
    PROVE  HeldIsOwned'
<1> DEFINE w == worker'[c]
<1>0. /\ worker \in [Consumers -> WorkerState] /\ worker[c] \in WorkerState
      /\ w \in WorkerState /\ worker' = [worker EXCEPT ![c] = w]
  BY OneWorkerMoves DEF Progress, Fault, TypeOK, WorkersOK
<1>1. Claimable(c) \in SUBSET Entries /\ 0 \notin Claimable(c)
  BY DEF Claimable, InPel, Entries
<1>2. delivered < sent => delivered + 1 \in Entries /\ 0 \notin {delivered + 1}
  BY SizesAssumption DEF TypeOK, StreamOK, Entries
<1>3. 0 \notin worker[c].batch
  BY NobodyHolds DEF Held
<1>4. CASE Start(c) \/ Stop(c) \/ Crash(c)
  <2>1. w.batch = {} /\ w.entry = 0 /\ UNCHANGED <<owner, idle>>
    BY <1>0, <1>4 DEF Start, Stop, Crash, Down, Polling, stream
  <2> QED
    BY <1>0, <2>1, SameHeldKeepsOwned
<1>5. CASE ListPending(c) \/ ListPendingFails(c) \/ ReadNothing(c)
  <2>1. UNCHANGED <<owner, idle>>
    BY <1>5 DEF ListPending, ListPendingFails, ReadNothing, stream
  <2>2. CASE ListPending(c)
    <3>1. w = [worker[c] EXCEPT !.pc = IF Abandoned(c) = {} THEN "read" ELSE "claim",
                                !.cand = Abandoned(c)]
      BY <1>0, <2>2 DEF ListPending
    <3>2. w.batch = worker[c].batch /\ w.entry = worker[c].entry
      BY <1>0, <3>1 DEF WorkerState
    <3> QED
      BY <1>0, <2>1, <3>2, SameHeldKeepsOwned
  <2>3. CASE ListPendingFails(c) \/ ReadNothing(c)
    <3>1. w.batch = worker[c].batch /\ w.entry = worker[c].entry
      BY <1>0, <2>3, GoToEffect DEF ListPendingFails, ReadNothing
    <3> QED
      BY <1>0, <2>1, <3>1, SameHeldKeepsOwned
  <2> QED
    BY <1>5, <2>2, <2>3
<1>6. CASE Claim(c)
  <2>1. w.batch = Claimable(c) /\ w.entry = worker[c].entry /\ DeliverTo(c, Claimable(c))
    <3>1. w = [worker[c] EXCEPT !.pc = IF Claimable(c) = {} THEN "read" ELSE "begin",
                                !.cand = {}, !.batch = Claimable(c), !.fresh = FALSE]
      BY <1>0, <1>6 DEF Claim
    <3>2. DeliverTo(c, Claimable(c))
      BY <1>6 DEF Claim
    <3> QED
      BY <1>0, <3>1, <3>2 DEF WorkerState
  <2>2. w.entry = 0 \/ w.entry \notin w.batch
    BY <2>1, NobodyHolds DEF Held
  <2> QED
    BY <1>0, <1>1, <2>1, <2>2, NobodyHolds, DeliverKeepsOwned
<1>7. CASE ClaimFails(c)
  <2>1. w.batch = worker[c].batch /\ w.entry = worker[c].entry
    BY <1>0, <1>7 DEF ClaimFails, WorkerState
  <2>2. CASE DeliverTo(c, Claimable(c))
    <3>1. w.entry \notin w.batch
      BY <2>1 DEF HeldIsOwned
    <3> QED
      BY <1>0, <1>1, <1>3, <2>1, <2>2, <3>1, NobodyHolds, DeliverKeepsOwned
  <2>3. CASE UNCHANGED <<owner, idle>>
    BY <1>0, <2>1, <2>3, SameHeldKeepsOwned
  <2> QED
    BY <1>7, <2>2, <2>3 DEF ClaimFails
<1>8. CASE Read(c)
  <2>1. /\ w.batch = {delivered + 1} /\ w.entry = worker[c].entry
        /\ delivered < sent /\ DeliverTo(c, {delivered + 1})
    BY <1>0, <1>8 DEF Read, WorkerState
  <2>2. w.entry = 0 \/ w.entry \notin w.batch
    BY <2>1, NobodyHolds DEF Held
  <2> QED
    BY <1>0, <1>2, <2>1, <2>2, NobodyHolds, DeliverKeepsOwned
<1>9. CASE ReadFails(c)
  <2>1. w.batch = worker[c].batch /\ w.entry = worker[c].entry
    BY <1>0, <1>9 DEF ReadFails, GoTo, WorkerState
  <2>2. CASE delivered < sent /\ DeliverTo(c, {delivered + 1})
    <3>1. w.entry \notin w.batch
      BY <2>1 DEF HeldIsOwned
    <3> QED
      BY <1>0, <1>2, <1>3, <2>1, <2>2, <3>1, NobodyHolds, DeliverKeepsOwned
  <2>3. CASE UNCHANGED <<owner, idle>>
    BY <1>0, <2>1, <2>3, SameHeldKeepsOwned
  <2> QED
    BY <1>9, <2>2, <2>3 DEF ReadFails
<1> QED
  BY <1>4, <1>5, <1>6, <1>7, <1>8, <1>9

LEMMA OwnedProcess ==
    ASSUME TypeOK, HeldIsOwned, NEW c \in Consumers,
           \/ SkipForeign(c) \/ MarkRunning(c) \/ DescribeTable(c) \/ DescribeFails(c)
           \/ SaveFails(c) \/ ConfigFails(c) \/ ExecuteRaises(c)
           \/ Finish(c) \/ FinishFails(c) \/ MarkFailed(c) \/ Ack(c)
    PROVE  HeldIsOwned'
<1> DEFINE w == worker'[c]
<1>0. /\ worker \in [Consumers -> WorkerState] /\ worker[c] \in WorkerState
      /\ w \in WorkerState /\ worker' = [worker EXCEPT ![c] = w]
  BY OneWorkerMoves DEF Progress, Fault, TypeOK, WorkersOK
<1>1. 0 \notin worker[c].batch /\ worker[c].entry \notin worker[c].batch
  BY NobodyHolds DEF Held, HeldIsOwned
<1>2. ASSUME NEW b \in SUBSET Entries, worker' = [worker EXCEPT ![c] = AfterMessage(worker[c], b)]
      PROVE  w.batch = b /\ w.entry = 0
  BY <1>0, <1>2, AfterMessageType
<1>3. CASE SkipForeign(c)
  <2> PICK f \in Foreign :
        /\ IsNext(c, f) /\ AckEntry(f)
        /\ worker' = [worker EXCEPT ![c] = AfterMessage(worker[c], worker[c].batch \ {f})]
    BY <1>3 DEF SkipForeign
  <2>1. worker[c].batch \ {f} \in SUBSET Entries
    BY <1>0 DEF WorkerState
  <2>2. w.batch = worker[c].batch \ {f} /\ w.entry = 0
    BY <1>2, <2>1
  <2>3. f \in Held(c)
    BY DEF IsNext, Held
  <2>4. w.batch \subseteq worker[c].batch \ {0, f}
    BY <1>1, <2>2
  <2> QED
    BY <1>0, <2>2, <2>3, <2>4, AckKeepsOwned
<1>4. CASE MarkRunning(c)
  <2> PICK j \in Jobs :
        /\ IsNext(c, j) /\ UNCHANGED stream
        /\ worker' = [worker EXCEPT ![c] =
                        [worker[c] EXCEPT !.pc = "scan", !.batch = worker[c].batch \ {j},
                                  !.entry = j, !.next = 1, !.count = 0, !.errs = FALSE]]
    BY <1>4 DEF MarkRunning
  <2>1. w.batch = worker[c].batch \ {j} /\ w.entry = j /\ j \in worker[c].batch
    BY <1>0 DEF WorkerState, IsNext
  <2>2. UNCHANGED <<owner, idle>>
    BY DEF stream
  <2> QED
    BY <1>0, <2>1, <2>2, SameHeldKeepsOwned
<1>5. CASE \/ DescribeTable(c) \/ DescribeFails(c) \/ SaveFails(c) \/ ConfigFails(c)
           \/ ExecuteRaises(c) \/ Finish(c) \/ FinishFails(c) \/ MarkFailed(c)
  <2>1. w.batch = worker[c].batch /\ w.entry = worker[c].entry
    <3>1. CASE ExecuteRaises(c) \/ Finish(c) \/ FinishFails(c) \/ MarkFailed(c)
      BY <1>0, <3>1, GoToEffect DEF ExecuteRaises, Finish, FinishFails, MarkFailed
    <3>2. CASE DescribeTable(c) \/ DescribeFails(c) \/ SaveFails(c) \/ ConfigFails(c)
      BY <1>0, <3>2, AdvanceEffect DEF DescribeTable, DescribeFails, SaveFails, ConfigFails
    <3> QED
      BY <1>5, <3>1, <3>2
  <2>2. UNCHANGED <<owner, idle>>
    BY <1>5 DEF DescribeTable, DescribeFails, SaveFails, ConfigFails, ExecuteRaises,
           Finish, FinishFails, MarkFailed, stream
  <2> QED
    BY <1>0, <2>1, <2>2, SameHeldKeepsOwned
<1>6. CASE Ack(c)
  <2>1. /\ AckEntry(worker[c].entry) /\ worker[c].pc = "ack"
        /\ worker' = [worker EXCEPT ![c] = AfterMessage(worker[c], worker[c].batch)]
    BY <1>6 DEF Ack
  <2>2. w.batch = worker[c].batch /\ w.entry = 0
    BY <1>0, <1>2, <2>1 DEF WorkerState
  <2>3. worker[c].entry \in Held(c)
    BY <2>1, SizesAssumption DEF Held, TypeOK, WorkersOK, Jobs, Entries
  <2>4. w.batch \subseteq worker[c].batch \ {0, worker[c].entry}
    BY <1>1, <2>2
  <2> QED
    BY <1>0, <2>1, <2>2, <2>3, <2>4, AckKeepsOwned
<1> QED
  BY <1>3, <1>4, <1>5, <1>6

\* The invariant holds as long as no worker is slow.
LEMMA OwnedStep ==
    ASSUME MaxSlow = 0, TypeOK, HeldIsOwned, [Next]_vars
    PROVE  HeldIsOwned'
<1>1. CASE Enqueue \/ EnqueueForeign
  <2>1. UNCHANGED <<owner, idle, worker>>
    BY <1>1 DEF Enqueue, EnqueueForeign
  <2> QED
    BY <2>1 DEF HeldIsOwned, Held
<1>2. ASSUME NEW e \in Entries, BecomeIdle(e) PROVE HeldIsOwned'
  <2>1. ~HeldByOwner(e)
    BY <1>2 DEF BecomeIdle, TypeOK, FaultsOK
  <2>2. e \in InPel /\ idle' = idle \cup {e} /\ UNCHANGED <<owner, worker>>
    BY <1>2 DEF BecomeIdle
  <2>3. \A c \in Consumers : e \notin Held(c)
    BY <2>1, <2>2 DEF HeldByOwner, HeldIsOwned, InPel
  <2> QED
    BY <2>2, <2>3 DEF HeldIsOwned, Held
<1>3. ASSUME NEW c \in Consumers, Start(c) \/ Progress(c) \/ Fault(c) PROVE HeldIsOwned'
  BY <1>3, OwnedPoll, OwnedProcess DEF Progress, Fault
<1>4. CASE UNCHANGED vars
  BY <1>4 DEF vars, stream, HeldIsOwned, Held
<1> QED
  BY <1>1, <1>2, <1>3, <1>4 DEF Next

LEMMA OwnedInit == Init => HeldIsOwned
  BY DEF Init, HeldIsOwned, Held, Down

\* No two live workers ever have the same message, whatever crashes, lost
\* replies and reclaims happen, as long as no message is held for longer than
\* min_idle_ms (MaxSlow = 0).
THEOREM Exclusive == ASSUME MaxSlow = 0 PROVE Spec => []ExclusiveExecution
<1>1. Init => HeldIsOwned
  BY OwnedInit
<1>2. TypeOK /\ HeldIsOwned /\ [Next]_vars => HeldIsOwned'
  BY OwnedStep
<1>3. HeldIsOwned => ExclusiveExecution
  BY DEF HeldIsOwned, ExclusiveExecution
<1> QED
  BY <1>1, <1>2, <1>3, TypeCorrect, PTL DEF Spec

-----------------------------------------------------------------------------
(* An acknowledged job is final                                            *)

\* A job that a worker holds is not settled, and no other worker holds it.
LEMMA HeldIsOpen ==
    ASSUME TypeOK, HeldIsOwned, NEW c \in Consumers, NEW e \in Held(c)
    PROVE  /\ e \in Entries /\ ~Settled(e)
           /\ \A d \in Consumers \ {c} : e \notin Held(d)
<1>1. owner[e] = c
  BY DEF HeldIsOwned
<1>2. e \in Entries
  BY SizesAssumption DEF TypeOK, WorkersOK, WorkerState, Held, Entries
<1> QED
  BY <1>1, <1>2, ConsumersAssumption DEF HeldIsOwned, Settled

\* A worker between MarkRunning and Ack holds its job.
LEMMA ExecutingHolds ==
    ASSUME TypeOK, NEW c \in Consumers, worker[c].pc \in {"scan", "except", "ack"}
    PROVE  worker[c].entry \in Jobs /\ worker[c].entry \in Held(c)
  BY SizesAssumption DEF TypeOK, WorkersOK, Held, Jobs, Entries

\* A step of worker c that changes at most the status of a job it holds, and
\* reaches "ack" only with that job's terminal status.
LEMMA MarkedWorkerStep ==
    ASSUME TypeOK, HeldIsOwned, MarkedBeforeAck, NEW c \in Consumers,
           \A d \in Consumers \ {c} : worker'[d] = worker[d],
           \A j \in Jobs \ Held(c) : status'[j] = status[j],
           \A j \in Jobs : Settled(j)' => Settled(j) \/ status'[j] \in Terminal,
           worker'[c].pc = "ack" => status'[worker'[c].entry] \in Terminal
    PROVE  MarkedBeforeAck'
<1>1. ASSUME NEW j \in Jobs, Settled(j)' PROVE status'[j] \in Terminal
  <2>1. CASE Settled(j)
    BY <2>1, HeldIsOpen DEF MarkedBeforeAck
  <2> QED
    BY <1>1, <2>1
<1>2. ASSUME NEW d \in Consumers, worker'[d].pc = "ack"
      PROVE  status'[worker'[d].entry] \in Terminal
  <2>1. CASE d # c
    <3>1. worker'[d] = worker[d]
      BY <2>1
    <3>2. worker[d].entry \in Jobs /\ worker[d].entry \in Held(d)
      BY <1>2, <3>1, ExecutingHolds
    <3>3. worker[d].entry \notin Held(c)
      BY <2>1, <3>2, HeldIsOpen
    <3> QED
      BY <1>2, <3>1, <3>2, <3>3 DEF MarkedBeforeAck
  <2> QED
    BY <1>2, <2>1
<1> QED
  BY <1>1, <1>2 DEF MarkedBeforeAck, Terminal

\* Deliveries settle nothing.
LEMMA DeliverySettlesNothing ==
    ASSUME TypeOK, NEW c \in Consumers, NEW S \in SUBSET Entries, DeliverTo(c, S),
           delivered' = delivered \/ (delivered' = delivered + 1 /\ delivered + 1 \in S)
    PROVE  \A e \in Entries : Settled(e)' => Settled(e)
<1>1. delivered \in Nat
  BY SizesAssumption DEF TypeOK, StreamOK
<1>2. \A e \in Entries : owner'[e] = IF e \in S THEN c ELSE owner[e]
  BY DEF DeliverTo
<1> QED
  BY <1>1, <1>2, ConsumersAssumption DEF Settled, Entries

LEMMA MarkedPoll ==
    ASSUME TypeOK, HeldIsOwned, MarkedBeforeAck, NEW c \in Consumers,
           \/ Start(c) \/ ListPending(c) \/ ListPendingFails(c)
           \/ Claim(c) \/ ClaimFails(c) \/ Read(c) \/ ReadNothing(c) \/ ReadFails(c)
           \/ Stop(c) \/ Crash(c)
    PROVE  MarkedBeforeAck'
<1>0. /\ worker \in [Consumers -> WorkerState] /\ worker[c] \in WorkerState
      /\ \A d \in Consumers \ {c} : worker'[d] = worker[d]
  BY OneWorkerMoves, HeldBySteps DEF Progress, Fault, TypeOK, WorkersOK
<1>1. UNCHANGED status
  BY DEF Start, ListPending, ListPendingFails, Claim, ClaimFails, Read, ReadNothing,
         ReadFails, Stop, Crash, job
<1>2. worker'[c].pc # "ack"
  BY PollEffect
<1>3. \A e \in Entries : Settled(e)' => Settled(e)
  <2>1. CASE UNCHANGED <<owner, delivered>>
    BY <2>1 DEF Settled
  <2>2. Claimable(c) \in SUBSET Entries
    BY DEF Claimable, InPel
  <2>3. delivered < sent => {delivered + 1} \in SUBSET Entries
    BY SizesAssumption DEF TypeOK, StreamOK, Entries
  <2>4. CASE Claim(c) \/ ClaimFails(c)
    BY <2>1, <2>2, <2>4, DeliverySettlesNothing DEF Claim, ClaimFails
  <2>5. CASE Read(c) \/ ReadFails(c)
    <3>1. CASE delivered < sent /\ delivered' = delivered + 1 /\ DeliverTo(c, {delivered + 1})
      BY <2>3, <3>1, DeliverySettlesNothing
    <3> QED
      BY <2>1, <2>5, <3>1 DEF Read, ReadFails
  <2> QED
    BY <2>1, <2>4, <2>5 DEF Start, ListPending, ListPendingFails, ReadNothing, Stop, Crash, stream
<1>4. Jobs \subseteq Entries
  BY DEF Jobs
<1> QED
  BY <1>0, <1>1, <1>2, <1>3, <1>4, MarkedWorkerStep

LEMMA MarkedProcess ==
    ASSUME TypeOK, HeldIsOwned, MarkedBeforeAck, NEW c \in Consumers,
           \/ SkipForeign(c) \/ MarkRunning(c) \/ DescribeTable(c) \/ DescribeFails(c)
           \/ SaveFails(c) \/ ConfigFails(c) \/ ExecuteRaises(c)
           \/ Finish(c) \/ FinishFails(c) \/ MarkFailed(c) \/ Ack(c)
    PROVE  MarkedBeforeAck'
<1> DEFINE w == worker'[c]
           j == worker[c].entry
<1>0. /\ worker \in [Consumers -> WorkerState] /\ worker[c] \in WorkerState
      /\ \A d \in Consumers \ {c} : worker'[d] = worker[d]
      /\ w \in WorkerState /\ worker' = [worker EXCEPT ![c] = w]
  BY OneWorkerMoves, HeldBySteps DEF Progress, Fault, TypeOK, WorkersOK
<1>1. Jobs \subseteq Entries
  BY DEF Jobs
<1>2. ASSUME UNCHANGED <<owner, delivered>>
      PROVE  \A e \in Entries : Settled(e)' => Settled(e)
  BY <1>2 DEF Settled
<1>3. ASSUME NEW e \in Entries, NEW outcome, status' = [status EXCEPT ![e] = outcome]
      PROVE  status'[e] = outcome /\ \A f \in Entries \ {e} : status'[f] = status[f]
  BY <1>3 DEF TypeOK, JobsOK
<1>4. ASSUME worker[c].pc \in {"scan", "except"}, NEW outcome \in Terminal,
             status' = [status EXCEPT ![j] = outcome], UNCHANGED <<owner, delivered>>,
             w.entry = j
      PROVE  MarkedBeforeAck'
  <2>1. j \in Jobs /\ j \in Held(c) /\ j \in Entries
    BY <1>1, <1>4, ExecutingHolds
  <2>2. status'[j] = outcome /\ \A f \in Entries \ {j} : status'[f] = status[f]
    BY <1>3, <1>4, <2>1
  <2> QED
    BY <1>0, <1>1, <1>2, <1>4, <2>1, <2>2, MarkedWorkerStep
<1>5. ASSUME UNCHANGED <<owner, delivered, status>>, w.pc # "ack" PROVE MarkedBeforeAck'
  BY <1>0, <1>1, <1>2, <1>5, MarkedWorkerStep
<1>6. CASE DescribeTable(c) \/ DescribeFails(c) \/ SaveFails(c) \/ ConfigFails(c)
  <2>1. w.pc = "scan"
    BY <1>0, <1>6, AdvanceEffect
       DEF DescribeTable, DescribeFails, SaveFails, ConfigFails, AtTable
  <2> QED
    BY <1>5, <1>6, <2>1
       DEF DescribeTable, DescribeFails, SaveFails, ConfigFails, stream, job
<1>7. CASE ExecuteRaises(c)
  <2>1. w.pc = "except"
    BY <1>0, <1>7 DEF ExecuteRaises, GoTo, WorkerState
  <2> QED
    BY <1>5, <1>7, <2>1 DEF ExecuteRaises, stream, job
<1>8. CASE MarkRunning(c)
  <2> PICK e \in Jobs :
        /\ IsNext(c, e) /\ status' = [status EXCEPT ![e] = "running"] /\ UNCHANGED stream
        /\ worker' = [worker EXCEPT ![c] =
                        [worker[c] EXCEPT !.pc = "scan", !.batch = worker[c].batch \ {e},
                                  !.entry = e, !.next = 1, !.count = 0, !.errs = FALSE]]
    BY <1>8 DEF MarkRunning
  <2>1. e \in Held(c) /\ e \in Entries
    BY <1>1 DEF IsNext, Held
  <2>2. \A f \in Entries \ {e} : status'[f] = status[f]
    BY <1>3, <2>1
  <2>3. w.pc = "scan"
    BY <1>0 DEF WorkerState
  <2>4. UNCHANGED <<owner, delivered>>
    BY DEF stream
  <2> QED
    BY <1>0, <1>1, <1>2, <2>1, <2>2, <2>3, <2>4, MarkedWorkerStep
<1>9. CASE Finish(c) \/ MarkFailed(c)
  <2>1. w.entry = j /\ worker[c].pc \in {"scan", "except"} /\ UNCHANGED <<owner, delivered>>
    BY <1>0, <1>9, GoToEffect DEF Finish, MarkFailed, ScanDone, stream
  <2>2. \E outcome \in Terminal : status' = [status EXCEPT ![j] = outcome]
    BY <1>9 DEF Finish, MarkFailed, Mark, Outcome, Terminal
  <2> QED
    BY <1>4, <2>1, <2>2
<1>10. CASE FinishFails(c)
  <2>1. /\ w.entry = j /\ w.pc = "except" /\ worker[c].pc = "scan"
        /\ UNCHANGED <<owner, delivered>>
    BY <1>0, <1>10, GoToEffect DEF FinishFails, ScanDone, GoTo, WorkerState, stream
  <2>2. UNCHANGED status \/ \E outcome \in Terminal : status' = [status EXCEPT ![j] = outcome]
    BY <1>10 DEF FinishFails, Mark, Outcome, Terminal
  <2> QED
    BY <1>4, <1>5, <2>1, <2>2
<1>11. CASE SkipForeign(c)
  <2> PICK f \in Foreign :
        /\ AckEntry(f) /\ UNCHANGED <<delivered, job>>
        /\ worker' = [worker EXCEPT ![c] = AfterMessage(worker[c], worker[c].batch \ {f})]
    BY <1>11 DEF SkipForeign
  <2>1. \A e \in Jobs : Settled(e)' => Settled(e)
    BY <1>1 DEF Settled, AckEntry, Jobs, TypeOK, StreamOK
  <2>2. worker[c].batch \ {f} \in SUBSET Entries
    BY <1>0 DEF WorkerState
  <2>3. w.pc \in {"begin", "poll", "read"}
    BY <1>0, <2>2, AfterMessageType
  <2> QED
    BY <1>0, <2>1, <2>3, MarkedWorkerStep DEF job
<1>12. CASE Ack(c)
  <2>1. /\ AckEntry(j) /\ worker[c].pc = "ack" /\ UNCHANGED <<delivered, job>>
        /\ worker' = [worker EXCEPT ![c] = AfterMessage(worker[c], worker[c].batch)]
    BY <1>12 DEF Ack
  <2>2. j \in Jobs /\ status[j] \in Terminal
    BY <2>1, ExecutingHolds DEF MarkedBeforeAck
  <2>3. \A e \in Jobs : Settled(e)' => Settled(e) \/ status'[e] \in Terminal
    BY <1>1, <2>1, <2>2 DEF Settled, AckEntry, TypeOK, StreamOK, job
  <2>4. w.pc \in {"begin", "poll", "read"}
    BY <1>0, <2>1, AfterMessageType DEF WorkerState
  <2> QED
    BY <1>0, <2>1, <2>3, <2>4, MarkedWorkerStep DEF job
<1> QED
  BY <1>6, <1>7, <1>8, <1>9, <1>10, <1>11, <1>12

LEMMA MarkedStep ==
    ASSUME TypeOK, HeldIsOwned, MarkedBeforeAck, [Next]_vars
    PROVE  MarkedBeforeAck'
<1>1. CASE Enqueue \/ EnqueueForeign
  <2>1. UNCHANGED <<owner, delivered, worker>> /\ delivered <= sent /\ delivered \in Nat /\ sent \in Nat
    BY <1>1, SizesAssumption DEF Enqueue, EnqueueForeign, TypeOK, StreamOK
  <2>2. \A e \in Entries : e <= delivered => status'[e] = status[e]
    <3>1. CASE EnqueueForeign
      BY <3>1 DEF EnqueueForeign, job
    <3>2. CASE Enqueue
      <4>1. status' = [status EXCEPT ![sent + 1] = "pending"]
        BY <3>2 DEF Enqueue
      <4>2. \A e \in Entries : e # sent + 1 => status'[e] = status[e]
        BY <4>1 DEF TypeOK, JobsOK
      <4> QED
        BY <2>1, <4>2 DEF Entries
    <3> QED
      BY <1>1, <3>1, <3>2
  <2>3. \A c \in Consumers : Held(c) \subseteq 1..delivered
    BY DEF TypeOK, WorkersOK
  <2>4. \A c \in Consumers : worker[c].pc = "ack" =>
            worker[c].entry \in Entries /\ worker[c].entry <= delivered
    BY <2>3, ExecutingHolds DEF Jobs
  <2> QED
    BY <2>1, <2>2, <2>4 DEF MarkedBeforeAck, Settled, Jobs, Terminal
<1>2. ASSUME NEW e \in Entries, BecomeIdle(e) PROVE MarkedBeforeAck'
  BY <1>2 DEF BecomeIdle, MarkedBeforeAck, Settled, job
<1>3. ASSUME NEW c \in Consumers, Start(c) \/ Progress(c) \/ Fault(c) PROVE MarkedBeforeAck'
  BY <1>3, MarkedPoll, MarkedProcess DEF Progress, Fault
<1>4. CASE UNCHANGED vars
  BY <1>4 DEF vars, stream, job, MarkedBeforeAck, Settled
<1> QED
  BY <1>1, <1>2, <1>3, <1>4 DEF Next

LEMMA MarkedInit == Init => MarkedBeforeAck
<1>1. Init => \A j \in Jobs : ~Settled(j)
  BY DEF Init, Settled, Jobs, Entries
<1> QED
  BY <1>1 DEF Init, MarkedBeforeAck, Down

\* As long as no message is held for longer than min_idle_ms, an acknowledged
\* job has a terminal status, and nobody is at work on it any more.
THEOREM AckedTerminal == ASSUME MaxSlow = 0 PROVE Spec => []AckedIsTerminal
<1>1. Init => MarkedBeforeAck
  BY MarkedInit
<1>2. TypeOK /\ HeldIsOwned /\ MarkedBeforeAck /\ [Next]_vars => MarkedBeforeAck'
  BY MarkedStep
<1>3. TypeOK /\ HeldIsOwned /\ MarkedBeforeAck => AckedIsTerminal
  BY HeldIsOpen DEF MarkedBeforeAck, AckedIsTerminal
<1>4. Init => HeldIsOwned
  BY OwnedInit
<1>5. TypeOK /\ HeldIsOwned /\ [Next]_vars => HeldIsOwned'
  BY OwnedStep
<1> QED
  BY <1>1, <1>2, <1>3, <1>4, <1>5, TypeCorrect, PTL DEF Spec

-----------------------------------------------------------------------------
(* The pipeline implements ScanJobs                                        *)

\* The job a worker executes is running, and one in the except branch was.
RunningOf(c) ==
    /\ worker[c].pc = "scan" => status[worker[c].entry] = "running"
    /\ worker[c].pc = "except" => status[worker[c].entry] # "pending"

ExecutingIsRunning == \A c \in Consumers : RunningOf(c)

\* A step of worker c that changes at most the status of a job it holds.
LEMMA RunningWorkerStep ==
    ASSUME TypeOK, HeldIsOwned, ExecutingIsRunning, NEW c \in Consumers,
           \A d \in Consumers \ {c} : worker'[d] = worker[d],
           \A j \in Jobs \ Held(c) : status'[j] = status[j],
           RunningOf(c)'
    PROVE  ExecutingIsRunning'
<1>1. ASSUME NEW d \in Consumers \ {c} PROVE RunningOf(d)'
  <2>1. CASE worker[d].pc \in {"scan", "except"}
    <3>1. worker[d].entry \in Jobs /\ worker[d].entry \in Held(d)
      BY <2>1, ExecutingHolds
    <3>2. worker[d].entry \notin Held(c)
      BY <3>1, HeldIsOpen
    <3> QED
      BY <3>1, <3>2 DEF ExecutingIsRunning, RunningOf
  <2>2. CASE worker[d].pc \notin {"scan", "except"}
    BY <2>2 DEF RunningOf
  <2> QED
    BY <2>1, <2>2
<1> QED
  BY <1>1 DEF ExecutingIsRunning

LEMMA RunningStep ==
    ASSUME TypeOK, HeldIsOwned, ExecutingIsRunning, [Next]_vars
    PROVE  ExecutingIsRunning'
<1>0. Jobs \subseteq Entries
  BY DEF Jobs
<1>1. CASE Enqueue \/ EnqueueForeign \/ (\E e \in Entries : BecomeIdle(e)) \/ UNCHANGED vars
  <2>1. UNCHANGED worker
    BY <1>1 DEF Enqueue, EnqueueForeign, BecomeIdle, vars
  <2>2. ASSUME NEW c \in Consumers, worker[c].pc \in {"scan", "except"}
        PROVE  status'[worker[c].entry] = status[worker[c].entry]
    <3>1. worker[c].entry \in 1..delivered /\ worker[c].entry \in Entries
      BY <1>0, <2>2, ExecutingHolds DEF TypeOK, WorkersOK
    <3>2. worker[c].entry # sent + 1
      BY <3>1, SizesAssumption DEF TypeOK, StreamOK
    <3> QED
      BY <1>1, <3>1, <3>2 DEF Enqueue, EnqueueForeign, BecomeIdle, vars, job, TypeOK, JobsOK
  <2> QED
    BY <2>1, <2>2 DEF ExecutingIsRunning, RunningOf
<1>2. ASSUME NEW c \in Consumers,
             \/ Start(c) \/ ListPending(c) \/ ListPendingFails(c)
             \/ Claim(c) \/ ClaimFails(c) \/ Read(c) \/ ReadNothing(c) \/ ReadFails(c)
             \/ Stop(c) \/ Crash(c) \/ SkipForeign(c) \/ Ack(c)
      PROVE  ExecutingIsRunning'
  <2>1. RunningOf(c)'
    BY <1>2, PollEffect, AckEffect DEF RunningOf
  <2>2. UNCHANGED status
    BY <1>2 DEF Start, ListPending, ListPendingFails, Claim, ClaimFails, Read, ReadNothing,
                ReadFails, Stop, Crash, SkipForeign, Ack, job
  <2> QED
    BY <1>2, <2>1, <2>2, OneWorkerMoves, RunningWorkerStep DEF Progress, Fault
<1>3. ASSUME NEW c \in Consumers, MarkRunning(c) PROVE ExecutingIsRunning'
  <2>0. worker \in [Consumers -> WorkerState] /\ worker[c] \in WorkerState
    BY DEF TypeOK, WorkersOK
  <2> PICK e \in Jobs :
        /\ IsNext(c, e) /\ status' = [status EXCEPT ![e] = "running"]
        /\ worker' = [worker EXCEPT ![c] =
                        [worker[c] EXCEPT !.pc = "scan", !.batch = worker[c].batch \ {e},
                                  !.entry = e, !.next = 1, !.count = 0, !.errs = FALSE]]
    BY <1>3 DEF MarkRunning
  <2>1. worker'[c].pc = "scan" /\ worker'[c].entry = e /\ e \in Held(c)
    BY <2>0 DEF WorkerState, IsNext, Held
  <2>2. status'[e] = "running" /\ \A j \in Jobs \ Held(c) : status'[j] = status[j]
    BY <1>0, <2>1 DEF TypeOK, JobsOK
  <2>3. RunningOf(c)'
    BY <2>1, <2>2 DEF RunningOf
  <2> QED
    BY <1>3, <2>2, <2>3, OneWorkerMoves, RunningWorkerStep DEF Progress
<1>4. ASSUME NEW c \in Consumers,
             \/ DescribeTable(c) \/ DescribeFails(c) \/ SaveFails(c) \/ ConfigFails(c)
             \/ ExecuteRaises(c)
      PROVE  ExecutingIsRunning'
  <2>1. UNCHANGED status /\ worker[c].pc = "scan"
    BY <1>4 DEF DescribeTable, DescribeFails, SaveFails, ConfigFails, ExecuteRaises, AtTable, job
  <2>2. worker'[c].entry = worker[c].entry
    <3>1. worker \in [Consumers -> WorkerState]
      BY DEF TypeOK, WorkersOK
    <3>2. (\E n, k, x : Advance(c, n, k, x)) \/ GoTo(c, "except")
      BY <1>4 DEF DescribeTable, DescribeFails, SaveFails, ConfigFails, ExecuteRaises
    <3> QED
      BY <3>1, <3>2, AdvanceEffect, GoToEffect
  <2>3. RunningOf(c)'
    BY <2>1, <2>2 DEF ExecutingIsRunning, RunningOf
  <2> QED
    BY <1>4, <2>1, <2>3, OneWorkerMoves, RunningWorkerStep DEF Progress
<1>5. ASSUME NEW c \in Consumers, Finish(c) \/ FinishFails(c) \/ MarkFailed(c)
      PROVE  ExecutingIsRunning'
  <2> DEFINE e == worker[c].entry
  <2>1. worker[c].pc \in {"scan", "except"} /\ worker \in [Consumers -> WorkerState]
    BY <1>5 DEF Finish, FinishFails, MarkFailed, ScanDone, TypeOK, WorkersOK
  <2>2. e \in Held(c) /\ e \in Entries
    BY <1>0, <2>1, ExecutingHolds
  <2>3. \A j \in Jobs \ Held(c) : status'[j] = status[j]
    BY <1>0, <1>5, <2>2 DEF Finish, FinishFails, MarkFailed, Mark, TypeOK, JobsOK
  <2>4. RunningOf(c)'
    <3>1. CASE Finish(c) \/ MarkFailed(c)
      BY <2>1, <3>1, GoToEffect DEF Finish, MarkFailed, RunningOf
    <3>2. CASE FinishFails(c)
      <4>1. worker'[c].pc = "except" /\ worker'[c].entry = e /\ worker[c].pc = "scan"
        BY <2>1, <3>2, GoToEffect DEF FinishFails, ScanDone
      <4>2. status'[e] # "pending"
        BY <2>2, <3>2, <4>1
           DEF FinishFails, Mark, Outcome, TypeOK, JobsOK, ExecutingIsRunning, RunningOf
      <4> QED
        BY <4>1, <4>2 DEF RunningOf
    <3> QED
      BY <1>5, <3>1, <3>2
  <2> QED
    BY <1>5, <2>3, <2>4, OneWorkerMoves, RunningWorkerStep DEF Progress, Fault
<1> QED
  BY <1>1, <1>2, <1>3, <1>4, <1>5 DEF Next, Progress, Fault

\* The records the client sees stay when the jobs' do.
LEMMA SameForClient ==
    ASSUME UNCHANGED job
    PROVE  /\ OfJobs(status)' = OfJobs(status) /\ OfJobs(resultCount)' = OfJobs(resultCount)
           /\ OfJobs(error)' = OfJobs(error) /\ OfJobs(results)' = OfJobs(results)
  BY DEF OfJobs, job

\* A job is open from its submission until its entry is acknowledged.
LEMMA SameOpen ==
    ASSUME UNCHANGED sent, \A j \in Jobs : Settled(j)' <=> Settled(j)
    PROVE  Open' = Open /\ Retired' = Retired
  BY DEF Open, Retired

LEMMA HeldIsInOpen ==
    ASSUME TypeOK, HeldIsOwned, NEW c \in Consumers, NEW j \in Jobs, j \in Held(c)
    PROVE  j \in Open
<1>1. Held(c) \subseteq 1..delivered /\ delivered \in 0..sent /\ sent \in Nat
  BY SizesAssumption DEF TypeOK, WorkersOK, StreamOK
<1>2. ~Settled(j) /\ j \in Nat /\ j <= sent
  BY <1>1, HeldIsOpen DEF Jobs, Entries
<1> QED
  BY <1>2 DEF Open

\* Unchanged when only the workers and the faults move.
LEMMA ClientStutters ==
    ASSUME UNCHANGED job, UNCHANGED sent, \A j \in Jobs : Settled(j)' <=> Settled(j)
    PROVE  UNCHANGED Client!vars
  BY SameForClient, SameOpen DEF Client!vars

\* Enqueue is Submit.
LEMMA EnqueueSubmits ==
    ASSUME TypeOK, Enqueue
    PROVE  Client!Submit(sent + 1)
<1> DEFINE j == sent + 1
<1>1. /\ j \in Jobs /\ j \in Entries /\ sent \in Nat /\ delivered \in Nat /\ delivered <= sent
      /\ sent' = sent + 1 /\ UNCHANGED <<delivered, owner, resultCount, error, results>>
      /\ status' = [status EXCEPT ![j] = "pending"]
  BY SizesAssumption DEF Enqueue, Jobs, TypeOK, StreamOK
<1>2. \A k \in Jobs : k \in Nat /\ (Settled(k)' <=> Settled(k))
  BY <1>1 DEF Settled, Jobs, Entries
<1>3. ~Settled(j) /\ j \notin Open \cup Retired
  BY <1>1 DEF Settled, Open, Retired
<1>4. Open' = Open \cup {j} /\ Retired' = Retired
  BY <1>1, <1>2, <1>3 DEF Open, Retired
<1>5. OfJobs(status)' = [OfJobs(status) EXCEPT ![j] = "pending"]
  BY <1>1 DEF OfJobs, Jobs, TypeOK, JobsOK
<1>6. /\ OfJobs(resultCount)' = OfJobs(resultCount) /\ OfJobs(error)' = OfJobs(error)
      /\ OfJobs(results)' = OfJobs(results)
  BY <1>1 DEF OfJobs
<1> QED
  BY <1>3, <1>4, <1>5, <1>6 DEF Client!Submit

\* Deliveries, the steps of _poll and lost processes are hidden from a client.
LEMMA PollIsHidden ==
    ASSUME TypeOK, NEW c \in Consumers,
           \/ Start(c) \/ ListPending(c) \/ ListPendingFails(c)
           \/ Claim(c) \/ ClaimFails(c) \/ Read(c) \/ ReadNothing(c) \/ ReadFails(c)
           \/ Stop(c) \/ Crash(c)
    PROVE  UNCHANGED Client!vars
<1>0. Jobs \subseteq Entries /\ delivered \in Nat
  BY SizesAssumption DEF Jobs, TypeOK, StreamOK
<1>1. UNCHANGED job /\ UNCHANGED sent
  BY DEF Start, ListPending, ListPendingFails, Claim, ClaimFails, Read, ReadNothing, ReadFails,
         Stop, Crash, stream
<1>2. ASSUME NEW S \in SUBSET Entries, DeliverTo(c, S), \A e \in S : ~Settled(e),
             \/ delivered' = delivered
             \/ delivered' = delivered + 1 /\ delivered + 1 \in S
      PROVE  \A j \in Jobs : Settled(j)' <=> Settled(j)
  <2>1. \A j \in Jobs : Settled(j)' => Settled(j)
    BY <1>0, <1>2, DeliverySettlesNothing
  <2>2. ASSUME NEW j \in Jobs, Settled(j) PROVE Settled(j)'
    <3>1. j \notin S /\ j \in Entries /\ j \in Nat
      BY <1>0, <1>2, <2>2 DEF Entries
    <3> QED
      BY <1>0, <1>2, <2>2, <3>1 DEF Settled, DeliverTo
  <2> QED
    BY <2>1, <2>2
<1>3. Claimable(c) \in SUBSET Entries /\ \A e \in Claimable(c) : ~Settled(e)
  BY DEF Claimable, InPel, Settled
<1>4. delivered < sent => {delivered + 1} \in SUBSET Entries /\ ~Settled(delivered + 1)
  BY <1>0, SizesAssumption DEF TypeOK, StreamOK, Entries, Settled
<1>5. \A j \in Jobs : Settled(j)' <=> Settled(j)
  <2>1. CASE UNCHANGED <<owner, delivered>>
    BY <2>1 DEF Settled
  <2>2. CASE DeliverTo(c, Claimable(c)) /\ UNCHANGED delivered
    BY <1>2, <1>3, <2>2
  <2>3. CASE delivered < sent /\ delivered' = delivered + 1 /\ DeliverTo(c, {delivered + 1})
    BY <1>2, <1>4, <2>3
  <2> QED
    BY <2>1, <2>2, <2>3
       DEF Start, ListPending, ListPendingFails, Claim, ClaimFails, Read, ReadNothing, ReadFails,
           Stop, Crash, stream
<1> QED
  BY <1>1, <1>5, ClientStutters

\* Acknowledging a job retires it; a foreign entry is nothing to a client.
LEMMA AckRetires ==
    ASSUME TypeOK, HeldIsOwned, MarkedBeforeAck, NEW c \in Consumers, Ack(c)
    PROVE  worker[c].entry \in Jobs /\ Client!Retire(worker[c].entry)
<1> PICK j \in Jobs : j = worker[c].entry
  BY ExecutingHolds DEF Ack
<1>1. /\ j \in Held(c) /\ j \in Entries /\ j \in Open
      /\ status[j] \in Terminal
  BY ExecutingHolds, HeldIsInOpen DEF Ack, Jobs, MarkedBeforeAck
<1>2. UNCHANGED <<sent, delivered, job>> /\ owner' = [owner EXCEPT ![j] = None]
  BY DEF Ack, AckEntry
<1>3. /\ owner'[j] = None /\ \A k \in Jobs \ {j} : owner'[k] = owner[k]
      /\ j <= delivered
  BY <1>1, <1>2 DEF Jobs, TypeOK, StreamOK, WorkersOK
<1>4. Settled(j)' /\ \A k \in Jobs \ {j} : Settled(k)' <=> Settled(k)
  BY <1>2, <1>3 DEF Settled
<1>5. Open' = Open \ {j} /\ Retired' = Retired \cup {j}
  BY <1>1, <1>2, <1>4 DEF Open, Retired
<1>6. OfJobs(status)[j] \in Client!Terminal
  BY <1>1 DEF OfJobs, Terminal, Client!Terminal
<1> QED
  BY <1>1, <1>2, <1>5, <1>6, SameForClient DEF Client!Retire

LEMMA SkipIsHidden ==
    ASSUME TypeOK, NEW c \in Consumers, SkipForeign(c)
    PROVE  UNCHANGED Client!vars
<1> PICK f \in Foreign : AckEntry(f) /\ UNCHANGED <<sent, delivered, job>>
  BY DEF SkipForeign
<1>1. \A j \in Jobs : owner'[j] = owner[j]
  BY DEF AckEntry, Jobs, TypeOK, StreamOK
<1>2. \A j \in Jobs : Settled(j)' <=> Settled(j)
  BY <1>1 DEF Settled
<1> QED
  BY <1>2, ClientStutters

\* MarkRunning is Execute.
LEMMA MarkRunningExecutes ==
    ASSUME TypeOK, HeldIsOwned, NEW c \in Consumers, MarkRunning(c)
    PROVE  \E j \in Jobs : Client!Execute(j)
<1> PICK j \in Jobs :
      /\ IsNext(c, j) /\ status' = [status EXCEPT ![j] = "running"]
      /\ UNCHANGED <<stream, resultCount, error, results>>
  BY DEF MarkRunning
<1>1. j \in Open
  BY HeldIsInOpen DEF IsNext, Held
<1>2. Open' = Open /\ Retired' = Retired
  BY SameOpen DEF stream, Settled
<1>3. /\ OfJobs(status)' = [OfJobs(status) EXCEPT ![j] = "running"]
      /\ OfJobs(resultCount)' = OfJobs(resultCount)
      /\ OfJobs(error)' = OfJobs(error) /\ OfJobs(results)' = OfJobs(results)
  BY DEF OfJobs, Jobs, TypeOK, JobsOK
<1> QED
  BY <1>1, <1>2, <1>3 DEF Client!Execute

\* A result is stored: Describe.
LEMMA ResultDescribes ==
    ASSUME TypeOK, HeldIsOwned, ExecutingIsRunning, NEW c \in Consumers,
           DescribeTable(c) \/ SaveFails(c)
    PROVE  \E j \in Jobs : \E t \in Client!Tables : Client!Describe(j, t)
<1>1. /\ AtTable(c) /\ AppendResult(worker[c].entry, worker[c].next)
      /\ UNCHANGED <<stream, status, resultCount, error>>
  BY DEF DescribeTable, SaveFails
<1> PICK j \in Jobs : j = worker[c].entry /\ j \in Open /\ j \in Entries /\ status[j] = "running"
  BY <1>1, ExecutingHolds, HeldIsInOpen DEF AtTable, Jobs, ExecutingIsRunning, RunningOf
<1>2. worker[c].next \in 1..(NumTables + 1) /\ worker[c].next <= NumTables
  BY <1>1 DEF AtTable, TypeOK, WorkersOK, WorkerState
<1> PICK t \in Client!Tables : t = worker[c].next
  BY <1>2, SizesAssumption DEF Client!Tables
<1>3. Open' = Open /\ Retired' = Retired
  BY <1>1, SameOpen DEF stream, Settled
<1>4. /\ OfJobs(results)' = [OfJobs(results) EXCEPT ![j] = Append(results[j], t)]
      /\ OfJobs(results)[j] = results[j] /\ OfJobs(status)[j] = "running"
      /\ OfJobs(resultCount)' = OfJobs(resultCount)
      /\ OfJobs(error)' = OfJobs(error) /\ OfJobs(status)' = OfJobs(status)
  BY <1>1 DEF AppendResult, OfJobs, Jobs, TypeOK, JobsOK
<1> QED
  BY <1>3, <1>4 DEF Client!Describe

\* The mark of an outcome that follows from what the execution counted.
LEMMA OutcomeEnds ==
    ASSUME TypeOK, HeldIsOwned, ExecutingIsRunning, ResultsInv, CountInv, NEW c \in Consumers,
           ScanDone(c), Mark(worker[c].entry, Outcome(worker[c]), worker[c].count),
           UNCHANGED <<stream, results>>
    PROVE  \E j \in Jobs : \/ Client!Complete(j) \/ Client!Fail(j)
                           \/ \E n \in Client!Tables : Client!EndPartial(j, n)
<1> DEFINE w == worker[c]
<1> PICK j \in Jobs : j = w.entry /\ j \in Open /\ j \in Entries /\ status[j] = "running"
  BY ExecutingHolds, HeldIsInOpen DEF ScanDone, Jobs, ExecutingIsRunning, RunningOf
<1>1. Open' = Open /\ Retired' = Retired
  BY SameOpen DEF stream, Settled
<1>2. /\ w.pc = "scan" /\ w.next = NumTables + 1 /\ w.count \in 0..NumTables /\ w.errs \in BOOLEAN
      /\ w.count <= Cardinality(Passed(c))
  BY SizesAssumption DEF ScanDone, TypeOK, WorkersOK, WorkerState, CountInv, CountBacked
<1>3. /\ OfJobs(status)[j] = "running" /\ OfJobs(results)[j] = results[j]
      /\ OfJobs(results)' = OfJobs(results)
  BY DEF OfJobs
<1>4. CASE ~w.errs
  <2>1. w.count = NumTables /\ Tables \subseteq Described(j)
    BY <1>2, <1>4, SizesAssumption DEF ResultsInv, CountedAreDescribed, Tables
  <2>2. /\ OfJobs(status)' = [OfJobs(status) EXCEPT ![j] = "completed"]
        /\ OfJobs(resultCount)' = [OfJobs(resultCount) EXCEPT ![j] = NumTables]
        /\ OfJobs(error)' = OfJobs(error)
    BY <1>4, <2>1 DEF Mark, Outcome, OfJobs, Jobs, TypeOK, JobsOK
  <2>3. Client!Tables \subseteq Client!Described(j)
    BY <1>3, <2>1 DEF Client!Tables, Client!Described, Tables, Described
  <2> QED
    BY <1>1, <1>3, <2>2, <2>3 DEF Client!Complete
<1>5. CASE w.errs /\ w.count > 0
  <2>1. /\ OfJobs(status)' = [OfJobs(status) EXCEPT ![j] = "partial"]
        /\ OfJobs(resultCount)' = [OfJobs(resultCount) EXCEPT ![j] = w.count]
        /\ OfJobs(error)' = [OfJobs(error) EXCEPT ![j] = TRUE]
    BY <1>5 DEF Mark, Outcome, OfJobs, Jobs, TypeOK, JobsOK
  <2>2. w.count <= Len(results[j]) /\ Len(results[j]) \in Nat
    <3>1. /\ IsFiniteSet(Described(j)) /\ Cardinality(Described(j)) \in Nat
          /\ Cardinality(Described(j)) <= Len(results[j])
      BY DescribedFinite
    <3>2. Passed(c) \subseteq Described(j)
      BY DEF Passed
    <3>3. Cardinality(Passed(c)) \in Nat /\ Cardinality(Passed(c)) <= Cardinality(Described(j))
      BY <3>1, <3>2, FS_Subset, FS_CardinalityType
    <3>4. Len(results[j]) \in Nat
      BY DEF TypeOK, JobsOK
    <3> QED
      BY <1>2, <3>1, <3>3, <3>4
  <2>3. w.count \in Client!Tables /\ w.count \in 1..Len(OfJobs(results)[j])
    BY <1>2, <1>3, <1>5, <2>2, SizesAssumption DEF Client!Tables
  <2>4. Client!EndPartial(j, w.count)
    BY <1>1, <1>3, <2>1, <2>3 DEF Client!EndPartial
  <2> QED
    BY <2>3, <2>4
<1>6. CASE w.errs /\ ~(w.count > 0)
  <2>1. /\ OfJobs(status)' = [OfJobs(status) EXCEPT ![j] = "failed"]
        /\ OfJobs(resultCount)' = OfJobs(resultCount)
        /\ OfJobs(error)' = [OfJobs(error) EXCEPT ![j] = TRUE]
    BY <1>6 DEF Mark, Outcome, OfJobs, Jobs, TypeOK, JobsOK
  <2> QED
    BY <1>1, <1>3, <2>1 DEF Client!Fail
<1> QED
  BY <1>2, <1>4, <1>5, <1>6

\* mark_failed, in the except branch: Fail, whatever mark came before.
LEMMA MarkFailedFails ==
    ASSUME TypeOK, HeldIsOwned, ExecutingIsRunning, NEW c \in Consumers, MarkFailed(c)
    PROVE  \E j \in Jobs : Client!Fail(j)
<1> PICK j \in Jobs : j = worker[c].entry /\ j \in Open /\ j \in Entries /\ status[j] # "pending"
  BY ExecutingHolds, HeldIsInOpen DEF MarkFailed, Jobs, ExecutingIsRunning, RunningOf
<1>1. Open' = Open /\ Retired' = Retired
  BY SameOpen DEF MarkFailed, stream, Settled
<1>2. /\ OfJobs(status)' = [OfJobs(status) EXCEPT ![j] = "failed"]
      /\ OfJobs(resultCount)' = OfJobs(resultCount)
      /\ OfJobs(error)' = [OfJobs(error) EXCEPT ![j] = TRUE]
      /\ OfJobs(results)' = OfJobs(results) /\ OfJobs(status)[j] = status[j]
  BY DEF MarkFailed, Mark, OfJobs, Jobs, TypeOK, JobsOK
<1> QED
  BY <1>1, <1>2 DEF Client!Fail

PipelineInv ==
    TypeOK /\ HeldIsOwned /\ MarkedBeforeAck /\ ExecutingIsRunning /\ ResultsInv /\ CountInv

\* Every step of the pipeline is a step of ScanJobs, or hidden from its clients.
LEMMA PipelineStep ==
    ASSUME PipelineInv, [Next]_vars
    PROVE  [Client!Next]_(Client!vars)
<1> USE DEF PipelineInv
<1>1. CASE Enqueue
  <2>1. sent + 1 \in Jobs
    BY <1>1 DEF Enqueue
  <2> QED
    BY <1>1, <2>1, EnqueueSubmits DEF Client!Next
<1>2. CASE EnqueueForeign
  <2>1. /\ UNCHANGED <<delivered, owner, job>> /\ sent' = sent + 1 /\ sent + 1 \notin Jobs
        /\ sent \in Nat
    BY <1>2, SizesAssumption DEF EnqueueForeign, Jobs, TypeOK, StreamOK
  <2>2. Open' = Open /\ Retired' = Retired
    <3>1. \A k \in Jobs : k \in Nat /\ k # sent + 1 /\ (Settled(k)' <=> Settled(k))
      BY <2>1 DEF Settled, Jobs, Entries
    <3> QED
      BY <2>1, <3>1 DEF Open, Retired
  <2> QED
    BY <2>1, <2>2, SameForClient DEF Client!vars
<1>3. CASE (\E e \in Entries : BecomeIdle(e)) \/ UNCHANGED vars
  <2>1. UNCHANGED <<sent, delivered, owner, job>>
    BY <1>3 DEF BecomeIdle, vars, stream
  <2> QED
    BY <2>1, ClientStutters DEF Settled
<1>4. ASSUME NEW c \in Consumers,
             \/ DescribeFails(c) \/ ConfigFails(c) \/ ExecuteRaises(c)
             \/ FinishFails(c) /\ UNCHANGED <<status, resultCount, error>>
      PROVE  UNCHANGED Client!vars
  <2>1. UNCHANGED <<sent, delivered, owner, job>>
    BY <1>4 DEF DescribeFails, ConfigFails, ExecuteRaises, FinishFails, stream, job
  <2> QED
    BY <2>1, ClientStutters DEF Settled
<1>5. ASSUME NEW c \in Consumers, Start(c) \/ Progress(c) \/ Fault(c)
      PROVE  [Client!Next]_(Client!vars)
  <2>1. CASE \/ Start(c) \/ ListPending(c) \/ ListPendingFails(c)
             \/ Claim(c) \/ ClaimFails(c) \/ Read(c) \/ ReadNothing(c) \/ ReadFails(c)
             \/ Stop(c) \/ Crash(c) \/ SkipForeign(c)
    BY <2>1, PollIsHidden, SkipIsHidden
  <2>2. CASE MarkRunning(c) \/ MarkFailed(c) \/ Ack(c) \/ DescribeTable(c) \/ SaveFails(c)
    BY <2>2, MarkRunningExecutes, MarkFailedFails, AckRetires, ResultDescribes DEF Client!Next
  <2>3. CASE Finish(c) \/ FinishFails(c)
    <3>1. \/ /\ ScanDone(c) /\ Mark(worker[c].entry, Outcome(worker[c]), worker[c].count)
             /\ UNCHANGED <<stream, results>>
          \/ FinishFails(c) /\ UNCHANGED <<status, resultCount, error>>
      BY <2>3 DEF Finish, FinishFails
    <3> QED
      BY <1>4, <3>1, OutcomeEnds DEF Client!Next
  <2> QED
    BY <1>4, <1>5, <2>1, <2>2, <2>3 DEF Progress, Fault
<1> QED
  BY <1>1, <1>2, <1>3, <1>5 DEF Next

LEMMA InitIsEmpty == Init => Client!Init
<1> SUFFICES ASSUME Init PROVE Client!Init
  OBVIOUS
<1>1. Jobs \subseteq Entries /\ \A j \in Jobs : j \in Nat /\ j > 0
  BY DEF Jobs, Entries
<1>2. Open = {} /\ Retired = {}
  BY <1>1 DEF Init, Open, Retired, Settled
<1>3. /\ OfJobs(status) = [j \in Jobs |-> "none"] /\ OfJobs(resultCount) = [j \in Jobs |-> 0]
      /\ OfJobs(error) = [j \in Jobs |-> FALSE] /\ OfJobs(results) = [j \in Jobs |-> <<>>]
  BY <1>1 DEF Init, OfJobs
<1> QED
  BY <1>2, <1>3 DEF Client!Init

\* As long as no message is held for longer than min_idle_ms, the stream, the
\* consumer group and its workers, with all their crashes, reclaims and lost
\* replies, give a client no more than ScanJobs promises: a job is executed
\* only while it is open, and its record is final once it is acknowledged.
THEOREM PipelineImplementsScanJobs ==
    ASSUME MaxSlow = 0 PROVE Spec => ImplementsScanJobs
<1>1. Init => HeldIsOwned /\ MarkedBeforeAck /\ ExecutingIsRunning /\ ResultsInv /\ CountInv
  BY OwnedInit, MarkedInit, ResultsInit, CountInit DEF Init, ExecutingIsRunning, RunningOf, Down
<1>2. PipelineInv /\ TypeOK' /\ [Next]_vars => PipelineInv'
  BY OwnedStep, MarkedStep, RunningStep, ResultsSteps, CountSteps DEF PipelineInv
<1>3. PipelineInv /\ [Next]_vars => [Client!Next]_(Client!vars)
  BY PipelineStep
<1>4. TypeOK /\ HeldIsOwned /\ MarkedBeforeAck /\ ExecutingIsRunning /\ ResultsInv /\ CountInv
        => PipelineInv
  BY DEF PipelineInv
<1> QED
  BY <1>1, <1>2, <1>3, <1>4, InitIsEmpty, TypeCorrect, PTL
     DEF Spec, ImplementsScanJobs, Client!Spec
=============================================================================

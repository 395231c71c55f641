------------------------- MODULE ScanResultsProofs -------------------------
(***************************************************************************)
(* What a job's record says of its results, for any number of executions,  *)
(* concurrent ones included.                                               *)
(***************************************************************************)
EXTENDS ScanQueueProofs

\* The invariant behind CompletedMeansDescribed: an execution that has met no
\* error has counted, and has a result for, every table it has passed.
CountedAreDescribed(c) ==
    worker[c].pc = "scan" /\ ~worker[c].errs =>
        /\ worker[c].count = worker[c].next - 1
        /\ 1..worker[c].count \subseteq Described(worker[c].entry)

ResultsInv ==
    CompletedMeansDescribed /\ \A c \in Consumers : CountedAreDescribed(c)

\* Results are only added.
ResultsGrow == \A e \in Entries : Described(e) \subseteq Described(e)'

LEMMA AppendDescribes ==
    ASSUME TypeOK, NEW j \in Entries, NEW t \in Tables, AppendResult(j, t)
    PROVE  ResultsGrow /\ t \in Described(j)'
<1>1. results[j] \in Seq(Tables)
  BY DEF TypeOK, JobsOK
<1>2. /\ Len(Append(results[j], t)) = Len(results[j]) + 1
      /\ Append(results[j], t)[Len(results[j]) + 1] = t
      /\ \A i \in 1..Len(results[j]) : Append(results[j], t)[i] = results[j][i]
  BY <1>1
<1>3. /\ DOMAIN results[j] = 1..Len(results[j])
      /\ DOMAIN Append(results[j], t) = 1..(Len(results[j]) + 1)
      /\ Len(results[j]) \in Nat
  BY <1>1
<1>4. results'[j] = Append(results[j], t) /\ \A e \in Entries \ {j} : results'[e] = results[e]
  BY DEF AppendResult, TypeOK, JobsOK
<1>5. t \in Described(j)' /\ Described(j) \subseteq Described(j)'
  BY <1>2, <1>3, <1>4 DEF Described
<1> QED
  BY <1>4, <1>5 DEF ResultsGrow, Described

\* The part of a step that matters here: how the record of a job may change,
\* and what the worker that moves knows afterwards.
LEMMA ResultsStep ==
    ASSUME TypeOK, ResultsInv, ResultsGrow,
           \A j \in Jobs : status'[j] = "completed" =>
              \/ status[j] = "completed" /\ resultCount'[j] = resultCount[j]
              \/ Tables \subseteq Described(j) /\ resultCount'[j] = NumTables,
           NEW c \in Consumers,
           \A d \in Consumers \ {c} : worker'[d] = worker[d],
           CountedAreDescribed(c)'
    PROVE  ResultsInv'
<1>1. CompletedMeansDescribed'
  BY DEF ResultsInv, CompletedMeansDescribed, ResultsGrow, Jobs
<1>2. ASSUME NEW d \in Consumers \ {c} PROVE CountedAreDescribed(d)'
  <2>1. worker'[d] = worker[d] /\ CountedAreDescribed(d)
    BY DEF ResultsInv
  <2>2. worker[d].pc = "scan" => Described(worker[d].entry) \subseteq Described(worker[d].entry)'
    <3>1. worker[d].pc = "scan" => worker[d].entry \in Entries
      BY DEF TypeOK, WorkersOK, Jobs
    <3>2. ASSUME NEW e \in Entries
          PROVE  {results[e][i] : i \in DOMAIN results[e]}
                   \subseteq {results'[e][i] : i \in DOMAIN results'[e]}
      BY DEF ResultsGrow, Described
    <3>3. \A e \in Entries : Described(e) \subseteq Described(e)'
      BY <3>2 DEF Described
    <3> QED
      BY <3>1, <3>3
  <2> QED
    BY <2>1, <2>2 DEF CountedAreDescribed
<1> QED
  BY <1>1, <1>2 DEF ResultsInv

LEMMA ResultsSteps ==
    ASSUME TypeOK, ResultsInv, [Next]_vars
    PROVE  ResultsInv'
<1> USE DEF stream, job
<1>1. CASE Enqueue \/ EnqueueForeign \/ \E e \in Entries : BecomeIdle(e)
  <2>1. UNCHANGED <<results, resultCount, worker>>
    BY <1>1 DEF Enqueue, EnqueueForeign, BecomeIdle
  <2>2. \A j \in Jobs : status'[j] = "completed" => status[j] = "completed"
    BY <1>1 DEF Enqueue, EnqueueForeign, BecomeIdle, TypeOK, JobsOK, Jobs
  <2> QED
    BY <2>1, <2>2 DEF ResultsInv, CompletedMeansDescribed, CountedAreDescribed, Described
<1>2. ASSUME UNCHANGED results PROVE ResultsGrow
  BY <1>2 DEF ResultsGrow, Described
<1>3. Jobs \subseteq Entries
  BY DEF Jobs
<1>4. ASSUME NEW c \in Consumers, Start(c) \/ Progress(c) \/ Fault(c),
             UNCHANGED <<status, resultCount>>, ResultsGrow, CountedAreDescribed(c)'
      PROVE  ResultsInv'
  BY <1>4, OneWorkerMoves, ResultsStep
<1>5. ASSUME NEW c \in Consumers,
             \/ Start(c) \/ ListPending(c) \/ ListPendingFails(c)
             \/ Claim(c) \/ ClaimFails(c) \/ Read(c) \/ ReadNothing(c) \/ ReadFails(c)
             \/ Stop(c) \/ Crash(c)
      PROVE  ResultsInv'
  <2>1. UNCHANGED <<status, resultCount, results>>
    BY <1>5 DEF Start, ListPending, ListPendingFails, Claim, ClaimFails, Read, ReadNothing,
                ReadFails, Stop, Crash
  <2>2. CountedAreDescribed(c)'
    BY <1>5, PollEffect DEF CountedAreDescribed
  <2> QED
    BY <1>2, <1>4, <1>5, <2>1, <2>2 DEF Progress, Fault
<1>6. ASSUME NEW c \in Consumers, SkipForeign(c) \/ Ack(c) PROVE ResultsInv'
  <2>1. CountedAreDescribed(c)'
    BY <1>6, AckEffect DEF CountedAreDescribed
  <2> QED
    BY <1>2, <1>4, <1>6, <2>1 DEF SkipForeign, Ack, Progress
<1>7. ASSUME NEW c \in Consumers, MarkRunning(c) PROVE ResultsInv'
  <2> PICK e \in Jobs :
        /\ status' = [status EXCEPT ![e] = "running"] /\ UNCHANGED <<resultCount, results>>
        /\ worker' = [worker EXCEPT ![c] =
                        [worker[c] EXCEPT !.pc = "scan", !.batch = worker[c].batch \ {e},
                                  !.entry = e, !.next = 1, !.count = 0, !.errs = FALSE]]
    BY <1>7 DEF MarkRunning
  <2>1. worker'[c].next = 1 /\ worker'[c].count = 0
    BY <1>7, OneWorkerMoves DEF Progress, WorkerState
  <2>2. CountedAreDescribed(c)'
    BY <2>1 DEF CountedAreDescribed
  <2>3. \A j \in Jobs : status'[j] = "completed" => status[j] = "completed"
    BY <1>3 DEF TypeOK, JobsOK
  <2> QED
    BY <1>2, <1>7, <2>2, <2>3, OneWorkerMoves, ResultsStep DEF Progress
<1>8. ASSUME NEW c \in Consumers, DescribeTable(c) PROVE ResultsInv'
  <2> DEFINE e == worker[c].entry
  <2>1. /\ worker[c].pc = "scan" /\ worker[c].next \in Tables /\ e \in Entries
        /\ AppendResult(e, worker[c].next) /\ UNCHANGED <<status, resultCount>>
        /\ worker[c].count \in Nat
    BY <1>3, <1>8, SizesAssumption
       DEF DescribeTable, AtTable, TypeOK, WorkersOK, WorkerState, Tables
  <2>2. ResultsGrow /\ worker[c].next \in {results'[e][i] : i \in DOMAIN results'[e]}
    <3>1. PICK j \in Entries : j = e
      BY <2>1
    <3>2. PICK t \in Tables : t = worker[c].next
      BY <2>1
    <3>3. ResultsGrow /\ t \in Described(j)'
      BY <2>1, <3>1, <3>2, AppendDescribes
    <3> QED
      BY <3>1, <3>2, <3>3 DEF Described
  <2>3. /\ worker'[c].entry = e /\ worker'[c].next = worker[c].next + 1
        /\ worker'[c].count = worker[c].count + 1 /\ worker'[c].errs = worker[c].errs
    BY <1>8, OneWorkerMoves, AdvanceEffect DEF DescribeTable, Progress
  <2>4. CountedAreDescribed(c)'
    <3> SUFFICES ASSUME ~worker[c].errs
                 PROVE  /\ worker'[c].count = worker'[c].next - 1
                        /\ 1..worker'[c].count \subseteq Described(worker[c].entry)'
      BY <2>3 DEF CountedAreDescribed
    <3>1. /\ worker[c].count = worker[c].next - 1
          /\ 1..worker[c].count \subseteq Described(e)
      BY <2>1 DEF ResultsInv, CountedAreDescribed
    <3>2. worker'[c].count = worker[c].next /\ worker'[c].count = worker'[c].next - 1
      BY <2>1, <2>3, <3>1 DEF Tables
    <3>3. 1..worker[c].next = 1..worker[c].count \cup {worker[c].next}
      BY <2>1, <3>1 DEF Tables
    <3>4. Described(e)' = {results'[e][i] : i \in DOMAIN results'[e]}
      BY <2>3 DEF Described
    <3>5. Described(e) \subseteq {results'[e][i] : i \in DOMAIN results'[e]}
      BY <2>1, <2>2 DEF ResultsGrow, Described
    <3> QED
      BY <2>2, <3>1, <3>2, <3>3, <3>4, <3>5
  <2> QED
    BY <1>4, <1>8, <2>1, <2>2, <2>4 DEF Progress
<1>9. ASSUME NEW c \in Consumers, DescribeFails(c) \/ SaveFails(c) \/ ConfigFails(c)
      PROVE  ResultsInv'
  <2>1. worker'[c].errs = TRUE
    BY <1>9, OneWorkerMoves, AdvanceEffect DEF DescribeFails, SaveFails, ConfigFails, Progress
  <2>2. CountedAreDescribed(c)'
    BY <2>1 DEF CountedAreDescribed
  <2>3. UNCHANGED <<status, resultCount>>
    BY <1>9 DEF DescribeFails, SaveFails, ConfigFails
  <2>4. ResultsGrow
    <3>1. CASE SaveFails(c)
      <4>1. worker[c].entry \in Entries /\ worker[c].next \in Tables
        BY <1>3, <3>1, SizesAssumption
           DEF SaveFails, AtTable, TypeOK, WorkersOK, WorkerState, Tables
      <4> QED
        BY <3>1, <4>1, AppendDescribes DEF SaveFails
    <3> QED
      BY <1>2, <1>9, <3>1 DEF DescribeFails, ConfigFails
  <2> QED
    BY <1>4, <1>9, <2>2, <2>3, <2>4 DEF Progress
<1>10. ASSUME NEW c \in Consumers, ExecuteRaises(c) PROVE ResultsInv'
  <2>1. worker'[c].pc = "except"
    BY <1>10, OneWorkerMoves, GoToEffect DEF ExecuteRaises, Progress
  <2> QED
    BY <1>2, <1>4, <1>10, <2>1 DEF ExecuteRaises, Progress, CountedAreDescribed
<1>11. ASSUME NEW c \in Consumers, Finish(c) \/ FinishFails(c) \/ MarkFailed(c)
       PROVE  ResultsInv'
  <2> DEFINE w == worker[c]
             e == worker[c].entry
  <2>1. worker'[c].pc \in {"except", "ack"} /\ UNCHANGED results
    BY <1>11, OneWorkerMoves, GoToEffect DEF Finish, FinishFails, MarkFailed, Progress, Fault
  <2>2. CountedAreDescribed(c)'
    BY <2>1 DEF CountedAreDescribed
  <2>3. ASSUME ScanDone(c), Mark(e, Outcome(w), w.count), NEW j \in Jobs,
               status'[j] = "completed"
        PROVE  \/ status[j] = "completed" /\ resultCount'[j] = resultCount[j]
               \/ Tables \subseteq Described(j) /\ resultCount'[j] = NumTables
    <3>1. CASE j # e
      BY <1>3, <2>3, <3>1 DEF Mark, TypeOK, JobsOK
    <3>2. CASE j = e
      <4>1. Outcome(w) = "completed" /\ resultCount'[j] = w.count
        BY <1>3, <2>3, <3>2 DEF Mark, TypeOK, JobsOK
      <4>2. ~w.errs /\ w.pc = "scan" /\ w.next > NumTables /\ w.next \in 1..(NumTables + 1)
        BY <2>3, <4>1, <1>11, OneWorkerMoves
           DEF Outcome, ScanDone, Progress, Fault, WorkerState
      <4>3. w.count = NumTables /\ w.next = NumTables + 1
        BY <4>2, SizesAssumption DEF ResultsInv, CountedAreDescribed
      <4> QED
        BY <3>2, <4>1, <4>2, <4>3 DEF ResultsInv, CountedAreDescribed, Tables
    <3> QED
      BY <3>1, <3>2
  <2>4. ASSUME Mark(e, "failed", 0), NEW j \in Jobs, status'[j] = "completed"
        PROVE  status[j] = "completed" /\ resultCount'[j] = resultCount[j]
    BY <1>3, <2>4 DEF Mark, TypeOK, JobsOK
  <2>5. \A j \in Jobs : status'[j] = "completed" =>
              \/ status[j] = "completed" /\ resultCount'[j] = resultCount[j]
              \/ Tables \subseteq Described(j) /\ resultCount'[j] = NumTables
    BY <1>11, <2>3, <2>4 DEF Finish, FinishFails, MarkFailed
  <2> QED
    BY <1>2, <1>11, <2>1, <2>2, <2>5, OneWorkerMoves, ResultsStep DEF Progress, Fault
<1>12. CASE UNCHANGED vars
  BY <1>12 DEF vars, ResultsInv, CompletedMeansDescribed, CountedAreDescribed, Described
<1> QED
  BY <1>1, <1>5, <1>6, <1>7, <1>8, <1>9, <1>10, <1>11, <1>12 DEF Next, Progress, Fault

LEMMA ResultsInit == Init => ResultsInv
  BY DEF Init, ResultsInv, CompletedMeansDescribed, CountedAreDescribed, Jobs, Down

\* completed is never a lie: every table in scope has a result and was counted,
\* even when two workers execute the job at once or one after the other.
THEOREM CompletedDescribed == Spec => []CompletedMeansDescribed
<1>1. Init => ResultsInv
  BY ResultsInit
<1>2. TypeOK /\ ResultsInv /\ [Next]_vars => ResultsInv'
  BY ResultsSteps
<1>3. ResultsInv => CompletedMeansDescribed
  BY DEF ResultsInv
<1> QED
  BY <1>1, <1>2, <1>3, TypeCorrect, PTL DEF Spec

-----------------------------------------------------------------------------
(* result_count never promises more than the results                       *)

\* The entries of a list of tables are a finite set, no larger than the list.
LEMMA ListedTables ==
    ASSUME NEW s \in Seq(Tables), NEW S, S = {s[i] : i \in DOMAIN s}
    PROVE  /\ S \subseteq Tables /\ IsFiniteSet(S)
           /\ Cardinality(S) \in Nat /\ Cardinality(S) <= Len(s)
           /\ (\A i, k \in DOMAIN s : s[i] = s[k] => i = k) <=> Cardinality(S) = Len(s)
<1>1. Len(s) \in Nat /\ DOMAIN s = 1..Len(s) /\ s \in [1..Len(s) -> Tables]
  OBVIOUS
<1>2. S \subseteq Tables /\ s \in Surjection(1..Len(s), S)
  BY <1>1 DEF Surjection
<1>3. IsFiniteSet(1..Len(s)) /\ Cardinality(1..Len(s)) = Len(s)
  BY <1>1, FS_Interval
<1>4. /\ IsFiniteSet(S) /\ Cardinality(S) <= Len(s)
      /\ Cardinality(S) = Len(s) <=> s \in Injection(1..Len(s), S)
  BY <1>2, <1>3, FS_Surjection
<1>5. s \in Injection(1..Len(s), S) <=> \A i, k \in DOMAIN s : s[i] = s[k] => i = k
  BY <1>1, <1>2 DEF Injection, Surjection, IsInjective
<1> QED
  BY <1>2, <1>4, <1>5, FS_CardinalityType

\* A list of tables, and the same with one more.
LEMMA ListOfTables ==
    ASSUME NEW s \in Seq(Tables)
    PROVE  /\ Len(s) \in Nat /\ DOMAIN s = 1..Len(s)
           /\ \A i \in DOMAIN s : i \in Nat /\ s[i] \in Nat
<1>1. Len(s) \in Nat /\ DOMAIN s = 1..Len(s) /\ \A i \in DOMAIN s : s[i] \in Tables
  OBVIOUS
<1>2. \A t \in Tables : t \in Nat
  BY DEF Tables
<1>3. \A i \in DOMAIN s : i \in Nat
  BY <1>1
<1>4. \A i \in DOMAIN s : s[i] \in Nat
  BY <1>1, <1>2
<1> QED
  BY <1>1, <1>3, <1>4

LEMMA AppendedTable ==
    ASSUME NEW s \in Seq(Tables), NEW t \in Tables, NEW u, u = Append(s, t)
    PROVE  /\ Len(u) = Len(s) + 1 /\ DOMAIN u = 1..(Len(s) + 1)
           /\ u[Len(s) + 1] = t
           /\ \A i \in DOMAIN s : i \in DOMAIN u /\ u[i] = s[i]
<1>1. Len(s) \in Nat /\ DOMAIN s = 1..Len(s)
  OBVIOUS
<1>2. /\ Len(u) = Len(s) + 1 /\ DOMAIN u = 1..(Len(s) + 1)
      /\ u[Len(s) + 1] = t
      /\ \A i \in 1..Len(s) : u[i] = s[i]
  OBVIOUS
<1>3. ASSUME NEW i \in DOMAIN s PROVE i \in DOMAIN u /\ u[i] = s[i]
  <2>1. i \in 1..Len(s) /\ 1..Len(s) \subseteq 1..(Len(s) + 1)
    BY <1>1
  <2> QED
    BY <1>2, <2>1
<1> QED
  BY <1>2, <1>3

\* The described tables of a job are at most as many as its results.
LEMMA DescribedFinite ==
    ASSUME TypeOK, NEW e \in Entries
    PROVE  /\ Described(e) \subseteq Tables /\ IsFiniteSet(Described(e))
           /\ Cardinality(Described(e)) \in Nat
           /\ Cardinality(Described(e)) <= Len(results[e])
<1>1. results[e] \in Seq(Tables) /\ Described(e) = {results[e][i] : i \in DOMAIN results[e]}
  BY DEF TypeOK, JobsOK, Described
<1> QED
  BY <1>1, ListedTables

\* The tables with a result among those an execution has passed.
Passed(c) == Described(worker[c].entry) \cap 1..(worker[c].next - 1)

\* The invariant behind ResultsBackTheCount: an execution counts a table only
\* when it passes it, after its result is stored; the results another execution
\* of the job adds cannot take that away.
CountBacked(c) == worker[c].pc = "scan" => worker[c].count <= Cardinality(Passed(c))

CountInv == ResultsBackTheCount /\ \A c \in Consumers : CountBacked(c)

\* As results are only added, the tables passed do not become fewer.
LEMMA PassedGrows ==
    ASSUME TypeOK, TypeOK', ResultsGrow, NEW c \in Consumers, worker[c].pc = "scan",
           worker'[c].entry = worker[c].entry, worker[c].next <= worker'[c].next
    PROVE  /\ IsFiniteSet(Passed(c)) /\ Cardinality(Passed(c)) \in Nat
           /\ Passed(c) \subseteq Passed(c)' /\ IsFiniteSet(Passed(c)')
           /\ Cardinality(Passed(c)') \in Nat
           /\ Cardinality(Passed(c)) <= Cardinality(Passed(c)')
<1> DEFINE e == worker[c].entry
           S == {results'[e][i] : i \in DOMAIN results'[e]}
<1>1. e \in Entries /\ worker[c].next \in Nat /\ worker'[c].next \in Nat
  BY DEF TypeOK, WorkersOK, WorkerState, Jobs
<1>2. Described(e) \subseteq S
  BY <1>1 DEF ResultsGrow, Described
<1>3. results'[e] \in Seq(Tables)
  BY <1>1 DEF TypeOK, JobsOK
<1>4. IsFiniteSet(S)
  BY <1>3, ListedTables
<1>5. Passed(c)' = S \cap 1..(worker'[c].next - 1)
  BY DEF Passed, Described
<1>6. Passed(c) \subseteq Passed(c)' /\ Passed(c)' \subseteq S
  BY <1>1, <1>2, <1>5 DEF Passed
<1>7. IsFiniteSet(Passed(c)')
  BY <1>4, <1>6, FS_Subset
<1> QED
  BY <1>6, <1>7, FS_Subset, FS_CardinalityType

\* What a step must keep: the counts of the records, and the execution of the
\* worker that moves.
LEMMA CountStep ==
    ASSUME TypeOK, TypeOK', CountInv, ResultsGrow,
           \A j \in Jobs : resultCount'[j] <= Cardinality(Described(j)),
           NEW c \in Consumers,
           \A d \in Consumers \ {c} : worker'[d] = worker[d],
           CountBacked(c)'
    PROVE  CountInv'
<1>1. ASSUME NEW j \in Jobs PROVE resultCount'[j] <= Cardinality(Described(j)')
  <2>1. j \in Entries /\ resultCount'[j] \in Nat /\ results'[j] \in Seq(Tables)
    BY DEF Jobs, TypeOK, JobsOK
  <2>2. IsFiniteSet(Described(j)') /\ Described(j) \subseteq Described(j)'
    <3>1. Described(j) \subseteq {results'[j][i] : i \in DOMAIN results'[j]}
      BY <2>1 DEF ResultsGrow, Described
    <3> QED
      BY <2>1, <3>1, ListedTables DEF Described
  <2>3. /\ Cardinality(Described(j)) \in Nat /\ Cardinality(Described(j)') \in Nat
        /\ Cardinality(Described(j)) <= Cardinality(Described(j)')
    BY <2>1, <2>2, DescribedFinite, FS_Subset, FS_CardinalityType
  <2> QED
    BY <2>1, <2>3
<1>2. ASSUME NEW d \in Consumers \ {c} PROVE CountBacked(d)'
  <2> SUFFICES ASSUME worker'[d].pc = "scan"
               PROVE  worker'[d].count <= Cardinality(Passed(d)')
    BY DEF CountBacked
  <2>1. worker'[d] = worker[d] /\ worker[d].count \in Nat /\ worker[d].next \in Nat
    BY DEF TypeOK, WorkersOK, WorkerState
  <2>2. worker[d].count <= Cardinality(Passed(d))
    BY <2>1 DEF CountInv, CountBacked
  <2> QED
    BY <2>1, <2>2, PassedGrows
<1>3. ResultsBackTheCount'
  BY <1>1 DEF ResultsBackTheCount
<1> QED
  BY <1>2, <1>3 DEF CountInv

LEMMA CountSteps ==
    ASSUME TypeOK, CountInv, [Next]_vars
    PROVE  CountInv'
<1> USE DEF stream, job
<1>0. Jobs \subseteq Entries /\ \A j \in Jobs : resultCount[j] <= Cardinality(Described(j))
  BY DEF Jobs, CountInv, ResultsBackTheCount
<1>1. CASE Enqueue \/ EnqueueForeign \/ (\E e \in Entries : BecomeIdle(e)) \/ UNCHANGED vars
  <2>1. UNCHANGED <<results, resultCount, worker>>
    BY <1>1 DEF Enqueue, EnqueueForeign, BecomeIdle, vars
  <2> QED
    BY <2>1 DEF CountInv, ResultsBackTheCount, CountBacked, Passed, Described
<1>2. ASSUME UNCHANGED results PROVE ResultsGrow
  BY <1>2 DEF ResultsGrow, Described
<1>3. ASSUME NEW c \in Consumers, Start(c) \/ Progress(c) \/ Fault(c),
             UNCHANGED resultCount, ResultsGrow, CountBacked(c)'
      PROVE  CountInv'
  BY <1>0, <1>3, OneWorkerMoves, CountStep
<1>4. ASSUME NEW c \in Consumers,
             \/ Start(c) \/ ListPending(c) \/ ListPendingFails(c)
             \/ Claim(c) \/ ClaimFails(c) \/ Read(c) \/ ReadNothing(c) \/ ReadFails(c)
             \/ Stop(c) \/ Crash(c) \/ SkipForeign(c) \/ Ack(c)
      PROVE  CountInv'
  <2>1. UNCHANGED <<resultCount, results>>
    BY <1>4 DEF Start, ListPending, ListPendingFails, Claim, ClaimFails, Read, ReadNothing,
                ReadFails, Stop, Crash, SkipForeign, Ack
  <2>2. CountBacked(c)'
    BY <1>4, PollEffect, AckEffect DEF CountBacked
  <2> QED
    BY <1>2, <1>3, <1>4, <2>1, <2>2 DEF Progress, Fault
<1>5. ASSUME NEW c \in Consumers, MarkRunning(c) PROVE CountInv'
  <2>1. worker[c] \in WorkerState
    BY <1>5, OneWorkerMoves DEF Progress
  <2>2. worker'[c].count = 0 /\ worker'[c].entry \in Entries
    BY <1>0, <1>5, <2>1 DEF MarkRunning, TypeOK, WorkersOK, WorkerState
  <2>3. Cardinality(Passed(c)') \in Nat
    <3> DEFINE e == worker'[c].entry
               S == {results'[e][i] : i \in DOMAIN results'[e]}
    <3>1. results'[e] \in Seq(Tables)
      BY <1>5, <2>2, OneWorkerMoves DEF Progress, TypeOK, JobsOK
    <3>2. IsFiniteSet(S) /\ Passed(c)' \subseteq S
      BY <3>1, ListedTables DEF Passed, Described
    <3> QED
      BY <3>2, FS_Subset, FS_CardinalityType
  <2>4. CountBacked(c)'
    BY <2>2, <2>3 DEF CountBacked
  <2> QED
    BY <1>2, <1>3, <1>5, <2>4 DEF MarkRunning, Progress
<1>6. ASSUME NEW c \in Consumers,
             DescribeTable(c) \/ DescribeFails(c) \/ SaveFails(c) \/ ConfigFails(c)
      PROVE  CountInv'
  <2> DEFINE e == worker[c].entry
             t == worker[c].next
  <2>0. worker \in [Consumers -> WorkerState] /\ worker[c] \in WorkerState /\ worker[c].pc = "scan"
    BY <1>6 DEF DescribeTable, DescribeFails, SaveFails, ConfigFails, AtTable, TypeOK, WorkersOK
  <2>1. /\ worker[c].pc = "scan" /\ e \in Entries /\ t \in Nat \ {0} /\ worker[c].count \in Nat
        /\ worker[c].count <= Cardinality(Passed(c))
    BY <1>0, <2>0 DEF TypeOK, WorkersOK, WorkerState, CountInv, CountBacked
  <2>2. TypeOK' /\ worker'[c].entry = e
    BY <1>6, OneWorkerMoves, AdvanceEffect
       DEF DescribeTable, DescribeFails, SaveFails, ConfigFails, Progress
  <2>3. ASSUME AtTable(c), AppendResult(e, t)
        PROVE  ResultsGrow /\ t \in {results'[e][i] : i \in DOMAIN results'[e]}
    <3>1. PICK j \in Entries : j = e
      BY <2>1
    <3>2. PICK u \in Tables : u = t
      BY <2>1, <2>3 DEF AtTable, Tables
    <3>3. ResultsGrow /\ u \in Described(j)'
      BY <2>3, <3>1, <3>2, AppendDescribes
    <3> QED
      BY <3>1, <3>2, <3>3 DEF Described
  <2>4. ResultsGrow
    BY <1>2, <1>6, <2>3 DEF DescribeTable, DescribeFails, SaveFails, ConfigFails
  <2>5. CASE DescribeTable(c)
    <3>1. /\ worker'[c].next = t + 1 /\ worker'[c].count = worker[c].count + 1
          /\ AtTable(c) /\ AppendResult(e, t)
      BY <2>5, OneWorkerMoves, AdvanceEffect DEF DescribeTable, Progress
    <3>2. /\ IsFiniteSet(Passed(c)) /\ Cardinality(Passed(c)) \in Nat
          /\ Passed(c) \subseteq Passed(c)' /\ IsFiniteSet(Passed(c)')
          /\ Cardinality(Passed(c)') \in Nat
      BY <2>1, <2>2, <2>4, <3>1, PassedGrows
    <3>3. t \in Passed(c)' /\ t \notin Passed(c)
      BY <2>1, <2>2, <2>3, <3>1 DEF Passed, Described
    <3>4. Cardinality(Passed(c) \cup {t}) = Cardinality(Passed(c)) + 1
      BY <3>2, <3>3, FS_AddElement
    <3>5. Cardinality(Passed(c) \cup {t}) <= Cardinality(Passed(c)')
      BY <3>2, <3>3, FS_Subset
    <3>6. worker'[c].count <= Cardinality(Passed(c)')
      BY <2>1, <3>1, <3>2, <3>4, <3>5
    <3> QED
      BY <1>3, <2>4, <2>5, <3>6 DEF DescribeTable, Progress, CountBacked
  <2>6. CASE DescribeFails(c) \/ SaveFails(c) \/ ConfigFails(c)
    <3>1. worker'[c].count = worker[c].count
      <4>1. \E n, x : Advance(c, n, worker[c].count, x)
        BY <2>6 DEF DescribeFails, SaveFails, ConfigFails
      <4> QED
        BY <2>0, <4>1, AdvanceEffect
    <3>2. t <= worker'[c].next
      <4>1. CASE DescribeFails(c) \/ SaveFails(c)
        <5>1. Advance(c, t + 1, worker[c].count, TRUE)
          BY <4>1 DEF DescribeFails, SaveFails
        <5>2. worker'[c].next = t + 1
          BY <2>0, <5>1, AdvanceEffect
        <5> QED
          BY <2>1, <5>2
      <4>2. CASE ConfigFails(c)
        <5> PICK u \in Tables \cap {t - 1, t} : Advance(c, AfterConfig(u), worker[c].count, TRUE)
          BY <4>2 DEF ConfigFails
        <5>1. AfterConfig(u) \in (u + 1)..(NumTables + 1)
          BY AfterConfigMovesOn
        <5>2. worker'[c].next = AfterConfig(u)
          BY <4>2, OneWorkerMoves, AdvanceEffect DEF Progress
        <5> QED
          BY <2>1, <5>1, <5>2 DEF Tables
      <4> QED
        BY <2>6, <4>1, <4>2
    <3>3. worker'[c].count <= Cardinality(Passed(c)')
      BY <2>1, <2>2, <2>4, <3>1, <3>2, PassedGrows
    <3> QED
      BY <1>3, <2>4, <2>6, <3>3
         DEF DescribeFails, SaveFails, ConfigFails, Progress, CountBacked
  <2> QED
    BY <1>6, <2>5, <2>6
<1>7. ASSUME NEW c \in Consumers,
             ExecuteRaises(c) \/ Finish(c) \/ FinishFails(c) \/ MarkFailed(c)
      PROVE  CountInv'
  <2> DEFINE w == worker[c]
  <2>1. worker'[c].pc \in {"except", "ack"} /\ UNCHANGED results
    BY <1>7, OneWorkerMoves, GoToEffect
       DEF ExecuteRaises, Finish, FinishFails, MarkFailed, Progress, Fault
  <2>2. ASSUME ScanDone(c), Mark(w.entry, Outcome(w), w.count), NEW j \in Jobs
        PROVE  resultCount'[j] <= Cardinality(Described(j))
    <3>1. resultCount'[j] = resultCount[j] \/ (j = w.entry /\ resultCount'[j] = w.count)
      BY <1>0, <2>2 DEF Mark, TypeOK, JobsOK
    <3>2. w.count <= Cardinality(Passed(c)) /\ w.count \in Nat
      BY <2>2 DEF ScanDone, CountInv, CountBacked, TypeOK, WorkersOK, WorkerState
    <3>3. CASE j = w.entry /\ resultCount'[j] = w.count
      <4>1. Passed(c) \subseteq Described(j)
        BY <3>3 DEF Passed
      <4>2. /\ IsFiniteSet(Described(j)) /\ Cardinality(Passed(c)) <= Cardinality(Described(j))
            /\ Cardinality(Passed(c)) \in Nat /\ Cardinality(Described(j)) \in Nat
        BY <1>0, <4>1, DescribedFinite, FS_Subset, FS_CardinalityType
      <4> QED
        BY <3>2, <3>3, <4>2
    <3> QED
      BY <1>0, <3>1, <3>3
  <2>3. ASSUME Mark(w.entry, "failed", 0), NEW j \in Jobs
        PROVE  resultCount'[j] <= Cardinality(Described(j))
    BY <1>0, <2>3 DEF Mark, TypeOK, JobsOK
  <2>4. \A j \in Jobs : resultCount'[j] <= Cardinality(Described(j))
    BY <1>0, <1>7, <2>2, <2>3 DEF ExecuteRaises, Finish, FinishFails, MarkFailed
  <2>5. CountBacked(c)'
    BY <2>1 DEF CountBacked
  <2> QED
    BY <1>2, <1>7, <2>1, <2>4, <2>5, OneWorkerMoves, CountStep DEF Progress, Fault
<1> QED
  BY <1>1, <1>4, <1>5, <1>6, <1>7 DEF Next, Progress, Fault

LEMMA CountInit == Init => CountInv
<1> SUFFICES ASSUME Init PROVE CountInv
  OBVIOUS
<1>1. \A j \in Jobs : Described(j) = {} /\ resultCount[j] = 0
  BY DEF Init, Described, Jobs
<1>2. \A c \in Consumers : worker[c].pc = "down"
  BY DEF Init, Down
<1> QED
  BY <1>1, <1>2, FS_EmptySet DEF CountInv, ResultsBackTheCount, CountBacked

\* A client never reads a result_count larger than the number of tables that
\* have a result, however many executions of the job have overlapped or failed.
THEOREM CountBackedByResults == Spec => []ResultsBackTheCount
<1>1. Init => CountInv
  BY CountInit
<1>2. TypeOK /\ CountInv /\ [Next]_vars => CountInv'
  BY CountSteps
<1>3. CountInv => ResultsBackTheCount
  BY DEF CountInv
<1> QED
  BY <1>1, <1>2, <1>3, TypeCorrect, PTL DEF Spec

-----------------------------------------------------------------------------
(* The first delivery of a job                                             *)

\* No execution of the job has begun.
Untouched(j) == status[j] \in {"none", "pending"} /\ results[j] = <<>> /\ ~error[j]

\* What worker c knows of a job delivered at most once: while the job waits in
\* the batch nothing has happened to it, while it is executed its results are
\* the ones of this execution, and a terminal status in the except branch is a
\* mark whose reply was lost.
FirstRun(c, j) ==
    /\ j \in worker[c].batch => j # worker[c].entry /\ Untouched(j)
    /\ worker[c].entry = j /\ worker[c].pc = "scan" =>
          /\ status[j] = "running" /\ ~error[j]
          /\ ~worker[c].errs => worker[c].count = Len(results[j])
          /\ \A i \in DOMAIN results[j] : results[j][i] < worker[c].next
    /\ worker[c].entry = j /\ worker[c].pc = "except" => status[j] \notin Terminal \/ lost > 0

\* What the record of such a job says: each table at most once, in the order
\* of the scan, and a completed job has no error and counts its results.
ExactRecord(j) ==
    /\ \A i, k \in DOMAIN results[j] : i < k => results[j][i] < results[j][k]
    /\ status[j] = "completed" => ~error[j] /\ resultCount[j] = Len(results[j])

\* The invariant behind OneDeliveryIsExact and TerminalLeftByRedelivery: only
\* one worker ever has a message that XCLAIM has not moved.
FirstDelivery(j) ==
    /\ j > delivered => Untouched(j)
    /\ \A c, d \in Consumers : j \in Held(c) \cap Held(d) => c = d
    /\ \A c \in Consumers : FirstRun(c, j)
    /\ ExactRecord(j)

FirstInv == \A j \in Jobs \ redelivered : FirstDelivery(j)

SameRecord(j) ==
    /\ status'[j] = status[j] /\ resultCount'[j] = resultCount[j]
    /\ error'[j] = error[j] /\ results'[j] = results[j]

\* A step of worker c that delivers nothing new to it, and changes the record
\* of a job only when c has its message.
LEMMA FirstStep ==
    ASSUME TypeOK, NEW j \in Jobs, FirstDelivery(j), NEW c \in Consumers,
           \A d \in Consumers \ {c} : worker'[d] = worker[d],
           delivered' \in Nat, delivered <= delivered', lost' \in Nat, lost <= lost',
           SameRecord(j) \/ j \in Held(c),
           j \in Held(c)' => j \in Held(c),
           FirstRun(c, j)', ExactRecord(j)'
    PROVE  FirstDelivery(j)'
<1>0. /\ j \in Nat /\ j # 0 /\ delivered \in Nat /\ lost \in Nat
      /\ \A d \in Consumers : Held(d) \subseteq 1..delivered
  BY SizesAssumption DEF Jobs, Entries, TypeOK, StreamOK, WorkersOK, FaultsOK
<1>1. j > delivered' => Untouched(j)'
  BY <1>0 DEF FirstDelivery, Untouched, SameRecord
<1>2. \A d \in Consumers \ {c} : Held(d)' = Held(d)
  BY DEF Held
<1>3. \A d, e \in Consumers : j \in Held(d)' \cap Held(e)' => d = e
  BY <1>2 DEF FirstDelivery
<1>4. ASSUME NEW d \in Consumers \ {c} PROVE FirstRun(d, j)'
  <2>1. worker'[d] = worker[d] /\ FirstRun(d, j)
    BY DEF FirstDelivery
  <2>2. CASE SameRecord(j)
    BY <1>0, <2>1, <2>2 DEF FirstRun, Untouched, SameRecord
  <2>3. CASE j \in Held(c)
    <3>1. j \notin Held(d)
      BY <2>3 DEF FirstDelivery
    <3>2. j \notin worker[d].batch /\ j # worker[d].entry
      BY <1>0, <3>1 DEF Held
    <3> QED
      BY <2>1, <3>2 DEF FirstRun
  <2> QED
    BY <2>2, <2>3
<1> QED
  BY <1>1, <1>3, <1>4 DEF FirstDelivery

\* A step that leaves every record alone, and worker c outside of _process.
LEMMA FirstQuiet ==
    ASSUME TypeOK, NEW j \in Jobs, FirstDelivery(j), NEW c \in Consumers,
           \A d \in Consumers \ {c} : worker'[d] = worker[d],
           delivered' \in Nat, delivered <= delivered', lost' \in Nat, lost <= lost',
           UNCHANGED job, worker'[c].pc \notin {"scan", "except"},
           j \in worker'[c].batch => j \in worker[c].batch,
           worker'[c].entry \in {0, worker[c].entry}
    PROVE  FirstDelivery(j)'
<1>0. j # 0
  BY DEF Jobs, Entries
<1>1. SameRecord(j)
  BY DEF SameRecord, job
<1>2. j \in Held(c)' => j \in Held(c)
  BY <1>0 DEF Held
<1>3. FirstRun(c, j)'
  BY <1>0, <1>1 DEF FirstDelivery, FirstRun, Untouched, SameRecord
<1>4. ExactRecord(j)'
  BY DEF FirstDelivery, ExactRecord, job
<1> QED
  BY <1>1, <1>2, <1>3, <1>4, FirstStep

\* The steps of _poll and the acknowledgements.
LEMMA FirstPoll ==
    ASSUME TypeOK, NEW j \in Jobs \ redelivered', FirstDelivery(j), NEW c \in Consumers,
           \/ Start(c) \/ ListPending(c) \/ ListPendingFails(c)
           \/ Claim(c) \/ ClaimFails(c) \/ Read(c) \/ ReadNothing(c) \/ ReadFails(c)
           \/ Stop(c) \/ Crash(c) \/ SkipForeign(c) \/ Ack(c)
    PROVE  FirstDelivery(j)'
<1>0. /\ worker \in [Consumers -> WorkerState] /\ worker[c] \in WorkerState
      /\ \A d \in Consumers \ {c} : worker'[d] = worker[d]
      /\ worker'[c].pc \notin {"scan", "except"}
  BY OneWorkerMoves, PollEffect, AckEffect DEF Progress, Fault
<1>1. /\ delivered \in Nat /\ delivered' \in Nat /\ delivered <= delivered'
      /\ lost \in Nat /\ lost' \in Nat /\ lost <= lost'
  <2>1. delivered \in Nat /\ lost \in Nat
    BY SizesAssumption DEF TypeOK, StreamOK, FaultsOK
  <2>2. delivered' \in {delivered, delivered + 1} /\ lost' \in {lost, lost + 1}
    BY DEF Start, ListPending, ListPendingFails, Claim, ClaimFails, Read, ReadNothing,
           ReadFails, Stop, Crash, SkipForeign, Ack, LoseCall, stream, faults
  <2> QED
    BY <2>1, <2>2
<1>2. UNCHANGED job
  BY DEF Start, ListPending, ListPendingFails, Claim, ClaimFails, Read, ReadNothing,
         ReadFails, Stop, Crash, SkipForeign, Ack
<1>3. ASSUME j \in worker'[c].batch => j \in worker[c].batch,
             worker'[c].entry \in {0, worker[c].entry}
      PROVE  FirstDelivery(j)'
  BY <1>0, <1>1, <1>2, <1>3, FirstQuiet
<1>4. CASE Start(c) \/ Stop(c) \/ Crash(c)
  <2>1. worker'[c].batch = {} /\ worker'[c].entry = 0
    BY <1>0, <1>4 DEF Start, Stop, Crash, Down, Polling
  <2> QED
    BY <1>3, <2>1
<1>5. CASE ListPending(c) \/ ListPendingFails(c) \/ ReadNothing(c) \/ ClaimFails(c) \/ ReadFails(c)
  <2>1. worker'[c].batch = worker[c].batch /\ worker'[c].entry = worker[c].entry
    <3>1. CASE ListPending(c)
      BY <1>0, <3>1 DEF ListPending, WorkerState
    <3>2. CASE ClaimFails(c)
      BY <1>0, <3>2 DEF ClaimFails, WorkerState
    <3>3. CASE ListPendingFails(c) \/ ReadNothing(c) \/ ReadFails(c)
      BY <1>0, <3>3, GoToEffect DEF ListPendingFails, ReadNothing, ReadFails
    <3> QED
      BY <1>5, <3>1, <3>2, <3>3
  <2> QED
    BY <1>3, <2>1
<1>6. CASE Claim(c)
  <2>1. worker'[c].batch = Claimable(c) /\ worker'[c].entry = worker[c].entry
    BY <1>0, <1>6 DEF Claim, WorkerState
  <2>2. j \notin Claimable(c)
    BY <1>6 DEF Claim
  <2> QED
    BY <1>3, <2>1, <2>2
<1>7. CASE Read(c)
  <2>1. /\ worker'[c].batch = {delivered + 1} /\ worker'[c].entry = worker[c].entry
        /\ delivered' = delivered + 1
    BY <1>0, <1>7 DEF Read, WorkerState
  <2>2. CASE j # delivered + 1
    BY <1>3, <2>1, <2>2
  <2>3. CASE j = delivered + 1
    <3>1. Untouched(j) /\ SameRecord(j)
      BY <1>1, <1>2, <2>3 DEF FirstDelivery, SameRecord, job
    <3>2. \A d \in Consumers : Held(d) \subseteq 1..delivered
      BY DEF TypeOK, WorkersOK
    <3>3. \A d \in Consumers : j \notin Held(d) /\ j \notin worker[d].batch /\ j # worker[d].entry
      BY <1>1, <2>3, <3>2 DEF Held
    <3>4. \A d \in Consumers \ {c} : j \notin Held(d)'
      BY <1>0, <3>3 DEF Held
    <3>5. \A d \in Consumers : FirstRun(d, j)'
      <4>1. j # worker'[c].entry
        BY <2>1, <3>3
      <4>2. FirstRun(c, j)'
        BY <3>1, <4>1 DEF FirstRun, Untouched, SameRecord
      <4>3. ASSUME NEW d \in Consumers \ {c} PROVE FirstRun(d, j)'
        BY <1>0, <3>3 DEF FirstRun
      <4> QED
        BY <4>2, <4>3
    <3>6. ExactRecord(j)'
      BY <1>2 DEF FirstDelivery, ExactRecord, job
    <3>7. ~(j > delivered')
      BY <1>1, <2>1, <2>3
    <3> QED
      BY <3>4, <3>5, <3>6, <3>7 DEF FirstDelivery
  <2> QED
    BY <2>2, <2>3
<1>8. CASE SkipForeign(c) \/ Ack(c)
  <2>1. \E b \in SUBSET worker[c].batch : worker' = [worker EXCEPT ![c] = AfterMessage(worker[c], b)]
    BY <1>8 DEF SkipForeign, Ack
  <2>2. PICK b \in SUBSET worker[c].batch :
          worker' = [worker EXCEPT ![c] = AfterMessage(worker[c], b)]
    BY <2>1
  <2>3. b \in SUBSET Entries
    BY <1>0 DEF WorkerState
  <2>4. worker'[c].batch = b /\ worker'[c].entry = 0
    BY <1>0, <2>2, <2>3, AfterMessageType
  <2> QED
    BY <1>3, <2>4
<1> QED
  BY <1>4, <1>5, <1>6, <1>7, <1>8

\* The steps of _process and execute.
LEMMA FirstProcess ==
    ASSUME TypeOK, NEW j \in Jobs \ redelivered', FirstDelivery(j), NEW c \in Consumers,
           \/ MarkRunning(c) \/ DescribeTable(c) \/ DescribeFails(c) \/ SaveFails(c)
           \/ ConfigFails(c) \/ ExecuteRaises(c) \/ Finish(c) \/ FinishFails(c) \/ MarkFailed(c)
    PROVE  FirstDelivery(j)'
<1> DEFINE w == worker[c]
<1>0. /\ worker \in [Consumers -> WorkerState] /\ w \in WorkerState
      /\ \A d \in Consumers \ {c} : worker'[d] = worker[d]
      /\ j \in Entries /\ j # 0 /\ results[j] \in Seq(Tables)
      /\ FirstRun(c, j) /\ ExactRecord(j)
  BY OneWorkerMoves DEF Progress, Fault, Jobs, Entries, TypeOK, JobsOK, FirstDelivery
<1>1. /\ delivered' \in Nat /\ delivered <= delivered' /\ lost' \in Nat /\ lost <= lost'
  <2>1. delivered \in Nat /\ lost \in Nat
    BY SizesAssumption DEF TypeOK, StreamOK, FaultsOK
  <2>2. delivered' = delivered /\ lost' \in {lost, lost + 1}
    BY DEF MarkRunning, DescribeTable, DescribeFails, SaveFails, ConfigFails, ExecuteRaises,
           Finish, FinishFails, MarkFailed, LoseCall, stream, faults
  <2> QED
    BY <2>1, <2>2
<1>2. ASSUME SameRecord(j) \/ j \in Held(c), j \in Held(c)' => j \in Held(c),
             FirstRun(c, j)', ExactRecord(j)'
      PROVE  FirstDelivery(j)'
  BY <1>0, <1>1, <1>2, FirstStep
<1>3. ASSUME SameRecord(j) PROVE ExactRecord(j)'
  BY <1>0, <1>3 DEF SameRecord, ExactRecord
<1>4. CASE MarkRunning(c)
  <2> PICK e \in Jobs :
        /\ IsNext(c, e)
        /\ status' = [status EXCEPT ![e] = "running"] /\ UNCHANGED <<resultCount, error, results>>
        /\ worker' = [worker EXCEPT ![c] =
                        [w EXCEPT !.pc = "scan", !.batch = w.batch \ {e}, !.entry = e,
                                  !.next = 1, !.count = 0, !.errs = FALSE]]
    BY <1>4 DEF MarkRunning
  <2>1. /\ worker'[c].pc = "scan" /\ worker'[c].batch = w.batch \ {e} /\ worker'[c].entry = e
        /\ worker'[c].next = 1 /\ worker'[c].count = 0 /\ worker'[c].errs = FALSE
        /\ e \in w.batch
    BY <1>0 DEF WorkerState, IsNext
  <2>2. j \in Held(c)' => j \in Held(c)
    BY <2>1 DEF Held
  <2>3. CASE j # e
    <3>1. SameRecord(j)
      BY <1>0, <2>3 DEF SameRecord, TypeOK, JobsOK
    <3>2. FirstRun(c, j)'
      BY <1>0, <2>1, <2>3, <3>1 DEF FirstRun, Untouched, SameRecord
    <3> QED
      BY <1>2, <1>3, <2>2, <3>1, <3>2
  <2>4. CASE j = e
    <3>1. Untouched(j) /\ j \in Held(c)
      BY <1>0, <2>1, <2>4 DEF FirstRun, Held
    <3>2. status'[j] = "running" /\ results'[j] = <<>> /\ ~error'[j]
      BY <1>0, <2>4, <3>1 DEF Untouched, TypeOK, JobsOK
    <3>3. FirstRun(c, j)' /\ ExactRecord(j)'
      BY <2>1, <2>4, <3>2 DEF FirstRun, ExactRecord
    <3> QED
      BY <1>2, <2>2, <3>1, <3>3
  <2> QED
    BY <2>3, <2>4
\* From here on the batch and the message at hand stay.
<1>5. ASSUME ~MarkRunning(c)
      PROVE  /\ worker'[c].batch = w.batch /\ worker'[c].entry = w.entry
             /\ j \in Held(c)' => j \in Held(c)
  <2>1. worker'[c].batch = w.batch /\ worker'[c].entry = w.entry
    <3>1. CASE ExecuteRaises(c) \/ Finish(c) \/ FinishFails(c) \/ MarkFailed(c)
      BY <1>0, <3>1, GoToEffect DEF ExecuteRaises, Finish, FinishFails, MarkFailed
    <3>2. CASE DescribeTable(c) \/ DescribeFails(c) \/ SaveFails(c) \/ ConfigFails(c)
      BY <1>0, <3>2, AdvanceEffect DEF DescribeTable, DescribeFails, SaveFails, ConfigFails
    <3> QED
      BY <1>5, <3>1, <3>2
  <2> QED
    BY <2>1 DEF Held
<1>6. CASE ~MarkRunning(c) /\ j # w.entry
  <2>1. w.entry \in Entries
    BY <1>6 DEF DescribeTable, DescribeFails, SaveFails, ConfigFails, ExecuteRaises, Finish,
                FinishFails, MarkFailed, AtTable, ScanDone, TypeOK, WorkersOK, Jobs
  <2>2. SameRecord(j)
    BY <1>0, <1>6, <2>1
       DEF SameRecord, DescribeTable, DescribeFails, SaveFails, ConfigFails, ExecuteRaises,
           Finish, FinishFails, MarkFailed, AppendResult, Mark, job, TypeOK, JobsOK
  <2>3. FirstRun(c, j)'
    BY <1>0, <1>5, <1>6, <2>2 DEF FirstRun, Untouched, SameRecord
  <2> QED
    BY <1>2, <1>3, <1>5, <1>6, <2>2, <2>3
<1>7. CASE ~MarkRunning(c) /\ j = w.entry
  <2>0. j \in Held(c) /\ j \notin worker'[c].batch
    BY <1>0, <1>5, <1>7 DEF Held, FirstRun
  <2>1. ASSUME worker'[c].pc = "scan" =>
                  /\ status'[j] = "running" /\ ~error'[j]
                  /\ ~worker'[c].errs => worker'[c].count = Len(results'[j])
                  /\ \A i \in DOMAIN results'[j] : results'[j][i] < worker'[c].next,
               worker'[c].pc = "except" => status'[j] \notin Terminal \/ lost' > 0,
               ExactRecord(j)'
        PROVE  FirstDelivery(j)'
    <3>1. FirstRun(c, j)'
      BY <1>5, <1>7, <2>0, <2>1 DEF FirstRun
    <3> QED
      BY <1>2, <1>5, <1>7, <2>0, <2>1, <3>1
  <2>2. ASSUME w.pc = "scan"
        PROVE  /\ status[j] = "running" /\ ~error[j]
               /\ ~w.errs => w.count = Len(results[j])
               /\ \A i \in DOMAIN results[j] : results[j][i] < w.next
               /\ w.next \in Nat /\ w.count \in Nat
    BY <1>0, <1>7, <2>2 DEF FirstRun, WorkerState
  <2>3. CASE DescribeTable(c) \/ SaveFails(c)
    <3>1. /\ w.pc = "scan" /\ AppendResult(j, w.next) /\ w.next \in Tables
          /\ UNCHANGED <<status, resultCount, error>>
      <4>1. AtTable(c) /\ AppendResult(j, w.next) /\ UNCHANGED <<status, resultCount, error>>
        BY <1>7, <2>3 DEF DescribeTable, SaveFails
      <4>2. w.next \in 1..(NumTables + 1)
        BY <1>0 DEF WorkerState
      <4> QED
        BY <4>1, <4>2, SizesAssumption DEF AtTable, Tables
    <3>2. /\ worker'[c].next = w.next + 1 /\ worker'[c].pc = "scan"
          /\ ~worker'[c].errs => ~w.errs /\ worker'[c].count = w.count + 1
      <4>1. CASE DescribeTable(c)
        BY <1>0, <3>1, <4>1, AdvanceEffect DEF DescribeTable
      <4>2. CASE SaveFails(c)
        BY <1>0, <3>1, <4>2, AdvanceEffect DEF SaveFails
      <4> QED
        BY <2>3, <4>1, <4>2
    <3>3. results'[j] = Append(results[j], w.next)
      BY <1>0, <3>1 DEF AppendResult, TypeOK, JobsOK
    <3>4. /\ Len(results[j]) \in Nat /\ DOMAIN results[j] = 1..Len(results[j])
          /\ Len(results'[j]) = Len(results[j]) + 1
          /\ DOMAIN results'[j] = 1..(Len(results[j]) + 1)
          /\ results'[j][Len(results[j]) + 1] = w.next
          /\ \A i \in DOMAIN results[j] : results'[j][i] = results[j][i] /\ results[j][i] \in Nat
      BY <1>0, <3>1, <3>3, ListOfTables, AppendedTable
    <3>5. \A i \in DOMAIN results'[j] : results'[j][i] < worker'[c].next
      <4> SUFFICES ASSUME NEW i \in DOMAIN results'[j]
                   PROVE  results'[j][i] < worker'[c].next
        OBVIOUS
      <4>1. /\ w.next \in Nat /\ w.next < w.next + 1
            /\ \A k \in DOMAIN results[j] : results[j][k] < w.next
        BY <2>2, <3>1
      <4>2. CASE i = Len(results[j]) + 1
        BY <3>2, <3>4, <4>1, <4>2
      <4>3. CASE i # Len(results[j]) + 1
        <5>1. i \in DOMAIN results[j]
          BY <3>4, <4>3
        <5>2. results'[j][i] = results[j][i] /\ results[j][i] \in Nat /\ results[j][i] < w.next
          BY <3>4, <4>1, <5>1
        <5> QED
          BY <3>2, <4>1, <5>2
      <4> QED
        BY <4>2, <4>3
    <3>6. \A i, k \in DOMAIN results'[j] : i < k => results'[j][i] < results'[j][k]
      <4> SUFFICES ASSUME NEW i \in DOMAIN results'[j], NEW k \in DOMAIN results'[j], i < k
                   PROVE  results'[j][i] < results'[j][k]
        OBVIOUS
      <4>1. i \in DOMAIN results[j]
        BY <3>4
      <4>2. CASE k \in DOMAIN results[j]
        BY <1>0, <3>4, <4>1, <4>2 DEF ExactRecord
      <4>3. CASE k = Len(results[j]) + 1
        BY <2>2, <3>1, <3>4, <4>1, <4>3
      <4> QED
        BY <3>4, <4>2, <4>3
    <3>7. ExactRecord(j)'
      BY <2>2, <3>1, <3>6 DEF ExactRecord
    <3> QED
      BY <2>1, <2>2, <3>1, <3>2, <3>4, <3>5, <3>7
  <2>4. CASE DescribeFails(c) \/ ConfigFails(c)
    <3>1. w.pc = "scan" /\ UNCHANGED job /\ \E n : Advance(c, n, w.count, TRUE)
      BY <2>4 DEF DescribeFails, ConfigFails, AtTable
    <3>2. worker'[c].pc = "scan" /\ worker'[c].errs = TRUE
      BY <1>0, <3>1, AdvanceEffect
    <3>3. w.next <= worker'[c].next /\ worker'[c].next \in Nat
      <4>1. CASE DescribeFails(c)
        <5>1. Advance(c, w.next + 1, w.count, TRUE)
          BY <4>1 DEF DescribeFails
        <5>2. worker'[c].next = w.next + 1
          BY <1>0, <5>1, AdvanceEffect
        <5> QED
          BY <2>2, <3>1, <5>2
      <4>2. CASE ConfigFails(c)
        <5> PICK u \in Tables \cap {w.next - 1, w.next} : Advance(c, AfterConfig(u), w.count, TRUE)
          BY <4>2 DEF ConfigFails
        <5>1. AfterConfig(u) \in (u + 1)..(NumTables + 1)
          BY AfterConfigMovesOn
        <5>2. worker'[c].next = AfterConfig(u)
          BY <1>0, AdvanceEffect
        <5> QED
          BY <2>2, <3>1, <5>1, <5>2 DEF Tables
      <4> QED
        BY <2>4, <4>1, <4>2
    <3>4. \A i \in DOMAIN results[j] : results[j][i] \in Nat
      BY <1>0, ListOfTables
    <3>5. \A i \in DOMAIN results'[j] : results'[j][i] < worker'[c].next
      BY <2>2, <3>1, <3>3, <3>4 DEF job
    <3>6. ExactRecord(j)'
      BY <1>0, <3>1 DEF ExactRecord, job
    <3> QED
      BY <2>1, <2>2, <3>1, <3>2, <3>5, <3>6 DEF job
  <2>5. CASE ExecuteRaises(c)
    <3>1. w.pc = "scan" /\ UNCHANGED job /\ worker'[c].pc = "except"
      BY <1>0, <2>5, GoToEffect DEF ExecuteRaises
    <3>2. ExactRecord(j)'
      BY <1>0, <3>1 DEF ExactRecord, job
    <3> QED
      BY <2>1, <2>2, <3>1, <3>2 DEF job, Terminal
  <2>6. CASE Finish(c) \/ FinishFails(c)
    <3>1. /\ w.pc = "scan" /\ UNCHANGED results
          /\ \/ Mark(j, Outcome(w), w.count)
             \/ UNCHANGED <<status, resultCount, error>>
          /\ worker'[c].pc \in {"ack", "except"}
          /\ worker'[c].pc = "except" => lost' > 0
      <4>1. CASE Finish(c)
        BY <1>0, <1>7, <4>1, GoToEffect DEF Finish, ScanDone
      <4>2. CASE FinishFails(c)
        <5>1. lost' = lost + 1 /\ lost \in Nat
          BY <4>2, SizesAssumption DEF FinishFails, LoseCall, TypeOK, FaultsOK
        <5> QED
          BY <1>0, <1>7, <4>2, <5>1, GoToEffect DEF FinishFails, ScanDone
      <4> QED
        BY <2>6, <4>1, <4>2
    <3>2. ExactRecord(j)'
      <4>1. CASE UNCHANGED <<status, resultCount, error>>
        BY <1>0, <3>1, <4>1 DEF ExactRecord
      <4>2. CASE Mark(j, Outcome(w), w.count)
        <5>1. /\ status'[j] = Outcome(w)
              /\ Outcome(w) = "completed" => resultCount'[j] = w.count /\ error'[j] = error[j]
          BY <1>0, <4>2 DEF Mark, TypeOK, JobsOK
        <5>2. Outcome(w) = "completed" => ~w.errs
          BY DEF Outcome
        <5> QED
          BY <1>0, <2>2, <3>1, <5>1, <5>2 DEF ExactRecord
      <4> QED
        BY <3>1, <4>1, <4>2
    <3> QED
      BY <2>1, <3>1, <3>2
  <2>7. CASE MarkFailed(c)
    <3>1. worker'[c].pc = "ack" /\ UNCHANGED results /\ Mark(j, "failed", 0)
      BY <1>0, <1>7, <2>7, GoToEffect DEF MarkFailed
    <3>2. status'[j] = "failed"
      BY <1>0, <3>1 DEF Mark, TypeOK, JobsOK
    <3>3. ExactRecord(j)'
      BY <1>0, <3>1, <3>2 DEF ExactRecord
    <3> QED
      BY <2>1, <3>1, <3>3
  <2> QED
    BY <1>7, <2>3, <2>4, <2>5, <2>6, <2>7
<1> QED
  BY <1>4, <1>6, <1>7

LEMMA FirstSteps ==
    ASSUME TypeOK, FirstInv, [Next]_vars
    PROVE  FirstInv'
<1>0. redelivered \subseteq redelivered'
  BY DEF Next, Progress, Fault, vars, stream, faults, Enqueue, EnqueueForeign, BecomeIdle, Start,
         ListPending, ListPendingFails, Claim, ClaimFails, Read, ReadNothing, ReadFails,
         SkipForeign, MarkRunning, DescribeTable, DescribeFails, SaveFails, ConfigFails,
         ExecuteRaises, Finish, FinishFails, MarkFailed, Ack, Stop, Crash
<1> SUFFICES ASSUME NEW j \in Jobs \ redelivered' PROVE FirstDelivery(j)'
  BY DEF FirstInv
<1>1. FirstDelivery(j)
  BY <1>0 DEF FirstInv
<1>2. CASE Enqueue \/ EnqueueForeign \/ (\E e \in Entries : BecomeIdle(e)) \/ UNCHANGED vars
  <2>1. UNCHANGED <<worker, delivered, resultCount, error, results, lost>>
    BY <1>2 DEF Enqueue, EnqueueForeign, BecomeIdle, vars, job, faults, stream
  <2>2. \A c \in Consumers : Held(c)' = Held(c) /\ Held(c) \subseteq 1..delivered
    BY <2>1 DEF Held, TypeOK, WorkersOK
  <2>3. CASE UNCHANGED status
    BY <1>1, <2>1, <2>2, <2>3 DEF FirstDelivery, FirstRun, Untouched, ExactRecord, Held
  <2>4. CASE status' = [status EXCEPT ![sent + 1] = "pending"]
    <3>1. CASE j = sent + 1
      <4>1. j \in Entries /\ j \in Nat /\ j # 0 /\ delivered \in Nat /\ j > delivered
        BY <3>1, SizesAssumption DEF Jobs, Entries, TypeOK, StreamOK
      <4>2. \A c \in Consumers : j \notin Held(c) /\ j \notin worker[c].batch /\ j # worker[c].entry
        BY <2>2, <4>1 DEF Held
      <4>3. Untouched(j) /\ status'[j] = "pending"
        BY <1>1, <2>4, <3>1, <4>1 DEF FirstDelivery, TypeOK, JobsOK
      <4> QED
        BY <1>1, <2>1, <2>2, <4>2, <4>3 DEF FirstDelivery, FirstRun, Untouched, ExactRecord
    <3>2. CASE j # sent + 1
      <4>1. status'[j] = status[j]
        BY <2>4, <3>2 DEF Jobs, TypeOK, JobsOK
      <4> QED
        BY <1>1, <2>1, <2>2, <4>1 DEF FirstDelivery, FirstRun, Untouched, ExactRecord
    <3> QED
      BY <3>1, <3>2
  <2> QED
    BY <1>2, <2>3, <2>4 DEF Enqueue, EnqueueForeign, BecomeIdle, vars, job
<1>3. ASSUME NEW c \in Consumers, Start(c) \/ Progress(c) \/ Fault(c) PROVE FirstDelivery(j)'
  BY <1>1, <1>3, FirstPoll, FirstProcess DEF Progress, Fault
<1> QED
  BY <1>2, <1>3 DEF Next

LEMMA FirstInit == Init => FirstInv
<1> SUFFICES ASSUME Init, NEW j \in Jobs PROVE FirstDelivery(j)
  BY DEF FirstInv
<1>1. j \in Entries /\ j # 0
  BY DEF Jobs, Entries
<1>2. \A c \in Consumers : Held(c) = {} /\ worker[c].batch = {} /\ worker[c].entry = 0
  BY DEF Init, Held, Down
<1>3. status[j] = "none" /\ results[j] = <<>> /\ ~error[j]
  BY <1>1 DEF Init
<1> QED
  BY <1>1, <1>2, <1>3 DEF FirstDelivery, FirstRun, Untouched, ExactRecord

LEMMA FirstAlways == Spec => []FirstInv
<1>1. TypeOK /\ FirstInv /\ [Next]_vars => FirstInv'
  BY FirstSteps
<1> QED
  BY <1>1, FirstInit, TypeCorrect, PTL DEF Spec

\* A job whose message was delivered once has each described table once, and,
\* when it is completed, no error and a result_count that is its number of results.
THEOREM OneDeliveryExact == Spec => []OneDeliveryIsExact
<1>1. TypeOK /\ FirstInv => OneDeliveryIsExact
  <2> SUFFICES ASSUME TypeOK, FirstInv, NEW j \in Jobs \ redelivered
               PROVE  /\ Len(results[j]) = Cardinality(Described(j))
                      /\ status[j] = "completed" => ~error[j] /\ resultCount[j] = Len(results[j])
    BY DEF OneDeliveryIsExact
  <2>1. ExactRecord(j) /\ results[j] \in Seq(Tables)
    BY DEF FirstInv, FirstDelivery, TypeOK, JobsOK, Jobs
  <2>2. \A i \in DOMAIN results[j] : i \in Nat /\ results[j][i] \in Nat
    BY <2>1, ListOfTables
  <2>3. \A i, k \in DOMAIN results[j] : results[j][i] = results[j][k] => i = k
    <3> SUFFICES ASSUME NEW i \in DOMAIN results[j], NEW k \in DOMAIN results[j],
                        results[j][i] = results[j][k]
                 PROVE  i = k
      OBVIOUS
    <3>1. ~(i < k) /\ ~(k < i)
      BY <2>1, <2>2 DEF ExactRecord
    <3> QED
      BY <2>2, <3>1
  <2>4. Len(results[j]) = Cardinality(Described(j))
    BY <2>1, <2>3, ListedTables DEF Described
  <2> QED
    BY <2>1, <2>4 DEF ExactRecord
<1> QED
  BY <1>1, FirstAlways, TypeCorrect, PTL

\* A terminal status, once a client could read it, changes only after XCLAIM
\* moved the job's message, or into failed after a lost reply.
THEOREM TerminalLeft == Spec => TerminalLeftByRedelivery
<1> DEFINE Left == \A j \in Jobs : status[j] \in Terminal /\ status'[j] # status[j] =>
                      j \in redelivered \/ (lost > 0 /\ status'[j] = "failed")
<1>1. TypeOK /\ FirstInv /\ [Next]_vars => [Left]_vars
  <2> SUFFICES ASSUME TypeOK, FirstInv, Next, NEW j \in Jobs, status[j] \in Terminal,
                      status'[j] # status[j], j \notin redelivered
               PROVE  lost > 0 /\ status'[j] = "failed"
    OBVIOUS
  <2>0. j \in Entries /\ FirstDelivery(j)
    BY DEF Jobs, FirstInv
  <2>1. ~Enqueue
    <3>1. Enqueue => sent + 1 > delivered
      BY SizesAssumption DEF TypeOK, StreamOK
    <3>2. j # sent + 1 \/ ~Enqueue
      BY <2>0, <3>1 DEF FirstDelivery, Untouched, Terminal
    <3> QED
      BY <2>0, <3>2 DEF Enqueue, TypeOK, JobsOK
  <2>2. PICK c \in Consumers : MarkRunning(c) \/ Finish(c) \/ FinishFails(c) \/ MarkFailed(c)
    BY <2>1 DEF Next, Progress, Fault, job, EnqueueForeign, BecomeIdle, Start,
         ListPending, ListPendingFails, Claim, ClaimFails, Read, ReadNothing, ReadFails,
         SkipForeign, DescribeTable, DescribeFails, SaveFails, ConfigFails,
         ExecuteRaises, Ack, Stop, Crash
  <2>3. FirstRun(c, j)
    BY <2>0 DEF FirstDelivery
  <2>4. ~MarkRunning(c)
    <3>1. MarkRunning(c) => j \in worker[c].batch
      BY <2>0 DEF MarkRunning, IsNext, TypeOK, JobsOK
    <3> QED
      BY <2>3, <3>1 DEF FirstRun, Untouched, Terminal
  <2>5. j = worker[c].entry
    BY <2>0, <2>2, <2>4 DEF Finish, FinishFails, MarkFailed, Mark, TypeOK, JobsOK
  <2>6. ~Finish(c) /\ ~FinishFails(c)
    BY <2>3, <2>5 DEF Finish, FinishFails, ScanDone, FirstRun, Terminal
  <2>7. MarkFailed(c)
    BY <2>2, <2>4, <2>6
  <2> QED
    BY <2>0, <2>3, <2>5, <2>7 DEF MarkFailed, Mark, FirstRun, TypeOK, JobsOK
<1> QED
  BY <1>1, FirstAlways, TypeCorrect, PTL DEF Spec, TerminalLeftByRedelivery
=============================================================================

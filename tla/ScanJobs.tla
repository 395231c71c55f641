------------------------------ MODULE ScanJobs ------------------------------
(***************************************************************************)
(* What the scan pipeline promises to a client that reads GET /scan/{id}:  *)
(* the record of a job, without a stream, consumers or messages.  A job is *)
(* open from its submission until it is retired; while it is open it may   *)
(* be executed more than once, and once retired its record is final.       *)
(***************************************************************************)
EXTENDS Integers, Sequences

CONSTANTS Jobs, NumTables

VARIABLES
    open,         \* jobs submitted and not retired
    retired,      \* jobs whose record is final
    status, resultCount, error, results   \* the record a client reads

vars == <<open, retired, status, resultCount, error, results>>

Tables == 1..NumTables
Terminal == {"completed", "partial", "failed"}

Described(j) == {results[j][i] : i \in DOMAIN results[j]}

Init ==
    /\ open = {} /\ retired = {}
    /\ status = [j \in Jobs |-> "none"]
    /\ resultCount = [j \in Jobs |-> 0]
    /\ error = [j \in Jobs |-> FALSE]
    /\ results = [j \in Jobs |-> <<>>]

\* POST /scan: the job exists and is pending.
Submit(j) ==
    /\ j \notin open \cup retired
    /\ open' = open \cup {j}
    /\ status' = [status EXCEPT ![j] = "pending"]
    /\ UNCHANGED <<retired, resultCount, error, results>>

\* An execution, the first or another, of a job that is not retired.
Execute(j) ==
    /\ j \in open
    /\ status' = [status EXCEPT ![j] = "running"]
    /\ UNCHANGED <<open, retired, resultCount, error, results>>

\* A running job gives a result; results are never taken back.
Describe(j, t) ==
    /\ j \in open /\ status[j] = "running"
    /\ results' = [results EXCEPT ![j] = Append(@, t)]
    /\ UNCHANGED <<open, retired, status, resultCount, error>>

\* completed promises that every table in scope has a result.
Complete(j) ==
    /\ j \in open /\ status[j] = "running"
    /\ Tables \subseteq Described(j)
    /\ status' = [status EXCEPT ![j] = "completed"]
    /\ resultCount' = [resultCount EXCEPT ![j] = NumTables]
    /\ UNCHANGED <<open, retired, error, results>>

\* partial promises an error and some results, as many as it counts.
EndPartial(j, n) ==
    /\ j \in open /\ status[j] = "running"
    /\ n \in 1..Len(results[j])
    /\ status' = [status EXCEPT ![j] = "partial"]
    /\ resultCount' = [resultCount EXCEPT ![j] = n]
    /\ error' = [error EXCEPT ![j] = TRUE]
    /\ UNCHANGED <<open, retired, results>>

\* An open job that was executed may fail, even after another outcome.
Fail(j) ==
    /\ j \in open /\ status[j] # "pending"
    /\ status' = [status EXCEPT ![j] = "failed"]
    /\ error' = [error EXCEPT ![j] = TRUE]
    /\ UNCHANGED <<open, retired, resultCount, results>>

\* The outcome becomes final.
Retire(j) ==
    /\ j \in open /\ status[j] \in Terminal
    /\ open' = open \ {j}
    /\ retired' = retired \cup {j}
    /\ UNCHANGED <<status, resultCount, error, results>>

Next == \E j \in Jobs :
    \/ Submit(j) \/ Execute(j) \/ Complete(j) \/ Fail(j) \/ Retire(j)
    \/ \E t \in Tables : Describe(j, t)
    \/ \E n \in Tables : EndPartial(j, n)

Spec == Init /\ [][Next]_vars
=============================================================================

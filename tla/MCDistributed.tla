--------------------------- MODULE MCDistributed ----------------------------
(***************************************************************************)
(* The parts of a distributed crawl, for TLC: a consumer of crawl tasks    *)
(* (TaskConsumer), the job manager that drives the consumers over Kafka    *)
(* (JobManager) and the reconciler of the Kubernetes operator              *)
(* (Reconciler).  They share no state: part says which of them a behaviour *)
(* is about, and the others stay in their initial state.                   *)
(***************************************************************************)
EXTENDS TaskConsumer

CONSTANTS Jobs, PodCounts, DefaultWorkers, MaxEdits, MaxFaults, Seeds, MaxCalls

VARIABLES part,
          phase, desired, actual, active, spec, pods, due, at, read, goal, edits, faults,
          jobState, startedAt, completedAt, tasks, pending, control, calls

R == INSTANCE Reconciler WITH Workers <- PodCounts
M == INSTANCE JobManager WITH state <- jobState

ASSUME R!ReconcilerAssumption /\ M!JobAssumption

reconciler == <<phase, desired, actual, active, spec, pods, due, at, read, goal, edits,
                faults>>
manager == <<jobState, startedAt, completedAt, tasks, pending, control, calls>>

DistributedInit ==
    part \in {"consumer", "reconciler", "manager"} /\ Init /\ R!Init /\ M!Init

DistributedNext ==
    \/ part = "consumer" /\ Next /\ UNCHANGED <<part, reconciler, manager>>
    \/ part = "reconciler" /\ R!Next /\ UNCHANGED <<part, vars, manager>>
    \/ part = "manager" /\ M!Next /\ UNCHANGED <<part, vars, reconciler>>

\* The consumer's goroutines run, handlers and backoffs end and the commit
\* ticker fires; a due job is reconciled and the result carried out.  Edits,
\* crashes, failures, marks and calls of the job manager need never happen.
DistributedSpec ==
    /\ DistributedInit /\ [][DistributedNext]_<<part, vars, reconciler, manager>>
    /\ WF_vars(part = "consumer" /\ ReaderStep)
    /\ WF_vars(part = "consumer" /\ FlushCommit)
    /\ \A w \in Workers : WF_vars(part = "consumer" /\ WorkerStep(w))
    /\ \A j \in Jobs : WF_reconciler(part = "reconciler" /\ R!ControllerStep(j))

\* Paused and finished jobs want no workers and finished ones stay finished,
\* whatever order stale reads, edits, crashes and marks come in.
ReconcilerOK == R!ReconcilerOK

\* In a cluster with a controller, a job left alone comes to have the workers
\* its spec asks for.
JobsConverge == part = "reconciler" => R!Converges

\* The manager never believes in a change the workers were not told of,
\* whatever part of its writes to Kafka failed, and a cancelled job stays so.
JobManagerOK == M!JobManagerOK

=============================================================================

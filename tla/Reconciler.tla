----------------------------- MODULE Reconciler -----------------------------
(***************************************************************************)
(* The CrawlJob reconciler of the Kubernetes operator                      *)
(* (pkg/operator/reconciler.go).  Reconcile, MarkCompleted and MarkFailed  *)
(* each run under r.mu and are one step.  The controller that calls        *)
(* Reconcile is external: it reads a CrawlJob and counts its workers       *)
(* (Fetch), calls Reconcile with what it read, and carries out the Actions *)
(* of the result (Apply); between these steps users edit the job, workers  *)
(* crash and the job is marked.  due is the controller's work queue: a     *)
(* job is due when it is created or edited, when its result asks for a     *)
(* requeue, and when an action fails.                                      *)
(***************************************************************************)
EXTENDS Naturals

CONSTANTS
    Jobs,
    Workers,         \* values of Spec.Workers, 0 for a field left out
    DefaultWorkers,  \* 3 in the code
    MaxEdits,        \* bound on the edits of a job's spec
    MaxFaults        \* bound on worker crashes and failed actions

ReconcilerAssumption ==
    /\ Workers \subseteq Nat
    /\ DefaultWorkers \in Nat \ {0}
    /\ MaxEdits \in Nat /\ MaxFaults \in Nat

VARIABLES
    phase,     \* Status.Phase, "absent" before the first Reconcile
    desired,   \* ReconcileState.DesiredWorkers
    actual,    \* ReconcileState.ActualWorkers
    active,    \* Status.ActiveWorkers
    spec,      \* the CrawlJob's spec in the cluster
    pods,      \* worker pods that run
    due, at, read, goal, edits, faults

vars == <<phase, desired, actual, active, spec, pods, due, at, read, goal,
          edits, faults>>

state == <<phase, desired, actual, active>>
cluster == <<spec, pods, edits, faults>>

Phases == {"Pending", "Running", "Paused", "Completed", "Failed"}
Terminal == {"Completed", "Failed"}
Specs == [workers : Workers, suspend : BOOLEAN]

\* "if workers <= 0 { workers = 3 }"
Want(s) == IF s.workers = 0 THEN DefaultWorkers ELSE s.workers

\* The Actions of a result: one that names a number of workers, or none.
NoScale == [set |-> FALSE, to |-> 0]
Scale(n) == [set |-> TRUE, to |-> n]

TypeOK ==
    /\ phase \in [Jobs -> Phases \cup {"absent"}]
    /\ desired \in [Jobs -> Nat] /\ actual \in [Jobs -> Nat]
    /\ active \in [Jobs -> Nat] /\ pods \in [Jobs -> Nat]
    /\ spec \in [Jobs -> Specs]
    /\ due \in [Jobs -> BOOLEAN]
    /\ at \in [Jobs -> {"idle", "reconcile", "apply"}]
    /\ read \in [Jobs -> [spec : Specs, workers : Nat]]
    /\ goal \in [Jobs -> [set : BOOLEAN, to : Nat]]
    /\ edits \in 0..MaxEdits /\ faults \in 0..MaxFaults

\* NewReconciler, and jobs just created in the cluster.
Init ==
    /\ phase = [j \in Jobs |-> "absent"]
    /\ desired = [j \in Jobs |-> 0] /\ actual = [j \in Jobs |-> 0]
    /\ active = [j \in Jobs |-> 0] /\ pods = [j \in Jobs |-> 0]
    /\ spec \in [Jobs -> Specs]
    /\ due = [j \in Jobs |-> TRUE]
    /\ at = [j \in Jobs |-> "idle"]
    /\ read = [j \in Jobs |-> [spec |-> spec[j], workers |-> 0]]
    /\ goal = [j \in Jobs |-> NoScale]
    /\ edits = 0 /\ faults = 0

-----------------------------------------------------------------------------
(* The cluster and the controller around the reconciler *)

Edit(j, s) ==
    /\ edits < MaxEdits /\ s # spec[j]
    /\ edits' = edits + 1
    /\ spec' = [spec EXCEPT ![j] = s]
    /\ due' = [due EXCEPT ![j] = TRUE]
    /\ UNCHANGED <<state, pods, at, read, goal, faults>>

Crash(j) ==
    /\ faults < MaxFaults /\ pods[j] > 0
    /\ faults' = faults + 1
    /\ pods' = [pods EXCEPT ![j] = @ - 1]
    /\ UNCHANGED <<state, spec, due, at, read, goal, edits>>

Fetch(j) ==
    /\ at[j] = "idle" /\ due[j]
    /\ due' = [due EXCEPT ![j] = FALSE]
    /\ read' = [read EXCEPT ![j] = [spec |-> spec[j], workers |-> pods[j]]]
    /\ at' = [at EXCEPT ![j] = "reconcile"]
    /\ UNCHANGED <<state, cluster, goal>>

Apply(j) ==
    /\ at[j] = "apply"
    /\ pods' = [pods EXCEPT ![j] = IF goal[j].set THEN goal[j].to ELSE @]
    /\ at' = [at EXCEPT ![j] = "idle"]
    /\ goal' = [goal EXCEPT ![j] = NoScale]
    /\ UNCHANGED <<state, spec, due, read, edits, faults>>

\* The action fails and the controller tries the job again.
ApplyFails(j) ==
    /\ at[j] = "apply" /\ goal[j].set /\ faults < MaxFaults
    /\ faults' = faults + 1
    /\ at' = [at EXCEPT ![j] = "idle"]
    /\ goal' = [goal EXCEPT ![j] = NoScale]
    /\ due' = [due EXCEPT ![j] = TRUE]
    /\ UNCHANGED <<state, spec, pods, read, edits>>

-----------------------------------------------------------------------------
(* Reconcile *)

\* A job is registered on its first Reconcile, as Pending.
Phase(j) == IF phase[j] = "absent" THEN "Pending" ELSE phase[j]

\* What every Reconcile does: record the workers, hand back a result.
Result(j, requeue, actions) ==
    /\ at[j] = "reconcile"
    /\ actual' = [actual EXCEPT ![j] = read[j].workers]
    /\ at' = [at EXCEPT ![j] = "apply"]
    /\ goal' = [goal EXCEPT ![j] = actions]
    /\ due' = [due EXCEPT ![j] = @ \/ requeue]
    /\ UNCHANGED <<cluster, read>>

\* spec.Suspend: a running job is paused, any other is left as it is.
ReconcileSuspended(j) ==
    /\ read[j].spec.suspend
    /\ IF Phase(j) = "Running"
       THEN /\ phase' = [phase EXCEPT ![j] = "Paused"]
            /\ desired' = [desired EXCEPT ![j] = 0]
            /\ Result(j, FALSE, Scale(0))
       ELSE /\ phase' = [phase EXCEPT ![j] = Phase(j)]
            /\ UNCHANGED desired
            /\ Result(j, FALSE, NoScale)
    /\ UNCHANGED active

ReconcilePending(j) ==
    /\ ~read[j].spec.suspend /\ Phase(j) = "Pending"
    /\ phase' = [phase EXCEPT ![j] = "Running"]
    /\ desired' = [desired EXCEPT ![j] = Want(read[j].spec)]
    /\ Result(j, TRUE, Scale(Want(read[j].spec)))
    /\ UNCHANGED active

\* Fault: no requeue for the periodic health check.
ReconcileRunningOnce(j) ==
    /\ ~read[j].spec.suspend /\ Phase(j) = "Running"
    /\ desired' = [desired EXCEPT ![j] = Want(read[j].spec)]
    /\ active' = [active EXCEPT ![j] = Want(read[j].spec)]
    /\ Result(j, FALSE, IF read[j].workers = Want(read[j].spec)
                        THEN NoScale ELSE Scale(Want(read[j].spec)))
    /\ UNCHANGED phase

\* Scale up or down when the workers counted differ from the ones wanted;
\* Status.ActiveWorkers is set to the number wanted.
ReconcileRunning(j) ==
    /\ ~read[j].spec.suspend /\ Phase(j) = "Running"
    /\ desired' = [desired EXCEPT ![j] = Want(read[j].spec)]
    /\ active' = [active EXCEPT ![j] = Want(read[j].spec)]
    /\ Result(j, TRUE, IF read[j].workers = Want(read[j].spec)
                       THEN NoScale ELSE Scale(Want(read[j].spec)))
    /\ UNCHANGED phase

\* "resume" names no number of workers: the requeued call scales up.
ReconcilePaused(j) ==
    /\ ~read[j].spec.suspend /\ Phase(j) = "Paused"
    /\ phase' = [phase EXCEPT ![j] = "Running"]
    /\ Result(j, TRUE, NoScale)
    /\ UNCHANGED <<desired, active>>

ReconcileTerminal(j) ==
    /\ ~read[j].spec.suspend /\ Phase(j) \in Terminal
    /\ Result(j, FALSE, NoScale)
    /\ UNCHANGED <<phase, desired, active>>

Reconcile(j) == ReconcileSuspended(j) \/ ReconcilePending(j)
    \/ ReconcileRunning(j) \/ ReconcilePaused(j) \/ ReconcileTerminal(j)

-----------------------------------------------------------------------------
(* MarkCompleted and MarkFailed, from any phase *)

\* Fault: the workers of a finished job are still wanted.
MarkKeep(j, p) ==
    /\ phase[j] # "absent"
    /\ phase' = [phase EXCEPT ![j] = p]
    /\ UNCHANGED <<desired, actual, active, cluster, due, at, read, goal>>

Mark(j, p) ==
    /\ phase[j] # "absent"
    /\ phase' = [phase EXCEPT ![j] = p]
    /\ desired' = [desired EXCEPT ![j] = 0]
    /\ UNCHANGED <<actual, active, cluster, due, at, read, goal>>

ControllerStep(j) == Fetch(j) \/ Reconcile(j) \/ Apply(j)

Next == \E j \in Jobs :
    \/ \E s \in Specs : Edit(j, s)
    \/ Crash(j)
    \/ ControllerStep(j) \/ ApplyFails(j)
    \/ \E p \in Terminal : Mark(j, p)

Spec == Init /\ [][Next]_vars

-----------------------------------------------------------------------------
(* Properties *)

\* Nobody is told to keep workers for a job that is paused or finished, in
\* whatever order marks, edits and reconciliations on stale reads come.
QuietWantsNone ==
    \A j \in Jobs : phase[j] \in {"Paused"} \cup Terminal => desired[j] = 0

\* A finished job is not started again: no suspension, resumption or stale
\* read makes Reconcile leave Completed or Failed.
FinishedStays ==
    [][\A j \in Jobs : phase[j] \in Terminal => phase'[j] \in Terminal]_vars

\* Both: what marks, edits and reconciliations on stale reads never do.
ReconcilerOK == [](TypeOK /\ QuietWantsNone) /\ FinishedStays

\* Level-triggered reconciliation: once a job is left alone, neither suspended
\* nor finished, it comes to have the workers its spec asks for, through
\* crashes, failed actions, resumption and reads that were stale.
Converges ==
    \A j \in Jobs :
        <>[](~spec[j].suspend /\ phase[j] \notin Terminal)
            => <>[](pods[j] = Want(spec[j]))

=============================================================================

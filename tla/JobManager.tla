----------------------------- MODULE JobManager -----------------------------
(***************************************************************************)
(* The distributed job manager (pkg/distributed/job.go) and the producer   *)
(* it publishes seed tasks with (producer.go).  Every method holds m.mu    *)
(* for its whole body, the Kafka write included, so each is one action     *)
(* with one disjunct per outcome of the write.                             *)
(*                                                                         *)
(* A failed WriteMessages (external) may have written any part of its      *)
(* messages, and a batch whose context ended is still written later by the *)
(* producer's writer.  A control message has no such late write: its       *)
(* writer is closed, and so flushed, before the method returns.            *)
(***************************************************************************)
EXTENDS Integers, Sequences, FiniteSets

CONSTANTS
    Jobs,        \* job IDs
    Seeds,       \* CrawlJob.SeedURLs
    MaxCalls     \* bound on the calls that write to Kafka, per job

JobAssumption == MaxCalls \in Nat /\ IsFiniteSet(Seeds)

VARIABLES
    state,        \* CrawlJob.State; "none" before CreateJob
    startedAt,    \* StartedAt has been set
    completedAt,  \* CompletedAt has been set
    tasks,        \* how often each seed was written to the task topic
    pending,      \* seeds of timed-out batches the writer may still send
    control,      \* the job's messages on the control topic
    calls

vars == <<state, startedAt, completedAt, tasks, pending, control, calls>>

JobStates == {"created", "running", "paused", "completed", "failed",
              "cancelled"}
ControlTypes == {"pause", "resume", "stop"}

TypeOK ==
    /\ state \in [Jobs -> JobStates \cup {"none"}]
    /\ startedAt \in [Jobs -> BOOLEAN] /\ completedAt \in [Jobs -> BOOLEAN]
    /\ tasks \in [Jobs -> [Seeds -> 0..MaxCalls]]
    /\ pending \in [Jobs -> [Seeds -> 0..MaxCalls]]
    /\ control \in [Jobs -> Seq(ControlTypes)]
    /\ calls \in [Jobs -> 0..MaxCalls]

Init ==
    /\ state = [j \in Jobs |-> "none"]
    /\ startedAt = [j \in Jobs |-> FALSE]
    /\ completedAt = [j \in Jobs |-> FALSE]
    /\ tasks = [j \in Jobs |-> [s \in Seeds |-> 0]]
    /\ pending = [j \in Jobs |-> [s \in Seeds |-> 0]]
    /\ control = [j \in Jobs |-> <<>>]
    /\ calls = [j \in Jobs |-> 0]

ValidTransitions ==
    [created   |-> {"running", "cancelled"},
     running   |-> {"paused", "completed", "failed", "cancelled"},
     paused    |-> {"running", "cancelled"},
     completed |-> {},
     failed    |-> {"running"},
     cancelled |-> {}]

CanTransitionTo(j, target) ==
    state[j] # "none" /\ target \in ValidTransitions[state[j]]

Terminal == {"cancelled", "completed", "failed"}

Call(j) == calls[j] < MaxCalls /\ calls' = [calls EXCEPT ![j] = @ + 1]

Plus(count, S, n) ==
    [s \in Seeds |-> IF s \in S THEN count[s] + n ELSE count[s]]

\* PublishBatch puts the seeds in S on the task topic.
Written(j, S) == tasks' = [tasks EXCEPT ![j] = Plus(@, S, 1)]

CreateJob(j) ==
    /\ state[j] = "none"
    /\ state' = [state EXCEPT ![j] = "created"]
    /\ UNCHANGED <<startedAt, completedAt, tasks, pending, control, calls>>

\* A job may be started from created, failed or paused: publish the seeds,
\* then change the state; a failed publish leaves the state as it was.
StartJob(j) ==
    /\ CanTransitionTo(j, "running")
    /\ Call(j)
    /\ \/ /\ Written(j, Seeds)
          /\ state' = [state EXCEPT ![j] = "running"]
          /\ startedAt' = [startedAt EXCEPT ![j] = TRUE]
          /\ UNCHANGED pending
       \/ /\ \E S \in SUBSET Seeds :
                /\ Written(j, S)
                /\ \E P \in SUBSET (Seeds \ S) :
                      pending' = [pending EXCEPT ![j] = Plus(@, P, 1)]
          /\ UNCHANGED <<state, startedAt>>
    /\ UNCHANGED <<completedAt, control>>

\* The writer delivers what a timed-out batch left behind (external).
LateWrite(j, s) ==
    /\ pending[j][s] > 0
    /\ tasks' = [tasks EXCEPT ![j][s] = @ + 1]
    /\ pending' = [pending EXCEPT ![j][s] = @ - 1]
    /\ UNCHANGED <<state, startedAt, completedAt, control, calls>>

\* Fault: the state is set even when the control write fails.
ControlTransitionEager(j, target, ctrl) ==
    /\ CanTransitionTo(j, target)
    /\ Call(j)
    /\ \/ control' = [control EXCEPT ![j] = Append(@, ctrl)]
       \/ UNCHANGED control
    /\ state' = [state EXCEPT ![j] = target]
    /\ completedAt' = [completedAt EXCEPT ![j] = @ \/ target \in Terminal]
    /\ UNCHANGED <<startedAt, tasks, pending>>

\* Sends the control message, then changes the state.
ControlTransition(j, target, ctrl) ==
    /\ CanTransitionTo(j, target)
    /\ Call(j)
    /\ \/ /\ control' = [control EXCEPT ![j] = Append(@, ctrl)]
          /\ state' = [state EXCEPT ![j] = target]
          /\ completedAt' = [completedAt EXCEPT ![j] = @ \/ target \in Terminal]
       \/ /\ control' = [control EXCEPT ![j] = Append(@, ctrl)]
          /\ UNCHANGED <<state, completedAt>>
       \/ UNCHANGED <<control, state, completedAt>>
    /\ UNCHANGED <<startedAt, tasks, pending>>

PauseJob(j) == ControlTransition(j, "paused", "pause")
ResumeJob(j) == ControlTransition(j, "running", "resume")
StopJob(j) == ControlTransition(j, "cancelled", "stop")

Next == \E j \in Jobs : \/ CreateJob(j) \/ StartJob(j)
                        \/ \E s \in Seeds : LateWrite(j, s)
                        \/ PauseJob(j) \/ ResumeJob(j) \/ StopJob(j)

Spec == Init /\ [][Next]_vars

-----------------------------------------------------------------------------
(* Properties *)

LastControl(j) == control[j][Len(control[j])]
Told(j, ctrl) == ctrl \in {control[j][i] : i \in 1..Len(control[j])}

\* The manager never believes in a change the workers were not told of: a
\* paused or cancelled job has the control message on the topic, and a job
\* with a start time has every seed there, whatever part of earlier writes
\* failed.
StateBacked ==
    \A j \in Jobs :
        /\ state[j] = "paused" => Told(j, "pause")
        /\ state[j] = "cancelled" => control[j] # <<>> /\ LastControl(j) = "stop"
        /\ startedAt[j] => \A s \in Seeds : tasks[j][s] >= 1

\* A cancelled job stays cancelled: no later call changes its state or sends
\* the workers another control message, and its completion time is set.
CancelledFinal ==
    [][\A j \in Jobs : state[j] = "cancelled" =>
          /\ completedAt[j]
          /\ state'[j] = "cancelled" /\ control'[j] = control[j]]_vars

\* Both: what failing, partial and late writes to Kafka never do to a job.
JobManagerOK == [](TypeOK /\ StateBacked) /\ CancelledFinal

=============================================================================

---------------------------- MODULE TaskConsumer ----------------------------
(***************************************************************************)
(* The Kafka task consumer (pkg/distributed/consumer.go): a read loop that *)
(* fetches messages, hands tasks to workers over a channel and commits     *)
(* them as soon as they are handed over; workers that run the handler and  *)
(* on failure republish the task or route it to the dead letter queue.     *)
(*                                                                         *)
(* The topic is one partition, the sequence log (external).  CommitMessages*)
(* only records an offset, which a ticker or Close sends to the broker.    *)
(* A crash loses the process's memory; it restarts from the committed      *)
(* offset.  Faults says which of the troubles may happen in an instance.   *)
(***************************************************************************)
EXTENDS Integers, Sequences, FiniteSets, SequencesExt

CONSTANTS
    Tasks,        \* tasks the producer publishes, each once
    Malformed,    \* those whose message does not decode
    Workers,
    NoTask,
    MaxRetries,
    MaxLog,       \* bound on the messages of the topic
    MaxCrashes,   \* bound on the crashes
    Faults        \* subset of {"stop", "crash", "write"}

ASSUME ConsumerAssumption ==
    /\ Malformed \subseteq Tasks /\ IsFiniteSet(Workers)
    /\ MaxRetries \in Nat /\ MaxLog \in Nat /\ MaxCrashes \in Nat
    /\ Faults \subseteq {"stop", "crash", "write"}

Messages == [task : Tasks, retry : 0..MaxRetries]

ASSUME NoTaskAssumption == NoTask \notin Messages

ChanCap == 2 * Cardinality(Workers)

VARIABLES
    log,                \* the topic
    fetched,            \* messages fetched by this process
    marked, committed,  \* offset given to CommitMessages; known to the broker
    taskCh, chClosed,
    rpc, msg,           \* the read loop and the message it holds
    wpc, task,          \* a worker and the task it runs
    ctxDone,
    processed, succeeded, failed, dlqCount,   \* Stats of this process
    dlq,                \* tasks in the dead letter topic
    settled,            \* history: tasks the handler completed
    lastRetry,          \* history: highest retry count handled, per task
    skipped,            \* history: messages that did not decode
    dropped,            \* history: tasks given up after a write failed
    crashes

vars == <<log, fetched, marked, committed, taskCh, chClosed, rpc, msg, wpc,
          task, ctxDone, processed, succeeded, failed, dlqCount, dlq, settled,
          lastRetry, skipped, dropped, crashes>>

reader == <<fetched, marked, rpc, msg, chClosed, skipped>>
stats == <<processed, succeeded, failed, dlqCount>>
topics == <<log, committed, dlq>>
history == <<settled, lastRetry, dropped, crashes>>

TypeOK ==
    /\ log \in Seq(Messages) /\ Len(log) <= MaxLog
    /\ fetched \in 0..Len(log) /\ marked \in 0..fetched
    /\ committed \in 0..Len(log)
    /\ taskCh \in Seq(Messages) /\ Len(taskCh) <= ChanCap
    /\ chClosed \in BOOLEAN /\ ctxDone \in BOOLEAN
    /\ rpc \in {"fetch", "send", "commit", "exited"}
    /\ msg \in Messages \cup {NoTask}
    /\ wpc \in [Workers -> {"recv", "handle", "backoff", "dlq", "exited"}]
    /\ task \in [Workers -> Messages \cup {NoTask}]
    /\ \A n \in {processed, succeeded, failed, dlqCount} : n \in Nat
    /\ dlq \subseteq Tasks /\ settled \subseteq Tasks /\ dropped \subseteq Tasks
    /\ lastRetry \in [Tasks -> -1..MaxRetries]
    /\ skipped \in Nat /\ crashes \in 0..MaxCrashes

\* NewConsumer and Start: an empty topic, all goroutines at their loops.
Init ==
    /\ log = <<>> /\ fetched = 0 /\ marked = 0 /\ committed = 0
    /\ taskCh = <<>> /\ chClosed = FALSE
    /\ rpc = "fetch" /\ msg = NoTask
    /\ wpc = [w \in Workers |-> "recv"] /\ task = [w \in Workers |-> NoTask]
    /\ ctxDone = FALSE
    /\ processed = 0 /\ succeeded = 0 /\ failed = 0 /\ dlqCount = 0
    /\ dlq = {} /\ settled = {} /\ lastRetry = [t \in Tasks |-> -1]
    /\ skipped = 0 /\ dropped = {} /\ crashes = 0

\* Producer.Publish / PublishBatch.
Publish(t) ==
    /\ t \notin {log[i].task : i \in 1..Len(log)}
    /\ Len(log) < MaxLog
    /\ log' = Append(log, [task |-> t, retry |-> 0])
    /\ UNCHANGED <<reader, committed, dlq, taskCh, wpc, task, ctxDone, stats,
                   history>>

-----------------------------------------------------------------------------
(* The read loop *)

\* CommitMessages gives up without an error that anyone reads when the
\* context is done, or still hands its offset over: the select is free.
CommitMessages(offset) == \/ marked' = offset
                          \/ ctxDone /\ UNCHANGED marked

\* Fault: the loop is left at a message that does not decode.
FetchLeave ==
    /\ rpc = "fetch" /\ fetched < Len(log)
    /\ fetched' = fetched + 1
    /\ IF log[fetched + 1].task \in Malformed
       THEN /\ CommitMessages(fetched + 1)
            /\ failed' = failed + 1
            /\ skipped' = skipped + 1
            /\ rpc' = "exited"
            /\ UNCHANGED msg
       ELSE /\ msg' = log[fetched + 1]
            /\ rpc' = "send"
            /\ UNCHANGED <<marked, failed, skipped>>
    /\ UNCHANGED <<chClosed, topics, taskCh, wpc, task, ctxDone, processed,
                   succeeded, dlqCount, history>>

\* FetchMessage may still return a message after the context is done; one
\* that does not decode is committed and skipped.
Fetch ==
    /\ rpc = "fetch" /\ fetched < Len(log)
    /\ fetched' = fetched + 1
    /\ IF log[fetched + 1].task \in Malformed
       THEN /\ CommitMessages(fetched + 1)
            /\ failed' = failed + 1
            /\ skipped' = skipped + 1
            /\ UNCHANGED <<rpc, msg>>
       ELSE /\ msg' = log[fetched + 1]
            /\ rpc' = "send"
            /\ UNCHANGED <<marked, failed, skipped>>
    /\ UNCHANGED <<chClosed, topics, taskCh, wpc, task, ctxDone, processed,
                   succeeded, dlqCount, history>>

Send ==
    /\ rpc = "send" /\ Len(taskCh) < ChanCap
    /\ taskCh' = Append(taskCh, msg)
    /\ msg' = NoTask
    /\ rpc' = "commit"
    /\ UNCHANGED <<fetched, marked, chClosed, skipped, topics, wpc, task,
                   ctxDone, stats, history>>

Commit ==
    /\ rpc = "commit"
    /\ CommitMessages(fetched)
    /\ rpc' = "fetch"
    /\ UNCHANGED <<fetched, msg, chClosed, skipped, topics, taskCh, wpc, task,
                   ctxDone, stats, history>>

\* FetchMessage fails with the context done, or the send gives way to it.
ReaderExit ==
    /\ rpc \in {"fetch", "send"} /\ ctxDone
    /\ rpc' = "exited"
    /\ msg' = NoTask
    /\ chClosed' = TRUE
    /\ UNCHANGED <<fetched, marked, skipped, topics, taskCh, wpc, task, ctxDone,
                   stats, history>>

\* The commit ticker (CommitInterval), and the flush when the reader closes.
FlushCommit ==
    /\ committed < marked
    /\ committed' = marked
    /\ UNCHANGED <<log, dlq, reader, taskCh, wpc, task, ctxDone, stats, history>>

-----------------------------------------------------------------------------
(* Workers *)

Receive(w) ==
    /\ wpc[w] = "recv" /\ taskCh # <<>> /\ ~ctxDone
    /\ taskCh' = Tail(taskCh)
    /\ task' = [task EXCEPT ![w] = Head(taskCh)]
    /\ wpc' = [wpc EXCEPT ![w] = "handle"]
    /\ processed' = processed + 1
    /\ UNCHANGED <<reader, topics, ctxDone, succeeded, failed, dlqCount, history>>

\* With the context done a worker takes a task only to drop it and return.
WorkerExit(w) ==
    /\ wpc[w] = "recv"
    /\ \/ taskCh # <<>> /\ ctxDone /\ taskCh' = Tail(taskCh)
       \/ taskCh = <<>> /\ chClosed /\ UNCHANGED taskCh
    /\ wpc' = [wpc EXCEPT ![w] = "exited"]
    /\ UNCHANGED <<reader, topics, task, ctxDone, stats, history>>

Idle(w) == /\ wpc' = [wpc EXCEPT ![w] = "recv"]
           /\ task' = [task EXCEPT ![w] = NoTask]

Handled(w) == lastRetry' = [lastRetry EXCEPT ![task[w].task] =
                               IF @ > task[w].retry THEN @ ELSE task[w].retry]

HandlerOk(w) ==
    /\ wpc[w] = "handle"
    /\ settled' = settled \cup {task[w].task}
    /\ Handled(w)
    /\ succeeded' = succeeded + 1
    /\ Idle(w)
    /\ UNCHANGED <<reader, topics, taskCh, ctxDone, processed, failed, dlqCount,
                   dropped, crashes>>

\* handleFailure: count the error and choose retry or dead letter.
HandlerFails(w) ==
    /\ wpc[w] = "handle"
    /\ Handled(w)
    /\ failed' = failed + 1
    /\ IF task[w].retry < MaxRetries
       THEN /\ wpc' = [wpc EXCEPT ![w] = "backoff"]
            /\ task' = [task EXCEPT ![w].retry = @ + 1]
            /\ UNCHANGED dlqCount
       ELSE /\ wpc' = [wpc EXCEPT ![w] = "dlq"]
            /\ dlqCount' = dlqCount + 1
            /\ UNCHANGED task
    /\ UNCHANGED <<reader, topics, taskCh, ctxDone, processed, succeeded,
                   settled, dropped, crashes>>

\* Fault: the retry is forgotten after the backoff.
RetryForget(w) ==
    /\ wpc[w] = "backoff" /\ ~ctxDone
    /\ Idle(w)
    /\ UNCHANGED <<log, committed, dlq, reader, taskCh, ctxDone, stats, history>>

\* The backoff ends and the task is written to the topic again.
RetryPublish(w) ==
    /\ wpc[w] = "backoff" /\ ~ctxDone
    /\ Len(log) < MaxLog
    /\ log' = Append(log, task[w])
    /\ Idle(w)
    /\ UNCHANGED <<committed, dlq, reader, taskCh, ctxDone, stats, history>>

DlqPublish(w) ==
    /\ wpc[w] = "dlq" /\ ~ctxDone
    /\ dlq' = dlq \cup {task[w].task}
    /\ Idle(w)
    /\ UNCHANGED <<log, committed, reader, taskCh, ctxDone, stats, history>>

\* The context ends the backoff, or a write fails: only a log line is left.
GiveUp(w) ==
    /\ wpc[w] \in {"backoff", "dlq"}
    /\ ctxDone \/ "write" \in Faults
    /\ dropped' = dropped \cup {task[w].task}
    /\ Idle(w)
    /\ UNCHANGED <<reader, topics, taskCh, ctxDone, stats, settled, lastRetry,
                   crashes>>

-----------------------------------------------------------------------------
(* Stop, and crashes with restart *)

Stop ==
    /\ "stop" \in Faults /\ ~ctxDone
    /\ ctxDone' = TRUE
    /\ UNCHANGED <<reader, topics, taskCh, wpc, task, stats, history>>

Crash ==
    /\ "crash" \in Faults /\ crashes < MaxCrashes
    /\ crashes' = crashes + 1
    /\ fetched' = committed /\ marked' = committed
    /\ taskCh' = <<>> /\ chClosed' = FALSE
    /\ rpc' = "fetch" /\ msg' = NoTask
    /\ wpc' = [w \in Workers |-> "recv"] /\ task' = [w \in Workers |-> NoTask]
    /\ ctxDone' = FALSE
    /\ processed' = 0 /\ succeeded' = 0 /\ failed' = 0 /\ dlqCount' = 0
    /\ skipped' = 0
    /\ UNCHANGED <<topics, settled, lastRetry, dropped>>

-----------------------------------------------------------------------------
WorkerStep(w) ==
    \/ Receive(w) \/ WorkerExit(w) \/ HandlerOk(w) \/ HandlerFails(w)
    \/ RetryPublish(w) \/ DlqPublish(w) \/ GiveUp(w)

ReaderStep == Fetch \/ Send \/ Commit \/ ReaderExit

Next ==
    \/ \E t \in Tasks : Publish(t)
    \/ ReaderStep \/ FlushCommit
    \/ \E w \in Workers : WorkerStep(w)
    \/ Stop \/ Crash

Spec == Init /\ [][Next]_vars

\* The goroutines run, handlers and backoffs end, the commit ticker fires.
FairSpec == /\ Spec
            /\ WF_vars(ReaderStep) /\ WF_vars(FlushCommit)
            /\ \A w \in Workers : WF_vars(WorkerStep(w))

-----------------------------------------------------------------------------
(* Properties *)

Published == {log[i].task : i \in 1..Len(log)}
InMemory == {m.task : m \in ({taskCh[i] : i \in 1..Len(taskCh)} \cup {msg}
                             \cup {task[w] : w \in Workers}) \ {NoTask}}
Redeliverable == {log[i].task : i \in (committed + 1)..Len(log)}

\* Done, dead, in this process or still to be delivered to it.
Safe == settled \cup dlq \cup InMemory \cup Redeliverable

\* Although messages are committed before they are processed, a consumer that
\* is neither stopped nor crashed loses no task but those whose retry or dead
\* letter could not be written: each other one is still to be delivered, in
\* the process, done, or in the dead letter queue.
NoTaskLost ==
    ctxDone \/ crashes > 0 \/ Published \ Malformed \subseteq Safe \cup dropped

\* Every published task is in the end completed or in the dead letter queue,
\* unless a write fails or the consumer is stopped or crashes.
TasksSettle == \A t \in Tasks \ Malformed :
    t \in Published ~> t \in settled \cup dlq \cup dropped \/ ctxDone \/ crashes > 0

\* No task is handled with a retry count above MaxRetries, and only one that
\* was tried MaxRetries + 1 times reaches the dead letter queue, crashes and
\* redeliveries included.
RetriesBounded ==
    /\ \A t \in Tasks : lastRetry[t] <= MaxRetries
    /\ \A t \in dlq : lastRetry[t] = MaxRetries

\* The broker's offset never passes what this process has handed over or
\* skipped, and so a restart never skips a message nobody has seen.
CommitBehindFetch == committed <= fetched /\ marked <= fetched

\* The counters agree with each other at every moment: each processed task is
\* being handled, succeeded or failed, and undecodable messages count as
\* failed without being processed.
StatsConsistent ==
    processed = succeeded + (failed - skipped)
                + Cardinality({w \in Workers : wpc[w] = "handle"})

\* What crashes, stops, redeliveries and failed writes never disturb: the
\* bound on retries, commits that stay behind the fetches, and statistics that
\* add up; and none of them aside, no task is lost.
ConsumerInv ==
    TypeOK /\ RetriesBounded /\ CommitBehindFetch /\ StatsConsistent /\ NoTaskLost

\* consumer.go:265 "Stop gracefully shuts down the consumer, waiting for
\* in-flight tasks": a task taken from Kafka is not dropped by Stop.
GracefulStop ==
    rpc = "exited" /\ (\A w \in Workers : wpc[w] = "exited") =>
        Published \ Malformed \subseteq Safe

=============================================================================

------------------------- MODULE DistributedProofs --------------------------
(***************************************************************************)
(* Proofs about the Kafka task consumer (TaskConsumer), for any tasks,     *)
(* workers, retries and crashes: retries stay bounded, commits stay behind *)
(* the fetches, the statistics add up, and a consumer that is neither      *)
(* stopped nor crashed loses no task; about the reconciler of the operator *)
(* (Reconciler), for any jobs, specs and edits; and about the job manager  *)
(* (JobManager), for any jobs, seeds and calls.                            *)
(***************************************************************************)
EXTENDS MCDistributed, FiniteSetTheorems, TLAPS

-----------------------------------------------------------------------------
(* The inductive invariant *)

Busy == {"handle", "backoff", "dlq"}
Handling == {w \in Workers : wpc[w] = "handle"}

\* Who holds a message, and that a task goes to the dead letter queue only
\* after its last retry was handled.
HeldInv ==
    /\ rpc = "send" => msg \in Messages
    /\ rpc # "send" => msg = NoTask
    /\ \A w \in Workers : wpc[w] \in Busy => task[w] \in Messages
    /\ \A w \in Workers : wpc[w] \notin Busy => task[w] = NoTask
    /\ \A w \in Workers : wpc[w] = "dlq" => lastRetry[task[w].task] = MaxRetries

\* Where a task can be that is neither done nor dead nor given up: still ahead
\* of the read loop, in its hand, in the channel, or with a worker.
Ahead(t) == \E i \in (fetched + 1)..Len(log) : log[i].task = t
Read(t) == rpc = "send" /\ msg.task = t
Queued(t) == \E i \in 1..Len(taskCh) : taskCh[i].task = t
Held(t) == \E w \in Workers : wpc[w] \in Busy /\ task[w].task = t

Kept(t) == \/ t \in settled \cup dlq \cup dropped
           \/ Ahead(t) \/ Read(t) \/ Queued(t) \/ Held(t)

InLog(t) == \E i \in 1..Len(log) : log[i].task = t

\* Commits play no part in it: what was fetched is in the process.
KeptInv ==
    ctxDone = FALSE /\ crashes = 0 =>
        \A t \in Tasks \ Malformed : InLog(t) => Kept(t)

ConsumerInd ==
    /\ TypeOK /\ HeldInv /\ RetriesBounded /\ CommitBehindFetch
    /\ StatsConsistent /\ KeptInv

\* Facts about the constants.
LEMMA Constants ==
    /\ MaxRetries \in Nat /\ MaxLog \in Nat /\ MaxCrashes \in Nat
    /\ IsFiniteSet(Workers) /\ ChanCap \in Nat
    /\ Malformed \subseteq Tasks /\ NoTask \notin Messages
<1>1. Cardinality(Workers) \in Nat
  BY ConsumerAssumption, FS_CardinalityType
<1>2. QED
  BY <1>1, ConsumerAssumption, NoTaskAssumption DEF ChanCap

\* A fresh consumer on an empty topic satisfies it.
LEMMA ConsumerInit == Init => ConsumerInd
<1> SUFFICES ASSUME Init PROVE ConsumerInd
  OBVIOUS
<1>1. chClosed \in BOOLEAN /\ ctxDone \in BOOLEAN
  BY Zenon DEF Init
<1>2. log = <<>> /\ taskCh = <<>>
  BY DEF Init
<1>3. log \in Seq(Messages) /\ taskCh \in Seq(Messages) /\ Len(log) = 0 /\ Len(taskCh) = 0
  BY <1>2
<1>4. TypeOK
  BY <1>1, <1>3, Constants DEF Init, TypeOK
<1>5. HeldInv /\ RetriesBounded /\ CommitBehindFetch
  BY Constants DEF Init, HeldInv, RetriesBounded, CommitBehindFetch, Busy
<1>6. StatsConsistent
  <2>1. {w \in Workers : wpc[w] = "handle"} = {}
    BY DEF Init
  <2>2. Cardinality({w \in Workers : wpc[w] = "handle"}) = 0
    BY <2>1, FS_EmptySet, Zenon
  <2>3. QED
    BY <2>2 DEF Init, StatsConsistent
<1>7. KeptInv
  BY <1>3 DEF KeptInv, InLog
<1>8. QED
  BY <1>4, <1>5, <1>6, <1>7 DEF ConsumerInd

\* A worker's task, and what becomes of the last retry when it is handled.
LEMMA HandledStep ==
    ASSUME ConsumerInd, NEW w \in Workers, wpc[w] = "handle", Handled(w)
    PROVE  /\ task[w] \in Messages /\ task[w].task \in Tasks
           /\ task[w].retry \in 0..MaxRetries
           /\ lastRetry' \in [Tasks -> -1..MaxRetries]
           /\ \A t \in Tasks : lastRetry'[t] >= lastRetry[t]
           /\ lastRetry'[task[w].task] >= task[w].retry
<1>1. /\ task[w] \in Messages /\ lastRetry \in [Tasks -> -1..MaxRetries]
      /\ MaxRetries \in Nat
  BY Constants DEF ConsumerInd, HeldInv, TypeOK, Busy
<1>2. task[w].task \in Tasks /\ task[w].retry \in 0..MaxRetries
  BY <1>1 DEF Messages
<1> DEFINE t == task[w].task
           n == IF lastRetry[t] > task[w].retry THEN lastRetry[t] ELSE task[w].retry
<1>3. lastRetry' = [lastRetry EXCEPT ![t] = n]
  BY DEF Handled
<1>4. n \in -1..MaxRetries /\ n >= lastRetry[t] /\ n >= task[w].retry
  BY <1>1, <1>2
<1> HIDE DEF n
<1>5. QED
  BY <1>1, <1>2, <1>3, <1>4

\* Every step keeps the types.
LEMMA ConsumerType == ASSUME ConsumerInd, [Next]_vars PROVE TypeOK'
<1> USE DEF ConsumerInd, TypeOK, reader, topics, stats, history
<1>0. Len(log) \in Nat /\ Len(taskCh) \in Nat
  OBVIOUS
<1>1. ASSUME NEW m \in Messages, Len(log) < MaxLog, log' = Append(log, m)
      PROVE  /\ log' \in Seq(Messages) /\ Len(log') = Len(log) + 1 /\ Len(log') <= MaxLog
  BY <1>0, <1>1, Constants
<1>2. ASSUME NEW t \in Tasks, Publish(t) PROVE TypeOK'
  <2>1. [task |-> t, retry |-> 0] \in Messages
    BY Constants DEF Messages
  <2>2. log' \in Seq(Messages) /\ Len(log') = Len(log) + 1 /\ Len(log') <= MaxLog
    BY <1>1, <1>2, <2>1 DEF Publish
  <2>3. QED
    BY <1>0, <1>2, <2>2 DEF Publish
<1>3. CASE Fetch
  <2>1. fetched + 1 \in 1..Len(log) /\ log[fetched + 1] \in Messages
    BY <1>0, <1>3 DEF Fetch
  <2>2. /\ fetched' = fetched + 1 /\ marked' \in 0..fetched'
        /\ UNCHANGED <<log, committed, dlq, taskCh, wpc, task, settled, lastRetry>>
    BY <1>0, <1>3 DEF Fetch, CommitMessages
  <2>3. rpc' \in {"fetch", "send"} /\ msg' \in Messages \cup {NoTask}
    BY <1>3, <2>1 DEF Fetch
  <2>4. UNCHANGED <<chClosed, ctxDone, processed, succeeded, dlqCount, dropped, crashes>>
    BY <1>3 DEF Fetch
  <2>5. failed' \in Nat /\ skipped' \in Nat
    BY <1>3 DEF Fetch
  <2>6. QED
    BY <1>0, <2>1, <2>2, <2>3, <2>4, <2>5
<1>4. CASE Send
  <2>1. msg \in Messages
    BY <1>4 DEF Send, HeldInv
  <2>2. taskCh' \in Seq(Messages) /\ Len(taskCh') <= ChanCap
    BY <1>0, <1>4, <2>1, Constants DEF Send
  <2>3. QED
    BY <1>4, <2>2 DEF Send
<1>5. CASE Commit
  <2>1. marked' \in 0..fetched
    BY <1>5 DEF Commit, CommitMessages
  <2>2. QED
    BY <1>5, <2>1 DEF Commit
<1>6. CASE ReaderExit
  BY <1>6 DEF ReaderExit
<1>7. CASE FlushCommit
  <2>1. committed' \in 0..Len(log)
    BY <1>0, <1>7 DEF FlushCommit
  <2>2. QED
    BY <1>7, <2>1 DEF FlushCommit
<1>8. ASSUME NEW w \in Workers, Receive(w) PROVE TypeOK'
  <2>1. /\ Head(taskCh) \in Messages /\ Tail(taskCh) \in Seq(Messages)
        /\ Len(Tail(taskCh)) <= ChanCap
    BY <1>0, <1>8, Constants DEF Receive
  <2>2. QED
    BY <1>8, <2>1 DEF Receive
<1>9. ASSUME NEW w \in Workers, WorkerExit(w) PROVE TypeOK'
  <2>1. taskCh # <<>> => Tail(taskCh) \in Seq(Messages) /\ Len(Tail(taskCh)) <= ChanCap
    BY <1>0, Constants
  <2>2. taskCh' = taskCh \/ (taskCh # <<>> /\ taskCh' = Tail(taskCh))
    BY <1>9 DEF WorkerExit
  <2>3. taskCh' \in Seq(Messages) /\ Len(taskCh') <= ChanCap
    BY <2>1, <2>2
  <2>4. QED
    BY <1>9, <2>3 DEF WorkerExit
<1>10. ASSUME NEW w \in Workers, Idle(w)
       PROVE  /\ wpc' \in [Workers -> {"recv", "handle", "backoff", "dlq", "exited"}]
              /\ task' \in [Workers -> Messages \cup {NoTask}]
  BY <1>10 DEF Idle
<1>11. ASSUME NEW w \in Workers, HandlerOk(w) PROVE TypeOK'
  <2>1. settled' \subseteq Tasks /\ lastRetry' \in [Tasks -> -1..MaxRetries]
    BY <1>11, HandledStep DEF HandlerOk
  <2>2. QED
    BY <1>10, <1>11, <2>1 DEF HandlerOk
<1>12. ASSUME NEW w \in Workers, HandlerFails(w) PROVE TypeOK'
  <2>1. /\ lastRetry' \in [Tasks -> -1..MaxRetries]
        /\ task[w] \in Messages /\ task[w].retry \in 0..MaxRetries
    BY <1>12, HandledStep DEF HandlerFails
  <2>2. task' \in [Workers -> Messages \cup {NoTask}]
    <3>1. CASE task[w].retry < MaxRetries
      <4>1. task[w].retry + 1 \in 0..MaxRetries
        BY <2>1, <3>1, Constants
      <4>2. ASSUME NEW m \in Messages, NEW n \in 0..MaxRetries
            PROVE  [m EXCEPT !.retry = n] \in Messages
        BY DEF Messages
      <4>3. [task[w] EXCEPT !.retry = task[w].retry + 1] \in Messages
        BY <2>1, <4>1, <4>2
      <4>4. task' = [task EXCEPT ![w] = [task[w] EXCEPT !.retry = task[w].retry + 1]]
        BY <1>12, <3>1 DEF HandlerFails
      <4>5. QED
        BY <4>3, <4>4
    <3>2. CASE ~(task[w].retry < MaxRetries)
      BY <1>12, <3>2 DEF HandlerFails
    <3>3. QED
      BY <3>1, <3>2
  <2>3. /\ wpc' \in [Workers -> {"recv", "handle", "backoff", "dlq", "exited"}]
        /\ dlqCount' \in Nat /\ failed' \in Nat
    BY <1>12 DEF HandlerFails
  <2>4. /\ UNCHANGED <<log, committed, dlq, fetched, marked, rpc, msg, taskCh>>
        /\ UNCHANGED <<chClosed, skipped, ctxDone, processed, succeeded, settled>>
        /\ UNCHANGED <<dropped, crashes>>
    BY <1>12 DEF HandlerFails
  <2>5. QED
    BY <2>1, <2>2, <2>3, <2>4
<1>13. ASSUME NEW w \in Workers, RetryPublish(w) PROVE TypeOK'
  <2>1. task[w] \in Messages
    BY <1>13 DEF RetryPublish, HeldInv, Busy
  <2>2. log' \in Seq(Messages) /\ Len(log') = Len(log) + 1 /\ Len(log') <= MaxLog
    BY <1>1, <1>13, <2>1 DEF RetryPublish
  <2>3. QED
    BY <1>0, <1>10, <1>13, <2>2 DEF RetryPublish
<1>14. ASSUME NEW w \in Workers, DlqPublish(w) \/ GiveUp(w) PROVE TypeOK'
  <2>1. task[w].task \in Tasks
    BY <1>14 DEF DlqPublish, GiveUp, HeldInv, Busy, Messages
  <2>2. QED
    BY <1>10, <1>14, <2>1 DEF DlqPublish, GiveUp
<1>15. CASE Stop
  BY <1>15 DEF Stop
<1>16. CASE Crash
  <2>1. /\ committed \in 0..committed /\ crashes' \in 0..MaxCrashes /\ 0 \in Nat
        /\ <<>> \in Seq(Messages) /\ Len(<<>>) <= ChanCap
    BY <1>0, <1>16, Constants DEF Crash
  <2>2. chClosed' \in BOOLEAN /\ ctxDone' \in BOOLEAN
    BY <1>16, Zenon DEF Crash
  <2>3. /\ wpc' \in [Workers -> {"recv", "handle", "backoff", "dlq", "exited"}]
        /\ task' \in [Workers -> Messages \cup {NoTask}]
    BY <1>16 DEF Crash
  <2>4. /\ fetched' = committed /\ marked' = committed /\ taskCh' = <<>>
        /\ rpc' = "fetch" /\ msg' = NoTask /\ skipped' = 0
        /\ processed' = 0 /\ succeeded' = 0 /\ failed' = 0 /\ dlqCount' = 0
        /\ UNCHANGED <<log, committed, dlq, settled, lastRetry, dropped>>
    BY <1>16 DEF Crash
  <2>5. QED
    BY <2>1, <2>2, <2>3, <2>4
<1>17. CASE UNCHANGED vars
  BY <1>17 DEF vars
<1>18. QED
  BY <1>2, <1>3, <1>4, <1>5, <1>6, <1>7, <1>8, <1>9, <1>11, <1>12, <1>13, <1>14, <1>15,
     <1>16, <1>17
  DEF Next, ReaderStep, WorkerStep

\* Only the worker that steps changes its position and its task.
LEMMA OneWorker ==
    ASSUME ConsumerInd, NEW w \in Workers, NEW l, NEW m,
           wpc' = [wpc EXCEPT ![w] = l], task' = [task EXCEPT ![w] = m]
    PROVE  /\ wpc'[w] = l /\ task'[w] = m
           /\ \A v \in Workers \ {w} : wpc'[v] = wpc[v] /\ task'[v] = task[v]
BY DEF ConsumerInd, TypeOK

\* Every step keeps what is known of who holds a message, and the bound on
\* retries.
LEMMA ConsumerHeld == ASSUME ConsumerInd, [Next]_vars PROVE HeldInv' /\ RetriesBounded'
<1> USE DEF reader, topics, stats, history
<1>0. /\ MaxRetries \in Nat /\ lastRetry' \in [Tasks -> -1..MaxRetries]
      /\ lastRetry \in [Tasks -> -1..MaxRetries] /\ dlq \subseteq Tasks
      /\ wpc \in [Workers -> {"recv", "handle", "backoff", "dlq", "exited"}]
      /\ task \in [Workers -> Messages \cup {NoTask}] /\ HeldInv /\ RetriesBounded
  BY Constants, ConsumerType DEF ConsumerInd, TypeOK
<1>1. \A t \in Tasks : lastRetry'[t] <= MaxRetries
  BY <1>0
<1>2. ASSUME UNCHANGED <<dlq, lastRetry>> PROVE RetriesBounded'
  BY <1>0, <1>2 DEF RetriesBounded
<1>3. ASSUME UNCHANGED <<wpc, task, lastRetry, dlq>>,
             \/ UNCHANGED <<rpc, msg>>
             \/ rpc' = "send" /\ msg' \in Messages
             \/ rpc' # "send" /\ msg' = NoTask
      PROVE  HeldInv' /\ RetriesBounded'
  BY <1>0, <1>2, <1>3 DEF HeldInv
<1>4. CASE Fetch
  <2>1. log[fetched + 1] \in Messages
    BY <1>4 DEF Fetch, ConsumerInd, TypeOK
  <2>2. QED
    BY <1>3, <1>4, <2>1 DEF Fetch
<1>5. CASE Send \/ Commit \/ ReaderExit
  BY <1>0, <1>3, <1>5 DEF Send, Commit, ReaderExit, HeldInv
<1>6. CASE (\E t \in Tasks : Publish(t)) \/ FlushCommit \/ Stop \/ UNCHANGED vars
  BY <1>3, <1>6 DEF Publish, FlushCommit, Stop, vars
<1>7. CASE Crash
  BY <1>2, <1>7 DEF Crash, HeldInv, Busy
<1>8. ASSUME NEW w \in Workers, NEW l, NEW m,
             wpc' = [wpc EXCEPT ![w] = l], task' = [task EXCEPT ![w] = m],
             UNCHANGED <<rpc, msg>>, \A t \in Tasks : lastRetry'[t] >= lastRetry[t],
             l \in Busy => m \in Messages, l \notin Busy => m = NoTask,
             l = "dlq" => lastRetry'[m.task] = MaxRetries
      PROVE  HeldInv'
  <2>1. /\ wpc'[w] = l /\ task'[w] = m
        /\ \A v \in Workers \ {w} : wpc'[v] = wpc[v] /\ task'[v] = task[v]
    BY <1>8, OneWorker
  <2>2. \A v \in Workers : wpc'[v] \in Busy => task'[v] \in Messages
    BY <1>0, <1>8, <2>1 DEF HeldInv
  <2>3. \A v \in Workers : wpc'[v] \notin Busy => task'[v] = NoTask
    BY <1>0, <1>8, <2>1 DEF HeldInv
  <2>4. ASSUME NEW v \in Workers, wpc'[v] = "dlq" PROVE lastRetry'[task'[v].task] = MaxRetries
    <3>1. CASE v = w
      BY <1>8, <2>1, <2>4, <3>1
    <3>2. CASE v # w
      <4>1. wpc[v] = "dlq" /\ task'[v] = task[v] /\ task[v] \in Messages
        BY <1>0, <2>1, <2>4, <3>2 DEF HeldInv, Busy
      <4>2. task[v].task \in Tasks /\ lastRetry[task[v].task] = MaxRetries
        BY <1>0, <4>1 DEF HeldInv, Messages
      <4>3. QED
        BY <1>0, <1>8, <4>1, <4>2
    <3>3. QED
      BY <3>1, <3>2
  <2>5. QED
    BY <1>0, <1>8, <2>2, <2>3, <2>4 DEF HeldInv
<1>9. ASSUME NEW w \in Workers, UNCHANGED lastRetry, UNCHANGED <<rpc, msg>>, Idle(w)
      PROVE  HeldInv'
  <2>1. \A t \in Tasks : lastRetry'[t] >= lastRetry[t]
    BY <1>0, <1>9
  <2>2. "recv" \notin Busy /\ "recv" # "dlq"
    BY DEF Busy
  <2>3. QED
    BY <1>8, <1>9, <2>1, <2>2 DEF Idle
<1>10. ASSUME NEW w \in Workers, Receive(w) PROVE HeldInv' /\ RetriesBounded'
  <2>1. Head(taskCh) \in Messages
    BY <1>10 DEF Receive, ConsumerInd, TypeOK
  <2>2. \A t \in Tasks : lastRetry'[t] >= lastRetry[t]
    BY <1>0, <1>10 DEF Receive
  <2>3. QED
    BY <1>2, <1>8, <1>10, <2>1, <2>2 DEF Receive, Busy
<1>11. ASSUME NEW w \in Workers, WorkerExit(w) PROVE HeldInv' /\ RetriesBounded'
  <2>1. task' = [task EXCEPT ![w] = NoTask]
    BY <1>0, <1>11 DEF WorkerExit, HeldInv, Busy
  <2>2. \A t \in Tasks : lastRetry'[t] >= lastRetry[t]
    BY <1>0, <1>11 DEF WorkerExit
  <2>3. QED
    BY <1>2, <1>8, <1>11, <2>1, <2>2 DEF WorkerExit, Busy
<1>12. ASSUME \A t \in Tasks : lastRetry'[t] >= lastRetry[t], UNCHANGED dlq
       PROVE  RetriesBounded'
  BY <1>0, <1>1, <1>12 DEF RetriesBounded
<1>13. ASSUME NEW w \in Workers, HandlerOk(w) PROVE HeldInv' /\ RetriesBounded'
  <2>1. \A t \in Tasks : lastRetry'[t] >= lastRetry[t]
    BY <1>13, HandledStep DEF HandlerOk
  <2>2. QED
    BY <1>8, <1>12, <1>13, <2>1 DEF HandlerOk, Idle, Busy
<1>14. ASSUME NEW w \in Workers, HandlerFails(w) PROVE HeldInv' /\ RetriesBounded'
  <2>1. /\ \A t \in Tasks : lastRetry'[t] >= lastRetry[t]
        /\ task[w] \in Messages /\ task[w].retry \in 0..MaxRetries
        /\ task[w].task \in Tasks /\ lastRetry'[task[w].task] >= task[w].retry
    BY <1>14, HandledStep DEF HandlerFails
  <2>2. CASE task[w].retry < MaxRetries
    <3> DEFINE m == [task[w] EXCEPT !.retry = task[w].retry + 1]
    <3>1. wpc' = [wpc EXCEPT ![w] = "backoff"] /\ task' = [task EXCEPT ![w] = m]
      BY <1>14, <2>2 DEF HandlerFails
    <3>2. m \in Messages
      <4>1. task[w].retry + 1 \in 0..MaxRetries
        BY <1>0, <2>1, <2>2
      <4>2. ASSUME NEW x \in Messages, NEW n \in 0..MaxRetries
            PROVE  [x EXCEPT !.retry = n] \in Messages
        BY DEF Messages
      <4>3. QED
        BY <2>1, <4>1, <4>2
    <3> HIDE DEF m
    <3>3. UNCHANGED <<rpc, msg, dlq>>
      BY <1>14 DEF HandlerFails
    <3>4. QED
      BY <1>8, <1>12, <2>1, <3>1, <3>2, <3>3 DEF Busy
  <2>3. CASE ~(task[w].retry < MaxRetries)
    <3>1. wpc' = [wpc EXCEPT ![w] = "dlq"] /\ task' = task /\ UNCHANGED <<rpc, msg, dlq>>
      BY <1>14, <2>3 DEF HandlerFails
    <3>2. task' = [task EXCEPT ![w] = task[w]]
      BY <1>0, <3>1
    <3>3. lastRetry'[task[w].task] = MaxRetries
      BY <1>0, <2>1, <2>3
    <3>4. QED
      BY <1>8, <1>12, <2>1, <3>1, <3>2, <3>3 DEF Busy
  <2>4. QED
    BY <2>2, <2>3
<1>15. ASSUME NEW w \in Workers, RetryPublish(w) \/ GiveUp(w)
       PROVE  HeldInv' /\ RetriesBounded'
  BY <1>2, <1>9, <1>15 DEF RetryPublish, GiveUp
<1>16. ASSUME NEW w \in Workers, DlqPublish(w) PROVE HeldInv' /\ RetriesBounded'
  <2>1. task[w].task \in Tasks /\ lastRetry[task[w].task] = MaxRetries
    BY <1>0, <1>16 DEF DlqPublish, HeldInv, Busy, Messages
  <2>2. RetriesBounded'
    BY <1>0, <1>16, <2>1 DEF DlqPublish, RetriesBounded
  <2>3. QED
    BY <1>9, <1>16, <2>2 DEF DlqPublish
<1>17. QED
  BY <1>4, <1>5, <1>6, <1>7, <1>10, <1>11, <1>13, <1>14, <1>15, <1>16
  DEF Next, ReaderStep, WorkerStep

\* Every step keeps the commits behind the fetches.
LEMMA ConsumerCommits == ASSUME ConsumerInd, [Next]_vars PROVE CommitBehindFetch'
<1> USE DEF reader, topics, stats, history, CommitBehindFetch
<1>1. /\ fetched \in Nat /\ marked \in Nat /\ committed \in Nat
      /\ committed <= fetched /\ marked <= fetched
  BY DEF ConsumerInd, TypeOK
<1>2. CASE UNCHANGED <<fetched, marked, committed>>
  BY <1>1, <1>2
<1>3. CASE Fetch
  BY <1>1, <1>3 DEF Fetch, CommitMessages
<1>4. CASE Commit \/ FlushCommit \/ Crash
  BY <1>1, <1>4 DEF Commit, CommitMessages, FlushCommit, Crash
<1>5. QED
  BY <1>2, <1>3, <1>4
  DEF Next, ReaderStep, WorkerStep, Publish, Send, ReaderExit, Receive, WorkerExit,
      HandlerOk, HandlerFails, RetryPublish, DlqPublish, GiveUp, Stop, vars

\* How the number of workers in the handler changes with one worker's move.
LEMMA HandlingMoves ==
    ASSUME ConsumerInd, NEW w \in Workers, NEW l, wpc' = [wpc EXCEPT ![w] = l]
    PROVE  /\ Cardinality(Handling) \in Nat
           /\ wpc[w] # "handle" /\ l = "handle" =>
                 Cardinality(Handling') = Cardinality(Handling) + 1
           /\ wpc[w] = "handle" /\ l # "handle" =>
                 Cardinality(Handling') = Cardinality(Handling) - 1
           /\ wpc[w] # "handle" /\ l # "handle" => Handling' = Handling
<1>1. IsFiniteSet(Handling) /\ Cardinality(Handling) \in Nat
  BY Constants, FS_Subset, FS_CardinalityType DEF Handling
<1>2. wpc'[w] = l /\ \A v \in Workers : v # w => wpc'[v] = wpc[v]
  BY DEF ConsumerInd, TypeOK
<1>3. ASSUME wpc[w] # "handle", l = "handle"
      PROVE  Cardinality(Handling') = Cardinality(Handling) + 1
  <2>1. Handling' = Handling \cup {w} /\ w \notin Handling
    BY <1>2, <1>3 DEF Handling
  <2>2. QED
    BY <1>1, <2>1, FS_AddElement
<1>4. ASSUME wpc[w] = "handle", l # "handle"
      PROVE  Cardinality(Handling') = Cardinality(Handling) - 1
  <2>1. Handling' = Handling \ {w} /\ w \in Handling
    BY <1>2, <1>4 DEF Handling
  <2>2. QED
    BY <1>1, <2>1, FS_RemoveElement
<1>5. ASSUME wpc[w] # "handle", l # "handle" PROVE Handling' = Handling
  BY <1>2, <1>5 DEF Handling
<1>6. QED
  BY <1>1, <1>3, <1>4, <1>5

\* Every step keeps the counters in agreement.
LEMMA ConsumerStats == ASSUME ConsumerInd, [Next]_vars PROVE StatsConsistent'
<1> DEFINE Sum == processed = succeeded + (failed - skipped) + Cardinality(Handling)
<1> USE DEF reader, topics, stats, history
<1>0. /\ Sum /\ (Sum' => StatsConsistent')
      /\ processed \in Nat /\ succeeded \in Nat /\ failed \in Nat /\ skipped \in Nat
  BY DEF ConsumerInd, TypeOK, StatsConsistent, Handling
<1>1. IsFiniteSet(Handling) /\ Cardinality(Handling) \in Nat
  BY Constants, FS_Subset, FS_CardinalityType DEF Handling
<1>2. CASE UNCHANGED <<processed, succeeded, failed, skipped, wpc>>
  <2>1. Handling' = Handling
    BY <1>2 DEF Handling
  <2>2. QED
    BY <1>0, <1>2, <2>1
<1>3. CASE Fetch
  <2>1. Handling' = Handling /\ processed' = processed /\ succeeded' = succeeded
    BY <1>3 DEF Fetch, Handling
  <2>2. \/ failed' = failed /\ skipped' = skipped
        \/ failed' = failed + 1 /\ skipped' = skipped + 1
    BY <1>3 DEF Fetch
  <2>3. QED
    BY <1>0, <1>1, <2>1, <2>2
<1>4. ASSUME NEW w \in Workers, Receive(w) PROVE Sum'
  <2>1. Cardinality(Handling') = Cardinality(Handling) + 1
    BY <1>4, HandlingMoves DEF Receive
  <2>2. processed' = processed + 1 /\ UNCHANGED <<succeeded, failed, skipped>>
    BY <1>4 DEF Receive
  <2>3. QED
    BY <1>0, <1>1, <2>1, <2>2
<1>5. ASSUME NEW w \in Workers, HandlerOk(w) PROVE Sum'
  <2>1. Cardinality(Handling') = Cardinality(Handling) - 1
    <3>1. wpc[w] = "handle" /\ wpc' = [wpc EXCEPT ![w] = "recv"] /\ "recv" # "handle"
      BY <1>5 DEF HandlerOk, Idle
    <3>2. QED
      BY <3>1, HandlingMoves
  <2>2. succeeded' = succeeded + 1 /\ UNCHANGED <<processed, failed, skipped>>
    BY <1>5 DEF HandlerOk
  <2>3. QED
    BY <1>0, <1>1, <2>1, <2>2
<1>6. ASSUME NEW w \in Workers, HandlerFails(w) PROVE Sum'
  <2>1. wpc[w] = "handle" /\ \E l \in {"backoff", "dlq"} : wpc' = [wpc EXCEPT ![w] = l]
    BY <1>6 DEF HandlerFails
  <2>2. Cardinality(Handling') = Cardinality(Handling) - 1
    BY <2>1, HandlingMoves
  <2>3. failed' = failed + 1 /\ UNCHANGED <<processed, succeeded, skipped>>
    BY <1>6 DEF HandlerFails
  <2>4. QED
    BY <1>0, <1>1, <2>2, <2>3
<1>7. ASSUME NEW w \in Workers,
             WorkerExit(w) \/ RetryPublish(w) \/ DlqPublish(w) \/ GiveUp(w)
      PROVE  Sum'
  <2>1. wpc[w] # "handle" /\ \E l \in {"exited", "recv"} : wpc' = [wpc EXCEPT ![w] = l]
    BY <1>7 DEF WorkerExit, RetryPublish, DlqPublish, GiveUp, Idle
  <2>2. Handling' = Handling
    BY <2>1, HandlingMoves
  <2>3. UNCHANGED <<processed, succeeded, failed, skipped>>
    BY <1>7 DEF WorkerExit, RetryPublish, DlqPublish, GiveUp
  <2>4. QED
    BY <1>0, <2>2, <2>3
<1>8. CASE Crash
  <2>1. Handling' = {}
    BY <1>8 DEF Crash, Handling
  <2>2. Cardinality(Handling') = 0
    BY <2>1, FS_EmptySet, Zenon
  <2>3. processed' = 0 /\ succeeded' = 0 /\ failed' = 0 /\ skipped' = 0
    BY <1>8 DEF Crash
  <2>4. QED
    BY <1>0, <2>2, <2>3
<1> HIDE DEF Sum
<1>9. QED
  BY <1>0, <1>2, <1>3, <1>4, <1>5, <1>6, <1>7, <1>8
  DEF Next, ReaderStep, WorkerStep, Publish, Send, Commit, ReaderExit, FlushCommit, Stop,
      vars

\* A task is not lost by a step that loses it from no place, or moves it.
LEMMA KeptStep ==
    ASSUME KeptInv, UNCHANGED log, ctxDone' = FALSE => ctxDone = FALSE,
           crashes' = 0 => crashes = 0,
           \A t \in Tasks \ Malformed : Kept(t) => Kept(t)'
    PROVE  KeptInv'
BY DEF KeptInv, InLog

\* Nor by a step that appends a message to the topic.
LEMMA AppendStep ==
    ASSUME KeptInv, log \in Seq(Messages), fetched \in 0..Len(log),
           NEW m \in Messages, log' = Append(log, m), UNCHANGED <<fetched, ctxDone, crashes>>,
           \A t \in Tasks \ Malformed : Kept(t) => Kept(t)' \/ Ahead(t) \/ t = m.task
    PROVE  KeptInv'
<1>1. /\ Len(log') = Len(log) + 1 /\ log'[Len(log) + 1] = m /\ Len(log) \in Nat
      /\ \A i \in 1..Len(log) : log'[i] = log[i]
  OBVIOUS
<1>2. \A t : Ahead(t) \/ t = m.task => Ahead(t)'
  BY <1>1 DEF Ahead
<1>3. ASSUME NEW t, InLog(t)' PROVE InLog(t) \/ t = m.task
  <2>1. PICK i \in 1..Len(log') : log'[i].task = t
    BY <1>3 DEF InLog
  <2>2. i \in 1..Len(log) \/ i = Len(log) + 1
    BY <1>1, <2>1
  <2>3. QED
    BY <1>1, <2>1, <2>2 DEF InLog
<1>4. \A t : Ahead(t)' => Kept(t)'
  BY DEF Kept
<1>5. QED
  BY <1>2, <1>3, <1>4 DEF KeptInv

\* Every step keeps every task somewhere, stops and crashes aside.
LEMMA ConsumerKept == ASSUME ConsumerInd, [Next]_vars PROVE KeptInv'
<1> USE DEF reader, topics, stats, history
<1>0. /\ log \in Seq(Messages) /\ taskCh \in Seq(Messages) /\ fetched \in 0..Len(log)
      /\ Len(log) \in Nat /\ Len(taskCh) \in Nat /\ KeptInv /\ HeldInv
      /\ wpc \in [Workers -> {"recv", "handle", "backoff", "dlq", "exited"}]
      /\ task \in [Workers -> Messages \cup {NoTask}]
      /\ ctxDone \in BOOLEAN /\ crashes \in Nat
  BY Constants DEF ConsumerInd, TypeOK
<1>1. CASE \E t \in Tasks : Publish(t)
  <2>1. PICK t \in Tasks : Publish(t)
    BY <1>1
  <2>2. [task |-> t, retry |-> 0] \in Messages
    BY Constants DEF Messages
  <2>3. /\ log' = Append(log, [task |-> t, retry |-> 0])
        /\ UNCHANGED <<fetched, rpc, msg, taskCh, wpc, task, ctxDone, crashes>>
        /\ UNCHANGED <<settled, dlq, dropped>>
    BY <2>1 DEF Publish
  <2>4. \A x \in Tasks \ Malformed : Kept(x) => Kept(x)' \/ Ahead(x)
    BY <2>3 DEF Kept, Read, Queued, Held
  <2>5. QED
    BY <1>0, <2>2, <2>3, <2>4, AppendStep
<1>2. CASE Fetch
  <2> DEFINE m == log[fetched + 1]
  <2>1. /\ fetched' = fetched + 1 /\ fetched + 1 \in 1..Len(log)
        /\ UNCHANGED <<log, taskCh, wpc, task, ctxDone, crashes, settled, dlq, dropped>>
    BY <1>0, <1>2 DEF Fetch
  <2>2. m.task \in Malformed \/ (rpc' = "send" /\ msg' = m)
    BY <1>2 DEF Fetch
  <2>3. rpc = "fetch"
    BY <1>2 DEF Fetch
  <2>4. ASSUME NEW t, t \notin Malformed, Ahead(t) PROVE Ahead(t)' \/ Read(t)'
    <3>1. PICK i \in (fetched + 1)..Len(log) : log[i].task = t
      BY <2>4 DEF Ahead
    <3>2. CASE i = fetched + 1
      BY <2>2, <2>4, <3>1, <3>2 DEF Read
    <3>3. CASE i # fetched + 1
      <4>1. i \in (fetched' + 1)..Len(log')
        BY <1>0, <2>1, <3>1, <3>3
      <4>2. QED
        BY <2>1, <3>1, <4>1 DEF Ahead
    <3>4. QED
      BY <3>2, <3>3
  <2>5. \A t \in Tasks \ Malformed : Kept(t) => Kept(t)'
    BY <2>1, <2>3, <2>4 DEF Kept, Read, Queued, Held
  <2>6. QED
    BY <1>0, <2>1, <2>5, KeptStep
<1>3. CASE Send
  <2>1. /\ taskCh' = Append(taskCh, msg) /\ msg \in Messages
        /\ UNCHANGED <<log, fetched, wpc, task, ctxDone, crashes, settled, dlq, dropped>>
    BY <1>0, <1>3 DEF Send, HeldInv
  <2>2. /\ Len(taskCh') = Len(taskCh) + 1 /\ taskCh'[Len(taskCh) + 1] = msg
        /\ \A i \in 1..Len(taskCh) : taskCh'[i] = taskCh[i]
    BY <1>0, <2>1
  <2>3. \A t : Queued(t) => Queued(t)'
    BY <1>0, <2>2 DEF Queued
  <2>4. \A t : Read(t) => Queued(t)'
    BY <1>0, <2>2 DEF Queued, Read
  <2>5. \A t \in Tasks \ Malformed : Kept(t) => Kept(t)'
    BY <2>1, <2>3, <2>4 DEF Kept, Ahead, Held
  <2>6. QED
    BY <1>0, <2>1, <2>5, KeptStep
<1>4. CASE Commit \/ FlushCommit \/ UNCHANGED vars
  <2>1. /\ UNCHANGED <<log, fetched, taskCh, wpc, task, ctxDone, crashes>>
        /\ UNCHANGED <<settled, dlq, dropped>>
        /\ rpc = "send" => rpc' = "send" /\ msg' = msg
    BY <1>4 DEF Commit, FlushCommit, vars
  <2>2. \A t \in Tasks \ Malformed : Kept(t) => Kept(t)'
    BY <2>1 DEF Kept, Ahead, Read, Queued, Held
  <2>3. QED
    BY <1>0, <2>1, <2>2, KeptStep
<1>5. CASE ReaderExit \/ Stop
  <2>1. ctxDone' = TRUE
    <3>1. CASE ReaderExit
      BY <1>0, <3>1, Zenon DEF ReaderExit
    <3>2. CASE Stop
      BY <3>2 DEF Stop
    <3>3. QED
      BY <1>5, <3>1, <3>2
  <2>2. QED
    BY <2>1 DEF KeptInv
<1>6. CASE Crash
  <2>1. crashes' # 0
    BY <1>0, <1>6 DEF Crash
  <2>2. QED
    BY <2>1 DEF KeptInv
<1>7. ASSUME NEW w \in Workers, Receive(w) PROVE KeptInv'
  <2>1. /\ wpc[w] = "recv" /\ taskCh # <<>> /\ taskCh' = Tail(taskCh)
        /\ wpc' = [wpc EXCEPT ![w] = "handle"] /\ task' = [task EXCEPT ![w] = Head(taskCh)]
        /\ UNCHANGED <<log, fetched, rpc, msg, ctxDone, crashes, settled, dlq, dropped>>
    BY <1>7 DEF Receive
  <2>2. /\ wpc'[w] = "handle" /\ task'[w] = Head(taskCh)
        /\ \A v \in Workers \ {w} : wpc'[v] = wpc[v] /\ task'[v] = task[v]
    BY <2>1, OneWorker
  <2>3. /\ Head(taskCh) = taskCh[1] /\ Len(taskCh') = Len(taskCh) - 1
        /\ \A i \in 1..Len(taskCh') : taskCh'[i] = taskCh[i + 1]
    BY <1>0, <2>1
  <2>4. ASSUME NEW t, Queued(t) PROVE Queued(t)' \/ Held(t)'
    <3>1. PICK i \in 1..Len(taskCh) : taskCh[i].task = t
      BY <2>4 DEF Queued
    <3>2. CASE i = 1
      BY <2>2, <2>3, <3>1, <3>2 DEF Held, Busy
    <3>3. CASE i # 1
      <4>1. i - 1 \in 1..Len(taskCh') /\ taskCh'[i - 1] = taskCh[i]
        BY <1>0, <2>3, <3>1, <3>3
      <4>2. QED
        BY <3>1, <4>1 DEF Queued
    <3>4. QED
      BY <3>2, <3>3
  <2>5. \A t : Held(t) => Held(t)'
    BY <2>1, <2>2 DEF Held, Busy
  <2>6. \A t \in Tasks \ Malformed : Kept(t) => Kept(t)'
    BY <2>1, <2>4, <2>5 DEF Kept, Ahead, Read
  <2>7. QED
    BY <1>0, <2>1, <2>6, KeptStep
<1>8. ASSUME NEW w \in Workers, WorkerExit(w) PROVE KeptInv'
  <2>1. CASE ctxDone'
    <3>1. ctxDone' = TRUE
      BY <1>0, <1>8, <2>1, Zenon DEF WorkerExit
    <3>2. QED
      BY <3>1 DEF KeptInv
  <2>2. CASE ~ctxDone'
    <3>1. /\ UNCHANGED <<log, fetched, rpc, msg, taskCh, task, ctxDone, crashes>>
          /\ UNCHANGED <<settled, dlq, dropped>>
          /\ wpc[w] = "recv" /\ wpc' = [wpc EXCEPT ![w] = "exited"]
      BY <1>8, <2>2 DEF WorkerExit
    <3>2. \A t : Held(t) => Held(t)'
      BY <1>0, <3>1 DEF Held, Busy
    <3>3. \A t \in Tasks \ Malformed : Kept(t) => Kept(t)'
      BY <3>1, <3>2 DEF Kept, Ahead, Read, Queued
    <3>4. QED
      BY <1>0, <3>1, <3>3, KeptStep
  <2>3. QED
    BY <2>1, <2>2
<1>9. ASSUME NEW w \in Workers, HandlerFails(w) PROVE KeptInv'
  <2>1. /\ UNCHANGED <<log, fetched, rpc, msg, taskCh, ctxDone, crashes>>
        /\ UNCHANGED <<settled, dlq, dropped>>
    BY <1>9 DEF HandlerFails
  <2>2. /\ wpc'[w] \in Busy
        /\ \A v \in Workers \ {w} : wpc'[v] = wpc[v] /\ task'[v] = task[v]
    BY <1>0, <1>9 DEF HandlerFails, Busy
  <2>3. task'[w].task = task[w].task
    <3>1. task[w] \in Messages
      BY <1>0, <1>9 DEF HandlerFails, HeldInv, Busy
    <3>2. ASSUME NEW x \in Messages, NEW n PROVE [x EXCEPT !.retry = n].task = x.task
      BY DEF Messages
    <3>3. \/ task' = task
          \/ task' = [task EXCEPT ![w] = [task[w] EXCEPT !.retry = task[w].retry + 1]]
      BY <1>9 DEF HandlerFails
    <3>4. \/ task'[w] = task[w]
          \/ task'[w] = [task[w] EXCEPT !.retry = task[w].retry + 1]
      BY <1>0, <3>3
    <3>5. QED
      BY <3>1, <3>2, <3>4
  <2>4. \A t : Held(t) => Held(t)'
    BY <2>2, <2>3 DEF Held
  <2>5. \A t \in Tasks \ Malformed : Kept(t) => Kept(t)'
    BY <2>1, <2>4 DEF Kept, Ahead, Read, Queued
  <2>6. QED
    BY <1>0, <2>1, <2>5, KeptStep
<1>10. ASSUME NEW w \in Workers, Idle(w), NEW t, Held(t), t # task[w].task PROVE Held(t)'
  <2>1. \A v \in Workers \ {w} : wpc'[v] = wpc[v] /\ task'[v] = task[v]
    BY <1>10, OneWorker DEF Idle
  <2>2. QED
    BY <1>10, <2>1 DEF Held
<1>11. ASSUME NEW w \in Workers, HandlerOk(w) \/ DlqPublish(w) \/ GiveUp(w)
       PROVE  KeptInv'
  <2>1. UNCHANGED <<log, fetched, rpc, msg, taskCh, ctxDone, crashes>> /\ Idle(w)
    BY <1>11 DEF HandlerOk, DlqPublish, GiveUp
  <2>2. settled' \cup dlq' \cup dropped' = settled \cup dlq \cup dropped \cup {task[w].task}
    BY <1>11 DEF HandlerOk, DlqPublish, GiveUp
  <2>3. \A t \in Tasks \ Malformed : Kept(t) => Kept(t)'
    BY <1>10, <2>1, <2>2 DEF Kept, Ahead, Read, Queued
  <2>4. QED
    BY <1>0, <2>1, <2>3, KeptStep
<1>12. ASSUME NEW w \in Workers, RetryPublish(w) PROVE KeptInv'
  <2>1. /\ UNCHANGED <<fetched, rpc, msg, taskCh, ctxDone, crashes, settled, dlq, dropped>>
        /\ Idle(w) /\ log' = Append(log, task[w])
    BY <1>12 DEF RetryPublish
  <2>2. task[w] \in Messages
    BY <1>0, <1>12 DEF RetryPublish, HeldInv, Busy
  <2>3. \A t \in Tasks \ Malformed : Kept(t) => Kept(t)' \/ Ahead(t) \/ t = task[w].task
    BY <1>10, <2>1 DEF Kept, Read, Queued
  <2>4. QED
    BY <1>0, <2>1, <2>2, <2>3, AppendStep
<1>13. QED
  BY <1>1, <1>2, <1>3, <1>4, <1>5, <1>6, <1>7, <1>8, <1>9, <1>11, <1>12
  DEF Next, ReaderStep, WorkerStep

\* The invariant of the consumer.
LEMMA ConsumerInvariant == Spec => []ConsumerInd
<1>1. ConsumerInd /\ [Next]_vars => ConsumerInd'
  BY ConsumerType, ConsumerHeld, ConsumerCommits, ConsumerStats, ConsumerKept
  DEF ConsumerInd
<1>2. QED
  BY <1>1, ConsumerInit, PTL DEF Spec

\* What is kept in one of the places is done, dead, in the process or still to
\* be delivered: the commits are behind the fetches.
LEMMA KeptIsSafe ==
    ASSUME ConsumerInd PROVE NoTaskLost
<1> SUFFICES ASSUME ctxDone = FALSE, crashes = 0,
                    NEW t \in Published \ Malformed
             PROVE  t \in Safe \cup dropped
  <2>1. ctxDone \in BOOLEAN /\ (crashes = 0 \/ crashes > 0)
    BY Constants DEF ConsumerInd, TypeOK
  <2>2. QED
    BY <2>1, Zenon DEF NoTaskLost
<1>1. Kept(t)
  <2>1. PICK i \in 1..Len(log) : t = log[i].task
    BY DEF Published
  <2>2. log[i] \in Messages
    BY <2>1 DEF ConsumerInd, TypeOK
  <2>3. t \in Tasks
    BY <2>1, <2>2 DEF Messages
  <2>4. InLog(t)
    BY <2>1 DEF InLog
  <2>5. QED
    BY <2>3, <2>4 DEF ConsumerInd, KeptInv
<1>2. /\ taskCh \in Seq(Messages) /\ fetched \in Nat /\ committed \in Nat
      /\ committed <= fetched /\ Len(log) \in Nat
  BY DEF ConsumerInd, TypeOK, CommitBehindFetch
<1>3. ASSUME Ahead(t) PROVE t \in Redeliverable
  <2>1. PICK j \in (fetched + 1)..Len(log) : log[j].task = t
    BY <1>3 DEF Ahead
  <2>2. j \in (committed + 1)..Len(log)
    BY <1>2
  <2>3. QED
    BY <2>1, <2>2 DEF Redeliverable
<1>4. ASSUME Read(t) PROVE t \in InMemory
  BY <1>4, Constants DEF Read, InMemory, ConsumerInd, HeldInv
<1>5. ASSUME Queued(t) PROVE t \in InMemory
  BY <1>2, <1>5, Constants DEF Queued, InMemory
<1>6. ASSUME Held(t) PROVE t \in InMemory
  BY <1>6, Constants DEF Held, InMemory, ConsumerInd, HeldInv
<1>7. QED
  BY <1>1, <1>3, <1>4, <1>5, <1>6 DEF Kept, Safe

\* For any tasks, workers, retries, crashes and bounds: no crash, stop,
\* redelivery or failed write breaks the bound on retries, lets a commit pass
\* the fetches or the statistics disagree; and although consumer.go commits a
\* message before its task is handled, a consumer that is neither stopped nor
\* crashed loses only tasks whose retry or dead letter could not be written.
THEOREM ConsumerCorrect == Spec => []ConsumerInv
<1>1. ConsumerInd => ConsumerInv
  BY KeptIsSafe DEF ConsumerInd, ConsumerInv
<1>2. QED
  BY <1>1, ConsumerInvariant, PTL

-----------------------------------------------------------------------------
(* The reconciler *)

ReconcilerInd == R!TypeOK /\ R!QuietWantsNone

\* The number of workers that a spec asks for.
LEMMA WantType ==
    ASSUME R!ReconcilerAssumption, NEW s \in R!Specs
    PROVE  R!Want(s) \in Nat
  BY DEF R!ReconcilerAssumption, R!Specs, R!Want

\* What Reconcile, or a mark, does to the status of a job keeps its type, and
\* keeps the others' status: stated once for every phase and number of workers.
LEMMA StatusTypes ==
    ASSUME ReconcilerInd, NEW j \in Jobs,
           NEW p \in R!Phases, NEW n \in Nat, NEW m \in Nat, NEW k \in Nat,
           phase' = [phase EXCEPT ![j] = p], desired' = [desired EXCEPT ![j] = n],
           actual' = [actual EXCEPT ![j] = m], active' = [active EXCEPT ![j] = k],
           p \in {"Paused"} \cup R!Terminal => n = 0
    PROVE  /\ phase' \in [Jobs -> R!Phases \cup {"absent"}]
           /\ desired' \in [Jobs -> Nat] /\ actual' \in [Jobs -> Nat]
           /\ active' \in [Jobs -> Nat] /\ R!QuietWantsNone'
<1>1. /\ phase \in [Jobs -> R!Phases \cup {"absent"}] /\ desired \in [Jobs -> Nat]
      /\ actual \in [Jobs -> Nat] /\ active \in [Jobs -> Nat]
  BY DEF ReconcilerInd, R!TypeOK
<1>2. /\ phase' \in [Jobs -> R!Phases \cup {"absent"}]
      /\ desired' \in [Jobs -> Nat] /\ actual' \in [Jobs -> Nat]
      /\ active' \in [Jobs -> Nat]
  BY <1>1
<1>3. R!QuietWantsNone'
  BY <1>1 DEF ReconcilerInd, R!QuietWantsNone
<1>4. QED
  BY <1>2, <1>3

\* Steps of the cluster and the controller leave the status alone.
LEMMA ClusterStep ==
    ASSUME R!ReconcilerAssumption, ReconcilerInd, NEW j \in Jobs,
           \/ \E s \in R!Specs : R!Edit(j, s)
           \/ R!Crash(j) \/ R!Fetch(j) \/ R!Apply(j) \/ R!ApplyFails(j)
    PROVE  ReconcilerInd' /\ UNCHANGED phase
<1> USE DEF ReconcilerInd
<1>1. UNCHANGED <<phase, desired, actual, active>>
  BY DEF R!Edit, R!Crash, R!Fetch, R!Apply, R!ApplyFails, R!state
<1>2. R!QuietWantsNone'
  BY <1>1 DEF R!QuietWantsNone
<1>3. CASE \E s \in R!Specs : R!Edit(j, s)
  <2>1. PICK s \in R!Specs : R!Edit(j, s)
    BY <1>3
  <2>2. QED
    BY <1>1, <1>2, <2>1 DEF R!Edit, R!TypeOK, R!ReconcilerAssumption
<1>4. CASE R!Crash(j)
  <2>1. pods[j] - 1 \in Nat /\ faults' \in 0..MaxFaults
    BY <1>4 DEF R!Crash, R!TypeOK, R!ReconcilerAssumption
  <2>2. QED
    BY <1>1, <1>2, <1>4, <2>1 DEF R!Crash, R!TypeOK
<1>5. CASE R!Fetch(j)
  <2>1. [spec |-> spec[j], workers |-> pods[j]] \in [spec : R!Specs, workers : Nat]
    BY DEF R!TypeOK
  <2>2. /\ due' = [due EXCEPT ![j] = FALSE] /\ at' = [at EXCEPT ![j] = "reconcile"]
        /\ read' = [read EXCEPT ![j] = [spec |-> spec[j], workers |-> pods[j]]]
        /\ UNCHANGED <<spec, pods, edits, faults, goal>>
    BY <1>5 DEF R!Fetch, R!cluster
  <2>3. read' \in [Jobs -> [spec : R!Specs, workers : Nat]]
    BY <2>1, <2>2 DEF R!TypeOK
  <2>4. QED
    BY <1>1, <1>2, <2>2, <2>3 DEF R!TypeOK
<1>6. CASE R!Apply(j) \/ R!ApplyFails(j)
  <2>1. goal[j].to \in Nat /\ R!NoScale \in [set : BOOLEAN, to : Nat]
    BY DEF R!TypeOK, R!NoScale
  <2>2. /\ at' = [at EXCEPT ![j] = "idle"] /\ goal' = [goal EXCEPT ![j] = R!NoScale]
        /\ due' \in {due, [due EXCEPT ![j] = TRUE]}
        /\ pods' \in {pods, [pods EXCEPT ![j] = goal[j].to]}
        /\ faults' = faults \/ (faults < MaxFaults /\ faults' = faults + 1)
        /\ UNCHANGED <<spec, read, edits>>
    <3>1. CASE R!Apply(j)
      <4>1. pods \in [Jobs -> Nat]
        BY DEF R!TypeOK
      <4>2. [pods EXCEPT ![j] = pods[j]] = pods
        BY <4>1
      <4>3. QED
        BY <3>1, <4>2 DEF R!Apply
    <3>2. CASE R!ApplyFails(j)
      BY <3>2 DEF R!ApplyFails
    <3>3. QED
      BY <1>6, <3>1, <3>2
  <2>3. goal' \in [Jobs -> [set : BOOLEAN, to : Nat]] /\ pods' \in [Jobs -> Nat]
    BY <2>1, <2>2 DEF R!TypeOK
  <2>4. faults' \in 0..MaxFaults
    BY <2>2 DEF R!TypeOK, R!ReconcilerAssumption
  <2>5. due' \in [Jobs -> BOOLEAN] /\ at' \in [Jobs -> {"idle", "reconcile", "apply"}]
    BY <2>2 DEF R!TypeOK
  <2>6. QED
    BY <1>1, <1>2, <2>2, <2>3, <2>4, <2>5 DEF R!TypeOK
<1>7. QED
  BY <1>1, <1>3, <1>4, <1>5, <1>6

\* Reconcile on what was read, however stale: the phase, the workers wanted and
\* the action follow from the phase the job is in.
LEMMA ReconcileStep ==
    ASSUME R!ReconcilerAssumption, ReconcilerInd, NEW j \in Jobs, R!Reconcile(j)
    PROVE  ReconcilerInd' /\ (phase[j] \in R!Terminal => phase'[j] = phase[j])
           /\ \A e \in Jobs : e # j => phase'[e] = phase[e]
<1> DEFINE w == R!Want(read[j].spec)
<1>1. /\ read[j].spec \in R!Specs /\ read[j].workers \in Nat /\ w \in Nat
      /\ R!NoScale \in [set : BOOLEAN, to : Nat]
      /\ \A n \in Nat : R!Scale(n) \in [set : BOOLEAN, to : Nat]
  BY WantType DEF ReconcilerInd, R!TypeOK, R!NoScale, R!Scale
<1>2. /\ phase \in [Jobs -> R!Phases \cup {"absent"}] /\ desired \in [Jobs -> Nat]
      /\ active \in [Jobs -> Nat]
  BY DEF ReconcilerInd, R!TypeOK
<1>3. R!Phase(j) \in R!Phases /\ (phase[j] \in R!Phases => R!Phase(j) = phase[j])
  BY <1>2 DEF R!Phase, R!Phases
<1> HIDE DEF w
<1>4. PICK p \in R!Phases, n \in Nat, k \in Nat, a \in [set : BOOLEAN, to : Nat],
           q \in BOOLEAN :
        /\ phase' = [phase EXCEPT ![j] = p] /\ desired' = [desired EXCEPT ![j] = n]
        /\ active' = [active EXCEPT ![j] = k] /\ R!Result(j, q, a)
        /\ p \in {"Paused"} \cup R!Terminal => n = 0
        /\ phase[j] \in R!Terminal => p = phase[j]
  <2> DEFINE Goal(p, n, k, a, q) ==
        /\ phase' = [phase EXCEPT ![j] = p] /\ desired' = [desired EXCEPT ![j] = n]
        /\ active' = [active EXCEPT ![j] = k] /\ R!Result(j, q, a)
        /\ p \in {"Paused"} \cup R!Terminal => n = 0
        /\ phase[j] \in R!Terminal => p = phase[j]
  <2>1. /\ desired = [desired EXCEPT ![j] = desired[j]] /\ desired[j] \in Nat
        /\ active = [active EXCEPT ![j] = active[j]] /\ active[j] \in Nat
        /\ phase = [phase EXCEPT ![j] = phase[j]]
    BY <1>2
  <2>2. phase[j] \in {"Paused"} \cup R!Terminal => desired[j] = 0
    BY DEF ReconcilerInd, R!QuietWantsNone
  <2>3. CASE R!ReconcileSuspended(j) /\ R!Phase(j) = "Running"
    <3>1. Goal("Paused", 0, active[j], R!Scale(0), FALSE)
      BY <1>3, <2>1, <2>3 DEF R!ReconcileSuspended, R!Terminal, R!Phases
    <3>2. QED
      BY <1>1, <2>1, <3>1 DEF R!Phases
  <2>4. CASE R!ReconcileSuspended(j) /\ R!Phase(j) # "Running"
    <3>1. R!Phase(j) \in {"Paused"} \cup R!Terminal => desired[j] = 0
      BY <2>2 DEF R!Phase, R!Terminal
    <3>2. Goal(R!Phase(j), desired[j], active[j], R!NoScale, FALSE)
      BY <1>3, <2>1, <2>4, <3>1 DEF R!ReconcileSuspended, R!Terminal, R!Phases
    <3>3. QED
      BY <1>1, <1>3, <2>1, <3>2
  <2>5. CASE R!ReconcilePending(j)
    <3>1. Goal("Running", w, active[j], R!Scale(w), TRUE)
      BY <1>3, <2>1, <2>5 DEF R!ReconcilePending, R!Terminal, R!Phases, w
    <3>2. QED
      BY <1>1, <2>1, <3>1 DEF R!Phases
  <2>6. CASE R!ReconcileRunning(j)
    <3>1. phase[j] = "Running"
      BY <2>6 DEF R!ReconcileRunning, R!Phase
    <3>2. Goal("Running", w, w, IF read[j].workers = w THEN R!NoScale ELSE R!Scale(w), TRUE)
      BY <2>1, <2>6, <3>1 DEF R!ReconcileRunning, R!Terminal, w
    <3>3. QED
      BY <1>1, <3>2 DEF R!Phases
  <2>7. CASE R!ReconcilePaused(j)
    <3>1. phase[j] = "Paused"
      BY <2>7 DEF R!ReconcilePaused, R!Phase
    <3>2. Goal("Running", desired[j], active[j], R!NoScale, TRUE)
      BY <2>1, <2>7, <3>1 DEF R!ReconcilePaused, R!Terminal
    <3>3. QED
      BY <1>1, <2>1, <3>2 DEF R!Phases
  <2>8. CASE R!ReconcileTerminal(j)
    <3>1. phase[j] \in R!Terminal
      BY <2>8 DEF R!ReconcileTerminal, R!Phase, R!Terminal
    <3>2. Goal(phase[j], desired[j], active[j], R!NoScale, FALSE)
      BY <2>1, <2>2, <2>8, <3>1 DEF R!ReconcileTerminal
    <3>3. QED
      BY <1>1, <2>1, <3>1, <3>2 DEF R!Phases, R!Terminal
  <2>9. QED
    BY <2>3, <2>4, <2>5, <2>6, <2>7, <2>8 DEF R!Reconcile
<1>5. /\ actual' = [actual EXCEPT ![j] = read[j].workers]
      /\ at' = [at EXCEPT ![j] = "apply"] /\ goal' = [goal EXCEPT ![j] = a]
      /\ due' = [due EXCEPT ![j] = due[j] \/ q]
      /\ UNCHANGED <<spec, pods, edits, faults, read>>
  BY <1>4 DEF R!Result, R!cluster
<1>6. /\ phase' \in [Jobs -> R!Phases \cup {"absent"}]
      /\ desired' \in [Jobs -> Nat] /\ actual' \in [Jobs -> Nat]
      /\ active' \in [Jobs -> Nat] /\ R!QuietWantsNone'
  BY <1>1, <1>4, <1>5, StatusTypes
<1>7. /\ at' \in [Jobs -> {"idle", "reconcile", "apply"}]
      /\ goal' \in [Jobs -> [set : BOOLEAN, to : Nat]]
  BY <1>5 DEF ReconcilerInd, R!TypeOK
<1>8. due' \in [Jobs -> BOOLEAN]
  BY <1>5, Zenon DEF ReconcilerInd, R!TypeOK
<1>9. R!TypeOK'
  BY <1>5, <1>6, <1>7, <1>8 DEF ReconcilerInd, R!TypeOK
<1>10. QED
  BY <1>2, <1>4, <1>6, <1>9 DEF ReconcilerInd

\* A mark ends a job, from any phase.
LEMMA MarkStep ==
    ASSUME ReconcilerInd, NEW j \in Jobs, NEW p \in R!Terminal, R!Mark(j, p)
    PROVE  ReconcilerInd' /\ phase'[j] \in R!Terminal
           /\ \A e \in Jobs : e # j => phase'[e] = phase[e]
<1>1. /\ phase' = [phase EXCEPT ![j] = p] /\ desired' = [desired EXCEPT ![j] = 0]
      /\ UNCHANGED <<actual, active, spec, pods, edits, faults, due, at, read, goal>>
  BY DEF R!Mark, R!cluster
<1>2. phase \in [Jobs -> R!Phases \cup {"absent"}] /\ desired \in [Jobs -> Nat]
  BY DEF ReconcilerInd, R!TypeOK
<1>3. phase' \in [Jobs -> R!Phases \cup {"absent"}] /\ desired' \in [Jobs -> Nat]
  BY <1>1, <1>2 DEF R!Phases, R!Terminal
<1>4. R!QuietWantsNone'
  BY <1>1, <1>2 DEF ReconcilerInd, R!QuietWantsNone
<1>5. R!TypeOK'
  BY <1>1, <1>3 DEF ReconcilerInd, R!TypeOK
<1>6. QED
  BY <1>1, <1>2, <1>4, <1>5 DEF ReconcilerInd

\* For any jobs, specs and orders of edits, crashes, failed actions, marks and
\* reconciliations on stale reads: a paused or finished job wants no workers,
\* and a finished one stays finished.
THEOREM ReconcilerCorrect ==
    ASSUME R!ReconcilerAssumption
    PROVE  R!Spec => ReconcilerOK
<1> DEFINE Stays == \A j \in Jobs : phase[j] \in R!Terminal => phase'[j] \in R!Terminal
<1>1. R!Init => ReconcilerInd
  <2> SUFFICES ASSUME R!Init PROVE ReconcilerInd
    OBVIOUS
  <2>1. /\ read \in [Jobs -> [spec : R!Specs, workers : Nat]]
        /\ goal \in [Jobs -> [set : BOOLEAN, to : Nat]]
    BY DEF R!Init, R!NoScale
  <2>2. R!TypeOK
    BY <2>1 DEF R!Init, R!TypeOK, R!ReconcilerAssumption
  <2>3. R!QuietWantsNone
    BY DEF R!Init, R!QuietWantsNone
  <2>4. QED
    BY <2>2, <2>3 DEF ReconcilerInd
<1>2. ReconcilerInd /\ [R!Next]_R!vars => ReconcilerInd' /\ Stays
  <2> SUFFICES ASSUME ReconcilerInd, [R!Next]_R!vars PROVE ReconcilerInd' /\ Stays
    OBVIOUS
  <2>1. CASE UNCHANGED R!vars
    BY <2>1 DEF R!vars, ReconcilerInd, R!TypeOK, R!QuietWantsNone
  <2>2. ASSUME NEW j \in Jobs,
               \/ \E s \in R!Specs : R!Edit(j, s)
               \/ R!Crash(j)
               \/ R!ControllerStep(j) \/ R!ApplyFails(j)
               \/ \E p \in R!Terminal : R!Mark(j, p)
        PROVE  ReconcilerInd' /\ Stays
    <3>1. CASE R!Reconcile(j)
      BY <3>1, ReconcileStep
    <3>2. CASE \E p \in R!Terminal : R!Mark(j, p)
      BY <3>2, MarkStep
    <3>3. CASE \/ \E s \in R!Specs : R!Edit(j, s)
               \/ R!Crash(j) \/ R!Fetch(j) \/ R!Apply(j) \/ R!ApplyFails(j)
      BY <3>3, ClusterStep
    <3>4. QED
      BY <2>2, <3>1, <3>2, <3>3 DEF R!ControllerStep
  <2>3. QED
    BY <2>1, <2>2 DEF R!Next
<1>3. ReconcilerInd => R!TypeOK /\ R!QuietWantsNone
  BY DEF ReconcilerInd
<1>4. QED
  BY <1>1, <1>2, <1>3, PTL DEF R!Spec, ReconcilerOK, R!ReconcilerOK, R!FinishedStays

-----------------------------------------------------------------------------
(* The job manager: the inductive invariant *)

\* Every write of a seed, done or still to come, belongs to one call, and a
\* cancelled job has its completion time.
WritesInv ==
    /\ \A j \in Jobs, s \in Seeds : tasks[j][s] + pending[j][s] <= calls[j]
    /\ \A j \in Jobs : jobState[j] = "cancelled" => completedAt[j]

JobInd == M!TypeOK /\ M!StateBacked /\ WritesInv

\* The types, one job at a time.
LEMMA JobTypes ==
    ASSUME M!JobAssumption, M!TypeOK, NEW j \in Jobs
    PROVE  /\ tasks[j] \in [Seeds -> Nat] /\ pending[j] \in [Seeds -> Nat]
           /\ control[j] \in Seq(M!ControlTypes)
           /\ calls[j] \in Nat /\ calls[j] <= MaxCalls /\ MaxCalls \in Nat
           /\ jobState[j] \in M!JobStates \cup {"none"}
<1>1. tasks[j] \in [Seeds -> 0..MaxCalls] /\ pending[j] \in [Seeds -> 0..MaxCalls]
  BY DEF M!TypeOK
<1>2. MaxCalls \in Nat /\ 0..MaxCalls \subseteq Nat
  BY DEF M!JobAssumption
<1>3. tasks[j] \in [Seeds -> Nat] /\ pending[j] \in [Seeds -> Nat]
  BY <1>1, <1>2
<1>4. QED
  BY <1>2, <1>3 DEF M!TypeOK

\* A step on the counters of job j that keeps them within its calls.
LEMMA CountersStep ==
    ASSUME M!JobAssumption, JobInd, NEW j \in Jobs,
           NEW t \in [Seeds -> Nat], NEW p \in [Seeds -> Nat], NEW c \in 0..MaxCalls,
           tasks' = [tasks EXCEPT ![j] = t], pending' = [pending EXCEPT ![j] = p],
           calls' = [calls EXCEPT ![j] = c],
           \A s \in Seeds : tasks[j][s] <= t[s] /\ t[s] + p[s] <= c
    PROVE  /\ tasks' \in [Jobs -> [Seeds -> 0..MaxCalls]]
           /\ pending' \in [Jobs -> [Seeds -> 0..MaxCalls]]
           /\ calls' \in [Jobs -> 0..MaxCalls]
           /\ \A e \in Jobs, s \in Seeds : tasks'[e][s] + pending'[e][s] <= calls'[e]
           /\ \A e \in Jobs, s \in Seeds : tasks[e][s] >= 1 => tasks'[e][s] >= 1
<1> USE DEF JobInd
<1>1. MaxCalls \in Nat
  BY DEF M!JobAssumption
<1>2. ASSUME NEW s \in Seeds PROVE t[s] \in 0..MaxCalls /\ p[s] \in 0..MaxCalls
  <2>1. t[s] \in Nat /\ p[s] \in Nat /\ t[s] + p[s] <= c /\ c \in Nat /\ c <= MaxCalls
    BY <1>1
  <2>2. QED
    BY <1>1, <2>1
<1>3. t \in [Seeds -> 0..MaxCalls] /\ p \in [Seeds -> 0..MaxCalls]
  BY <1>2
<1>4. /\ tasks \in [Jobs -> [Seeds -> 0..MaxCalls]]
      /\ pending \in [Jobs -> [Seeds -> 0..MaxCalls]] /\ calls \in [Jobs -> 0..MaxCalls]
  BY DEF M!TypeOK
<1>5. /\ tasks' \in [Jobs -> [Seeds -> 0..MaxCalls]]
      /\ pending' \in [Jobs -> [Seeds -> 0..MaxCalls]] /\ calls' \in [Jobs -> 0..MaxCalls]
  BY <1>3, <1>4
<1>6. /\ tasks'[j] = t /\ pending'[j] = p /\ calls'[j] = c
      /\ \A e \in Jobs : e # j =>
            tasks'[e] = tasks[e] /\ pending'[e] = pending[e] /\ calls'[e] = calls[e]
  BY <1>4
<1>7. \A e \in Jobs, s \in Seeds : tasks'[e][s] + pending'[e][s] <= calls'[e]
  BY <1>6 DEF WritesInv
<1>8. ASSUME NEW s \in Seeds, tasks[j][s] >= 1 PROVE t[s] >= 1
  <2>1. tasks[j][s] \in Nat /\ t[s] \in Nat
    BY JobTypes
  <2>2. QED
    BY <1>8, <2>1
<1>9. \A e \in Jobs, s \in Seeds : tasks[e][s] >= 1 => tasks'[e][s] >= 1
  BY <1>6, <1>8
<1>10. QED
  BY <1>5, <1>7, <1>9

\* A call of a job manager method is counted.
LEMMA CallStep ==
    ASSUME M!JobAssumption, M!TypeOK, NEW j \in Jobs, M!Call(j)
    PROVE  /\ calls' = [calls EXCEPT ![j] = calls[j] + 1]
           /\ calls[j] + 1 \in 0..MaxCalls
<1>1. calls[j] \in Nat /\ MaxCalls \in Nat
  BY JobTypes
<1>2. QED
  BY <1>1 DEF M!Call

\* CreateJob: a job that nothing was written for.
LEMMA CreateJobStep ==
    ASSUME JobInd, NEW j \in Jobs, M!CreateJob(j)
    PROVE  /\ JobInd'
           /\ \A e \in Jobs : jobState[e] = "cancelled" =>
                 jobState'[e] = "cancelled" /\ control'[e] = control[e]
<1> USE DEF JobInd
<1>1. /\ jobState[j] = "none" /\ jobState' = [jobState EXCEPT ![j] = "created"]
      /\ UNCHANGED <<startedAt, completedAt, tasks, pending, control, calls>>
  BY DEF M!CreateJob
<1>2. jobState \in [Jobs -> M!JobStates \cup {"none"}]
  BY DEF M!TypeOK
<1>3. /\ jobState' \in [Jobs -> M!JobStates \cup {"none"}]
      /\ jobState'[j] = "created" /\ \A e \in Jobs : e # j => jobState'[e] = jobState[e]
  BY <1>1, <1>2 DEF M!JobStates
<1>4. M!TypeOK'
  BY <1>1, <1>3 DEF M!TypeOK
<1>5. M!StateBacked'
  BY <1>1, <1>3 DEF M!StateBacked, M!Told, M!LastControl
<1>6. WritesInv'
  BY <1>1, <1>3 DEF WritesInv
<1>7. QED
  BY <1>1, <1>3, <1>4, <1>5, <1>6

\* Adding one write of each of some seeds.
LEMMA PlusOne ==
    ASSUME NEW f \in [Seeds -> Nat], NEW S
    PROVE  /\ M!Plus(f, S, 1) \in [Seeds -> Nat]
           /\ \A s \in Seeds : M!Plus(f, S, 1)[s] = IF s \in S THEN f[s] + 1 ELSE f[s]
  BY DEF M!Plus

\* A cancelled job can take no transition.
LEMMA CancelledStuck ==
    ASSUME NEW j \in Jobs, NEW target, M!CanTransitionTo(j, target)
    PROVE  jobState[j] # "cancelled"
  BY DEF M!CanTransitionTo, M!ValidTransitions

\* StartJob: published in full, or in part with the state left as it was.
LEMMA StartJobStep ==
    ASSUME M!JobAssumption, JobInd, NEW j \in Jobs, M!StartJob(j)
    PROVE  /\ JobInd'
           /\ \A e \in Jobs : jobState[e] = "cancelled" =>
                 jobState'[e] = "cancelled" /\ control'[e] = control[e]
<1> USE DEF JobInd
<1>1. /\ jobState[j] # "cancelled" /\ UNCHANGED <<completedAt, control>>
      /\ calls' = [calls EXCEPT ![j] = calls[j] + 1] /\ calls[j] + 1 \in 0..MaxCalls
  BY CallStep, CancelledStuck DEF M!StartJob
<1>2. tasks[j] \in [Seeds -> Nat] /\ pending[j] \in [Seeds -> Nat] /\ calls[j] \in Nat
  BY JobTypes
<1>3. /\ jobState \in [Jobs -> M!JobStates \cup {"none"}] /\ startedAt \in [Jobs -> BOOLEAN]
      /\ tasks \in [Jobs -> [Seeds -> 0..MaxCalls]]
      /\ pending \in [Jobs -> [Seeds -> 0..MaxCalls]]
  BY DEF M!TypeOK
<1>4. PICK S, P :
        /\ tasks' = [tasks EXCEPT ![j] = M!Plus(tasks[j], S, 1)]
        /\ pending' = [pending EXCEPT ![j] = M!Plus(pending[j], P, 1)]
        /\ S \cap P = {}
        /\ \/ UNCHANGED <<jobState, startedAt>>
           \/ /\ Seeds \subseteq S /\ jobState' = [jobState EXCEPT ![j] = "running"]
              /\ startedAt' = [startedAt EXCEPT ![j] = TRUE]
  <2>1. CASE /\ M!Written(j, Seeds) /\ UNCHANGED pending
             /\ jobState' = [jobState EXCEPT ![j] = "running"]
             /\ startedAt' = [startedAt EXCEPT ![j] = TRUE]
    <3>1. M!Plus(pending[j], {}, 1) = pending[j]
      BY <1>2 DEF M!Plus
    <3>2. pending = [pending EXCEPT ![j] = M!Plus(pending[j], {}, 1)]
      BY <1>3, <3>1
    <3>3. tasks' = [tasks EXCEPT ![j] = M!Plus(tasks[j], Seeds, 1)]
      BY <2>1 DEF M!Written
    <3>4. Seeds \cap {} = {} /\ Seeds \subseteq Seeds
      OBVIOUS
    <3>5. QED
      BY <2>1, <3>2, <3>3, <3>4, Zenon
  <2>2. CASE /\ \E S \in SUBSET Seeds :
                   /\ M!Written(j, S)
                   /\ \E P \in SUBSET (Seeds \ S) :
                         pending' = [pending EXCEPT ![j] = M!Plus(pending[j], P, 1)]
             /\ UNCHANGED <<jobState, startedAt>>
    <3>1. PICK S \in SUBSET Seeds, P \in SUBSET Seeds :
             /\ M!Written(j, S) /\ S \cap P = {}
             /\ pending' = [pending EXCEPT ![j] = M!Plus(pending[j], P, 1)]
      BY <2>2
    <3>2. tasks' = [tasks EXCEPT ![j] = M!Plus(tasks[j], S, 1)]
      BY <3>1 DEF M!Written
    <3>3. QED
      BY <2>2, <3>1, <3>2
  <2>3. QED
    BY <2>1, <2>2 DEF M!StartJob
<1> DEFINE t == M!Plus(tasks[j], S, 1)
           p == M!Plus(pending[j], P, 1)
<1>5. /\ t \in [Seeds -> Nat] /\ p \in [Seeds -> Nat]
      /\ \A s \in Seeds : t[s] = IF s \in S THEN tasks[j][s] + 1 ELSE tasks[j][s]
      /\ \A s \in Seeds : p[s] = IF s \in P THEN pending[j][s] + 1 ELSE pending[j][s]
  BY <1>2, PlusOne
<1>6. /\ tasks' = [tasks EXCEPT ![j] = t] /\ pending' = [pending EXCEPT ![j] = p]
  BY <1>4
<1> HIDE DEF t, p
<1>7. ASSUME NEW s \in Seeds
      PROVE  tasks[j][s] <= t[s] /\ t[s] + p[s] <= calls[j] + 1
  <2>1. tasks[j][s] \in Nat /\ pending[j][s] \in Nat /\ tasks[j][s] + pending[j][s] <= calls[j]
    BY <1>2 DEF WritesInv
  <2>2. ~(s \in S /\ s \in P)
    BY <1>4
  <2>3. QED
    BY <1>2, <1>5, <2>1, <2>2
<1>8. /\ tasks' \in [Jobs -> [Seeds -> 0..MaxCalls]]
      /\ pending' \in [Jobs -> [Seeds -> 0..MaxCalls]]
      /\ calls' \in [Jobs -> 0..MaxCalls]
      /\ \A e \in Jobs, s \in Seeds : tasks'[e][s] + pending'[e][s] <= calls'[e]
      /\ \A e \in Jobs, s \in Seeds : tasks[e][s] >= 1 => tasks'[e][s] >= 1
  BY <1>1, <1>5, <1>6, <1>7, CountersStep
<1>9. /\ jobState' \in [Jobs -> M!JobStates \cup {"none"}] /\ startedAt' \in [Jobs -> BOOLEAN]
      /\ jobState'[j] \in {jobState[j], "running"}
      /\ \A e \in Jobs : e # j => jobState'[e] = jobState[e] /\ startedAt'[e] = startedAt[e]
  BY <1>3, <1>4 DEF M!JobStates
<1>10. M!TypeOK'
  BY <1>1, <1>8, <1>9 DEF M!TypeOK
<1>11. M!StateBacked'
  <2>1. ASSUME NEW e \in Jobs
        PROVE  /\ jobState'[e] = "paused" => M!Told(e, "pause")'
               /\ jobState'[e] = "cancelled" => control'[e] # <<>> /\ M!LastControl(e)' = "stop"
    <3>1. M!Told(e, "pause")' = M!Told(e, "pause") /\ M!LastControl(e)' = M!LastControl(e)
      BY <1>1 DEF M!Told, M!LastControl
    <3>2. jobState'[e] \in {"paused", "cancelled"} => jobState'[e] = jobState[e]
      BY <1>9
    <3>3. QED
      BY <1>1, <3>1, <3>2 DEF M!StateBacked
  <2>2. ASSUME NEW e \in Jobs, startedAt'[e], NEW s \in Seeds PROVE tasks'[e][s] >= 1
    <3>1. CASE startedAt[e]
      BY <1>8, <3>1 DEF M!StateBacked
    <3>2. CASE ~startedAt[e]
      <4>1. e = j /\ Seeds \subseteq S
        BY <1>4, <1>9, <2>2, <3>2
      <4>2. tasks'[j] = t /\ t[s] = tasks[j][s] + 1 /\ tasks[j][s] \in Nat
        BY <1>2, <1>3, <1>5, <1>6, <4>1
      <4>3. QED
        BY <4>1, <4>2
    <3>3. QED
      BY <3>1, <3>2
  <2>3. QED
    BY <2>1, <2>2 DEF M!StateBacked
<1>12. WritesInv'
  BY <1>1, <1>8, <1>9 DEF WritesInv
<1>13. QED
  BY <1>1, <1>9, <1>10, <1>11, <1>12

\* A seed of a timed-out batch is written after all.
LEMMA LateWriteStep ==
    ASSUME M!JobAssumption, JobInd, NEW j \in Jobs, NEW s \in Seeds, M!LateWrite(j, s)
    PROVE  JobInd' /\ UNCHANGED <<jobState, control>>
<1> USE DEF JobInd
<1>1. /\ pending[j][s] > 0 /\ UNCHANGED <<jobState, startedAt, completedAt, control, calls>>
      /\ tasks' = [tasks EXCEPT ![j] = [tasks[j] EXCEPT ![s] = tasks[j][s] + 1]]
      /\ pending' = [pending EXCEPT ![j] = [pending[j] EXCEPT ![s] = pending[j][s] - 1]]
  BY DEF M!LateWrite
<1> DEFINE t == [tasks[j] EXCEPT ![s] = tasks[j][s] + 1]
           p == [pending[j] EXCEPT ![s] = pending[j][s] - 1]
<1>2. /\ tasks[j] \in [Seeds -> Nat] /\ pending[j] \in [Seeds -> Nat]
      /\ calls[j] \in 0..MaxCalls /\ calls[j] \in Nat
  BY JobTypes DEF M!TypeOK
<1>3. /\ t \in [Seeds -> Nat] /\ p \in [Seeds -> Nat]
      /\ t[s] = tasks[j][s] + 1 /\ p[s] = pending[j][s] - 1
      /\ \A e \in Seeds : e # s => t[e] = tasks[j][e] /\ p[e] = pending[j][e]
  BY <1>1, <1>2
<1>4. calls' = [calls EXCEPT ![j] = calls[j]]
  <2>1. calls \in [Jobs -> 0..MaxCalls]
    BY DEF M!TypeOK
  <2>2. QED
    BY <1>1, <2>1
<1>5. tasks' = [tasks EXCEPT ![j] = t] /\ pending' = [pending EXCEPT ![j] = p]
  BY <1>1
<1> HIDE DEF t, p
<1>6. ASSUME NEW e \in Seeds PROVE tasks[j][e] <= t[e] /\ t[e] + p[e] <= calls[j]
  <2>1. tasks[j][e] \in Nat /\ pending[j][e] \in Nat /\ tasks[j][e] + pending[j][e] <= calls[j]
    BY <1>2 DEF WritesInv
  <2>2. QED
    BY <1>2, <1>3, <2>1
<1>7. /\ tasks' \in [Jobs -> [Seeds -> 0..MaxCalls]]
      /\ pending' \in [Jobs -> [Seeds -> 0..MaxCalls]]
      /\ calls' \in [Jobs -> 0..MaxCalls]
      /\ \A e \in Jobs, f \in Seeds : tasks'[e][f] + pending'[e][f] <= calls'[e]
      /\ \A e \in Jobs, f \in Seeds : tasks[e][f] >= 1 => tasks'[e][f] >= 1
  BY <1>2, <1>3, <1>4, <1>5, <1>6, CountersStep
<1>8. M!TypeOK'
  BY <1>1, <1>7 DEF M!TypeOK
<1>9. M!StateBacked'
  <2>1. \A e \in Jobs : /\ M!Told(e, "pause")' = M!Told(e, "pause")
                        /\ M!LastControl(e)' = M!LastControl(e)
    BY <1>1 DEF M!Told, M!LastControl
  <2>2. QED
    BY <1>1, <1>7, <2>1 DEF M!StateBacked
<1>10. WritesInv'
  BY <1>1, <1>7 DEF WritesInv
<1>11. QED
  BY <1>1, <1>8, <1>9, <1>10

\* A message at the end of the control topic: what was told stays told.
LEMMA ControlAppend ==
    ASSUME M!TypeOK, NEW j \in Jobs, NEW c \in M!ControlTypes,
           control' = [control EXCEPT ![j] = Append(control[j], c)]
    PROVE  /\ control' \in [Jobs -> Seq(M!ControlTypes)]
           /\ M!Told(j, c)' /\ M!LastControl(j)' = c /\ control'[j] # <<>>
           /\ M!Told(j, "pause") => M!Told(j, "pause")'
           /\ \A e \in Jobs : e # j => control'[e] = control[e]
<1> DEFINE n == Len(control[j])
           q == Append(control[j], c)
<1>1. control \in [Jobs -> Seq(M!ControlTypes)] /\ control[j] \in Seq(M!ControlTypes)
  BY DEF M!TypeOK
<1>2. /\ q \in Seq(M!ControlTypes) /\ n \in Nat /\ Len(q) = n + 1 /\ q[n + 1] = c
      /\ \A k \in 1..n : q[k] = control[j][k]
  BY <1>1
<1>3. /\ control' \in [Jobs -> Seq(M!ControlTypes)] /\ control'[j] = q
      /\ \A e \in Jobs : e # j => control'[e] = control[e]
  BY <1>1, <1>2
<1> HIDE DEF n, q
<1>4. q # <<>>
  BY <1>2
<1>5. M!LastControl(j)' = c
  BY <1>2, <1>3 DEF M!LastControl
<1>6. M!Told(j, c)'
  <2>1. n + 1 \in 1..Len(q)
    BY <1>2
  <2>2. QED
    BY <1>2, <1>3, <2>1 DEF M!Told
<1>7. ASSUME M!Told(j, "pause") PROVE M!Told(j, "pause")'
  <2>1. PICK k \in 1..n : control[j][k] = "pause"
    BY <1>7 DEF M!Told, n
  <2>2. k \in 1..Len(q) /\ q[k] = "pause"
    BY <1>2, <2>1
  <2>3. QED
    BY <1>3, <2>2 DEF M!Told
<1>8. QED
  BY <1>3, <1>4, <1>5, <1>6, <1>7

\* PauseJob, ResumeJob and StopJob: the message first, then the state.
LEMMA ControlStep ==
    ASSUME M!JobAssumption, JobInd, NEW j \in Jobs,
           M!PauseJob(j) \/ M!ResumeJob(j) \/ M!StopJob(j)
    PROVE  /\ JobInd'
           /\ \A e \in Jobs : jobState[e] = "cancelled" =>
                 jobState'[e] = "cancelled" /\ control'[e] = control[e]
<1> USE DEF JobInd
<1>1. PICK g \in {<<"paused", "pause">>, <<"running", "resume">>, <<"cancelled", "stop">>} :
        M!ControlTransition(j, g[1], g[2])
  BY DEF M!PauseJob, M!ResumeJob, M!StopJob
<1>2. /\ g[1] \in M!JobStates /\ g[2] \in M!ControlTypes
      /\ g[1] = "paused" => g[2] = "pause"
      /\ g[1] = "cancelled" => g[2] = "stop" /\ g[1] \in M!Terminal
  BY DEF M!JobStates, M!ControlTypes, M!Terminal
<1>3. /\ jobState[j] # "cancelled" /\ UNCHANGED <<startedAt, tasks, pending>>
      /\ calls' = [calls EXCEPT ![j] = calls[j] + 1] /\ calls[j] + 1 \in 0..MaxCalls
  BY <1>1, CallStep, CancelledStuck DEF M!ControlTransition
<1>4. /\ jobState \in [Jobs -> M!JobStates \cup {"none"}] /\ completedAt \in [Jobs -> BOOLEAN]
      /\ tasks \in [Jobs -> [Seeds -> 0..MaxCalls]]
      /\ pending \in [Jobs -> [Seeds -> 0..MaxCalls]]
      /\ control \in [Jobs -> Seq(M!ControlTypes)]
  BY DEF M!TypeOK
<1>5. /\ calls' \in [Jobs -> 0..MaxCalls]
      /\ \A e \in Jobs, s \in Seeds : tasks'[e][s] + pending'[e][s] <= calls'[e]
  <2>1. /\ tasks[j] \in [Seeds -> Nat] /\ pending[j] \in [Seeds -> Nat] /\ calls[j] \in Nat
    BY JobTypes
  <2>2. tasks' = [tasks EXCEPT ![j] = tasks[j]] /\ pending' = [pending EXCEPT ![j] = pending[j]]
    BY <1>3, <1>4
  <2>3. ASSUME NEW s \in Seeds
        PROVE  tasks[j][s] <= tasks[j][s] /\ tasks[j][s] + pending[j][s] <= calls[j] + 1
    <3>1. tasks[j][s] \in Nat /\ pending[j][s] \in Nat
      BY <2>1
    <3>2. tasks[j][s] + pending[j][s] <= calls[j]
      BY DEF WritesInv
    <3>3. QED
      BY <2>1, <3>1, <3>2
  <2>4. QED
    BY <1>3, <2>1, <2>2, <2>3, CountersStep
<1>6. CASE /\ control' = [control EXCEPT ![j] = Append(control[j], g[2])]
           /\ jobState' = [jobState EXCEPT ![j] = g[1]]
           /\ completedAt' = [completedAt EXCEPT ![j] = completedAt[j] \/ g[1] \in M!Terminal]
  <2>1. /\ control' \in [Jobs -> Seq(M!ControlTypes)]
        /\ M!Told(j, g[2])' /\ M!LastControl(j)' = g[2] /\ control'[j] # <<>>
        /\ \A e \in Jobs : e # j => control'[e] = control[e]
    BY <1>2, <1>6, ControlAppend
  <2>2. /\ jobState' \in [Jobs -> M!JobStates \cup {"none"}] /\ jobState'[j] = g[1]
        /\ \A e \in Jobs : e # j => jobState'[e] = jobState[e]
    BY <1>2, <1>4, <1>6
  <2>3. /\ completedAt' \in [Jobs -> BOOLEAN]
        /\ g[1] \in M!Terminal => completedAt'[j]
        /\ \A e \in Jobs : e # j => completedAt'[e] = completedAt[e]
    BY <1>4, <1>6, Zenon
  <2>4. M!TypeOK'
    BY <1>3, <1>5, <2>1, <2>2, <2>3 DEF M!TypeOK
  <2>5. M!StateBacked'
    <3>1. \A e \in Jobs : e # j => /\ M!Told(e, "pause")' = M!Told(e, "pause")
                                   /\ M!LastControl(e)' = M!LastControl(e)
      BY <2>1 DEF M!Told, M!LastControl
    <3>2. QED
      BY <1>2, <1>3, <2>1, <2>2, <3>1 DEF M!StateBacked
  <2>6. WritesInv'
    BY <1>2, <1>5, <2>2, <2>3 DEF WritesInv
  <2>7. QED
    BY <1>3, <2>1, <2>2, <2>4, <2>5, <2>6
<1>7. CASE /\ control' = [control EXCEPT ![j] = Append(control[j], g[2])]
           /\ UNCHANGED <<jobState, completedAt>>
  <2>1. /\ control' \in [Jobs -> Seq(M!ControlTypes)]
        /\ M!Told(j, "pause") => M!Told(j, "pause")'
        /\ \A e \in Jobs : e # j => control'[e] = control[e]
    BY <1>2, <1>7, ControlAppend
  <2>2. M!TypeOK'
    BY <1>3, <1>4, <1>5, <1>7, <2>1 DEF M!TypeOK
  <2>3. M!StateBacked'
    <3>1. \A e \in Jobs : e # j => /\ M!Told(e, "pause")' = M!Told(e, "pause")
                                   /\ M!LastControl(e)' = M!LastControl(e)
      BY <2>1 DEF M!Told, M!LastControl
    <3>2. QED
      BY <1>3, <1>7, <2>1, <3>1 DEF M!StateBacked
  <2>4. WritesInv'
    BY <1>5, <1>7 DEF WritesInv
  <2>5. QED
    BY <1>3, <1>7, <2>1, <2>2, <2>3, <2>4
<1>8. CASE UNCHANGED <<control, jobState, completedAt>>
  <2>1. M!TypeOK'
    BY <1>3, <1>5, <1>8 DEF M!TypeOK
  <2>2. M!StateBacked'
    BY <1>3, <1>8 DEF M!StateBacked, M!Told, M!LastControl
  <2>3. WritesInv'
    BY <1>5, <1>8 DEF WritesInv
  <2>4. QED
    BY <1>8, <2>1, <2>2, <2>3
<1>9. QED
  BY <1>1, <1>6, <1>7, <1>8 DEF M!ControlTransition

\* For any jobs and seeds, and whatever part of which write to Kafka fails or
\* comes late: the manager believes in no change that the workers were not told
\* of, and a cancelled job stays cancelled and sends nothing more.
THEOREM JobManagerCorrect ==
    ASSUME M!JobAssumption
    PROVE  M!Spec => JobManagerOK
<1> DEFINE Final == \A j \in Jobs : jobState[j] = "cancelled" =>
                       /\ completedAt[j]
                       /\ jobState'[j] = "cancelled" /\ control'[j] = control[j]
<1>1. M!Init => JobInd
  <2> SUFFICES ASSUME M!Init PROVE JobInd
    OBVIOUS
  <2>1. M!TypeOK
    BY DEF M!Init, M!TypeOK, M!JobAssumption
  <2>2. M!StateBacked /\ WritesInv
    BY DEF M!Init, M!StateBacked, WritesInv
  <2>3. QED
    BY <2>1, <2>2 DEF JobInd
<1>2. JobInd /\ [M!Next]_M!vars => JobInd' /\ Final
  <2> SUFFICES ASSUME JobInd, [M!Next]_M!vars PROVE JobInd' /\ Final
    OBVIOUS
  <2>1. \A j \in Jobs : jobState[j] = "cancelled" => completedAt[j]
    BY DEF JobInd, WritesInv
  <2>2. CASE UNCHANGED M!vars
    <3>1. UNCHANGED <<jobState, startedAt, completedAt, tasks, pending, control, calls>>
      BY <2>2 DEF M!vars
    <3>2. QED
      BY <2>1, <3>1 DEF JobInd, M!TypeOK, M!StateBacked, M!Told, M!LastControl, WritesInv
  <2>3. ASSUME NEW j \in Jobs,
               \/ M!CreateJob(j) \/ M!StartJob(j)
               \/ \E s \in Seeds : M!LateWrite(j, s)
               \/ M!PauseJob(j) \/ M!ResumeJob(j) \/ M!StopJob(j)
        PROVE  JobInd' /\ Final
    BY <2>1, <2>3, CreateJobStep, StartJobStep, LateWriteStep, ControlStep
  <2>4. QED
    BY <2>2, <2>3 DEF M!Next
<1>3. JobInd => M!TypeOK /\ M!StateBacked
  BY DEF JobInd
<1>4. QED
  BY <1>1, <1>2, <1>3, PTL DEF M!Spec, JobManagerOK, M!JobManagerOK, M!CancelledFinal

=============================================================================

---------------------------- MODULE EngineProofs ----------------------------
(***************************************************************************)
(* Proofs about Engine, for any number of workers, callers, requests and   *)
(* any queue capacity: the state is well typed, the pending-URL WaitGroup  *)
(* counts what is owed, permits are not leaked, and a request that has     *)
(* been handled is never handled again; requests are conserved between     *)
(* AddURL, the queue, the workers and Wait's drain; and, with callers that *)
(* do not overlap outside AddURL calls with Wait, a Wait that returns      *)
(* leaves no work behind and nothing panics.  And about the wait for an    *)
(* idle network in a fetch that renders (NetworkIdle), for any requests,   *)
(* periods and redirects: its count covers the requests it saw sent.       *)
(***************************************************************************)
EXTENDS MCEngineLive, FiniteSetTheorems, TLAPS

-----------------------------------------------------------------------------
(* The inductive invariant *)

\* Workers exist only once Start has started them.
StartInv ==
    /\ ~started => startPc = "idle"
    /\ startPc # "returned" => \A w \in Workers : wpc[w] = "off"

\* An AddURL call in progress owns its request, and no two own the same.
AddInv ==
    /\ \A c \in Callers : apc[c] # "idle" =>
          adding[c] \in Requests /\ fate[adding[c]] = "adding"
    /\ \A c, e \in Callers :
          apc[c] # "idle" /\ apc[e] # "idle" /\ adding[c] = adding[e] => c = e

\* The queue holds each of its requests once, and all of them are waiting.
QueueInv ==
    /\ \A i \in 1..Len(queue) : fate[queue[i]] = "queued"
    /\ \A i, j \in 1..Len(queue) : queue[i] = queue[j] => i = j

Unfinished == {"acquire", "onRequest", "fetch"}

\* A worker owns the request it has received and not yet finished.
JobInv ==
    /\ \A w \in Workers : wpc[w] \in Busy => job[w] \in Requests
    /\ \A w \in Workers : wpc[w] \in Unfinished => fate[job[w]] = "working"
    /\ \A v, w \in Workers :
          wpc[v] \in Unfinished /\ wpc[w] \in Unfinished /\ job[v] = job[w]
             => v = w

IndInv == /\ TypeOK /\ StartInv /\ AddInv /\ QueueInv /\ JobInv
          /\ UrlWgAccounting /\ NoLeakedPermit

-----------------------------------------------------------------------------
(* How moves of workers and callers change what the WaitGroup counts *)

\* The groups are finite, so their cardinalities are naturals.
LEMMA FiniteGroups ==
    /\ IsFiniteSet(BusyWorkers) /\ Cardinality(BusyWorkers) \in Nat
    /\ IsFiniteSet(Counted) /\ Cardinality(Counted) \in Nat
<1>1. IsFiniteSet(BusyWorkers)
  BY EngineAssumption, FS_Subset DEF BusyWorkers
<1>2. IsFiniteSet(Callers)
  BY EngineAssumption, FS_Union DEF Callers
<1>3. IsFiniteSet(Counted)
  BY <1>2, FS_Subset DEF Counted
<1>4. QED
  BY <1>1, <1>3, FS_CardinalityType

\* A worker that takes a request joins the busy ones, and leaves them when it
\* returns to its loop.
LEMMA BusyMoves ==
    ASSUME wpc \in [Workers -> WorkerPc], NEW w \in Workers,
           NEW l \in WorkerPc, Goto(w, l)
    PROVE  /\ wpc[w] \notin Busy /\ l \in Busy =>
                Cardinality(BusyWorkers') = Cardinality(BusyWorkers) + 1
           /\ wpc[w] \in Busy /\ l \notin Busy =>
                /\ Cardinality(BusyWorkers') = Cardinality(BusyWorkers) - 1
                /\ Cardinality(BusyWorkers) > 0
           /\ (wpc[w] \in Busy <=> l \in Busy) => BusyWorkers' = BusyWorkers
<1>0. wpc' = [wpc EXCEPT ![w] = l]
  BY DEF Goto
<1>1. CASE wpc[w] \notin Busy /\ l \in Busy
  <2>1. BusyWorkers' = BusyWorkers \cup {w} /\ w \notin BusyWorkers
    BY <1>0, <1>1 DEF BusyWorkers
  <2>2. QED
    BY <1>1, <2>1, FiniteGroups, FS_AddElement
<1>2. CASE wpc[w] \in Busy /\ l \notin Busy
  <2>1. BusyWorkers' = BusyWorkers \ {w} /\ w \in BusyWorkers
    BY <1>0, <1>2 DEF BusyWorkers
  <2>2. Cardinality(BusyWorkers') = Cardinality(BusyWorkers) - 1
    BY <2>1, FiniteGroups, FS_RemoveElement
  <2>3. Cardinality(BusyWorkers) > 0
    BY <2>1, FiniteGroups, FS_EmptySet
  <2>4. QED
    BY <1>2, <2>2, <2>3
<1>3. CASE wpc[w] \in Busy <=> l \in Busy
  <2>1. BusyWorkers' = BusyWorkers
    BY <1>0, <1>3 DEF BusyWorkers
  <2>2. QED
    BY <1>3, <2>1
<1>4. QED
  BY <1>1, <1>2, <1>3

\* A caller is counted between urlWg.Add and the end of its send.
LEMMA CountedMoves ==
    ASSUME apc \in [Callers -> {"idle", "checked", "counted"}],
           NEW c \in Callers, NEW l \in {"idle", "checked", "counted"},
           apc' = [apc EXCEPT ![c] = l]
    PROVE  /\ apc[c] # "counted" /\ l = "counted" =>
                Cardinality(Counted') = Cardinality(Counted) + 1
           /\ apc[c] = "counted" /\ l # "counted" =>
                /\ Cardinality(Counted') = Cardinality(Counted) - 1
                /\ Cardinality(Counted) > 0
           /\ apc[c] # "counted" /\ l # "counted" => Counted' = Counted
<1>1. CASE apc[c] # "counted" /\ l = "counted"
  <2>1. Counted' = Counted \cup {c} /\ c \notin Counted
    BY <1>1 DEF Counted
  <2>2. QED
    BY <1>1, <2>1, FiniteGroups, FS_AddElement
<1>2. CASE apc[c] = "counted" /\ l # "counted"
  <2>1. Counted' = Counted \ {c} /\ c \in Counted
    BY <1>2 DEF Counted
  <2>2. Cardinality(Counted') = Cardinality(Counted) - 1
    BY <2>1, FiniteGroups, FS_RemoveElement
  <2>3. Cardinality(Counted) > 0
    BY <2>1, FiniteGroups, FS_EmptySet
  <2>4. QED
    BY <1>2, <2>2, <2>3
<1>3. CASE apc[c] # "counted" /\ l # "counted"
  <2>1. Counted' = Counted
    BY <1>3 DEF Counted
  <2>2. QED
    BY <1>3, <2>1
<1>4. CASE apc[c] = "counted" /\ l = "counted"
  BY <1>4
<1>5. QED
  BY <1>1, <1>2, <1>3, <1>4

-----------------------------------------------------------------------------
(* The invariant is inductive *)

\* A fresh engine satisfies the invariant.
LEMMA IndInvInit == Init => IndInv
<1> SUFFICES ASSUME Init PROVE IndInv
  OBVIOUS
<1>0. queue \in Seq(Requests) /\ Len(queue) = 0
  BY DEF Init
<1>1. TypeOK
  <2>1. started \in BOOLEAN /\ stopped \in BOOLEAN /\ parentDone \in BOOLEAN
    BY Zenon DEF Init
  <2>2. holding \in [Workers -> BOOLEAN] /\ waitErr \in [Waiters -> BOOLEAN]
    BY Zenon DEF Init
  <2>3. Len(queue) <= QueueCap
    BY <1>0, EngineAssumption
  <2>4. QED
    BY <1>0, <2>1, <2>2, <2>3 DEF Init, TypeOK, WorkerPc, Fates
<1>2. StartInv /\ AddInv /\ QueueInv /\ JobInv
  BY <1>0 DEF Init, StartInv, AddInv, QueueInv, JobInv, Busy, WorkerPc, Unfinished
<1>3. BusyWorkers = {} /\ Counted = {}
  BY DEF Init, BusyWorkers, Counted, Busy
<1>4. UrlWgAccounting
  BY <1>0, <1>3, FS_EmptySet DEF Init, UrlWgAccounting
<1>5. NoLeakedPermit
  BY Zenon DEF Init, NoLeakedPermit
<1>6. QED
  BY <1>1, <1>2, <1>4, <1>5 DEF IndInv

\* Done on a positive counter.
LEMMA WgDoneStep ==
    ASSUME TypeOK, urlWg > 0, WgDone
    PROVE  /\ urlWg' \in Nat /\ urlWg' = urlWg - 1
           /\ watch' \in [Waiters -> {"none", "entered", "asleep", "woken",
                                     "closed", "panic"}]
  BY DEF TypeOK, WgDone

\* Start, Stop and the caller's cancellation touch no request.
LEMMA CallStep ==
    ASSUME IndInv,
           StartSwap \/ StartRun \/ StopSwap \/ StopCancel \/ ParentCancel
    PROVE  IndInv'
<1> USE DEF IndInv
<1>0. UNCHANGED <<queue, urlWg, job, holding, apc, adding, wait, watch, waitErr,
                  requestCount, successCount, errorCount, fate>>
  BY DEF StartSwap, StartRun, StopSwap, StopCancel, ParentCancel, workers,
         adders, waits, counters
<1>1. TypeOK'
  <2>1. /\ started' \in BOOLEAN /\ stopped' \in BOOLEAN
        /\ parentDone' \in BOOLEAN
    BY Zenon DEF TypeOK, StartSwap, StartRun, StopSwap, StopCancel, ParentCancel
  <2>2. /\ ctx' \in {"nil", "live", "done"}
        /\ startPc' \in {"idle", "swapped", "returned"}
        /\ stopPc' \in {"idle", "swapped", "returned"}
        /\ wpc' \in [Workers -> WorkerPc]
    BY DEF TypeOK, StartSwap, StartRun, StopSwap, StopCancel, ParentCancel,
           WorkerPc, workers
  <2>3. QED
    BY <1>0, <2>1, <2>2 DEF TypeOK
<1>2. \/ wpc' = wpc
      \/ /\ startPc = "swapped" /\ startPc' = "returned"
         /\ wpc' = [w \in Workers |-> "idle"]
         /\ \A w \in Workers : wpc[w] = "off"
         /\ started' = started
  <2>1. CASE StartRun
    BY <2>1 DEF StartRun, StartInv
  <2>2. CASE StartSwap \/ StopSwap \/ StopCancel \/ ParentCancel
    <3>1. wpc' = wpc
      BY <2>2 DEF StartSwap, StopSwap, StopCancel, ParentCancel, workers
    <3>2. QED
      BY <3>1
  <2>3. QED
    BY <2>1, <2>2
<1>3. StartInv'
  BY <1>2 DEF StartInv, StartSwap, StartRun, StopSwap, StopCancel, ParentCancel, TypeOK
<1>4. AddInv' /\ QueueInv'
  BY <1>0 DEF AddInv, QueueInv
<1>5. JobInv'
  BY <1>0, <1>2 DEF JobInv, Busy, Unfinished
<1>6. BusyWorkers' = BusyWorkers /\ Counted' = Counted
  BY <1>0, <1>2 DEF BusyWorkers, Counted, Busy
<1>7. UrlWgAccounting'
  BY <1>0, <1>6 DEF UrlWgAccounting
<1>8. NoLeakedPermit'
  BY <1>0, <1>2 DEF NoLeakedPermit, Busy, WorkerPc
<1>9. QED
  BY <1>1, <1>3, <1>4, <1>5, <1>7, <1>8

\* The three steps of AddURL and its full-queue branch.
LEMMA AddStepInv ==
    ASSUME IndInv, NEW c \in Callers, AddURLCheck(c) \/ AddStep(c)
    PROVE  IndInv'
<1> USE DEF IndInv
<1>0. /\ UNCHANGED <<started, stopped, ctx, parentDone, startPc, stopPc, wpc, job,
                     holding, wait, waitErr, requestCount, successCount, errorCount>>
      /\ BusyWorkers' = BusyWorkers
  BY DEF AddURLCheck, AddStep, AddURLCount, AddURLSend, AddURLFull, calls, workers,
         waits, counters, BusyWorkers
<1>1. StartInv' /\ NoLeakedPermit'
  BY <1>0 DEF StartInv, NoLeakedPermit
<1>2. CASE AddURLCheck(c)
  <2>1. PICK r \in Requests :
          /\ fate[r] = "fresh" /\ fate' = [fate EXCEPT ![r] = "adding"]
          /\ adding' = [adding EXCEPT ![c] = r]
          /\ apc[c] = "idle" /\ apc' = [apc EXCEPT ![c] = "checked"]
          /\ UNCHANGED <<queue, urlWg, watch>>
    BY <1>2 DEF AddURLCheck
  <2>2. TypeOK'
    BY <1>0, <2>1 DEF TypeOK, Fates
  <2>3. AddInv'
    BY <2>1 DEF AddInv, TypeOK
  <2>4. QueueInv'
    BY <2>1 DEF QueueInv, TypeOK
  <2>5. JobInv'
    BY <1>0, <2>1 DEF JobInv, TypeOK, Busy, Unfinished, WorkerPc
  <2>6. Counted' = Counted
    BY <2>1 DEF Counted, TypeOK
  <2>7. UrlWgAccounting'
    BY <1>0, <2>1, <2>6 DEF UrlWgAccounting
  <2>8. QED
    BY <1>1, <2>2, <2>3, <2>4, <2>5, <2>7
<1>3. CASE AddURLCount(c)
  <2>1. /\ apc[c] = "checked" /\ apc' = [apc EXCEPT ![c] = "counted"]
        /\ urlWg' = urlWg + 1 /\ UNCHANGED <<queue, adding, watch, fate>>
    BY <1>3 DEF AddURLCount
  <2>2. TypeOK'
    BY <1>0, <2>1 DEF TypeOK
  <2>3. AddInv' /\ QueueInv' /\ JobInv'
    BY <1>0, <2>1 DEF AddInv, QueueInv, JobInv, TypeOK
  <2>4. Cardinality(Counted') = Cardinality(Counted) + 1
    BY <2>1, CountedMoves DEF TypeOK
  <2>5. UrlWgAccounting'
    BY <1>0, <2>1, <2>4, FiniteGroups DEF UrlWgAccounting, TypeOK
  <2>6. QED
    BY <1>1, <2>2, <2>3, <2>5
<1>4. CASE AddURLSend(c) \/ AddURLFull(c)
  <2> DEFINE r == adding[c]
  <2>1. /\ apc[c] = "counted" /\ apc' = [apc EXCEPT ![c] = "idle"]
        /\ adding' = [adding EXCEPT ![c] = NoRequest]
        /\ r \in Requests /\ fate[r] = "adding"
    BY <1>4 DEF AddURLSend, AddURLFull, AddInv
  <2>2. /\ Cardinality(Counted') = Cardinality(Counted) - 1
        /\ Cardinality(Counted) > 0
    BY <2>1, CountedMoves DEF TypeOK
  <2>3. urlWg > 0
    BY <2>2, FiniteGroups DEF UrlWgAccounting, TypeOK
  <2>4. fate' = [fate EXCEPT ![r] = "queued"] \/ fate' = [fate EXCEPT ![r] = "rejected"]
    BY <1>4 DEF AddURLSend, AddURLFull
  <2>5. AddInv'
    BY <2>1, <2>4 DEF AddInv, TypeOK
  <2>6. JobInv'
    BY <1>0, <2>1, <2>4 DEF JobInv, TypeOK, Busy, Unfinished, WorkerPc
  <2>7. CASE AddURLSend(c)
    <3>1. /\ queue' = Append(queue, r) /\ Len(queue) < QueueCap
          /\ fate' = [fate EXCEPT ![r] = "queued"] /\ UNCHANGED <<urlWg, watch>>
      BY <2>7 DEF AddURLSend
    <3>2. /\ queue' \in Seq(Requests) /\ Len(queue') = Len(queue) + 1
          /\ queue'[Len(queue) + 1] = r
          /\ \A i \in 1..Len(queue) : queue'[i] = queue[i]
      BY <2>1, <3>1 DEF TypeOK
    <3>3. TypeOK'
      BY <1>0, <2>1, <3>1, <3>2, EngineAssumption DEF TypeOK, Fates
    <3>4. \A i \in 1..Len(queue) : queue[i] # r
      BY <2>1 DEF QueueInv
    <3>5. QueueInv'
      <4>1. \A i \in 1..Len(queue') : i \in 1..Len(queue) \/ i = Len(queue) + 1
        BY <3>2 DEF TypeOK
      <4>2. \A i \in 1..Len(queue) : queue[i] \in Requests
        BY DEF TypeOK
      <4>3. \A i \in 1..Len(queue') : fate'[queue'[i]] = "queued"
        BY <2>1, <3>1, <3>2, <3>4, <4>1, <4>2 DEF QueueInv, TypeOK
      <4>4. \A i, j \in 1..Len(queue') : queue'[i] = queue'[j] => i = j
        BY <3>2, <3>4, <4>1 DEF QueueInv
      <4>5. QED
        BY <4>3, <4>4 DEF QueueInv
    <3>6. UrlWgAccounting'
      BY <1>0, <2>2, <3>1, <3>2, FiniteGroups DEF UrlWgAccounting, TypeOK
    <3>7. QED
      BY <1>1, <2>5, <2>6, <3>3, <3>5, <3>6
  <2>8. CASE AddURLFull(c)
    <3>1. WgDone /\ UNCHANGED queue /\ fate' = [fate EXCEPT ![r] = "rejected"]
      BY <2>8 DEF AddURLFull
    <3>2. TypeOK'
      BY <1>0, <2>1, <2>3, <3>1, WgDoneStep DEF TypeOK, Fates
    <3>3. QueueInv'
      BY <2>1, <3>1 DEF QueueInv, TypeOK
    <3>4. UrlWgAccounting'
      BY <1>0, <2>2, <2>3, <3>1, WgDoneStep, FiniteGroups DEF UrlWgAccounting, TypeOK
    <3>5. QED
      BY <1>1, <2>5, <2>6, <3>2, <3>3, <3>4
  <2>9. QED
    BY <1>4, <2>7, <2>8
<1>5. QED
  BY <1>2, <1>3, <1>4 DEF AddStep

\* The steps of a worker that neither take nor finish a request: the request
\* stays with the worker and only its position, permits, counters and fate
\* change.
LEMMA ProcessStep ==
    ASSUME IndInv, NEW w \in Workers,
           \/ Acquire(w) \/ AcquireFail(w) \/ RequestCallbacksDone(w)
           \/ FetchError(w) \/ FetchOk(w) \/ ResponseCallbacksDone(w)
           \/ LastCallbacksDone(w) \/ Release(w)
    PROVE  IndInv'
<1> USE DEF IndInv
<1>0. UNCHANGED <<started, stopped, ctx, parentDone, startPc, stopPc, queue, urlWg,
                  job, apc, adding, wait, waitErr, watch>>
  BY DEF Acquire, AcquireFail, RequestCallbacksDone, FetchError, FetchOk,
         ResponseCallbacksDone, LastCallbacksDone, Release, calls, adders, waits
<1>1. PICK l \in WorkerPc :
        /\ Goto(w, l) /\ l \in Busy /\ wpc[w] \in Busy
        /\ \/ fate' = fate /\ (l \in Unfinished => wpc[w] \in Unfinished)
           \/ /\ wpc[w] \in Unfinished /\ l \notin Unfinished
              /\ \E f \in {"ok", "failed"} : fate' = [fate EXCEPT ![job[w]] = f]
  BY DEF Acquire, AcquireFail, RequestCallbacksDone, FetchError, FetchOk,
         ResponseCallbacksDone, LastCallbacksDone, Release, Goto, Busy, WorkerPc,
         Unfinished
<1>2. wpc' = [wpc EXCEPT ![w] = l] /\ job[w] \in Requests
  BY <1>1 DEF Goto, JobInv
<1>3. TypeOK'
  <2>1. holding' \in [Workers -> BOOLEAN]
    BY DEF TypeOK, Acquire, AcquireFail, RequestCallbacksDone, FetchError, FetchOk,
           ResponseCallbacksDone, LastCallbacksDone, Release
  <2>2. requestCount' \in Nat /\ successCount' \in Nat /\ errorCount' \in Nat
    BY DEF TypeOK, Acquire, AcquireFail, RequestCallbacksDone, FetchError, FetchOk,
           ResponseCallbacksDone, LastCallbacksDone, Release, counters
  <2>3. fate' \in [Requests -> Fates]
    BY <1>1, <1>2 DEF TypeOK, Fates
  <2>4. QED
    BY <1>0, <1>2, <2>1, <2>2, <2>3 DEF TypeOK
<1>4. StartInv'
  BY <1>0, <1>1, <1>2 DEF StartInv, TypeOK, Busy
<1>5. AddInv' /\ QueueInv'
  <2>1. CASE fate' = fate
    BY <1>0, <2>1 DEF AddInv, QueueInv
  <2>2. CASE fate' # fate
    <3>1. PICK f \in {"ok", "failed"} :
             wpc[w] \in Unfinished /\ fate' = [fate EXCEPT ![job[w]] = f]
      BY <1>1, <2>2
    <3>2. fate[job[w]] = "working"
      BY <3>1 DEF JobInv
    <3>3. QED
      BY <1>0, <1>2, <3>1, <3>2 DEF AddInv, QueueInv, TypeOK
  <2>3. QED
    BY <2>1, <2>2
<1>6. JobInv'
  <2>1. \A v \in Workers : wpc'[v] \in Busy => job'[v] \in Requests
    BY <1>0, <1>1, <1>2 DEF JobInv, TypeOK
  <2>2. \A u, v \in Workers :
           wpc'[u] \in Unfinished /\ wpc'[v] \in Unfinished /\ job'[u] = job'[v]
              => u = v
    BY <1>0, <1>1, <1>2 DEF JobInv, TypeOK
  <2>3. ASSUME NEW v \in Workers, wpc'[v] \in Unfinished
        PROVE  fate'[job'[v]] = "working"
    <3>1. wpc[v] \in Unfinished /\ job'[v] = job[v]
      BY <1>0, <1>1, <1>2, <2>3 DEF TypeOK
    <3>2. fate[job[v]] = "working" /\ job[v] \in Requests
      BY <3>1 DEF JobInv, Busy, Unfinished, WorkerPc
    <3>3. fate' # fate => job[v] # job[w]
      BY <1>1, <1>2, <2>3, <3>1 DEF JobInv, TypeOK
    <3>4. QED
      BY <1>1, <1>2, <3>1, <3>2, <3>3 DEF TypeOK
  <2>4. QED
    BY <2>1, <2>2, <2>3 DEF JobInv
<1>7. UrlWgAccounting'
  <2>1. BusyWorkers' = BusyWorkers
    BY <1>1, BusyMoves DEF TypeOK
  <2>2. QED
    BY <1>0, <2>1 DEF UrlWgAccounting, Counted
<1>8. NoLeakedPermit'
  BY DEF Acquire, AcquireFail, RequestCallbacksDone, FetchError, FetchOk,
         ResponseCallbacksDone, LastCallbacksDone, Release, Goto, NoLeakedPermit,
         TypeOK, Busy, WorkerPc
<1>9. QED
  BY <1>3, <1>4, <1>5, <1>6, <1>7, <1>8

\* A worker leaves its loop.
LEMMA ExitStep ==
    ASSUME IndInv, NEW w \in Workers, WorkerExit(w)
    PROVE  IndInv'
<1> USE DEF IndInv
<1>0. /\ UNCHANGED <<started, stopped, ctx, parentDone, startPc, stopPc, queue,
                     urlWg, job, holding, apc, adding, wait, waitErr, watch,
                     requestCount, successCount, errorCount, fate>>
      /\ wpc[w] = "idle" /\ Goto(w, "exited") /\ wpc' = [wpc EXCEPT ![w] = "exited"]
  BY DEF WorkerExit, Goto, calls, adders, waits, counters
<1>1. TypeOK'
  BY <1>0 DEF TypeOK, WorkerPc
<1>2. StartInv' /\ AddInv' /\ QueueInv'
  BY <1>0 DEF StartInv, AddInv, QueueInv, TypeOK
<1>3. JobInv'
  BY <1>0 DEF JobInv, TypeOK, Busy, Unfinished
<1>4. UrlWgAccounting'
  <2>1. BusyWorkers' = BusyWorkers
    BY <1>0, BusyMoves DEF TypeOK, Busy, WorkerPc
  <2>2. QED
    BY <1>0, <2>1 DEF UrlWgAccounting, Counted
<1>5. NoLeakedPermit'
  BY <1>0 DEF NoLeakedPermit, TypeOK, Busy
<1>6. QED
  BY <1>1, <1>2, <1>3, <1>4, <1>5

\* What taking the head of the queue leaves behind.
LEMMA TailFacts ==
    ASSUME TypeOK, QueueInv, queue # <<>>, queue' = Tail(queue),
           fate' \in [Requests -> Fates],
           \A r \in Requests : r # Head(queue) => fate'[r] = fate[r]
    PROVE  /\ Head(queue) \in Requests /\ fate[Head(queue)] = "queued"
           /\ queue' \in Seq(Requests) /\ Len(queue') = Len(queue) - 1
           /\ Len(queue) > 0 /\ Len(queue') <= QueueCap
           /\ QueueInv'
<1>1. /\ Head(queue) = queue[1] /\ Head(queue) \in Requests /\ Len(queue) \in Nat
      /\ Len(queue) > 0 /\ queue' \in Seq(Requests)
      /\ Len(queue') = Len(queue) - 1
      /\ \A i \in 1..Len(queue') : queue'[i] = queue[i + 1]
  BY DEF TypeOK
<1>2. fate[Head(queue)] = "queued"
  BY <1>1 DEF QueueInv
<1>3. \A i \in 1..Len(queue') :
         /\ i + 1 \in 1..Len(queue) /\ queue'[i] = queue[i + 1]
         /\ queue[i + 1] # queue[1] /\ queue[i + 1] \in Requests
  BY <1>1 DEF QueueInv, TypeOK
<1>4. \A i \in 1..Len(queue') : fate'[queue'[i]] = "queued"
  BY <1>1, <1>3 DEF QueueInv
<1>5. \A i, j \in 1..Len(queue') : queue'[i] = queue'[j] => i = j
  <2>1. SUFFICES ASSUME NEW i \in 1..Len(queue'), NEW j \in 1..Len(queue'),
                        queue'[i] = queue'[j]
                 PROVE  i = j
    OBVIOUS
  <2>2. i + 1 = j + 1
    BY <1>3, <2>1 DEF QueueInv
  <2>3. QED
    BY <1>1, <2>2
<1>6. Len(queue') <= QueueCap
  BY <1>1, EngineAssumption DEF TypeOK
<1>7. QED
  BY <1>1, <1>2, <1>4, <1>5, <1>6 DEF QueueInv

\* A worker takes the head of the queue.
LEMMA ReceiveStep ==
    ASSUME IndInv, NEW w \in Workers, WorkerReceive(w)
    PROVE  IndInv'
<1> USE DEF IndInv
<1> DEFINE r == Head(queue)
<1>0. /\ UNCHANGED <<started, stopped, ctx, parentDone, startPc, stopPc, urlWg,
                     holding, apc, adding, wait, waitErr, watch, requestCount,
                     successCount, errorCount>>
      /\ wpc[w] = "idle" /\ Goto(w, "acquire")
      /\ wpc' = [wpc EXCEPT ![w] = "acquire"]
      /\ queue # <<>> /\ queue' = Tail(queue) /\ job' = [job EXCEPT ![w] = r]
      /\ fate' = [fate EXCEPT ![r] = "working"]
  BY DEF WorkerReceive, Goto, calls, adders, waits, counters
<1>1. /\ fate' \in [Requests -> Fates]
      /\ \A q \in Requests : q # r => fate'[q] = fate[q]
  BY <1>0 DEF TypeOK, Fates
<1>2. /\ r \in Requests /\ fate[r] = "queued"
      /\ queue' \in Seq(Requests) /\ Len(queue') = Len(queue) - 1
      /\ Len(queue') <= QueueCap /\ QueueInv'
  BY <1>0, <1>1, TailFacts
<1>3. TypeOK'
  BY <1>0, <1>1, <1>2 DEF TypeOK, WorkerPc
<1>4. StartInv'
  BY <1>0 DEF StartInv, TypeOK
<1>5. AddInv'
  BY <1>0, <1>1, <1>2 DEF AddInv, TypeOK
<1>6. JobInv'
  <2>1. \A v \in Workers : v # w =>
           /\ wpc'[v] = wpc[v] /\ job'[v] = job[v]
           /\ wpc[v] \in Unfinished => job[v] \in Requests /\ job[v] # r
    BY <1>0, <1>2 DEF JobInv, TypeOK, Busy, Unfinished, WorkerPc
  <2>2. wpc'[w] = "acquire" /\ job'[w] = r /\ fate'[r] = "working"
    BY <1>0, <1>2 DEF TypeOK
  <2>3. \A v \in Workers : wpc'[v] \in Busy => job'[v] \in Requests
    BY <1>2, <2>1, <2>2 DEF JobInv
  <2>4. \A v \in Workers : wpc'[v] \in Unfinished => fate'[job'[v]] = "working"
    BY <1>1, <2>1, <2>2 DEF JobInv
  <2>5. \A u, v \in Workers :
           wpc'[u] \in Unfinished /\ wpc'[v] \in Unfinished /\ job'[u] = job'[v]
              => u = v
    BY <2>1, <2>2 DEF JobInv
  <2>6. QED
    BY <2>3, <2>4, <2>5 DEF JobInv
<1>7. UrlWgAccounting'
  <2>1. Cardinality(BusyWorkers') = Cardinality(BusyWorkers) + 1
    BY <1>0, BusyMoves DEF TypeOK, Busy, WorkerPc
  <2>2. Counted' = Counted
    BY <1>0 DEF Counted
  <2>3. QED
    BY <1>0, <1>2, <2>1, <2>2, FiniteGroups DEF UrlWgAccounting, TypeOK
<1>8. NoLeakedPermit'
  BY <1>0 DEF NoLeakedPermit, TypeOK, Busy
<1>9. QED
  BY <1>2, <1>3, <1>4, <1>5, <1>6, <1>7, <1>8

\* A worker reports its request done.
LEMMA DoneStep ==
    ASSUME IndInv, NEW w \in Workers, WorkerDone(w)
    PROVE  IndInv'
<1> USE DEF IndInv
<1>0. /\ UNCHANGED <<started, stopped, ctx, parentDone, startPc, stopPc, queue,
                     holding, apc, adding, wait, waitErr, requestCount,
                     successCount, errorCount, fate>>
      /\ wpc[w] = "done" /\ Goto(w, "idle") /\ wpc' = [wpc EXCEPT ![w] = "idle"]
      /\ job' = [job EXCEPT ![w] = NoRequest] /\ WgDone
  BY DEF WorkerDone, Goto, calls, adders, waits, counters
<1>1. /\ Cardinality(BusyWorkers') = Cardinality(BusyWorkers) - 1
      /\ Cardinality(BusyWorkers) > 0
  BY <1>0, BusyMoves DEF TypeOK, Busy, WorkerPc
<1>2. urlWg > 0
  BY <1>1, FiniteGroups DEF UrlWgAccounting, TypeOK
<1>3. TypeOK'
  BY <1>0, <1>2, WgDoneStep DEF TypeOK, WorkerPc
<1>4. StartInv' /\ AddInv' /\ QueueInv'
  <2>1. StartInv'
    BY <1>0 DEF StartInv, TypeOK
  <2>2. AddInv' /\ QueueInv'
    BY <1>0 DEF AddInv, QueueInv
  <2>3. QED
    BY <2>1, <2>2
<1>5. JobInv'
  BY <1>0 DEF JobInv, TypeOK, Busy, Unfinished
<1>6. UrlWgAccounting'
  <2>1. Counted' = Counted
    BY <1>0 DEF Counted
  <2>2. QED
    BY <1>0, <1>1, <1>2, <2>1, WgDoneStep, FiniteGroups DEF UrlWgAccounting, TypeOK
<1>7. NoLeakedPermit'
  BY <1>0 DEF NoLeakedPermit, TypeOK, Busy
<1>8. QED
  BY <1>3, <1>4, <1>5, <1>6, <1>7

\* The steps of Wait and of its watcher, other than draining a request.
LEMMA WaitQuietStep ==
    ASSUME IndInv, NEW x \in Waiters,
           \/ WaitCall(x) \/ WatchStep(x) \/ WaitAllDone(x) \/ WaitCancelled(x)
           \/ WaitDrained(x) \/ WaitJoin(x)
    PROVE  IndInv'
<1> USE DEF IndInv
<1>0. /\ UNCHANGED <<started, stopped, parentDone, startPc, stopPc, queue, urlWg>>
      /\ UNCHANGED <<wpc, job, holding, apc, adding>>
      /\ UNCHANGED <<requestCount, successCount, errorCount, fate>>
  BY DEF WaitCall, WatchStep, WatchWait, WatchWake, WaitAllDone, WaitCancelled,
         WaitDrained, WaitJoin, calls, workers, adders, counters
<1>1. TypeOK'
  <2>1. /\ ctx' \in {"nil", "live", "done"}
        /\ wait' \in [Waiters -> {"idle", "select", "drain", "join", "returned",
                                  "panic"}]
        /\ watch' \in [Waiters -> {"none", "entered", "asleep", "woken", "closed",
                                   "panic"}]
    BY DEF TypeOK, WaitCall, WatchStep, WatchWait, WatchWake, WaitAllDone,
           WaitCancelled, WaitDrained, WaitJoin, calls, waits
  <2>2. waitErr' \in [Waiters -> BOOLEAN]
    BY DEF TypeOK, WaitCall, WatchStep, WatchWait, WatchWake, WaitAllDone,
           WaitCancelled, WaitDrained, WaitJoin, waits
  <2>3. QED
    BY <1>0, <2>1, <2>2 DEF TypeOK
<1>2. StartInv' /\ NoLeakedPermit'
  BY <1>0 DEF StartInv, NoLeakedPermit
<1>3. AddInv' /\ QueueInv' /\ JobInv'
  BY <1>0 DEF AddInv, QueueInv, JobInv
<1>4. UrlWgAccounting'
  BY <1>0 DEF UrlWgAccounting, BusyWorkers, Counted
<1>5. QED
  BY <1>1, <1>2, <1>3, <1>4

\* Wait drains a request from the queue.
LEMMA DrainStep ==
    ASSUME IndInv, NEW x \in Waiters, WaitDrain(x)
    PROVE  IndInv'
<1> USE DEF IndInv
<1> DEFINE r == Head(queue)
<1>0. /\ UNCHANGED <<started, stopped, ctx, parentDone, startPc, stopPc>>
      /\ UNCHANGED <<wpc, job, holding, apc, adding, wait, waitErr>>
      /\ UNCHANGED <<requestCount, successCount, errorCount>>
      /\ queue # <<>> /\ queue' = Tail(queue)
      /\ fate' = [fate EXCEPT ![r] = "drained"] /\ WgDone
  BY DEF WaitDrain, calls, workers, adders, waits, counters
<1>1. /\ fate' \in [Requests -> Fates]
      /\ \A q \in Requests : q # r => fate'[q] = fate[q]
  BY <1>0 DEF TypeOK, Fates
<1>2. /\ r \in Requests /\ fate[r] = "queued" /\ Len(queue) > 0
      /\ queue' \in Seq(Requests) /\ Len(queue') = Len(queue) - 1
      /\ Len(queue') <= QueueCap /\ QueueInv'
  BY <1>0, <1>1, TailFacts
<1>3. urlWg > 0
  BY <1>2, FiniteGroups DEF UrlWgAccounting, TypeOK
<1>4. TypeOK'
  BY <1>0, <1>1, <1>2, <1>3, WgDoneStep DEF TypeOK
<1>5. StartInv' /\ NoLeakedPermit'
  BY <1>0 DEF StartInv, NoLeakedPermit
<1>6. AddInv'
  BY <1>0, <1>1, <1>2 DEF AddInv, TypeOK
<1>7. JobInv'
  BY <1>0, <1>1, <1>2 DEF JobInv, TypeOK, Busy, Unfinished, WorkerPc
<1>8. UrlWgAccounting'
  <2>1. BusyWorkers' = BusyWorkers /\ Counted' = Counted
    BY <1>0 DEF BusyWorkers, Counted
  <2>2. QED
    BY <1>0, <1>2, <1>3, <2>1, WgDoneStep, FiniteGroups DEF UrlWgAccounting, TypeOK
<1>9. QED
  BY <1>2, <1>4, <1>5, <1>6, <1>7, <1>8

\* Every step of the engine, and stuttering, preserves the invariant.
LEMMA IndInvNext == IndInv /\ [Next]_vars => IndInv'
<1> SUFFICES ASSUME IndInv, [Next]_vars PROVE IndInv'
  OBVIOUS
<1>1. CASE UNCHANGED vars
  <2>1. /\ UNCHANGED <<started, stopped, ctx, parentDone, startPc, stopPc, queue>>
        /\ UNCHANGED <<urlWg, wpc, job, holding, apc, adding, wait, watch>>
        /\ UNCHANGED <<waitErr, requestCount, successCount, errorCount, fate>>
    BY <1>1 DEF vars
  <2>2. TypeOK'
    BY <2>1 DEF TypeOK, IndInv
  <2>3. StartInv' /\ NoLeakedPermit'
    BY <2>1 DEF StartInv, NoLeakedPermit, IndInv
  <2>4. AddInv' /\ QueueInv' /\ JobInv'
    BY <2>1 DEF AddInv, QueueInv, JobInv, IndInv
  <2>5. UrlWgAccounting'
    BY <2>1 DEF UrlWgAccounting, BusyWorkers, Counted, IndInv
  <2>6. QED
    BY <2>2, <2>3, <2>4, <2>5 DEF IndInv
<1>2. CASE StartSwap \/ StartRun \/ StopSwap \/ StopCancel \/ ParentCancel
  BY <1>2, CallStep
<1>3. ASSUME NEW c \in Callers, AddURLCheck(c) \/ AddStep(c)
      PROVE  IndInv'
  BY <1>3, AddStepInv
<1>4. ASSUME NEW w \in Workers, WorkerStep(w)
      PROVE  IndInv'
  BY <1>4, ExitStep, ReceiveStep, ProcessStep, DoneStep DEF WorkerStep
<1>5. ASSUME NEW x \in Waiters, WaitCall(x) \/ WatchStep(x) \/ WaitStep(x)
      PROVE  IndInv'
  BY <1>5, WaitQuietStep, DrainStep DEF WaitStep
<1>6. QED
  BY <1>1, <1>2, <1>3, <1>4, <1>5 DEF Next

-----------------------------------------------------------------------------
(* The theorems *)

\* In every reachable state the inductive invariant holds.
THEOREM Invariance == Spec => []IndInv
<1>1. QED
  BY IndInvInit, IndInvNext, PTL DEF Spec

\* The state of the engine is well typed; in particular the queue never
\* exceeds its capacity and urlWg never becomes negative, which would panic.
THEOREM TypeCorrect == Spec => []TypeOK
<1>1. IndInv => TypeOK
  BY DEF IndInv
<1>2. QED
  BY <1>1, Invariance, PTL

\* The WaitGroup that Wait relies on counts exactly the requests owed a
\* result, whatever AddURL, the workers and Wait's drain do concurrently.
THEOREM UrlWgCorrect == Spec => []UrlWgAccounting
<1>1. IndInv => UrlWgAccounting
  BY DEF IndInv
<1>2. QED
  BY <1>1, Invariance, PTL

\* No path of processRequest leaves with a concurrency permit, and none uses
\* the fetcher without one.
THEOREM PermitsReturned == Spec => []NoLeakedPermit
<1>1. IndInv => NoLeakedPermit
  BY DEF IndInv
<1>2. QED
  BY <1>1, Invariance, PTL

\* A step changes the fate of a request only while it is not final.
LEMMA FateStep ==
    ASSUME IndInv, [Next]_vars, NEW r \in Requests, fate[r] \in Final
    PROVE  fate'[r] = fate[r]
<1> USE DEF IndInv
<1>1. CASE UNCHANGED fate
  BY <1>1
<1>2. ASSUME NEW c \in Callers, AddURLCheck(c)
      PROVE  fate'[r] = fate[r]
  BY <1>2 DEF AddURLCheck, TypeOK, Final
<1>3. ASSUME NEW c \in Callers, AddURLSend(c) \/ AddURLFull(c)
      PROVE  fate'[r] = fate[r]
  BY <1>3 DEF AddURLSend, AddURLFull, AddInv, TypeOK, Final
<1>4. ASSUME NEW w \in Workers, WorkerReceive(w)
      PROVE  fate'[r] = fate[r]
  <2>1. queue # <<>> /\ fate' = [fate EXCEPT ![Head(queue)] = "working"]
    BY <1>4 DEF WorkerReceive
  <2>2. Head(queue) = queue[1] /\ 1 \in 1..Len(queue)
    BY <2>1 DEF TypeOK
  <2>3. QED
    BY <2>1, <2>2 DEF QueueInv, TypeOK, Final
<1>5. ASSUME NEW w \in Workers, AcquireFail(w) \/ FetchError(w) \/ FetchOk(w)
      PROVE  fate'[r] = fate[r]
  BY <1>5 DEF AcquireFail, FetchError, FetchOk, JobInv, Unfinished, TypeOK, Final
<1>6. ASSUME NEW x \in Waiters, WaitDrain(x)
      PROVE  fate'[r] = fate[r]
  <2>1. queue # <<>> /\ fate' = [fate EXCEPT ![Head(queue)] = "drained"]
    BY <1>6 DEF WaitDrain
  <2>2. Head(queue) = queue[1] /\ 1 \in 1..Len(queue)
    BY <2>1 DEF TypeOK
  <2>3. QED
    BY <2>1, <2>2 DEF QueueInv, TypeOK, Final
<1>7. ASSUME Next PROVE fate'[r] = fate[r]
  <2>1. CASE StartSwap \/ StartRun \/ StopSwap \/ StopCancel \/ ParentCancel
    BY <2>1, <1>1 DEF StartSwap, StartRun, StopSwap, StopCancel, ParentCancel
  <2>2. ASSUME NEW c \in Callers, AddURLCount(c)
        PROVE  UNCHANGED fate
    BY <2>2 DEF AddURLCount
  <2>3. ASSUME NEW w \in Workers,
               \/ WorkerExit(w) \/ Acquire(w) \/ RequestCallbacksDone(w)
               \/ ResponseCallbacksDone(w) \/ LastCallbacksDone(w) \/ Release(w)
               \/ WorkerDone(w)
        PROVE  UNCHANGED fate
    BY <2>3 DEF WorkerExit, Acquire, RequestCallbacksDone, ResponseCallbacksDone,
                LastCallbacksDone, Release, WorkerDone
  <2>4. ASSUME NEW x \in Waiters,
               \/ WaitCall(x) \/ WatchStep(x) \/ WaitAllDone(x)
               \/ WaitCancelled(x) \/ WaitDrained(x) \/ WaitJoin(x)
        PROVE  UNCHANGED fate
    BY <2>4 DEF WaitCall, WatchStep, WatchWait, WatchWake, WaitAllDone,
                WaitCancelled, WaitDrained, WaitJoin
  <2>5. QED
    BY <1>7, <1>1, <1>2, <1>3, <1>4, <1>5, <1>6, <2>1, <2>2, <2>3, <2>4
    DEF Next, AddStep, WorkerStep, WaitStep
<1>8. CASE UNCHANGED vars
  BY <1>8, <1>1 DEF vars
<1>9. QED
  BY <1>7, <1>8

\* A drained request is never processed, a processed one never taken again
\* and a rejected one never queued, for any number of goroutines.
THEOREM HandledOnceCorrect == Spec => HandledOnce
<1>1. IndInv /\ [Next]_vars =>
         [\A r \in Requests : fate[r] \in Final => fate'[r] = fate[r]]_vars
  BY FateStep
<1>2. QED
  BY <1>1, Invariance, PTL DEF Spec, HandledOnce

-----------------------------------------------------------------------------
(* Conservation of requests *)

\* The state knows where each request is that is not final: a queued one is in
\* the queue, one being worked on is with a worker that has not finished it; a
\* busy worker's request is its own, and has not left it for another place.
PlaceInv ==
    /\ \A r \in Requests : fate[r] = "queued" =>
          \E i \in 1..Len(queue) : queue[i] = r
    /\ \A r \in Requests : fate[r] = "working" =>
          \E w \in Workers : wpc[w] \in Unfinished /\ job[w] = r
    /\ \A w \in Workers : wpc[w] \in Busy =>
          fate[job[w]] \in {"working", "ok", "failed"}
    /\ \A v, w \in Workers :
          wpc[v] \in Busy /\ wpc[w] \in Busy /\ job[v] = job[w] => v = w

CountInv ==
    /\ successCount = Cardinality(WithFate({"ok"}))
    /\ errorCount = Cardinality(WithFate({"failed"}))

ConservedInv == PlaceInv /\ CountInv

\* How the number of requests of one fate changes with the fate of one.
LEMMA FateMoves ==
    ASSUME fate \in [Requests -> Fates], NEW r \in Requests, NEW f \in Fates,
           fate' = [fate EXCEPT ![r] = f], NEW g \in Fates, fate[r] # g
    PROVE  /\ f = g => Cardinality(WithFate({g})') = Cardinality(WithFate({g})) + 1
           /\ f # g => WithFate({g})' = WithFate({g})
<1>1. IsFiniteSet(WithFate({g}))
  BY EngineAssumption, FS_Subset DEF WithFate
<1>2. CASE f = g
  <2>1. WithFate({g})' = WithFate({g}) \cup {r} /\ r \notin WithFate({g})
    BY <1>2 DEF WithFate
  <2>2. Cardinality(WithFate({g}) \cup {r}) = Cardinality(WithFate({g})) + 1
    BY <1>1, <2>1, FS_AddElement
  <2>3. QED
    BY <1>2, <2>1, <2>2
<1>3. CASE f # g
  <2>1. WithFate({g})' = WithFate({g})
    BY <1>3 DEF WithFate
  <2>2. QED
    BY <1>3, <2>1
<1>4. QED
  BY <1>2, <1>3

\* The counters stay right while no request succeeds or fails.
LEMMA CountQuiet ==
    ASSUME IndInv, CountInv, UNCHANGED <<successCount, errorCount>>,
           \/ UNCHANGED fate
           \/ \E r \in Requests, f \in Fates \ {"ok", "failed"} :
                 fate[r] \notin {"ok", "failed"} /\ fate' = [fate EXCEPT ![r] = f]
    PROVE  CountInv'
<1>1. CASE UNCHANGED fate
  BY <1>1 DEF CountInv, WithFate
<1>2. ASSUME NEW r \in Requests, NEW f \in Fates \ {"ok", "failed"},
             fate[r] \notin {"ok", "failed"}, fate' = [fate EXCEPT ![r] = f]
      PROVE  CountInv'
  <2>1. fate \in [Requests -> Fates] /\ "ok" \in Fates /\ "failed" \in Fates
    BY DEF IndInv, TypeOK, Fates
  <2>2. /\ WithFate({"ok"})' = WithFate({"ok"})
        /\ WithFate({"failed"})' = WithFate({"failed"})
    BY <1>2, <2>1, FateMoves
  <2>3. QED
    BY <2>2 DEF CountInv
<1>3. QED
  BY <1>1, <1>2

\* A request stays where it is while the queue, the jobs and the fates do, and
\* workers neither take nor finish one.
LEMMA PlaceQuiet ==
    ASSUME IndInv, PlaceInv, UNCHANGED <<queue, fate>>,
           \A w \in Workers : /\ wpc'[w] \in Busy => wpc[w] \in Busy /\ job'[w] = job[w]
                              /\ wpc[w] \in Unfinished =>
                                    wpc'[w] \in Unfinished /\ job'[w] = job[w]
    PROVE  PlaceInv'
<1>1. \A r \in Requests : fate'[r] = "queued" => \E i \in 1..Len(queue') : queue'[i] = r
  BY DEF PlaceInv
<1>2. \A r \in Requests : fate'[r] = "working" =>
         \E w \in Workers : wpc'[w] \in Unfinished /\ job'[w] = r
  BY DEF PlaceInv
<1>3. \A w \in Workers : wpc'[w] \in Busy => fate'[job'[w]] \in {"working", "ok", "failed"}
  BY DEF PlaceInv
<1>4. \A v, w \in Workers :
         wpc'[v] \in Busy /\ wpc'[w] \in Busy /\ job'[v] = job'[w] => v = w
  BY DEF PlaceInv
<1>5. QED
  BY <1>1, <1>2, <1>3, <1>4 DEF PlaceInv

\* Nothing is counted or placed at first.
LEMMA ConservedInit == Init => ConservedInv
<1> SUFFICES ASSUME Init PROVE ConservedInv
  OBVIOUS
<1>1. PlaceInv
  BY DEF Init, PlaceInv, Busy
<1>2. WithFate({"ok"}) = {} /\ WithFate({"failed"}) = {}
  BY DEF Init, WithFate
<1>3. CountInv
  BY <1>2, FS_EmptySet DEF Init, CountInv
<1>4. QED
  BY <1>1, <1>3 DEF ConservedInv

\* Start, Stop, cancellation, a worker's exit and the steps of Wait but for its
\* drain.
LEMMA ConservedQuiet ==
    ASSUME IndInv, ConservedInv,
           \/ StartSwap \/ StartRun \/ StopSwap \/ StopCancel \/ ParentCancel
           \/ \E c \in Callers : AddURLCount(c)
           \/ \E w \in Workers : WorkerExit(w) \/ WorkerDone(w)
           \/ \E x \in Waiters : \/ WaitCall(x) \/ WatchStep(x) \/ WaitAllDone(x)
                                 \/ WaitCancelled(x) \/ WaitDrained(x) \/ WaitJoin(x)
           \/ UNCHANGED vars
    PROVE  ConservedInv'
<1>1. UNCHANGED <<queue, fate, successCount, errorCount>>
  BY DEF StartSwap, StartRun, StopSwap, StopCancel, ParentCancel, AddURLCount,
         WorkerExit, WorkerDone, WaitCall, WatchStep, WatchWait, WatchWake,
         WaitAllDone, WaitCancelled, WaitDrained, WaitJoin, counters, vars
<1>2. \A w \in Workers : /\ wpc'[w] \in Busy => wpc[w] \in Busy /\ job'[w] = job[w]
                         /\ wpc[w] \in Unfinished =>
                               wpc'[w] \in Unfinished /\ job'[w] = job[w]
  <2>1. CASE UNCHANGED <<wpc, job>>
    BY <2>1 DEF Busy, Unfinished, WorkerPc
  <2>2. CASE StartRun
    BY <2>2 DEF StartRun, IndInv, StartInv, Busy, Unfinished
  <2>3. ASSUME NEW w \in Workers, WorkerExit(w) \/ WorkerDone(w)
        PROVE  \A v \in Workers : /\ wpc'[v] \in Busy => wpc[v] \in Busy /\ job'[v] = job[v]
                                  /\ wpc[v] \in Unfinished =>
                                        wpc'[v] \in Unfinished /\ job'[v] = job[v]
    BY <2>3 DEF WorkerExit, WorkerDone, Goto, IndInv, TypeOK, Busy, Unfinished
  <2>4. QED
    BY <2>1, <2>2, <2>3
    DEF StartSwap, StopSwap, StopCancel, ParentCancel, AddURLCount, WaitCall, WatchStep,
        WatchWait, WatchWake, WaitAllDone, WaitCancelled, WaitDrained, WaitJoin, workers, vars
<1>3. QED
  BY <1>1, <1>2, PlaceQuiet, CountQuiet DEF ConservedInv

\* AddURL takes a fresh request, and queues or rejects it.
LEMMA ConservedAdd ==
    ASSUME IndInv, ConservedInv, NEW c \in Callers,
           AddURLCheck(c) \/ AddURLSend(c) \/ AddURLFull(c)
    PROVE  ConservedInv'
<1> USE DEF IndInv, ConservedInv
<1>1. UNCHANGED <<wpc, job, successCount, errorCount>>
  BY DEF AddURLCheck, AddURLSend, AddURLFull, workers, counters
<1>2. PICK r \in Requests, f \in {"adding", "queued", "rejected"} :
        /\ fate[r] \in {"fresh", "adding"} /\ fate' = [fate EXCEPT ![r] = f]
        /\ IF f = "queued" THEN queue' = Append(queue, r) ELSE queue' = queue
  <2>1. CASE AddURLCheck(c)
    BY <2>1 DEF AddURLCheck
  <2>2. CASE AddURLSend(c) \/ AddURLFull(c)
    <3>1. adding[c] \in Requests /\ fate[adding[c]] = "adding"
      BY <2>2 DEF AddURLSend, AddURLFull, AddInv
    <3>2. QED
      BY <2>2, <3>1 DEF AddURLSend, AddURLFull
  <2>3. QED
    BY <2>1, <2>2
<1>3. f \in Fates \ {"ok", "failed"} /\ fate[r] \notin {"ok", "failed"}
  BY <1>2 DEF Fates
<1>4. CountInv'
  BY <1>1, <1>2, <1>3, CountQuiet
<1>5. /\ queue \in Seq(Requests) /\ fate \in [Requests -> Fates]
      /\ \A q \in Requests : fate'[q] = IF q = r THEN f ELSE fate[q]
  BY <1>2 DEF TypeOK
<1>6. /\ \A i \in 1..Len(queue) : i \in 1..Len(queue') /\ queue'[i] = queue[i]
      /\ f = "queued" => \E i \in 1..Len(queue') : queue'[i] = r
  <2>1. CASE f = "queued"
    <3>1. /\ Len(queue') = Len(queue) + 1 /\ queue'[Len(queue) + 1] = r
          /\ \A i \in 1..Len(queue) : queue'[i] = queue[i]
      BY <1>2, <1>5, <2>1
    <3>2. Len(queue) \in Nat
      BY <1>5
    <3>3. QED
      BY <3>1, <3>2
  <2>2. CASE f # "queued"
    BY <1>2, <2>2
  <2>3. QED
    BY <2>1, <2>2
<1>7. PlaceInv'
  <2>1. ASSUME NEW q \in Requests, fate'[q] = "queued"
        PROVE  \E i \in 1..Len(queue') : queue'[i] = q
    <3>1. CASE q = r
      BY <1>5, <1>6, <2>1, <3>1
    <3>2. CASE q # r
      <4>1. PICK i \in 1..Len(queue) : queue[i] = q
        BY <1>5, <2>1, <3>2 DEF PlaceInv
      <4>2. QED
        BY <1>6, <4>1
    <3>3. QED
      BY <3>1, <3>2
  <2>2. \A q \in Requests : fate'[q] = "working" => q # r /\ fate[q] = "working"
    BY <1>2, <1>5
  <2>3. \A w \in Workers : wpc[w] \in Busy => job[w] \in Requests /\ job[w] # r
    BY <1>2 DEF JobInv, PlaceInv
  <2>4. \A w \in Workers : wpc'[w] \in Busy =>
           fate'[job'[w]] \in {"working", "ok", "failed"}
    BY <1>1, <1>5, <2>3 DEF PlaceInv
  <2>5. QED
    BY <1>1, <2>1, <2>2, <2>4 DEF PlaceInv
<1>8. QED
  BY <1>4, <1>7

\* The head of the queue leaves it, for a worker or for good.
LEMMA ConservedTake ==
    ASSUME IndInv, ConservedInv, queue # <<>>, queue' = Tail(queue),
           NEW f \in {"working", "drained"}, fate' = [fate EXCEPT ![Head(queue)] = f],
           UNCHANGED <<successCount, errorCount>>,
           \/ f = "drained" /\ UNCHANGED <<wpc, job>>
           \/ \E w \in Workers : /\ f = "working" /\ wpc[w] = "idle"
                                 /\ wpc' = [wpc EXCEPT ![w] = "acquire"]
                                 /\ job' = [job EXCEPT ![w] = Head(queue)]
    PROVE  ConservedInv'
<1> USE DEF IndInv, ConservedInv
<1> DEFINE r == Head(queue)
<1>1. /\ queue \in Seq(Requests) /\ Len(queue) > 0 /\ Len(queue) \in Nat
      /\ r = queue[1] /\ r \in Requests /\ fate[r] = "queued"
      /\ Len(queue') = Len(queue) - 1
      /\ \A i \in 1..Len(queue') : queue'[i] = queue[i + 1]
  BY DEF TypeOK, QueueInv
<1>2. CountInv'
  BY <1>1, CountQuiet DEF Fates
<1>3. \A q \in Requests : fate'[q] = IF q = r THEN f ELSE fate[q]
  BY <1>1 DEF TypeOK
<1>4. ASSUME NEW q \in Requests, fate'[q] = "queued"
      PROVE  \E i \in 1..Len(queue') : queue'[i] = q
  <2>1. q # r /\ fate[q] = "queued"
    BY <1>3, <1>4
  <2>2. PICK i \in 1..Len(queue) : queue[i] = q
    BY <2>1 DEF PlaceInv
  <2>3. i # 1 /\ i - 1 \in 1..Len(queue')
    BY <1>1, <2>1, <2>2
  <2>4. queue'[i - 1] = q
    BY <1>1, <2>2, <2>3
  <2>5. QED
    BY <2>3, <2>4
<1>5. \A w \in Workers : wpc[w] \in Busy => job[w] \in Requests /\ job[w] # r
  BY <1>1 DEF JobInv, PlaceInv
<1>6. CASE f = "drained" /\ UNCHANGED <<wpc, job>>
  <2>1. \A q \in Requests : fate'[q] = "working" => fate[q] = "working"
    BY <1>3, <1>6
  <2>2. \A w \in Workers : wpc'[w] \in Busy =>
           fate'[job'[w]] \in {"working", "ok", "failed"}
    BY <1>3, <1>5, <1>6 DEF PlaceInv
  <2>3. PlaceInv'
    BY <1>4, <1>6, <2>1, <2>2 DEF PlaceInv
  <2>4. QED
    BY <1>2, <2>3
<1>7. ASSUME NEW w \in Workers, f = "working", wpc[w] = "idle",
             wpc' = [wpc EXCEPT ![w] = "acquire"], job' = [job EXCEPT ![w] = r]
      PROVE  ConservedInv'
  <2>1. /\ wpc'[w] = "acquire" /\ job'[w] = r
        /\ \A v \in Workers : v # w => wpc'[v] = wpc[v] /\ job'[v] = job[v]
    BY <1>7 DEF TypeOK
  <2>2. ASSUME NEW q \in Requests, fate'[q] = "working"
        PROVE  \E v \in Workers : wpc'[v] \in Unfinished /\ job'[v] = q
    <3>1. CASE q = r
      BY <2>1, <3>1 DEF Unfinished
    <3>2. CASE q # r
      <4>1. PICK v \in Workers : wpc[v] \in Unfinished /\ job[v] = q
        BY <1>3, <2>2, <3>2 DEF PlaceInv
      <4>2. v # w
        BY <1>7, <4>1 DEF Unfinished
      <4>3. QED
        BY <2>1, <4>1, <4>2
    <3>3. QED
      BY <3>1, <3>2
  <2>3. \A v \in Workers : wpc'[v] \in Busy =>
           fate'[job'[v]] \in {"working", "ok", "failed"}
    BY <1>1, <1>3, <1>5, <1>7, <2>1 DEF PlaceInv
  <2>4. \A u, v \in Workers :
           wpc'[u] \in Busy /\ wpc'[v] \in Busy /\ job'[u] = job'[v] => u = v
    BY <1>5, <2>1 DEF PlaceInv
  <2>5. PlaceInv'
    BY <1>4, <2>2, <2>3, <2>4 DEF PlaceInv
  <2>6. QED
    BY <1>2, <2>5
<1>8. QED
  BY <1>6, <1>7

\* A worker processes its request, and counts how it ends.
LEMMA ConservedProcess ==
    ASSUME IndInv, ConservedInv, NEW w \in Workers,
           \/ Acquire(w) \/ AcquireFail(w) \/ RequestCallbacksDone(w)
           \/ FetchError(w) \/ FetchOk(w) \/ ResponseCallbacksDone(w)
           \/ LastCallbacksDone(w) \/ Release(w)
    PROVE  ConservedInv'
<1> USE DEF IndInv, ConservedInv
<1>1. UNCHANGED <<queue, job>>
  BY DEF Acquire, AcquireFail, RequestCallbacksDone, FetchError, FetchOk,
         ResponseCallbacksDone, LastCallbacksDone, Release
<1>2. CASE \/ Acquire(w) \/ RequestCallbacksDone(w) \/ ResponseCallbacksDone(w)
           \/ LastCallbacksDone(w) \/ Release(w)
  <2>1. UNCHANGED <<fate, successCount, errorCount>>
    BY <1>2 DEF Acquire, RequestCallbacksDone, ResponseCallbacksDone,
                LastCallbacksDone, Release, counters
  <2>2. \A v \in Workers : /\ wpc'[v] \in Busy => wpc[v] \in Busy
                           /\ wpc[v] \in Unfinished => wpc'[v] \in Unfinished
    BY <1>2 DEF Acquire, RequestCallbacksDone, ResponseCallbacksDone, TypeOK,
                LastCallbacksDone, Release, Goto, Busy, Unfinished, WorkerPc
  <2>3. QED
    BY <1>1, <2>1, <2>2, PlaceQuiet, CountQuiet
<1>3. CASE AcquireFail(w) \/ FetchError(w) \/ FetchOk(w)
  <2> DEFINE r == job[w]
  <2>1. PICK f \in {"ok", "failed"}, l \in {"onError", "onResponse"} :
          /\ wpc[w] \in Unfinished /\ wpc' = [wpc EXCEPT ![w] = l]
          /\ fate' = [fate EXCEPT ![r] = f]
          /\ successCount' = successCount + (IF f = "ok" THEN 1 ELSE 0)
          /\ errorCount' = errorCount + (IF f = "failed" THEN 1 ELSE 0)
    <3>1. successCount \in Nat /\ errorCount \in Nat
      BY DEF TypeOK
    <3>2. CASE AcquireFail(w)
      BY <3>1, <3>2 DEF AcquireFail, Goto, Unfinished
    <3>3. CASE FetchError(w)
      BY <3>1, <3>3 DEF FetchError, Goto, Unfinished
    <3>4. CASE FetchOk(w)
      BY <3>1, <3>4 DEF FetchOk, Goto, Unfinished
    <3>5. QED
      BY <1>3, <3>2, <3>3, <3>4
  <2>2. r \in Requests /\ fate[r] = "working"
    BY <2>1 DEF JobInv, Busy, Unfinished, WorkerPc
  <2>3. \A q \in Requests : fate'[q] = IF q = r THEN f ELSE fate[q]
    BY <2>1, <2>2 DEF TypeOK
  <2>4. /\ wpc'[w] = l /\ wpc[w] \in Busy
        /\ \A v \in Workers : v # w => wpc'[v] = wpc[v]
    BY <2>1 DEF TypeOK, Busy, Unfinished, WorkerPc
  <2>5. CountInv'
    <3>1. /\ fate \in [Requests -> Fates] /\ {"ok", "failed"} \subseteq Fates
          /\ successCount \in Nat /\ errorCount \in Nat
      BY DEF TypeOK, Fates
    <3>2. CASE f = "ok"
      <4>1. /\ Cardinality(WithFate({"ok"})') = Cardinality(WithFate({"ok"})) + 1
            /\ WithFate({"failed"})' = WithFate({"failed"})
        BY <2>1, <2>2, <3>1, <3>2, FateMoves
      <4>2. QED
        BY <2>1, <3>1, <3>2, <4>1 DEF CountInv
    <3>3. CASE f = "failed"
      <4>1. /\ Cardinality(WithFate({"failed"})') = Cardinality(WithFate({"failed"})) + 1
            /\ WithFate({"ok"})' = WithFate({"ok"})
        BY <2>1, <2>2, <3>1, <3>3, FateMoves
      <4>2. QED
        BY <2>1, <3>1, <3>3, <4>1 DEF CountInv
    <3>4. QED
      BY <3>2, <3>3
  <2>6. \A q \in Requests : fate'[q] = "queued" => \E i \in 1..Len(queue') : queue'[i] = q
    BY <1>1, <2>2, <2>3 DEF PlaceInv
  <2>7. ASSUME NEW q \in Requests, fate'[q] = "working"
        PROVE  \E v \in Workers : wpc'[v] \in Unfinished /\ job'[v] = q
    <3>1. q # r /\ fate[q] = "working"
      BY <2>3, <2>7
    <3>2. PICK v \in Workers : wpc[v] \in Unfinished /\ job[v] = q
      BY <3>1 DEF PlaceInv
    <3>3. QED
      BY <1>1, <2>4, <3>1, <3>2
  <2>8. \A v \in Workers : wpc'[v] \in Busy => wpc[v] \in Busy
    BY <2>4
  <2>9. \A v \in Workers : wpc'[v] \in Busy =>
           fate'[job'[v]] \in {"working", "ok", "failed"}
    BY <1>1, <2>3, <2>8 DEF PlaceInv, JobInv
  <2>10. \A u, v \in Workers :
            wpc'[u] \in Busy /\ wpc'[v] \in Busy /\ job'[u] = job'[v] => u = v
    BY <1>1, <2>8 DEF PlaceInv
  <2>11. PlaceInv'
    BY <2>6, <2>7, <2>9, <2>10 DEF PlaceInv
  <2>12. QED
    BY <2>5, <2>11
<1>4. QED
  BY <1>2, <1>3

\* Every step of the engine conserves requests.
LEMMA ConservedNext ==
    ASSUME IndInv, ConservedInv, [Next]_vars
    PROVE  ConservedInv'
<1>1. ASSUME NEW w \in Workers, WorkerReceive(w)
      PROVE  ConservedInv'
  BY <1>1, ConservedTake DEF WorkerReceive, Goto, counters
<1>2. ASSUME NEW x \in Waiters, WaitDrain(x)
      PROVE  ConservedInv'
  BY <1>2, ConservedTake DEF WaitDrain, workers, counters
<1>3. QED
  BY <1>1, <1>2, ConservedQuiet, ConservedAdd, ConservedProcess
  DEF Next, AddStep, WorkerStep, WaitStep

\* Requests are neither lost nor processed twice between AddURL, the queue, the
\* workers and Wait's drain, and the counters are the numbers of those that
\* succeeded and failed, for any number of goroutines and any overlap of calls.
THEOREM RequestsConservedCorrect == Spec => []RequestsConserved
<1>1. IndInv /\ ConservedInv => RequestsConserved
  <2> SUFFICES ASSUME IndInv, ConservedInv PROVE RequestsConserved
    OBVIOUS
  <2>1. {queue[i] : i \in 1..Len(queue)} = WithFate({"queued"})
    <3>1. \A i \in 1..Len(queue) : queue[i] \in Requests /\ fate[queue[i]] = "queued"
      BY DEF IndInv, TypeOK, QueueInv
    <3>2. \A r \in WithFate({"queued"}) : \E i \in 1..Len(queue) : queue[i] = r
      BY DEF ConservedInv, PlaceInv, WithFate
    <3>3. QED
      BY <3>1, <3>2 DEF WithFate
  <2>2. \A v, w \in BusyWorkers : job[v] = job[w] => v = w
    BY DEF BusyWorkers, ConservedInv, PlaceInv
  <2>3. WithFate({"working"}) \subseteq {job[w] : w \in BusyWorkers}
    BY DEF BusyWorkers, ConservedInv, PlaceInv, WithFate, Unfinished, Busy, WorkerPc
  <2>4. QED
    BY <2>1, <2>2, <2>3 DEF RequestsConserved, IndInv, QueueInv, ConservedInv, CountInv
<1>2. IndInv /\ ConservedInv /\ [Next]_vars => ConservedInv'
  BY ConservedNext
<1>3. QED
  BY <1>1, <1>2, ConservedInit, Invariance, PTL DEF Spec

-----------------------------------------------------------------------------
(* Wait, if outside AddURL calls do not overlap it *)

\* Once Wait has been called only callbacks add URLs, and a callback runs in a
\* worker whose request is still counted: a counter that has reached zero stays
\* there.  So a watcher that has been woken, or has closed waitDone, is right
\* for good, and a Wait that did not see the context first returns on it.
WaitInv ==
    /\ \A x \in Waiters : watch[x] # "none" => wait[x] # "idle"
    /\ \A x \in Waiters : wait[x] # "idle" => \A c \in Adders : apc[c] = "idle"
    /\ \A w \in Workers : apc[w] # "idle" => wpc[w] \in Callbacks
    /\ \A x \in Waiters : watch[x] \in {"woken", "closed"} => urlWg = 0
    /\ \A x \in Waiters : wait[x] \in {"join", "returned"} =>
          watch[x] = "closed" \/ waitErr[x]
    /\ \A x \in Waiters : wait[x] = "returned" =>
          \A w \in Workers : wpc[w] = "exited"

\* A callback runs in a busy worker.
LEMMA CallbacksBusy == Callbacks \subseteq Busy
  BY DEF Callbacks, Busy, WorkerPc

\* A busy worker is counted.
LEMMA BusyCounted ==
    ASSUME IndInv, NEW w \in Workers, wpc[w] \in Busy
    PROVE  urlWg > 0
<1>1. w \in BusyWorkers
  BY DEF BusyWorkers
<1>2. Cardinality(BusyWorkers) # 0
  BY <1>1, FiniteGroups, FS_EmptySet
<1>3. QED
  BY <1>2, FiniteGroups DEF IndInv, UrlWgAccounting, TypeOK

\* Done on a positive counter wakes watchers only if it leaves zero.
LEMMA WgDoneWakes ==
    ASSUME IndInv, WaitInv, urlWg > 0, WgDone
    PROVE  \A x \in Waiters : /\ watch'[x] \in {"woken", "closed"} => urlWg' = 0
                              /\ watch'[x] = "none" <=> watch[x] = "none"
                              /\ watch[x] = "closed" => watch'[x] = "closed"
                              /\ watch'[x] = "panic" => watch[x] = "panic"
<1>1. urlWg \in Nat /\ urlWg' = urlWg - 1
  BY DEF IndInv, TypeOK, WgDone
<1>2. \A x \in Waiters : watch[x] \notin {"woken", "closed"}
  BY <1>1 DEF WaitInv
<1>3. \A x \in Waiters :
         watch'[x] = IF urlWg = 1 /\ watch[x] = "asleep" THEN "woken" ELSE watch[x]
  BY DEF WgDone
<1>4. QED
  BY <1>1, <1>2, <1>3

\* Nobody waits at first.
LEMMA WaitInvInit == Init => WaitInv
  BY DEF Init, WaitInv, Callers

\* Start, Stop and cancellation.
LEMMA WaitInvCalls ==
    ASSUME IndInv, WaitInv,
           StartSwap \/ StartRun \/ StopSwap \/ StopCancel \/ ParentCancel
    PROVE  WaitInv'
<1>1. UNCHANGED <<urlWg, apc, wait, watch, waitErr>>
  BY DEF StartSwap, StartRun, StopSwap, StopCancel, ParentCancel, adders, waits
<1>2. CASE StartRun
  <2>1. \A w \in Workers : wpc[w] = "off"
    BY <1>2 DEF StartRun, IndInv, StartInv
  <2>2. \A w \in Workers : apc[w] = "idle"
    BY <2>1 DEF WaitInv, Callbacks
  <2>3. \A x \in Waiters : wait[x] = "returned" => \A w \in Workers : wpc'[w] = "exited"
    BY <2>1 DEF WaitInv
  <2>4. QED
    BY <1>1, <2>2, <2>3 DEF WaitInv
<1>3. CASE StartSwap \/ StopSwap \/ StopCancel \/ ParentCancel
  <2>1. UNCHANGED wpc
    BY <1>3 DEF StartSwap, StopSwap, StopCancel, ParentCancel, workers
  <2>2. QED
    BY <1>1, <2>1 DEF WaitInv
<1>4. QED
  BY <1>2, <1>3

\* AddURL: only a callback can count a URL while somebody waits.
LEMMA WaitInvAdd ==
    ASSUME "add" \notin Overlap, IndInv, WaitInv, NEW c \in Callers,
           AddURLCheck(c) \/ AddStep(c)
    PROVE  WaitInv'
<1>0. UNCHANGED <<wpc, wait, waitErr>> /\ apc \in [Callers -> {"idle", "checked", "counted"}]
  BY DEF AddURLCheck, AddStep, AddURLCount, AddURLSend, AddURLFull, workers, waits,
         IndInv, TypeOK
<1>1. c \in Adders \/ c \in Workers
  BY DEF Callers
<1>2. CASE AddURLCheck(c)
  <2>1. /\ apc' = [apc EXCEPT ![c] = "checked"] /\ UNCHANGED <<urlWg, watch>>
        /\ \/ c \in Adders /\ \A x \in Waiters : wait[x] = "idle"
           \/ c \in Workers /\ wpc[c] \in Callbacks
    BY <1>2 DEF AddURLCheck, MayAdd
  <2>2. \A x \in Waiters : wait'[x] # "idle" => \A a \in Adders : apc'[a] = "idle"
    BY <1>0, <2>1, EngineAssumption DEF WaitInv, Callers
  <2>3. \A w \in Workers : apc'[w] # "idle" => wpc'[w] \in Callbacks
    BY <1>0, <2>1, EngineAssumption DEF WaitInv, Callers
  <2>4. QED
    BY <1>0, <2>1, <2>2, <2>3 DEF WaitInv
<1>3. CASE AddURLCount(c)
  <2>1. /\ apc[c] = "checked" /\ apc' = [apc EXCEPT ![c] = "counted"]
        /\ UNCHANGED watch
    BY <1>3 DEF AddURLCount
  <2>2. \A x \in Waiters : watch[x] \notin {"woken", "closed"}
    <3>1. SUFFICES ASSUME NEW x \in Waiters, watch[x] \in {"woken", "closed"}
                   PROVE  FALSE
      OBVIOUS
    <3>2. urlWg = 0 /\ wait[x] # "idle"
      BY <3>1 DEF WaitInv
    <3>3. CASE c \in Adders
      BY <2>1, <3>2, <3>3 DEF WaitInv
    <3>4. CASE c \in Workers
      <4>1. wpc[c] \in Busy
        BY <2>1, <3>4, CallbacksBusy DEF WaitInv
      <4>2. QED
        BY <3>2, <3>4, <4>1, BusyCounted
    <3>5. QED
      BY <1>1, <3>3, <3>4
  <2>3. \A d \in Callers : apc'[d] = "idle" <=> apc[d] = "idle"
    BY <1>0, <2>1
  <2>4. QED
    BY <1>0, <2>1, <2>2, <2>3 DEF WaitInv, Callers
<1>4. CASE AddURLSend(c)
  <2>1. apc' = [apc EXCEPT ![c] = "idle"] /\ UNCHANGED <<urlWg, watch>>
    BY <1>4 DEF AddURLSend
  <2>2. QED
    BY <1>0, <2>1 DEF WaitInv, Callers
<1>5. CASE AddURLFull(c)
  <2>1. apc[c] = "counted" /\ apc' = [apc EXCEPT ![c] = "idle"] /\ WgDone
    BY <1>5 DEF AddURLFull
  <2>2. urlWg > 0
    <3>1. Cardinality(Counted) > 0
      BY <1>0, <2>1, CountedMoves
    <3>2. QED
      BY <3>1, FiniteGroups DEF IndInv, UrlWgAccounting, TypeOK
  <2>3. QED
    BY <1>0, <2>1, <2>2, WgDoneWakes DEF WaitInv, Callers
<1>6. QED
  BY <1>2, <1>3, <1>4, <1>5 DEF AddStep

\* A worker moves on only when its callback is not inside AddURL.
LEMMA WaitInvWorker ==
    ASSUME IndInv, WaitInv, NEW w \in Workers, WorkerStep(w)
    PROVE  WaitInv'
<1>0. UNCHANGED <<apc, wait, waitErr>>
  BY DEF WorkerStep, WorkerExit, WorkerReceive, Acquire, AcquireFail,
         RequestCallbacksDone, FetchError, FetchOk, ResponseCallbacksDone,
         LastCallbacksDone, Release, WorkerDone, adders, waits
<1>1. wpc[w] # "exited" /\ wpc[w] # "off" /\ \E l \in WorkerPc : wpc' = [wpc EXCEPT ![w] = l]
  BY DEF WorkerStep, WorkerExit, WorkerReceive, Acquire, AcquireFail,
         RequestCallbacksDone, FetchError, FetchOk, ResponseCallbacksDone,
         LastCallbacksDone, Release, WorkerDone, Goto, WorkerPc
<1>2. wpc[w] \in Callbacks => apc[w] = "idle"
  BY DEF WorkerStep, WorkerExit, WorkerReceive, Acquire, AcquireFail,
         RequestCallbacksDone, FetchError, FetchOk, ResponseCallbacksDone,
         LastCallbacksDone, Release, WorkerDone, Callbacks
<1>3. /\ apc[w] = "idle"
      /\ \A v \in Workers : v # w => wpc'[v] = wpc[v]
  BY <1>1, <1>2 DEF WaitInv, IndInv, TypeOK
<1>4. \A v \in Workers : apc'[v] # "idle" => wpc'[v] \in Callbacks
  BY <1>0, <1>3 DEF WaitInv
<1>5. \A x \in Waiters : wait'[x] # "returned"
  BY <1>0, <1>1 DEF WaitInv
<1>6. CASE UNCHANGED <<urlWg, watch>>
  BY <1>0, <1>4, <1>5, <1>6 DEF WaitInv
<1>7. CASE WorkerDone(w)
  <2>1. WgDone /\ urlWg > 0
    BY <1>7, BusyCounted DEF WorkerDone, Busy, WorkerPc
  <2>2. QED
    BY <1>0, <1>4, <1>5, <2>1, WgDoneWakes DEF WaitInv
<1>8. QED
  BY <1>6, <1>7 DEF WorkerStep, WorkerExit, WorkerReceive, Acquire, AcquireFail,
     RequestCallbacksDone, FetchError, FetchOk, ResponseCallbacksDone,
     LastCallbacksDone, Release

\* The steps of Wait and of its watcher.
LEMMA WaitInvWait ==
    ASSUME "add" \notin Overlap, IndInv, WaitInv, NEW x \in Waiters,
           WaitCall(x) \/ WatchStep(x) \/ WaitStep(x)
    PROVE  WaitInv'
<1>0. /\ UNCHANGED <<wpc, apc>>
      /\ wait \in [Waiters -> {"idle", "select", "drain", "join", "returned", "panic"}]
      /\ watch \in [Waiters -> {"none", "entered", "asleep", "woken", "closed", "panic"}]
      /\ waitErr \in [Waiters -> BOOLEAN]
  BY DEF WaitCall, WatchStep, WatchWait, WatchWake, WaitStep, WaitAllDone, WaitCancelled,
         WaitDrain, WaitDrained, WaitJoin, workers, adders, IndInv, TypeOK
<1>1. CASE WaitCall(x)
  <2>1. /\ wait[x] = "idle" /\ \A c \in Adders : apc[c] = "idle"
        /\ \E l \in {"panic", "select"} : wait' = [wait EXCEPT ![x] = l]
        /\ watch' = [watch EXCEPT ![x] = "entered"] /\ UNCHANGED <<urlWg, waitErr>>
    BY <1>1 DEF WaitCall
  <2>2. QED
    BY <1>0, <2>1 DEF WaitInv
<1>2. CASE WatchStep(x)
  <2>1. PICK l \in {"closed", "asleep", "panic"} :
          /\ watch[x] \in {"entered", "woken"} /\ watch' = [watch EXCEPT ![x] = l]
          /\ l = "closed" => urlWg = 0
          /\ UNCHANGED <<urlWg, wait, waitErr>>
    BY <1>2 DEF WatchStep, WatchWait, WatchWake, waits
  <2>2. QED
    BY <1>0, <2>1 DEF WaitInv
<1>3. CASE WaitAllDone(x) \/ WaitCancelled(x)
  <2>1. PICK l \in {"join", "drain"} :
          /\ wait[x] = "select" /\ wait' = [wait EXCEPT ![x] = l]
          /\ l = "join" => watch[x] = "closed"
          /\ UNCHANGED <<urlWg, watch, waitErr>>
    BY <1>3 DEF WaitAllDone, WaitCancelled
  <2>2. QED
    BY <1>0, <2>1 DEF WaitInv
<1>4. CASE WaitDrain(x)
  <2>1. WgDone /\ queue # <<>> /\ UNCHANGED <<wait, waitErr>>
    BY <1>4 DEF WaitDrain, waits
  <2>2. Len(queue) > 0
    BY <2>1 DEF IndInv, TypeOK
  <2>3. urlWg > 0
    BY <2>2, FiniteGroups DEF IndInv, UrlWgAccounting, TypeOK
  <2>4. QED
    BY <1>0, <2>1, <2>3, WgDoneWakes DEF WaitInv
<1>5. CASE WaitDrained(x)
  <2>1. /\ wait[x] = "drain" /\ wait' = [wait EXCEPT ![x] = "join"]
        /\ waitErr' = [waitErr EXCEPT ![x] = TRUE] /\ UNCHANGED <<urlWg, watch>>
    BY <1>5 DEF WaitDrained
  <2>2. QED
    BY <1>0, <2>1 DEF WaitInv
<1>6. CASE WaitJoin(x)
  <2>1. /\ wait[x] = "join" /\ wait' = [wait EXCEPT ![x] = "returned"]
        /\ \A w \in Workers : wpc[w] = "exited"
        /\ UNCHANGED <<urlWg, watch, waitErr>>
    BY <1>6 DEF WaitJoin
  <2>2. QED
    BY <1>0, <2>1 DEF WaitInv
<1>7. QED
  BY <1>1, <1>2, <1>3, <1>4, <1>5, <1>6 DEF WaitStep

\* Every step preserves it.
LEMMA WaitInvNext ==
    ASSUME "add" \notin Overlap, IndInv, WaitInv, [Next]_vars
    PROVE  WaitInv'
<1>1. CASE UNCHANGED vars
  BY <1>1 DEF vars, WaitInv
<1>2. CASE Next
  BY <1>2, WaitInvCalls, WaitInvAdd, WaitInvWorker, WaitInvWait DEF Next
<1>3. QED
  BY <1>1, <1>2

\* A Wait that returns leaves no worker running, and one that returns nil leaves
\* no request queued or in a worker, although callbacks keep adding URLs while
\* it waits: for any number of goroutines, if outside AddURL calls do not
\* overlap Wait.
THEOREM WaitCompleteCorrect ==
    ASSUME "add" \notin Overlap
    PROVE  Spec => []WaitComplete
<1>1. IndInv /\ ConservedInv /\ WaitInv => WaitComplete
  <2> SUFFICES ASSUME IndInv, ConservedInv, WaitInv, NEW x \in Waiters,
                      wait[x] = "returned"
               PROVE  /\ \A w \in Workers : wpc[w] = "exited"
                      /\ waitErr[x] \/ WithFate({"queued", "working"}) = {}
    BY DEF WaitComplete
  <2>1. \A w \in Workers : wpc[w] = "exited"
    BY DEF WaitInv
  <2>2. CASE ~waitErr[x]
    <3>1. urlWg = 0
      BY <2>2 DEF WaitInv
    <3>2. Len(queue) = 0
      BY <3>1, FiniteGroups DEF IndInv, UrlWgAccounting, TypeOK
    <3>3. \A r \in Requests : fate[r] # "queued"
      BY <3>2 DEF ConservedInv, PlaceInv
    <3>4. \A r \in Requests : fate[r] # "working"
      BY <2>1 DEF ConservedInv, PlaceInv, Unfinished
    <3>5. WithFate({"queued", "working"}) = {}
      BY <3>3, <3>4 DEF WithFate
    <3>6. QED
      BY <2>1, <3>5
  <2>3. QED
    BY <2>1, <2>2
<1>2. IndInv /\ ConservedInv /\ [Next]_vars => ConservedInv'
  BY ConservedNext
<1>3. IndInv /\ WaitInv /\ [Next]_vars => WaitInv'
  BY WaitInvNext
<1>4. QED
  BY <1>1, <1>2, <1>3, ConservedInit, WaitInvInit, Invariance, PTL DEF Spec

-----------------------------------------------------------------------------
(* Panics, if Wait and Stop do not overlap Start either *)

\* Start assigns the context before it returns.
ContextInv ==
    /\ started => startPc # "idle"
    /\ startPc = "returned" => ctx # "nil"

\* Start's two steps are the only ones that concern the context's creation.
LEMMA ContextNext ==
    ASSUME IndInv, ContextInv, [Next]_vars
    PROVE  ContextInv'
<1>1. CASE UNCHANGED <<started, startPc, ctx>>
  BY <1>1 DEF ContextInv
<1>2. CASE StartSwap \/ StartRun \/ StopSwap \/ StopCancel \/ ParentCancel
  BY <1>2 DEF StartSwap, StartRun, StopSwap, StopCancel, ParentCancel, ContextInv
<1>3. ASSUME NEW x \in Waiters, WaitAllDone(x)
      PROVE  ContextInv'
  BY <1>3 DEF WaitAllDone, ContextInv
<1>4. ASSUME NEW c \in Callers, AddURLCheck(c) \/ AddStep(c)
      PROVE  UNCHANGED <<started, startPc, ctx>>
  BY <1>4 DEF AddURLCheck, AddStep, AddURLCount, AddURLSend, AddURLFull, calls
<1>5. ASSUME NEW w \in Workers, WorkerStep(w)
      PROVE  UNCHANGED <<started, startPc, ctx>>
  BY <1>5 DEF WorkerStep, WorkerExit, WorkerReceive, Acquire, AcquireFail,
     RequestCallbacksDone, FetchError, FetchOk, ResponseCallbacksDone,
     LastCallbacksDone, Release, WorkerDone, calls
<1>6. ASSUME NEW x \in Waiters,
             \/ WaitCall(x) \/ WatchStep(x) \/ WaitCancelled(x) \/ WaitDrain(x)
             \/ WaitDrained(x) \/ WaitJoin(x)
      PROVE  UNCHANGED <<started, startPc, ctx>>
  BY <1>6 DEF WaitCall, WatchStep, WatchWait, WatchWake, WaitCancelled, WaitDrain,
     WaitDrained, WaitJoin, calls
<1>7. CASE UNCHANGED vars
  BY <1>1, <1>7 DEF vars
<1>8. QED
  BY <1>1, <1>2, <1>3, <1>4, <1>5, <1>6, <1>7 DEF Next, WaitStep

\* No step panics from a state that satisfies the invariants.
LEMMA NoPanicNext ==
    ASSUME Overlap = {}, IndInv, WaitInv, ContextInv, NoPanic, [Next]_vars
    PROVE  NoPanic'
<1> DEFINE Calm == \A x \in Waiters : wait[x] # "panic" /\ watch[x] # "panic"
<1>0. Calm /\ (NoPanic' <=> Calm')
  BY DEF NoPanic, Crashed
<1>t. /\ wait \in [Waiters -> {"idle", "select", "drain", "join", "returned", "panic"}]
      /\ watch \in [Waiters -> {"none", "entered", "asleep", "woken", "closed", "panic"}]
  BY DEF IndInv, TypeOK
<1>1. CASE UNCHANGED <<wait, watch>>
  BY <1>0, <1>1
<1>2. ASSUME WgDone, urlWg > 0, UNCHANGED wait
      PROVE  Calm'
  BY <1>0, <1>2, WgDoneWakes
<1>3. CASE StartSwap \/ StartRun \/ StopSwap \/ StopCancel \/ ParentCancel
  BY <1>1, <1>3 DEF StartSwap, StartRun, StopSwap, StopCancel, ParentCancel, waits
<1>4. ASSUME NEW c \in Callers, AddURLCheck(c) \/ AddStep(c)
      PROVE  Calm'
  <2>1. CASE AddURLFull(c)
    <3>1. Cardinality(Counted) > 0
      BY <2>1, CountedMoves DEF AddURLFull, IndInv, TypeOK
    <3>2. urlWg > 0
      BY <3>1, FiniteGroups DEF IndInv, UrlWgAccounting, TypeOK
    <3>3. QED
      BY <1>2, <2>1, <3>2 DEF AddURLFull, waits
  <2>2. QED
    BY <1>0, <1>1, <1>4, <2>1 DEF AddURLCheck, AddStep, AddURLCount, AddURLSend, waits
<1>5. ASSUME NEW w \in Workers, WorkerStep(w)
      PROVE  Calm'
  <2>1. CASE WorkerDone(w)
    <3>1. urlWg > 0
      BY <2>1, BusyCounted DEF WorkerDone, Busy, WorkerPc
    <3>2. QED
      BY <1>2, <2>1, <3>1 DEF WorkerDone, waits
  <2>2. QED
    BY <1>0, <1>1, <1>5, <2>1 DEF WorkerStep, WorkerExit, WorkerReceive, Acquire,
       AcquireFail, RequestCallbacksDone, FetchError, FetchOk, ResponseCallbacksDone,
       LastCallbacksDone, Release, waits
<1>6. ASSUME NEW x \in Waiters, WaitCall(x)
      PROVE  Calm'
  <2>1. started /\ startPc # "swapped"
    BY <1>6 DEF WaitCall
  <2>2. ctx # "nil"
    BY <2>1 DEF ContextInv, IndInv, TypeOK
  <2>3. wait' = [wait EXCEPT ![x] = "select"] /\ watch' = [watch EXCEPT ![x] = "entered"]
    BY <1>6, <2>2 DEF WaitCall
  <2>4. QED
    BY <1>0, <1>t, <2>3
<1>7. ASSUME NEW x \in Waiters, WatchStep(x)
      PROVE  Calm'
  <2>1. watch[x] = "woken" => urlWg = 0
    BY DEF WaitInv
  <2>2. PICK l \in {"closed", "asleep"} : watch' = [watch EXCEPT ![x] = l] /\ wait' = wait
    BY <1>7, <2>1 DEF WatchStep, WatchWait, WatchWake, waits
  <2>3. QED
    BY <1>0, <1>t, <2>2
<1>8. ASSUME NEW x \in Waiters, WaitStep(x)
      PROVE  Calm'
  <2>1. CASE WaitDrain(x)
    <3>1. queue # <<>> /\ WgDone /\ UNCHANGED wait
      BY <2>1 DEF WaitDrain, waits
    <3>2. Len(queue) > 0
      BY <3>1 DEF IndInv, TypeOK
    <3>3. urlWg > 0
      BY <3>2, FiniteGroups DEF IndInv, UrlWgAccounting, TypeOK
    <3>4. QED
      BY <1>2, <3>1, <3>3
  <2>2. CASE WaitAllDone(x) \/ WaitCancelled(x) \/ WaitDrained(x) \/ WaitJoin(x)
    <3>1. PICK l \in {"join", "drain", "returned"} :
             wait' = [wait EXCEPT ![x] = l] /\ watch' = watch
      BY <2>2 DEF WaitAllDone, WaitCancelled, WaitDrained, WaitJoin
    <3>2. QED
      BY <1>0, <1>t, <3>1
  <2>3. QED
    BY <1>8, <2>1, <2>2 DEF WaitStep
<1>9. CASE UNCHANGED vars
  BY <1>1, <1>9 DEF vars
<1>10. QED
  BY <1>0, <1>3, <1>4, <1>5, <1>6, <1>7, <1>8, <1>9 DEF Next

\* Neither the nil context nor the reuse of the WaitGroup ever panics, for any
\* number of goroutines, if callers do not overlap Start with Wait or Stop, or
\* Wait with outside AddURL calls.
THEOREM NoPanicCorrect ==
    ASSUME Overlap = {}
    PROVE  Spec => []NoPanic
<1>1. Init => ContextInv /\ NoPanic
  BY DEF Init, ContextInv, NoPanic, Crashed
<1>2. IndInv /\ WaitInv /\ [Next]_vars => WaitInv'
  BY WaitInvNext
<1>3. IndInv /\ ContextInv /\ [Next]_vars => ContextInv'
  BY ContextNext
<1>4. IndInv /\ WaitInv /\ ContextInv /\ NoPanic /\ [Next]_vars => NoPanic'
  BY NoPanicNext
<1>5. QED
  BY <1>1, <1>2, <1>3, <1>4, WaitInvInit, Invariance, PTL DEF Spec

-----------------------------------------------------------------------------
(* NetworkIdle: the inductive invariant *)

Going == {r \in PageRequests : net[r] = "going"}

IdleInd == N!TypeOK /\ N!CountCovers /\ now \in Nat /\ oldEnded \in Nat

\* An event that concerns one request changes the number of those under way by
\* one at the most, and lowers it if the request was one of them.
LEMMA GoingMoves ==
    ASSUME N!IdleAssumption, IdleInd, NEW r \in PageRequests,
           NEW s \in {"old", "going", "done"}, net' = [net EXCEPT ![r] = s]
    PROVE  /\ Cardinality(Going) \in Nat /\ Cardinality(Going') \in Nat
           /\ Cardinality(Going') <= Cardinality(Going) + 1
           /\ s # "going" => Cardinality(Going') <= Cardinality(Going)
           /\ s # "going" /\ net[r] = "going" => Cardinality(Going') = Cardinality(Going) - 1
<1>1. IsFiniteSet(PageRequests)
  BY DEF N!IdleAssumption, N!IsFiniteSet, IsFiniteSet
<1>2. IsFiniteSet(Going) /\ IsFiniteSet(Going')
  BY <1>1, FS_Subset DEF Going
<1>3. Going' = IF s = "going" THEN Going \cup {r} ELSE Going \ {r}
  BY DEF IdleInd, N!TypeOK, Going
<1>4. r \in Going <=> net[r] = "going"
  BY DEF Going
<1>5. QED
  BY <1>2, <1>3, <1>4, FS_AddElement, FS_RemoveElement, FS_CardinalityType

\* The sizes of the component are those of the library.
LEMMA CoversIs ==
    /\ N!CountCovers <=> inFlight + oldEnded >= Cardinality(Going)
    /\ N!CountCovers' <=> inFlight' + oldEnded' >= Cardinality(Going')
BY DEF N!CountCovers, Going, N!Cardinality, Cardinality, N!IsFiniteSet, IsFiniteSet

\* The listener counts a request that it sees sent.
LEMMA SendStep ==
    ASSUME N!IdleAssumption, IdleInd, NEW r \in PageRequests, N!Send(r)
    PROVE  IdleInd'
<1>1. /\ UNCHANGED <<now, lastActive, ppc, oldEnded, quietSince>> /\ N!TypeOK'
      /\ inFlight \in Nat /\ oldEnded \in Nat /\ now \in Nat
  BY DEF IdleInd, N!TypeOK, N!Send
<1>2. CASE ppc = "enable"
  <2>1. net' = [net EXCEPT ![r] = "old"] /\ inFlight' = inFlight
    BY <1>2 DEF N!Send
  <2>2. Cardinality(Going') <= Cardinality(Going) /\ Cardinality(Going) \in Nat /\ Cardinality(Going') \in Nat
    BY <2>1, GoingMoves
  <2>3. QED
    BY <1>1, <2>1, <2>2, CoversIs DEF IdleInd
<1>3. CASE ppc # "enable"
  <2>1. net' = [net EXCEPT ![r] = "going"] /\ inFlight' = inFlight + 1
    BY <1>3 DEF N!Send
  <2>2. Cardinality(Going') <= Cardinality(Going) + 1 /\ Cardinality(Going) \in Nat /\ Cardinality(Going') \in Nat
    BY <2>1, GoingMoves
  <2>3. QED
    BY <1>1, <2>1, <2>2, CoversIs DEF IdleInd
<1>4. QED
  BY <1>2, <1>3

\* It counts down at every end, and the end of a request it did not see sent is
\* the one that is taken off another's account.
LEMMA EndStep ==
    ASSUME N!IdleAssumption, IdleInd, NEW r \in PageRequests, N!End(r)
    PROVE  IdleInd'
<1>1. /\ UNCHANGED <<now, lastActive, ppc>> /\ net' = [net EXCEPT ![r] = "done"]
      /\ net[r] \in {"old", "going"} /\ inFlight \in Nat /\ oldEnded \in Nat /\ now \in Nat
  BY DEF IdleInd, N!TypeOK, N!End, N!UnderWay
<1>2. N!TypeOK'
  BY <1>1 DEF IdleInd, N!TypeOK, N!End
<1>3. /\ Cardinality(Going) \in Nat /\ Cardinality(Going') \in Nat
      /\ Cardinality(Going') <= Cardinality(Going)
      /\ net[r] = "going" => Cardinality(Going') = Cardinality(Going) - 1
  BY <1>1, GoingMoves
<1>4. inFlight + oldEnded >= Cardinality(Going)
  BY CoversIs DEF IdleInd
<1>5. CASE ppc = "enable"
  BY <1>1, <1>2, <1>3, <1>4, <1>5, CoversIs DEF IdleInd, N!End
<1>6. CASE ppc # "enable"
  <2>1. /\ inFlight' = IF inFlight > 0 THEN inFlight - 1 ELSE 0
        /\ oldEnded' = IF net[r] = "old" THEN oldEnded + 1 ELSE oldEnded
    BY <1>6 DEF N!End
  <2>2. inFlight' + oldEnded' >= Cardinality(Going') /\ oldEnded' \in Nat
    BY <1>1, <1>3, <1>4, <2>1
  <2>3. QED
    BY <1>1, <1>2, <2>2, CoversIs DEF IdleInd
<1>7. QED
  BY <1>5, <1>6

\* The safety part of IdleOK, for any requests, periods and redirects: the count
\* of waitNetworkIdle's listener is not below the requests that it saw sent and
\* that are under way, but for the ends of requests that it did not see sent.
THEOREM IdleCorrect ==
    ASSUME N!IdleAssumption
    PROVE  N!Spec => [](N!TypeOK /\ N!CountCovers)
<1>1. N!Init => IdleInd
  <2> SUFFICES ASSUME N!Init PROVE IdleInd
    OBVIOUS
  <2>1. Going = {}
    BY DEF N!Init, Going
  <2>2. Cardinality(Going) = 0
    BY <2>1, FS_EmptySet
  <2>3. QED
    BY <2>2, CoversIs DEF N!Init, IdleInd, N!TypeOK
<1>2. IdleInd /\ [N!Next]_N!vars => IdleInd'
  <2> SUFFICES ASSUME IdleInd, [N!Next]_N!vars PROVE IdleInd'
    OBVIOUS
  <2>1. CASE N!Enable \/ N!Poll \/ N!PollSince \/ N!Stamp \/ N!Tick \/ N!Cancel \/ UNCHANGED N!vars
    <3>1. UNCHANGED <<net, inFlight, oldEnded, quietSince>>
      BY <2>1 DEF N!Enable, N!Poll, N!PollSince, N!Stamp, N!Tick, N!Cancel, N!vars, N!network,
         N!listener
    <3>2. now' \in Nat /\ now' >= now /\ lastActive' \in {now, lastActive}
      BY <2>1 DEF IdleInd, N!Enable, N!Poll, N!PollSince, N!Stamp, N!Tick, N!Cancel, N!vars,
         N!listener
    <3>3. ppc' \in N!Ended \cup {"enable", "poll", "zero", "asleep"}
      BY <2>1 DEF IdleInd, N!TypeOK, N!Ended, N!Enable, N!Poll, N!PollDeadline, N!PollSince,
         N!Stamp, N!Tick, N!Cancel, N!vars
    <3>4. Going' = Going
      BY <3>1 DEF Going
    <3>5. QED
      BY <3>1, <3>2, <3>3, <3>4, CoversIs DEF IdleInd, N!TypeOK
  <2>2. CASE \E r \in PageRequests : N!Send(r) \/ N!End(r)
    BY <2>2, SendStep, EndStep
  <2>3. QED
    BY <2>1, <2>2 DEF N!Next, N!WaitStep
<1>3. IdleInd => N!TypeOK /\ N!CountCovers
  BY DEF IdleInd
<1>4. QED
  BY <1>1, <1>2, <1>3, PTL DEF N!Spec

=============================================================================

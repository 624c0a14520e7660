------------------------------- MODULE Engine -------------------------------
(***************************************************************************)
(* The crawl engine (pkg/crawler/engine.go): a bounded URL queue, a pool   *)
(* of worker goroutines, the pending-URL WaitGroup urlWg, and the calls    *)
(* Start, Stop, Wait and AddURL that other goroutines make at any time.    *)
(*                                                                         *)
(* One action is one step between two points where another goroutine can   *)
(* be observed: an atomic flag, a channel operation, a WaitGroup call, a   *)
(* semaphore.  Requests are model values; every AddURL call allocates a    *)
(* fresh one, so the set Requests bounds the number of AddURL calls.       *)
(*                                                                         *)
(* ConcurrencyManager.Acquire and Release are one step each here, over the *)
(* set of workers that hold permits; module ConcurrencyManager has their   *)
(* real steps and is shown to implement this view.  Calls that return      *)
(* without changing anything (a second Start or Stop, Wait before Start,   *)
(* AddURL after Stop) are stuttering steps.                                *)
(***************************************************************************)
EXTENDS Integers, Sequences, FiniteSets

CONSTANTS
    Workers,      \* worker goroutines (Config.WorkerCount of them)
    Adders,       \* goroutines outside the engine that call AddURL
    Waiters,      \* goroutines that call Wait
    Requests,     \* CrawlRequests: one per AddURL call (bound on the calls)
    NoRequest,    \* a worker or caller without a request
    Domains,      \* host names
    DomainOf,     \* extractDomain(req.URL)
    QueueCap,     \* capacity of urlQueue (10000 in the code)
    GlobalMax,    \* ConcurrencyConfig.GlobalMaxConcurrency
    DomainMax,    \* ConcurrencyConfig.PerDomainMaxConcurrency
    Overlap       \* "add": outside AddURL calls may overlap Wait;
                  \* "start": Wait and Stop may overlap Start

Callers == Adders \cup Workers

ASSUME EngineAssumption ==
    /\ IsFiniteSet(Workers) /\ IsFiniteSet(Adders) /\ IsFiniteSet(Requests)
    /\ Adders \cap Workers = {}
    /\ NoRequest \notin Requests
    /\ DomainOf \in [Requests -> Domains]
    /\ QueueCap \in Nat \ {0}
    /\ GlobalMax \in Nat \ {0} /\ DomainMax \in Nat \ {0}
    /\ Overlap \subseteq {"add", "start"}

VARIABLES
    started, stopped,  \* the atomic flags
    ctx,               \* "nil" until Start assigns it, then "live", then "done"
    parentDone,        \* the context handed to Start has been cancelled
    startPc, stopPc,   \* progress of the one effective Start / Stop call
    queue,             \* urlQueue
    urlWg,             \* the pending-URL WaitGroup counter
    wpc, job,          \* a worker's position and the request it processes
    holding,           \* does the worker hold its concurrency permits
    apc, adding,       \* an AddURL call in progress and its request
    wait, watch,       \* a Wait call and the goroutine it starts on urlWg
    waitErr,           \* Wait's result is ctx.Err() rather than nil
    requestCount, successCount, errorCount,
    fate               \* history: what became of each request

vars == <<started, stopped, ctx, parentDone, startPc, stopPc, queue, urlWg,
          wpc, job, holding, apc, adding, wait, watch, waitErr,
          requestCount, successCount, errorCount, fate>>

counters == <<requestCount, successCount, errorCount>>
calls == <<started, stopped, ctx, parentDone, startPc, stopPc>>
workers == <<wpc, job, holding>>
adders == <<apc, adding>>
waits == <<wait, waitErr>>

WorkerPc == {"off", "idle", "acquire", "onRequest", "fetch", "onResponse",
             "onHTML", "onError", "release", "done", "exited"}
Callbacks == {"onRequest", "onResponse", "onHTML", "onError"}
Busy == WorkerPc \ {"off", "idle", "exited"}
Fates == {"fresh", "adding", "queued", "working", "ok", "failed",
          "drained", "rejected"}
Final == {"ok", "failed", "drained", "rejected"}

BusyWorkers == {w \in Workers : wpc[w] \in Busy}
Counted == {c \in Callers : apc[c] = "counted"}
Holders == {w \in Workers : holding[w]}
HoldersOf(d) == {w \in Holders : DomainOf[job[w]] = d}
WithFate(F) == {r \in Requests : fate[r] \in F}

\* An unrecovered panic ends the process.
Crashed == \E x \in Waiters : wait[x] = "panic" \/ watch[x] = "panic"

TypeOK ==
    /\ started \in BOOLEAN /\ stopped \in BOOLEAN /\ parentDone \in BOOLEAN
    /\ ctx \in {"nil", "live", "done"}
    /\ startPc \in {"idle", "swapped", "returned"}
    /\ stopPc \in {"idle", "swapped", "returned"}
    /\ queue \in Seq(Requests) /\ Len(queue) <= QueueCap
    /\ urlWg \in Nat
    /\ wpc \in [Workers -> WorkerPc]
    /\ job \in [Workers -> Requests \cup {NoRequest}]
    /\ holding \in [Workers -> BOOLEAN]
    /\ apc \in [Callers -> {"idle", "checked", "counted"}]
    /\ adding \in [Callers -> Requests \cup {NoRequest}]
    /\ wait \in [Waiters -> {"idle", "select", "drain", "join", "returned",
                             "panic"}]
    /\ watch \in [Waiters -> {"none", "entered", "asleep", "woken", "closed",
                              "panic"}]
    /\ waitErr \in [Waiters -> BOOLEAN]
    /\ requestCount \in Nat /\ successCount \in Nat /\ errorCount \in Nat
    /\ fate \in [Requests -> Fates]

\* newEngine: nothing runs, the queue is empty and ctx, cancel are nil.
Init ==
    /\ started = FALSE /\ stopped = FALSE /\ parentDone = FALSE
    /\ ctx = "nil"
    /\ startPc = "idle" /\ stopPc = "idle"
    /\ queue = <<>> /\ urlWg = 0
    /\ wpc = [w \in Workers |-> "off"]
    /\ job = [w \in Workers |-> NoRequest]
    /\ holding = [w \in Workers |-> FALSE]
    /\ apc = [c \in Callers |-> "idle"]
    /\ adding = [c \in Callers |-> NoRequest]
    /\ wait = [x \in Waiters |-> "idle"]
    /\ watch = [x \in Waiters |-> "none"]
    /\ waitErr = [x \in Waiters |-> FALSE]
    /\ requestCount = 0 /\ successCount = 0 /\ errorCount = 0
    /\ fate = [r \in Requests |-> "fresh"]

-----------------------------------------------------------------------------
(* sync.WaitGroup: Done wakes the goroutines asleep in Wait when the       *)
(* counter reaches zero; one that finds the counter positive again when it *)
(* runs panics ("WaitGroup is reused before previous Wait has returned").  *)

WgDone ==
    /\ urlWg' = urlWg - 1
    /\ watch' = [x \in Waiters |->
                    IF urlWg = 1 /\ watch[x] = "asleep" THEN "woken"
                                                        ELSE watch[x]]

-----------------------------------------------------------------------------
(* Start and Stop *)

StartSwap ==
    /\ ~started
    /\ started' = TRUE
    /\ startPc' = "swapped"
    /\ UNCHANGED <<stopped, ctx, parentDone, stopPc, queue, urlWg, workers,
                   adders, waits, watch, counters, fate>>

StartRun ==
    /\ startPc = "swapped"
    /\ startPc' = "returned"
    /\ ctx' = IF parentDone THEN "done" ELSE "live"
    /\ wpc' = [w \in Workers |-> "idle"]
    /\ UNCHANGED <<started, stopped, parentDone, stopPc, queue, urlWg, job,
                   holding, adders, waits, watch, counters, fate>>

StopSwap ==
    /\ ~stopped
    /\ "start" \in Overlap \/ startPc # "swapped"
    /\ stopped' = TRUE
    /\ stopPc' = "swapped"
    /\ UNCHANGED <<started, ctx, parentDone, startPc, queue, urlWg, workers,
                   adders, waits, watch, counters, fate>>

StopCancel ==
    /\ stopPc = "swapped"
    /\ stopPc' = "returned"
    /\ ctx' = IF ctx = "nil" THEN "nil" ELSE "done"
    /\ UNCHANGED <<started, stopped, parentDone, startPc, queue, urlWg,
                   workers, adders, waits, watch, counters, fate>>

\* The caller of Start cancels the context it passed.
ParentCancel ==
    /\ ~parentDone
    /\ parentDone' = TRUE
    /\ ctx' = IF ctx = "nil" THEN "nil" ELSE "done"
    /\ UNCHANGED <<started, stopped, startPc, stopPc, queue, urlWg, workers,
                   adders, waits, watch, counters, fate>>

-----------------------------------------------------------------------------
(* AddURL, from outside goroutines and from callbacks running in a worker *)

MayAdd(c) ==
    \/ /\ c \in Adders
       /\ "add" \in Overlap \/ \A x \in Waiters : wait[x] = "idle"
    \/ c \in Workers /\ wpc[c] \in Callbacks

AddURLCheck(c) ==
    /\ apc[c] = "idle" /\ MayAdd(c)
    /\ ~stopped
    /\ \E r \in Requests :
          /\ fate[r] = "fresh"
          /\ fate' = [fate EXCEPT ![r] = "adding"]
          /\ adding' = [adding EXCEPT ![c] = r]
    /\ apc' = [apc EXCEPT ![c] = "checked"]
    /\ UNCHANGED <<calls, queue, urlWg, workers, waits, watch, counters>>

AddURLCount(c) ==
    /\ apc[c] = "checked"
    /\ apc' = [apc EXCEPT ![c] = "counted"]
    /\ urlWg' = urlWg + 1
    /\ UNCHANGED <<calls, queue, workers, adding, waits, watch, counters,
                   fate>>

AddURLSend(c) ==
    /\ apc[c] = "counted"
    /\ Len(queue) < QueueCap
    /\ queue' = Append(queue, adding[c])
    /\ fate' = [fate EXCEPT ![adding[c]] = "queued"]
    /\ apc' = [apc EXCEPT ![c] = "idle"]
    /\ adding' = [adding EXCEPT ![c] = NoRequest]
    /\ UNCHANGED <<calls, urlWg, workers, waits, watch, counters>>

\* Fault: the full-queue branch returns without urlWg.Done().
AddURLFullNoDone(c) ==
    /\ apc[c] = "counted"
    /\ Len(queue) = QueueCap
    /\ fate' = [fate EXCEPT ![adding[c]] = "rejected"]
    /\ apc' = [apc EXCEPT ![c] = "idle"]
    /\ adding' = [adding EXCEPT ![c] = NoRequest]
    /\ UNCHANGED <<calls, queue, urlWg, watch, workers, waits, counters>>

AddURLFull(c) ==
    /\ apc[c] = "counted"
    /\ Len(queue) = QueueCap
    /\ WgDone
    /\ fate' = [fate EXCEPT ![adding[c]] = "rejected"]
    /\ apc' = [apc EXCEPT ![c] = "idle"]
    /\ adding' = [adding EXCEPT ![c] = NoRequest]
    /\ UNCHANGED <<calls, queue, workers, waits, counters>>

-----------------------------------------------------------------------------
(* worker and processRequest.  A callback (fire*Callbacks) is a position   *)
(* in which the worker may call AddURL before it moves on.                 *)

Goto(w, l) == wpc' = [wpc EXCEPT ![w] = l]

\* Fault: the worker waits for the queue only.
WorkerExitNever(w) == FALSE /\ Goto(w, "exited")

WorkerExit(w) ==
    /\ wpc[w] = "idle"
    /\ ctx = "done"
    /\ Goto(w, "exited")
    /\ UNCHANGED <<calls, queue, urlWg, job, holding, adders, waits, watch,
                   counters, fate>>

WorkerReceive(w) ==
    /\ wpc[w] = "idle"
    /\ queue # <<>>
    /\ queue' = Tail(queue)
    /\ job' = [job EXCEPT ![w] = Head(queue)]
    /\ fate' = [fate EXCEPT ![Head(queue)] = "working"]
    /\ Goto(w, "acquire")
    /\ UNCHANGED <<calls, urlWg, holding, adders, waits, watch, counters>>

\* The semaphores look at the context before they take a permit: one that is
\* cancelled in between may still let the call succeed.
Acquire(w) ==
    /\ wpc[w] = "acquire"
    /\ Cardinality(Holders) < GlobalMax
    /\ Cardinality(HoldersOf(DomainOf[job[w]])) < DomainMax
    /\ holding' = [holding EXCEPT ![w] = TRUE]
    /\ requestCount' = requestCount + 1
    /\ Goto(w, "onRequest")
    /\ UNCHANGED <<calls, queue, urlWg, job, adders, waits, watch,
                   successCount, errorCount, fate>>

\* Fault: a failed Acquire is not counted as an error.
AcquireFailUncounted(w) ==
    /\ wpc[w] = "acquire"
    /\ ctx = "done"
    /\ fate' = [fate EXCEPT ![job[w]] = "failed"]
    /\ Goto(w, "onError")
    /\ UNCHANGED <<calls, queue, urlWg, job, holding, adders, waits, watch,
                   counters>>

AcquireFail(w) ==
    /\ wpc[w] = "acquire"
    /\ ctx = "done"
    /\ errorCount' = errorCount + 1
    /\ fate' = [fate EXCEPT ![job[w]] = "failed"]
    /\ Goto(w, "onError")
    /\ UNCHANGED <<calls, queue, urlWg, job, holding, adders, waits, watch,
                   requestCount, successCount>>

RequestCallbacksDone(w) ==
    /\ wpc[w] = "onRequest" /\ apc[w] = "idle"
    /\ Goto(w, "fetch")
    /\ UNCHANGED <<calls, queue, urlWg, job, holding, adders, waits, watch,
                   counters, fate>>

\* fetcher.Do returned an error.
FetchError(w) ==
    /\ wpc[w] = "fetch"
    /\ errorCount' = errorCount + 1
    /\ fate' = [fate EXCEPT ![job[w]] = "failed"]
    /\ Goto(w, "onError")
    /\ UNCHANGED <<calls, queue, urlWg, job, holding, adders, waits, watch,
                   requestCount, successCount>>

FetchOk(w) ==
    /\ wpc[w] = "fetch"
    /\ successCount' = successCount + 1
    /\ fate' = [fate EXCEPT ![job[w]] = "ok"]
    /\ Goto(w, "onResponse")
    /\ UNCHANGED <<calls, queue, urlWg, job, holding, adders, waits, watch,
                   requestCount, errorCount>>

\* isHTMLResponse is decided by the server's Content-Type: either way.
ResponseCallbacksDone(w) ==
    /\ wpc[w] = "onResponse" /\ apc[w] = "idle"
    /\ Goto(w, "onHTML") \/ Goto(w, "release")
    /\ UNCHANGED <<calls, queue, urlWg, job, holding, adders, waits, watch,
                   counters, fate>>

\* Fault: the last callbacks skip the deferred Release.
LastCallbacksNoRelease(w) ==
    /\ wpc[w] \in {"onHTML", "onError"} /\ apc[w] = "idle"
    /\ Goto(w, "done")
    /\ UNCHANGED <<calls, queue, urlWg, job, holding, adders, waits, watch,
                   counters, fate>>

\* The deferred Release runs only on the paths where Acquire succeeded.
LastCallbacksDone(w) ==
    /\ wpc[w] \in {"onHTML", "onError"} /\ apc[w] = "idle"
    /\ Goto(w, IF holding[w] THEN "release" ELSE "done")
    /\ UNCHANGED <<calls, queue, urlWg, job, holding, adders, waits, watch,
                   counters, fate>>

Release(w) ==
    /\ wpc[w] = "release"
    /\ holding' = [holding EXCEPT ![w] = FALSE]
    /\ Goto(w, "done")
    /\ UNCHANGED <<calls, queue, urlWg, job, adders, waits, watch, counters,
                   fate>>

WorkerDone(w) ==
    /\ wpc[w] = "done"
    /\ WgDone
    /\ job' = [job EXCEPT ![w] = NoRequest]
    /\ Goto(w, "idle")
    /\ UNCHANGED <<calls, queue, holding, adders, waits, counters, fate>>

-----------------------------------------------------------------------------
(* Wait *)

\* Fault: the started check is missing.
WaitCallUnchecked(x) ==
    /\ wait[x] = "idle"
    /\ wait' = [wait EXCEPT ![x] = IF ctx = "nil" THEN "panic" ELSE "select"]
    /\ watch' = [watch EXCEPT ![x] = "entered"]
    /\ UNCHANGED <<calls, queue, urlWg, workers, adders, waitErr, counters,
                   fate>>

\* The select evaluates e.ctx.Done(): with ctx still nil that is a panic.
WaitCall(x) ==
    /\ wait[x] = "idle"
    /\ started
    /\ "start" \in Overlap \/ startPc # "swapped"
    /\ "add" \in Overlap \/ \A c \in Adders : apc[c] = "idle"
    /\ wait' = [wait EXCEPT ![x] = IF ctx = "nil" THEN "panic" ELSE "select"]
    /\ watch' = [watch EXCEPT ![x] = "entered"]
    /\ UNCHANGED <<calls, queue, urlWg, workers, adders, waitErr, counters,
                   fate>>

\* Fault: waitDone is closed without waiting for urlWg.
WatchNoWait(x) ==
    /\ watch[x] = "entered"
    /\ watch' = [watch EXCEPT ![x] = "closed"]
    /\ UNCHANGED <<calls, queue, urlWg, workers, adders, waits, counters,
                   fate>>

\* urlWg.Wait(): returns at once on zero, sleeps otherwise.
WatchWait(x) ==
    /\ watch[x] = "entered"
    /\ watch' = [watch EXCEPT ![x] = IF urlWg = 0 THEN "closed" ELSE "asleep"]
    /\ UNCHANGED <<calls, queue, urlWg, workers, adders, waits, counters,
                   fate>>

WatchWake(x) ==
    /\ watch[x] = "woken"
    /\ watch' = [watch EXCEPT ![x] = IF urlWg = 0 THEN "closed" ELSE "panic"]
    /\ UNCHANGED <<calls, queue, urlWg, workers, adders, waits, counters,
                   fate>>

\* Fault: the workers are not cancelled when all URLs are processed.
WaitAllDoneNoCancel(x) ==
    /\ wait[x] = "select"
    /\ watch[x] = "closed"
    /\ wait' = [wait EXCEPT ![x] = "join"]
    /\ UNCHANGED <<calls, queue, urlWg, workers, adders, waitErr, watch,
                   counters, fate>>

WaitAllDone(x) ==
    /\ wait[x] = "select"
    /\ watch[x] = "closed"
    /\ ctx' = "done"
    /\ wait' = [wait EXCEPT ![x] = "join"]
    /\ UNCHANGED <<started, stopped, parentDone, startPc, stopPc, queue,
                   urlWg, workers, adders, waitErr, watch, counters, fate>>

WaitCancelled(x) ==
    /\ wait[x] = "select"
    /\ ctx = "done"
    /\ wait' = [wait EXCEPT ![x] = "drain"]
    /\ UNCHANGED <<calls, queue, urlWg, workers, adders, waitErr, watch,
                   counters, fate>>

\* Fault: drained requests stay in the queue.
WaitDrainPeek(x) ==
    /\ wait[x] = "drain"
    /\ queue # <<>>
    /\ fate' = [fate EXCEPT ![Head(queue)] = "drained"]
    /\ WgDone
    /\ UNCHANGED <<calls, queue, workers, adders, waits, counters>>

WaitDrain(x) ==
    /\ wait[x] = "drain"
    /\ queue # <<>>
    /\ queue' = Tail(queue)
    /\ fate' = [fate EXCEPT ![Head(queue)] = "drained"]
    /\ WgDone
    /\ UNCHANGED <<calls, workers, adders, waits, counters>>

WaitDrained(x) ==
    /\ wait[x] = "drain"
    /\ queue = <<>>
    /\ wait' = [wait EXCEPT ![x] = "join"]
    /\ waitErr' = [waitErr EXCEPT ![x] = TRUE]
    /\ UNCHANGED <<calls, queue, urlWg, workers, adders, watch, counters,
                   fate>>

\* workerWg.Wait() and httpClient.Close().
WaitJoin(x) ==
    /\ wait[x] = "join"
    /\ \A w \in Workers : wpc[w] = "exited"
    /\ wait' = [wait EXCEPT ![x] = "returned"]
    /\ UNCHANGED <<calls, queue, urlWg, workers, adders, waitErr, watch,
                   counters, fate>>

-----------------------------------------------------------------------------
WorkerStep(w) ==
    \/ WorkerExit(w) \/ WorkerReceive(w)
    \/ Acquire(w) \/ AcquireFail(w) \/ RequestCallbacksDone(w)
    \/ FetchError(w) \/ FetchOk(w)
    \/ ResponseCallbacksDone(w) \/ LastCallbacksDone(w)
    \/ Release(w) \/ WorkerDone(w)

AddStep(c) == AddURLCount(c) \/ AddURLSend(c) \/ AddURLFull(c)

WatchStep(x) == WatchWait(x) \/ WatchWake(x)

WaitStep(x) ==
    \/ WaitAllDone(x) \/ WaitCancelled(x) \/ WaitDrain(x) \/ WaitDrained(x)
    \/ WaitJoin(x)

Next ==
    /\ ~Crashed
    /\ \/ StartSwap \/ StartRun \/ StopSwap \/ StopCancel \/ ParentCancel
       \/ \E c \in Callers : AddURLCheck(c) \/ AddStep(c)
       \/ \E w \in Workers : WorkerStep(w)
       \/ \E x \in Waiters : WaitCall(x) \/ WatchStep(x) \/ WaitStep(x)

Spec == Init /\ [][Next]_vars

(* Every goroutine that can run eventually does: Go's scheduler is fair,   *)
(* fetches end because the HTTP client and the render fetcher time out,    *)
(* and callbacks are assumed to return.  Nobody is obliged to call         *)
(* anything, and nothing is assumed about which ready branch a select      *)
(* takes.                                                                  *)
Fairness ==
    /\ WF_vars(~Crashed /\ StartRun) /\ WF_vars(~Crashed /\ StopCancel)
    /\ \A c \in Callers : WF_vars(~Crashed /\ AddStep(c))
    /\ \A w \in Workers : WF_vars(~Crashed /\ WorkerStep(w))
    /\ \A x \in Waiters : /\ WF_vars(~Crashed /\ WatchStep(x))
                          /\ WF_vars(~Crashed /\ WaitStep(x))

FairSpec == Spec /\ Fairness

-----------------------------------------------------------------------------
(* Properties *)

\* urlWg counts exactly the URLs that are still owed a result: the queued
\* ones, those a worker has taken and not finished, and those an AddURL call
\* has counted but not yet sent.  It is why Done never drives the counter
\* negative (which panics) whatever AddURL, workers and Wait's drain do.
UrlWgAccounting ==
    urlWg = Len(queue) + Cardinality(BusyWorkers) + Cardinality(Counted)

\* A worker holds concurrency permits only while it processes a request:
\* every return of processRequest gives them back, and the one taken before
\* the deferred Release is set up never had them.
NoLeakedPermit ==
    \A w \in Workers :
        /\ holding[w] => wpc[w] \in Busy \ {"acquire", "done"}
        /\ wpc[w] \in {"onRequest", "fetch", "onResponse", "onHTML", "release"}
              => holding[w]

\* Requests are neither lost nor processed twice between AddURL, the channel,
\* the workers and Wait's drain loop, and the success and error counters are
\* the numbers of requests that ended that way, those whose Acquire failed
\* included.
RequestsConserved ==
    /\ \A i, j \in 1..Len(queue) : queue[i] = queue[j] => i = j
    /\ {queue[i] : i \in 1..Len(queue)} = WithFate({"queued"})
    /\ \A v, w \in BusyWorkers : job[v] = job[w] => v = w
    /\ WithFate({"working"}) \subseteq {job[w] : w \in BusyWorkers}
    /\ successCount = Cardinality(WithFate({"ok"}))
    /\ errorCount = Cardinality(WithFate({"failed"}))

\* What happened to a request is final: one that Wait drained is never
\* processed and one a worker finished is never taken again.
HandledOnce ==
    [][\A r \in Requests : fate[r] \in Final => fate'[r] = fate[r]]_vars

\* "Wait blocks until all queued URLs have been processed or the crawler is
\* stopped.  It shuts down workers ... before returning": a Wait that returns
\* leaves no worker running, so that nothing touches what it released, and
\* one that returns nil leaves no request queued or in a worker, although
\* callbacks keep adding URLs while it waits.
WaitComplete ==
    \A x \in Waiters : wait[x] = "returned" =>
        /\ \A w \in Workers : wpc[w] = "exited"
        /\ waitErr[x] \/ WithFate({"queued", "working"}) = {}

\* No call sequence of goroutines that do not overlap Start with Wait, or
\* Wait with outside AddURL calls, panics: neither on the nil context nor by
\* reusing the WaitGroup while a Wait on it is waking up.
NoPanic == ~Crashed

\* Wait returns, whether the crawl ends by itself, is stopped, or its
\* context is cancelled.
WaitReturns ==
    \A x \in Waiters : wait[x] = "select" ~> wait[x] = "returned"

\* Every worker exits, wherever it is, once the context is cancelled, and a
\* Stop that is called after Start has returned does cancel it.  (One that
\* comes earlier finds no cancel function and is lost.)
WorkersExit ==
    ctx = "done" \/ (stopPc = "swapped" /\ startPc = "returned")
        ~> \A w \in Workers : wpc[w] = "exited"

=============================================================================

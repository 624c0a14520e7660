--------------------------- MODULE ProxyRotation ---------------------------
(***************************************************************************)
(* The proxy rotation middleware (pkg/middleware/proxy.go).  Nothing is    *)
(* locked: the rotation index and the failure counters are atomics that    *)
(* requests read one at a time.  A pick is therefore a scan: it starts at  *)
(* an offset, loads one counter per step and takes the first healthy proxy *)
(* (round-robin, random) or collects the healthy ones and draws one        *)
(* (weighted).  Other requests record their results between the loads.     *)
(*                                                                         *)
(* NewProxyRotation makes every weight at least 1, so a weighted draw may  *)
(* return any proxy of the pool it collected and the total weight is 0     *)
(* exactly when that pool is empty.                                        *)
(***************************************************************************)
EXTENDS Naturals, FiniteSets

CONSTANTS
    Requests,
    N,             \* len(cfg.Proxies); a proxy is its index 0..N-1
    MaxFailures,
    IndexLimit     \* the rotation index is counted modulo this, 2^64 in the code

ProxyAssumption ==
    /\ IsFiniteSet(Requests)
    /\ N \in Nat \ {0} /\ MaxFailures \in Nat \ {0} /\ IndexLimit \in Nat \ {0}

Proxies == 0 .. N - 1
Modes == {"round-robin", "random", "weighted"}
NoProxy == N

VARIABLES
    mode,      \* cfg.RotationMode
    index,     \* the rotation counter, an atomic.Uint64
    failures,  \* consecutive failures of each proxy
    qpc,       \* a request's position
    base, i,   \* the offset of its scan and the number of proxies looked at
    pool,      \* the healthy proxies a weighted pick has collected
    chosen     \* the proxy written to req.Meta

vars == <<mode, index, failures, qpc, base, i, pool, chosen>>

TypeOK ==
    /\ mode \in Modes
    /\ index \in 0 .. IndexLimit - 1
    /\ failures \in [Proxies -> Nat]
    /\ qpc \in [Requests -> {"idle", "scan", "next", "refused"}]
    /\ base \in [Requests -> Proxies]
    /\ i \in [Requests -> 0..N]
    /\ pool \in [Requests -> SUBSET Proxies]
    /\ chosen \in [Requests -> Proxies \cup {NoProxy}]

\* NewProxyRotation, with any of the three modes.
Init ==
    /\ mode \in Modes
    /\ index = 0
    /\ failures = [p \in Proxies |-> 0]
    /\ qpc = [r \in Requests |-> "idle"]
    /\ base = [r \in Requests |-> 0]
    /\ i = [r \in Requests |-> 0]
    /\ pool = [r \in Requests |-> {}]
    /\ chosen = [r \in Requests |-> NoProxy]

-----------------------------------------------------------------------------
(* pick *)

\* isHealthy; a counter that was never created reads as 0.
IsHealthy(p) == failures[p] < MaxFailures

\* The proxy a scan looks at in its next step.
At(r) == (base[r] + i[r]) % N

Start(r, b) ==
    /\ qpc[r] = "idle"
    /\ qpc' = [qpc EXCEPT ![r] = "scan"]
    /\ base' = [base EXCEPT ![r] = b]
    /\ i' = [i EXCEPT ![r] = 0]
    /\ pool' = [pool EXCEPT ![r] = {}]
    /\ UNCHANGED <<mode, failures, chosen>>

\* pr.index.Add(1) - 1, reduced modulo n.
StartRoundRobin(r) ==
    /\ mode = "round-robin"
    /\ Start(r, index % N)
    /\ index' = (index + 1) % IndexLimit

StartRandom(r) ==
    /\ mode = "random"
    /\ \E b \in Proxies : Start(r, b)
    /\ UNCHANGED index

StartWeighted(r) ==
    /\ mode = "weighted"
    /\ Start(r, 0)
    /\ UNCHANGED index

\* A request goes on with proxy p.
Take(r, p) == /\ qpc' = [qpc EXCEPT ![r] = "next"]
              /\ chosen' = [chosen EXCEPT ![r] = p]

\* "no healthy proxy available"
Refuse(r) == /\ qpc' = [qpc EXCEPT ![r] = "refused"]
             /\ UNCHANGED chosen

LookOn(r) == i' = [i EXCEPT ![r] = @ + 1]

\* Round-robin and random: the first healthy proxy from the offset on.
ScanTake(r) ==
    /\ qpc[r] = "scan" /\ mode # "weighted" /\ i[r] < N
    /\ IsHealthy(At(r))
    /\ Take(r, At(r))
    /\ UNCHANGED <<mode, index, failures, base, i, pool>>

ScanSkip(r) ==
    /\ qpc[r] = "scan" /\ mode # "weighted" /\ i[r] < N
    /\ ~IsHealthy(At(r))
    /\ LookOn(r)
    /\ UNCHANGED <<mode, index, failures, qpc, base, pool, chosen>>

ScanEnd(r) ==
    /\ qpc[r] = "scan" /\ mode # "weighted" /\ i[r] = N
    /\ Refuse(r)
    /\ UNCHANGED <<mode, index, failures, base, i, pool>>

\* pickWeighted: collect the healthy proxies, then draw one.
Collect(r) ==
    /\ qpc[r] = "scan" /\ mode = "weighted" /\ i[r] < N
    /\ pool' = [pool EXCEPT ![r] = @ \cup {p \in {i[r]} : IsHealthy(p)}]
    /\ LookOn(r)
    /\ UNCHANGED <<mode, index, failures, qpc, base, chosen>>

Draw(r) ==
    /\ qpc[r] = "scan" /\ mode = "weighted" /\ i[r] = N
    /\ IF pool[r] = {} THEN Refuse(r) ELSE \E p \in pool[r] : Take(r, p)
    /\ UNCHANGED <<mode, index, failures, base, i, pool>>

-----------------------------------------------------------------------------
(* ProcessRequest, after the pick *)

Done(r) == /\ qpc' = [qpc EXCEPT ![r] = "idle"]
           /\ chosen' = [chosen EXCEPT ![r] = NoProxy]
           /\ UNCHANGED <<mode, index, base, i, pool>>

\* next returns an error: ctr.Add(1).
Fail(r) ==
    /\ qpc[r] = "next"
    /\ failures' = [failures EXCEPT ![chosen[r]] = @ + 1]
    /\ Done(r)

\* Fault: the result is recorded for the proxy the scan began at.
SucceedBase(r) ==
    /\ qpc[r] = "next"
    /\ failures' = [failures EXCEPT ![base[r]] = 0]
    /\ Done(r)

\* next returns a response: ctr.Store(0).
Succeed(r) ==
    /\ qpc[r] = "next"
    /\ failures' = [failures EXCEPT ![chosen[r]] = 0]
    /\ Done(r)

\* The caller of a refused request comes back with another one.
Refused(r) ==
    /\ qpc[r] = "refused"
    /\ Done(r)
    /\ UNCHANGED <<failures>>

Next == \E r \in Requests :
    \/ StartRoundRobin(r) \/ StartRandom(r) \/ StartWeighted(r)
    \/ ScanTake(r) \/ ScanSkip(r) \/ ScanEnd(r) \/ Collect(r) \/ Draw(r)
    \/ Fail(r) \/ Succeed(r) \/ Refused(r)

Spec == Init /\ [][Next]_vars

-----------------------------------------------------------------------------
(* Properties *)

\* The requests that may still go through proxy p on an earlier look at it.
Committed(p) == {r \in Requests :
    \/ qpc[r] = "next" /\ chosen[r] = p
    \/ qpc[r] = "scan" /\ p \in pool[r]}

\* How far a counter can overshoot: the requests that saw a proxy healthy
\* before it reached MaxFailures are the only ones to fail on it afterwards.
FailuresBounded ==
    \A p \in Proxies :
        failures[p] + Cardinality(Committed(p)) <= MaxFailures - 1 + Cardinality(Requests)

\* The rotation's state is well-typed and failure counters overshoot by no
\* more than the requests under way.
ProxyInv == TypeOK /\ FailuresBounded

\* proxy.go:59 "skipped in future picks until they recover (i.e. until a
\* successful request resets their counter)": with no request left that saw
\* it healthy, an unhealthy proxy stays unhealthy for ever, since nothing but
\* a request through it resets its counter and no request is given it.
OutStaysOut ==
    [][\A p \in Proxies : ~IsHealthy(p) /\ Committed(p) = {}
           => failures'[p] >= MaxFailures /\ Committed(p)' = {}]_vars

=============================================================================

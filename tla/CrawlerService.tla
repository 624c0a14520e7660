--------------------------- MODULE CrawlerService ---------------------------
(***************************************************************************)
(* The gRPC handlers for long-running crawlers (pkg/server/handlers.go)    *)
(* over the crawler service (pkg/crawler/service_impl.go).  Two maps       *)
(* describe the same crawlers: the server's instances (status by id, never *)
(* deleted) and the service's instances (engine by id, deleted by Stop).   *)
(* They are under different locks, and every RPC is a goroutine that       *)
(* visits one after the other.                                             *)
(*                                                                         *)
(* An engine is named by the StartCrawler RPC that made it; engine[r] is   *)
(* its context: "live", or "done" once it is stopped or cancelled.  The    *)
(* engine's context is derived from the RPC's, which gRPC cancels when the *)
(* handler has returned (external), or earlier when the client goes away.  *)
(* Each RPC is made once, so Rpcs bounds the calls.                        *)
(***************************************************************************)
EXTENDS FiniteSets

CONSTANTS Rpcs, Ids, NoRpc, NoId

ASSUME ServiceAssumption == NoRpc \notin Rpcs /\ NoId \notin Ids

VARIABLES
    svc,         \* service.instances: id -> engine, NoRpc when absent
    reg,         \* Server.instances: id -> status
    engine,      \* context of the engine an RPC made
    stopFlag,    \* Engine.stopped
    fed,         \* AddURLs calls that put URLs into their engine's queue
    pc, id, inst, reply,
    target       \* the engine an AddURLs call looked up

vars == <<svc, reg, engine, stopFlag, fed, pc, id, inst, reply, target>>

adding == <<fed, target>>

Positions == {"idle", "start", "register", "stopCheck", "stopTake", "halt",
              "mark", "statsCheck", "stats", "addCheck", "addLookup", "add",
              "return", "done"}

TypeOK ==
    /\ svc \in [Ids -> Rpcs \cup {NoRpc}]
    /\ reg \in [Ids -> {"absent", "RUNNING", "STOPPED"}]
    /\ engine \in [Rpcs -> {"none", "live", "done"}]
    /\ stopFlag \in [Rpcs -> BOOLEAN]
    /\ fed \subseteq Rpcs
    /\ pc \in [Rpcs -> Positions]
    /\ id \in [Rpcs -> Ids \cup {NoId}]
    /\ inst \in [Rpcs -> Rpcs \cup {NoRpc}]
    /\ target \in [Rpcs -> Rpcs \cup {NoRpc}]
    /\ reply \in [Rpcs -> {"none", "OK", "NotFound", "Internal"}]

\* New and NewService: both maps are empty.
Init ==
    /\ svc = [i \in Ids |-> NoRpc]
    /\ reg = [i \in Ids |-> "absent"]
    /\ engine = [r \in Rpcs |-> "none"]
    /\ stopFlag = [r \in Rpcs |-> FALSE]
    /\ fed = {} /\ target = [r \in Rpcs |-> NoRpc]
    /\ pc = [r \in Rpcs |-> "idle"]
    /\ id = [r \in Rpcs |-> NoId]
    /\ inst = [r \in Rpcs |-> NoRpc]
    /\ reply = [r \in Rpcs |-> "none"]

Goto(r, l) == pc' = [pc EXCEPT ![r] = l]
Reply(r, code) == reply' = [reply EXCEPT ![r] = code] /\ Goto(r, "return")

\* A client calls StartCrawler, StopCrawler, GetStats or AddURLs.
Call(r, i) ==
    /\ pc[r] = "idle"
    /\ \E l \in {"start", "stopCheck", "statsCheck", "addCheck"} : Goto(r, l)
    /\ id' = [id EXCEPT ![r] = i]
    /\ UNCHANGED <<svc, reg, engine, stopFlag, inst, reply, adding>>

-----------------------------------------------------------------------------
(* StartCrawler *)

\* Fault: an id that is already running is not refused.
ServiceStartUnchecked(r) ==
    /\ pc[r] = "start"
    /\ svc' = [svc EXCEPT ![id[r]] = r]
    /\ engine' = [engine EXCEPT ![r] = "live"]
    /\ Goto(r, "register")
    /\ UNCHANGED <<reg, stopFlag, id, inst, reply, adding>>

\* service.Start, under s.mu from the exists check to the registration.
ServiceStart(r) ==
    /\ pc[r] = "start"
    /\ svc[id[r]] = NoRpc
    /\ svc' = [svc EXCEPT ![id[r]] = r]
    /\ engine' = [engine EXCEPT ![r] = "live"]
    /\ Goto(r, "register")
    /\ UNCHANGED <<reg, stopFlag, id, inst, reply, adding>>

\* The id is taken, or newEngine, AddURLs or Engine.Start fails: the new
\* engine, if there is one, is cancelled and not registered.
ServiceStartFail(r) ==
    /\ pc[r] = "start"
    /\ Reply(r, "Internal")
    /\ UNCHANGED <<svc, reg, engine, stopFlag, id, inst, adding>>

\* The server's map, under its own lock, after the service has the engine.
Register(r) ==
    /\ pc[r] = "register"
    /\ reg' = [reg EXCEPT ![id[r]] = "RUNNING"]
    /\ Reply(r, "OK")
    /\ UNCHANGED <<svc, engine, stopFlag, id, inst, adding>>

\* The RPC's context ends: the handler returned, or the client went away.
ContextEnds(r) ==
    /\ pc[r] \notin {"idle", "start"} /\ engine[r] = "live"
    /\ engine' = [engine EXCEPT ![r] = "done"]
    /\ UNCHANGED <<svc, reg, stopFlag, pc, id, inst, reply, adding>>

-----------------------------------------------------------------------------
(* StopCrawler *)

StopCheck(r) ==
    /\ pc[r] = "stopCheck"
    /\ IF reg[id[r]] = "absent"
       THEN Reply(r, "NotFound")
       ELSE Goto(r, "stopTake") /\ UNCHANGED reply
    /\ UNCHANGED <<svc, reg, engine, stopFlag, id, inst, adding>>

\* service.Stop: take the instance out of the map under the lock ...
ServiceStopTake(r) ==
    /\ pc[r] = "stopTake"
    /\ svc[id[r]] # NoRpc
    /\ inst' = [inst EXCEPT ![r] = svc[id[r]]]
    /\ svc' = [svc EXCEPT ![id[r]] = NoRpc]
    /\ Goto(r, "halt")
    /\ UNCHANGED <<reg, engine, stopFlag, id, reply, adding>>

ServiceStopMissing(r) ==
    /\ pc[r] = "stopTake"
    /\ svc[id[r]] = NoRpc
    /\ Reply(r, "Internal")
    /\ UNCHANGED <<svc, reg, engine, stopFlag, id, inst, adding>>

\* ... then stop the engine and cancel its context without it.
ServiceStopHalt(r) ==
    /\ pc[r] = "halt"
    /\ stopFlag' = [stopFlag EXCEPT ![inst[r]] = TRUE]
    /\ engine' = [engine EXCEPT ![inst[r]] = "done"]
    /\ Goto(r, "mark")
    /\ UNCHANGED <<svc, reg, id, inst, reply, adding>>

StopMark(r) ==
    /\ pc[r] = "mark"
    /\ reg' = [reg EXCEPT ![id[r]] = "STOPPED"]
    /\ Reply(r, "OK")
    /\ UNCHANGED <<svc, engine, stopFlag, id, inst, adding>>

-----------------------------------------------------------------------------
(* GetStats and AddURLs *)

Check(r, from, to) ==
    /\ pc[r] = from
    /\ IF reg[id[r]] = "absent"
       THEN Reply(r, "NotFound")
       ELSE Goto(r, to) /\ UNCHANGED reply
    /\ UNCHANGED <<svc, reg, engine, stopFlag, id, inst, adding>>

StatsCheck(r) == Check(r, "statsCheck", "stats")
AddCheck(r) == Check(r, "addCheck", "addLookup")

ServiceStats(r) ==
    /\ pc[r] = "stats"
    /\ Reply(r, IF svc[id[r]] = NoRpc THEN "Internal" ELSE "OK")
    /\ UNCHANGED <<svc, reg, engine, stopFlag, id, inst, adding>>

\* service.AddURLs: the engine is looked up under the read lock ...
ServiceAddLookup(r) ==
    /\ pc[r] = "addLookup"
    /\ target' = [target EXCEPT ![r] = svc[id[r]]]
    /\ IF svc[id[r]] = NoRpc
       THEN Reply(r, "Internal")
       ELSE Goto(r, "add") /\ UNCHANGED reply
    /\ UNCHANGED <<svc, reg, engine, stopFlag, fed, id, inst>>

\* Fault: AddURL does not look at the engine's stopped flag.
ServiceAddAnyway(r) ==
    /\ pc[r] = "add"
    /\ fed' \in {fed, fed \cup {r}}
    /\ Reply(r, "OK")
    /\ UNCHANGED <<svc, reg, engine, stopFlag, id, inst, target>>

\* ... and given the URLs after the unlock.  Engine.AddURL refuses them when
\* the engine was stopped or its queue is full, and the answer is OK with
\* none added; it does not look at the engine's context.
ServiceAddURLs(r) ==
    /\ pc[r] = "add"
    /\ \/ UNCHANGED fed
       \/ ~stopFlag[target[r]] /\ fed' = fed \cup {r}
    /\ Reply(r, "OK")
    /\ UNCHANGED <<svc, reg, engine, stopFlag, id, inst, target>>

\* The handler has returned: gRPC ends the RPC and cancels its context.
Return(r) ==
    /\ pc[r] = "return"
    /\ engine' = [engine EXCEPT ![r] = IF @ = "live" THEN "done" ELSE @]
    /\ Goto(r, "done")
    /\ UNCHANGED <<svc, reg, stopFlag, id, inst, reply, adding>>

-----------------------------------------------------------------------------
Handler(r) ==
    \/ ServiceStart(r) \/ ServiceStartFail(r) \/ Register(r)
    \/ StopCheck(r) \/ ServiceStopTake(r) \/ ServiceStopMissing(r)
    \/ ServiceStopHalt(r) \/ StopMark(r)
    \/ StatsCheck(r) \/ ServiceStats(r)
    \/ AddCheck(r) \/ ServiceAddLookup(r) \/ ServiceAddURLs(r) \/ Return(r)

Next == \E r \in Rpcs : \/ \E i \in Ids : Call(r, i)
                        \/ Handler(r) \/ ContextEnds(r)

Spec == Init /\ [][Next]_vars

-----------------------------------------------------------------------------
(* Properties *)

\* A live engine can always be stopped: it is the one registered under its
\* id, or a Stop that took it out of the map is about to halt it.  No order
\* of racing starts and stops orphans a crawl.
NoOrphan ==
    \A r \in Rpcs : engine[r] = "live" =>
        \/ svc[id[r]] = r
        \/ \E s \in Rpcs : pc[s] = "halt" /\ inst[s] = r

\* Racing StopCrawler calls never both claim one engine, and an engine a Stop
\* has claimed is not in the service's map under any id.
StopClaimsOnce ==
    \A s \in Rpcs : inst[s] # NoRpc =>
        /\ \A t \in Rpcs : inst[t] = inst[s] => t = s
        /\ \A i \in Ids : svc[i] # inst[s]

\* A StopCrawler that answers OK has halted an engine that StartCrawler made
\* for the same id, whatever else ran in between.
StopOkStopped ==
    \A s \in Rpcs : inst[s] # NoRpc /\ reply[s] = "OK" =>
        engine[inst[s]] = "done" /\ id[inst[s]] = id[s]

\* The two maps agree on the engines as far as clients depend on it, whatever
\* starts and stops race: none is orphaned, none is claimed by two stops, and
\* a stop that answered OK has stopped the engine of its id.
ServiceInv == TypeOK /\ NoOrphan /\ StopClaimsOnce /\ StopOkStopped

\* Once a StopCrawler has answered OK for an engine, no AddURLs call that
\* looked the engine up before puts another URL into it, and none ever feeds
\* an engine of another id.
NoAddAfterStop ==
    [][\A r \in fed' \ fed :
          /\ id[target[r]] = id[r]
          /\ \A s \in Rpcs : inst[s] = target[r] => reply[s] # "OK"]_vars

\* handlers.go:114 "StartCrawler creates a new long-running crawler
\* instance": one that nobody stopped keeps running.
LongRunning ==
    \A r \in Rpcs : pc[r] = "done" /\ reply[r] = "OK" /\ svc[id[r]] = r
        => engine[r] = "live"

=============================================================================

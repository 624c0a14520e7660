---------------------------- MODULE ServerProofs ----------------------------
(***************************************************************************)
(* Proofs about the parts of the crawler server, for any number of RPCs,   *)
(* crawler ids, senders and clients: no order of racing StartCrawler,      *)
(* StopCrawler and AddURLs calls orphans a crawl, has it stopped twice or  *)
(* feeds it after a stop was acknowledged (CrawlerService); no client that *)
(* disconnects makes a broadcast send on a closed channel                  *)
(* (ProgressTracker); a stop of the server cuts an RPC off only after the  *)
(* drain timeout and leaves a server that takes no more (ServerShutdown).  *)
(***************************************************************************)
EXTENDS MCServer, Naturals, Sequences, TLAPS

-----------------------------------------------------------------------------
(* The crawler service: the inductive invariant *)

\* A request that came has an id, and only one past service.Start an engine.
RpcInv ==
    /\ \A r \in Rpcs : pc[r] # "idle" => id[r] \in Ids
    /\ \A r \in Rpcs : engine[r] # "none" => pc[r] \notin {"idle", "start"}
    /\ \A r \in Rpcs : reply[r] # "none" => pc[r] \in {"return", "done"}

\* The service's map names, under an id, an engine that was made for that id.
MapInv ==
    \A i \in Ids : svc[i] # NoRpc => id[svc[i]] = i /\ engine[svc[i]] # "none"

\* A Stop's claim: the engine is of the Stop's id, and halted once the Stop is
\* past that step.
ClaimInv ==
    /\ \A s \in Rpcs : pc[s] \in {"halt", "mark"} => inst[s] # NoRpc
    /\ \A s \in Rpcs : inst[s] # NoRpc =>
          /\ pc[s] \in {"halt", "mark", "return", "done"}
          /\ id[inst[s]] = id[s] /\ engine[inst[s]] # "none"
          /\ pc[s] # "halt" => engine[inst[s]] = "done" /\ stopFlag[inst[s]] = TRUE

\* The engine that an AddURLs call looked up is of the call's id.
TargetInv ==
    \A r \in Rpcs : pc[r] = "add" =>
        target[r] # NoRpc /\ engine[target[r]] # "none" /\ id[target[r]] = id[r]

ServiceInd ==
    /\ TypeOK /\ RpcInv /\ MapInv /\ ClaimInv /\ TargetInv
    /\ NoOrphan /\ StopClaimsOnce

\* Two empty maps satisfy it.
LEMMA ServiceInit == Init => ServiceInd
<1> SUFFICES ASSUME Init PROVE ServiceInd
  OBVIOUS
<1>1. stopFlag \in [Rpcs -> BOOLEAN]
  BY Zenon DEF Init
<1>2. TypeOK
  BY <1>1 DEF Init, TypeOK, Positions
<1>3. RpcInv /\ MapInv /\ ClaimInv /\ TargetInv
  BY DEF Init, RpcInv, MapInv, ClaimInv, TargetInv
<1>4. NoOrphan /\ StopClaimsOnce
  BY DEF Init, NoOrphan, StopClaimsOnce
<1>5. QED
  BY <1>2, <1>3, <1>4 DEF ServiceInd

\* Every step keeps the types.
LEMMA ServiceType == ASSUME ServiceInd, [Next]_vars PROVE TypeOK'
<1> USE DEF ServiceInd, TypeOK, Goto, Reply, adding
<1>0. ASSUME NEW r \in Rpcs, NEW l \in Positions, Goto(r, l)
      PROVE  pc' \in [Rpcs -> Positions]
  BY <1>0
<1>1. ASSUME NEW r \in Rpcs, NEW c \in {"OK", "NotFound", "Internal"}, Reply(r, c)
      PROVE  /\ pc' \in [Rpcs -> Positions]
             /\ reply' \in [Rpcs -> {"none", "OK", "NotFound", "Internal"}]
  BY <1>1 DEF Positions
<1>2. ASSUME NEW r \in Rpcs, NEW i \in Ids, Call(r, i) PROVE TypeOK'
  <2>1. pc' \in [Rpcs -> Positions]
    BY <1>2 DEF Call, Positions
  <2>2. QED
    BY <1>2, <2>1 DEF Call
<1>3. ASSUME NEW r \in Rpcs, ServiceStart(r) \/ ServiceStartFail(r) \/ Register(r)
      PROVE  TypeOK'
  <2>1. id[r] \in Ids /\ "register" \in Positions
    BY <1>3 DEF ServiceStart, ServiceStartFail, Register, RpcInv, Positions
  <2>2. CASE ServiceStart(r)
    BY <1>0, <2>1, <2>2 DEF ServiceStart
  <2>3. CASE ServiceStartFail(r)
    BY <1>1, <2>3 DEF ServiceStartFail
  <2>4. CASE Register(r)
    BY <1>1, <2>1, <2>4 DEF Register
  <2>5. QED
    BY <1>3, <2>2, <2>3, <2>4
<1>4. ASSUME NEW r \in Rpcs, NEW from, NEW to \in Positions,
             pc[r] = from,
             IF reg[id[r]] = "absent" THEN Reply(r, "NotFound")
                                      ELSE Goto(r, to) /\ UNCHANGED reply,
             UNCHANGED <<svc, reg, engine, stopFlag, id, inst, fed, target>>
      PROVE  TypeOK'
  BY <1>0, <1>1, <1>4
<1>5. ASSUME NEW r \in Rpcs, StopCheck(r) \/ StatsCheck(r) \/ AddCheck(r) PROVE TypeOK'
  <2>1. {"stopTake", "stats", "addLookup"} \subseteq Positions
    BY DEF Positions
  <2>2. QED
    BY <1>4, <1>5, <2>1 DEF StopCheck, StatsCheck, AddCheck, Check
<1>6. ASSUME NEW r \in Rpcs, ServiceStopTake(r) \/ ServiceStopMissing(r) PROVE TypeOK'
  <2>1. svc[id[r]] \in Rpcs \cup {NoRpc} /\ "halt" \in Positions /\ id[r] \in Ids
    BY <1>6 DEF ServiceStopTake, ServiceStopMissing, RpcInv, Positions
  <2>2. CASE ServiceStopTake(r)
    BY <1>0, <2>1, <2>2 DEF ServiceStopTake
  <2>3. CASE ServiceStopMissing(r)
    BY <1>1, <2>3 DEF ServiceStopMissing
  <2>4. QED
    BY <1>6, <2>2, <2>3
<1>7. ASSUME NEW r \in Rpcs, ServiceStopHalt(r) PROVE TypeOK'
  <2>1. inst[r] \in Rpcs /\ "mark" \in Positions
    BY <1>7 DEF ServiceStopHalt, ClaimInv, Positions
  <2>2. stopFlag' \in [Rpcs -> BOOLEAN]
    BY <1>7 DEF ServiceStopHalt
  <2>3. QED
    BY <1>0, <1>7, <2>1, <2>2 DEF ServiceStopHalt
<1>8. ASSUME NEW r \in Rpcs, StopMark(r) PROVE TypeOK'
  BY <1>1, <1>8 DEF StopMark
<1>9. ASSUME NEW r \in Rpcs, ServiceStats(r) PROVE TypeOK'
  BY <1>1, <1>9 DEF ServiceStats
<1>10. ASSUME NEW r \in Rpcs, ServiceAddLookup(r) PROVE TypeOK'
  <2>1. svc[id[r]] \in Rpcs \cup {NoRpc} /\ "add" \in Positions
    BY <1>10 DEF ServiceAddLookup, RpcInv, Positions
  <2>2. QED
    BY <1>0, <1>1, <1>10, <2>1 DEF ServiceAddLookup
<1>11. ASSUME NEW r \in Rpcs, ServiceAddURLs(r) PROVE TypeOK'
  <2>1. fed' \subseteq Rpcs
    BY <1>11 DEF ServiceAddURLs
  <2>2. QED
    BY <1>1, <1>11, <2>1 DEF ServiceAddURLs
<1>12. ASSUME NEW r \in Rpcs, Return(r) \/ ContextEnds(r) PROVE TypeOK'
  <2>1. "done" \in Positions
    BY DEF Positions
  <2>2. engine' \in [Rpcs -> {"none", "live", "done"}]
    BY <1>12 DEF Return, ContextEnds
  <2>3. QED
    BY <1>0, <1>12, <2>1, <2>2 DEF Return, ContextEnds
<1>13. CASE UNCHANGED vars
  BY <1>13 DEF vars
<1>14. QED
  BY <1>2, <1>3, <1>5, <1>6, <1>7, <1>8, <1>9, <1>10, <1>11, <1>12, <1>13
  DEF Next, Handler

\* The part of the invariant beyond types.
ServiceRel == RpcInv /\ MapInv /\ ClaimInv /\ TargetInv /\ NoOrphan /\ StopClaimsOnce

\* A step that only moves one request, which neither is a Stop about to halt
\* its engine nor becomes one, keeps what relates the maps and the requests.
LEMMA ServiceQuiet ==
    ASSUME ServiceInd, NEW r \in Rpcs,
           UNCHANGED <<svc, engine, stopFlag, id, inst, target>>,
           pc[r] \notin {"idle", "halt"},
           \A s \in Rpcs \ {r} : pc'[s] = pc[s] /\ reply'[s] = reply[s],
           \/ pc'[r] = "return"
           \/ /\ pc'[r] \in {"stopTake", "stats", "addLookup"}
              /\ pc[r] \in {"stopCheck", "statsCheck", "addCheck"}
              /\ reply'[r] = reply[r]
    PROVE  ServiceRel'
<1> USE DEF ServiceInd, TypeOK
<1>1. inst[r] # NoRpc => pc'[r] = "return"
  BY DEF ClaimInv
<1>2. RpcInv'
  BY DEF RpcInv
<1>3. MapInv' /\ StopClaimsOnce'
  BY DEF MapInv, StopClaimsOnce
<1>4. ClaimInv'
  BY <1>1 DEF ClaimInv
<1>5. TargetInv'
  BY DEF TargetInv
<1>6. NoOrphan'
  BY DEF NoOrphan
<1>7. QED
  BY <1>2, <1>3, <1>4, <1>5, <1>6 DEF ServiceRel

\* StartCrawler registers a new engine under an id that is free.
LEMMA ServiceStartStep ==
    ASSUME ServiceInd, NEW r \in Rpcs, ServiceStart(r)
    PROVE  ServiceRel'
<1> USE DEF ServiceInd, TypeOK, adding
<1>1. /\ pc[r] = "start" /\ svc[id[r]] = NoRpc /\ id[r] \in Ids
      /\ engine[r] = "none" /\ r # NoRpc
  BY ServiceAssumption DEF ServiceStart, RpcInv
<1>2. /\ svc' = [svc EXCEPT ![id[r]] = r] /\ engine' = [engine EXCEPT ![r] = "live"]
      /\ pc' = [pc EXCEPT ![r] = "register"]
      /\ UNCHANGED <<stopFlag, id, inst, reply, target>>
  BY DEF ServiceStart, Goto
<1>3. /\ \A i \in Ids : svc[i] # r
      /\ \A s \in Rpcs : inst[s] # r
      /\ inst[r] = NoRpc
  BY <1>1 DEF MapInv, ClaimInv
<1>4. RpcInv'
  BY <1>1, <1>2 DEF RpcInv
<1>5. MapInv'
  BY <1>1, <1>2 DEF MapInv
<1>6. ClaimInv'
  BY <1>1, <1>2, <1>3 DEF ClaimInv
<1>7. TargetInv'
  BY <1>1, <1>2 DEF TargetInv
<1>8. NoOrphan'
  <2> SUFFICES ASSUME NEW x \in Rpcs, engine'[x] = "live"
               PROVE  svc'[id'[x]] = x \/ \E s \in Rpcs : pc'[s] = "halt" /\ inst'[s] = x
    BY DEF NoOrphan
  <2>1. CASE x = r
    BY <1>1, <1>2, <2>1
  <2>2. CASE x # r
    <3>1. engine[x] = "live"
      BY <1>2, <2>2
    <3>2. CASE svc[id[x]] = x
      <4>1. id[x] \in Ids /\ id[x] # id[r]
        BY <1>1, <3>1, <3>2, ServiceAssumption DEF RpcInv
      <4>2. QED
        BY <1>2, <3>2, <4>1
    <3>3. ASSUME NEW s \in Rpcs, pc[s] = "halt", inst[s] = x
          PROVE  pc'[s] = "halt" /\ inst'[s] = x
      BY <1>1, <1>2, <3>3
    <3>4. QED
      BY <3>1, <3>2, <3>3 DEF NoOrphan
  <2>3. QED
    BY <2>1, <2>2
<1>9. StopClaimsOnce'
  BY <1>1, <1>2, <1>3 DEF StopClaimsOnce
<1>10. QED
  BY <1>4, <1>5, <1>6, <1>7, <1>8, <1>9 DEF ServiceRel

\* StopCrawler claims the engine it takes out of the map.
LEMMA ServiceTakeStep ==
    ASSUME ServiceInd, NEW r \in Rpcs, ServiceStopTake(r)
    PROVE  ServiceRel'
<1> USE DEF ServiceInd, TypeOK, adding
<1> DEFINE x == svc[id[r]]
<1>1. /\ pc[r] = "stopTake" /\ id[r] \in Ids /\ x # NoRpc /\ x \in Rpcs
      /\ id[x] = id[r] /\ engine[x] # "none" /\ inst[r] = NoRpc
  BY DEF ServiceStopTake, RpcInv, MapInv, ClaimInv
<1>2. /\ svc' = [svc EXCEPT ![id[r]] = NoRpc] /\ inst' = [inst EXCEPT ![r] = x]
      /\ pc' = [pc EXCEPT ![r] = "halt"]
      /\ UNCHANGED <<engine, stopFlag, id, reply, target>>
  BY DEF ServiceStopTake, Goto
<1>3. /\ \A s \in Rpcs : inst[s] # x
      /\ \A i \in Ids : svc[i] = x => i = id[r]
  BY <1>1 DEF StopClaimsOnce, MapInv
<1>4. RpcInv'
  BY <1>1, <1>2 DEF RpcInv
<1>5. MapInv'
  BY <1>1, <1>2 DEF MapInv
<1>6. ClaimInv'
  BY <1>1, <1>2 DEF ClaimInv
<1>7. TargetInv'
  BY <1>1, <1>2 DEF TargetInv
<1>8. NoOrphan'
  <2> SUFFICES ASSUME NEW y \in Rpcs, engine[y] = "live"
               PROVE  svc'[id[y]] = y \/ \E s \in Rpcs : pc'[s] = "halt" /\ inst'[s] = y
    BY <1>2 DEF NoOrphan
  <2>1. CASE y = x
    BY <1>1, <1>2, <2>1
  <2>2. CASE y # x /\ svc[id[y]] = y
    <3>1. id[y] \in Ids /\ id[y] # id[r]
      BY <2>2 DEF RpcInv
    <3>2. QED
      BY <1>1, <1>2, <2>2, <3>1
  <2>3. ASSUME NEW s \in Rpcs, pc[s] = "halt", inst[s] = y
        PROVE  pc'[s] = "halt" /\ inst'[s] = y
    BY <1>1, <1>2, <2>3
  <2>4. QED
    BY <2>1, <2>2, <2>3 DEF NoOrphan
<1>9. StopClaimsOnce'
  BY <1>1, <1>2, <1>3 DEF StopClaimsOnce
<1>10. QED
  BY <1>4, <1>5, <1>6, <1>7, <1>8, <1>9 DEF ServiceRel

\* StopCrawler halts the engine it claimed.
LEMMA ServiceHaltStep ==
    ASSUME ServiceInd, NEW r \in Rpcs, ServiceStopHalt(r)
    PROVE  ServiceRel'
<1> USE DEF ServiceInd, TypeOK, adding
<1> DEFINE x == inst[r]
<1>1. pc[r] = "halt" /\ x \in Rpcs /\ x # NoRpc /\ engine[x] # "none"
  BY DEF ServiceStopHalt, ClaimInv
<1>2. /\ stopFlag' = [stopFlag EXCEPT ![x] = TRUE]
      /\ engine' = [engine EXCEPT ![x] = "done"]
      /\ pc' = [pc EXCEPT ![r] = "mark"]
      /\ UNCHANGED <<svc, id, inst, reply, target>>
  BY DEF ServiceStopHalt, Goto
<1>3. \A y \in Rpcs : /\ engine[y] # "none" <=> engine'[y] # "none"
                      /\ engine'[y] = "live" => engine[y] = "live" /\ y # x
                      /\ engine[y] = "done" => engine'[y] = "done"
                      /\ stopFlag[y] = TRUE => stopFlag'[y] = TRUE
  BY <1>1, <1>2
<1>4. engine'[x] = "done" /\ stopFlag'[x] = TRUE
  BY <1>1, <1>2
<1>5. \A s \in Rpcs : s # r => pc'[s] = pc[s]
  BY <1>2
<1>6. RpcInv'
  BY <1>1, <1>2, <1>3 DEF RpcInv
<1>7. MapInv' /\ TargetInv'
  BY <1>1, <1>2, <1>3 DEF MapInv, TargetInv
<1>8. ClaimInv'
  BY <1>1, <1>2, <1>3, <1>4, <1>5 DEF ClaimInv
<1>9. NoOrphan'
  BY <1>1, <1>2, <1>3, <1>5 DEF NoOrphan
<1>10. StopClaimsOnce'
  BY <1>2 DEF StopClaimsOnce
<1>11. QED
  BY <1>6, <1>7, <1>8, <1>9, <1>10 DEF ServiceRel

\* The context of a request ends, with the request or before.
LEMMA ServiceEndStep ==
    ASSUME ServiceInd, NEW r \in Rpcs, ContextEnds(r) \/ Return(r)
    PROVE  ServiceRel'
<1> USE DEF ServiceInd, TypeOK, adding
<1>1. UNCHANGED <<svc, id, inst, reply, target, stopFlag>>
  BY DEF ContextEnds, Return
<1>2. \A y \in Rpcs : /\ engine[y] # "none" <=> engine'[y] # "none"
                      /\ engine'[y] = "live" => engine[y] = "live"
                      /\ engine[y] = "done" => engine'[y] = "done"
  BY DEF ContextEnds, Return
<1>3. \A y \in Rpcs : pc'[y] = pc[y] \/ (pc[y] = "return" /\ pc'[y] = "done")
  BY DEF ContextEnds, Return, Goto
<1>4. RpcInv'
  BY <1>1, <1>2, <1>3 DEF RpcInv
<1>5. MapInv' /\ TargetInv'
  BY <1>1, <1>2, <1>3 DEF MapInv, TargetInv
<1>6. ClaimInv'
  BY <1>1, <1>2, <1>3 DEF ClaimInv
<1>7. NoOrphan'
  BY <1>1, <1>2, <1>3 DEF NoOrphan
<1>8. StopClaimsOnce'
  BY <1>1 DEF StopClaimsOnce
<1>9. QED
  BY <1>4, <1>5, <1>6, <1>7, <1>8 DEF ServiceRel

\* A client makes a request, for a crawler of its choice.
LEMMA ServiceCallStep ==
    ASSUME ServiceInd, NEW r \in Rpcs, NEW i \in Ids, Call(r, i)
    PROVE  ServiceRel'
<1> USE DEF ServiceInd, TypeOK, adding
<1>1. pc[r] = "idle" /\ engine[r] = "none" /\ inst[r] = NoRpc /\ reply[r] = "none"
  BY DEF Call, RpcInv, ClaimInv
<1>2. /\ pc'[r] \in {"start", "stopCheck", "statsCheck", "addCheck"} /\ id'[r] = i
      /\ \A s \in Rpcs \ {r} : pc'[s] = pc[s] /\ id'[s] = id[s]
      /\ UNCHANGED <<svc, engine, stopFlag, inst, reply, target>>
  BY DEF Call, Goto
<1>3. RpcInv'
  BY <1>1, <1>2 DEF RpcInv
<1>4. MapInv'
  BY <1>1, <1>2 DEF MapInv
<1>5. ClaimInv'
  BY <1>1, <1>2 DEF ClaimInv
<1>6. TargetInv'
  BY <1>1, <1>2 DEF TargetInv
<1>7. NoOrphan'
  BY <1>1, <1>2 DEF NoOrphan
<1>8. StopClaimsOnce'
  BY <1>2 DEF StopClaimsOnce
<1>9. QED
  BY <1>3, <1>4, <1>5, <1>6, <1>7, <1>8 DEF ServiceRel

\* AddURLs looks up the engine of its id.
LEMMA ServiceLookupStep ==
    ASSUME ServiceInd, NEW r \in Rpcs, ServiceAddLookup(r)
    PROVE  ServiceRel'
<1> USE DEF ServiceInd, TypeOK, adding
<1>1. /\ pc[r] = "addLookup" /\ id[r] \in Ids /\ inst[r] = NoRpc
      /\ UNCHANGED <<svc, engine, stopFlag, id, inst>>
      /\ \A s \in Rpcs \ {r} : /\ pc'[s] = pc[s] /\ reply'[s] = reply[s]
                               /\ target'[s] = target[s]
  BY DEF ServiceAddLookup, RpcInv, ClaimInv, Goto, Reply
<1>2. \/ pc'[r] = "return"
      \/ /\ pc'[r] = "add" /\ reply'[r] = reply[r]
         /\ target'[r] = svc[id[r]] /\ svc[id[r]] # NoRpc
  BY DEF ServiceAddLookup, Goto, Reply
<1>3. RpcInv'
  BY <1>1, <1>2 DEF RpcInv
<1>4. MapInv' /\ StopClaimsOnce'
  BY <1>1 DEF MapInv, StopClaimsOnce
<1>5. ClaimInv'
  BY <1>1, <1>2 DEF ClaimInv
<1>6. TargetInv'
  BY <1>1, <1>2 DEF TargetInv, MapInv
<1>7. NoOrphan'
  BY <1>1, <1>2 DEF NoOrphan
<1>8. QED
  BY <1>3, <1>4, <1>5, <1>6, <1>7 DEF ServiceRel

\* Every step keeps the invariant.
LEMMA ServiceNext == ServiceInd /\ [Next]_vars => ServiceInd'
<1> SUFFICES ASSUME ServiceInd, [Next]_vars PROVE ServiceRel'
  BY ServiceType DEF ServiceInd, ServiceRel
<1>1. ASSUME NEW r \in Rpcs,
             \/ ServiceStartFail(r) \/ Register(r) \/ StopCheck(r)
             \/ ServiceStopMissing(r) \/ StopMark(r) \/ StatsCheck(r)
             \/ ServiceStats(r) \/ AddCheck(r) \/ ServiceAddURLs(r)
      PROVE  ServiceRel'
  <2>1. /\ UNCHANGED <<svc, engine, stopFlag, id, inst, target>>
        /\ pc[r] \notin {"idle", "halt"}
    BY <1>1 DEF ServiceStartFail, Register, StopCheck, ServiceStopMissing, StopMark,
                StatsCheck, ServiceStats, AddCheck, Check, ServiceAddURLs, adding
  <2>2. (\E code : Reply(r, code)) \/ (UNCHANGED reply /\
           \E l \in {"stopTake", "stats", "addLookup"} :
              Goto(r, l) /\ pc[r] \in {"stopCheck", "statsCheck", "addCheck"})
    BY <1>1 DEF ServiceStartFail, Register, StopCheck, ServiceStopMissing, StopMark,
                StatsCheck, ServiceStats, AddCheck, Check, ServiceAddURLs
  <2>3. /\ \A s \in Rpcs \ {r} : pc'[s] = pc[s] /\ reply'[s] = reply[s]
        /\ \/ pc'[r] = "return"
           \/ /\ pc'[r] \in {"stopTake", "stats", "addLookup"}
              /\ pc[r] \in {"stopCheck", "statsCheck", "addCheck"}
              /\ reply'[r] = reply[r]
    BY <2>2 DEF Reply, Goto, ServiceInd, TypeOK
  <2>4. QED
    BY <2>1, <2>3, ServiceQuiet
<1>2. CASE UNCHANGED vars
  BY <1>2 DEF vars, ServiceInd, ServiceRel, RpcInv, MapInv, ClaimInv, TargetInv, NoOrphan,
              StopClaimsOnce
<1>3. QED
  BY <1>1, <1>2, ServiceStartStep, ServiceTakeStep, ServiceHaltStep, ServiceEndStep,
     ServiceCallStep, ServiceLookupStep
  DEF Next, Handler

\* The invariant of the crawler service.
LEMMA ServiceInvariant == Spec => []ServiceInd
BY ServiceInit, ServiceNext, PTL DEF Spec

\* For any RPCs and ids: no order of racing StartCrawler and StopCrawler calls
\* orphans an engine, lets two stops claim one, or acknowledges a stop of an
\* engine that runs on or is of another id, although handlers.go's map and
\* service_impl.go's are under different locks.
THEOREM ServiceCorrect == Spec => []ServiceInv
<1>1. ServiceInd => StopOkStopped
  BY DEF ServiceInd, TypeOK, RpcInv, ClaimInv, StopOkStopped
<1>2. ServiceInd => ServiceInv
  BY <1>1 DEF ServiceInd, ServiceInv
<1>3. QED
  BY <1>2, ServiceInvariant, PTL

\* Once StopCrawler has answered OK no AddURLs call feeds the engine, not even
\* one that had looked it up before, and none feeds an engine of another id:
\* Engine.Stop sets the flag that AddURL reads before service.Stop returns.
THEOREM NoAddAfterStopCorrect == Spec => NoAddAfterStop
<1> DEFINE Kept == \A r \in fed' \ fed :
                      /\ id[target[r]] = id[r]
                      /\ \A s \in Rpcs : inst[s] = target[r] => reply[s] # "OK"
<1>1. ASSUME ServiceInd, [Next]_vars PROVE [Kept]_vars
  <2>1. ASSUME NEW r \in Rpcs, ServiceAddURLs(r), fed' # fed PROVE Kept
    <3>1. /\ pc[r] = "add" /\ stopFlag[target[r]] # TRUE /\ fed' = fed \cup {r}
      BY <2>1 DEF ServiceAddURLs
    <3>2. id[target[r]] = id[r] /\ target[r] # NoRpc
      BY <1>1, <3>1 DEF ServiceInd, TargetInv
    <3>3. \A s \in Rpcs : inst[s] = target[r] => reply[s] # "OK"
      BY <1>1, <3>1, <3>2 DEF ServiceInd, RpcInv, ClaimInv
    <3>4. QED
      BY <3>1, <3>2, <3>3
  <2>2. CASE fed' = fed
    BY <2>2
  <2>3. fed' = fed \/ \E r \in Rpcs : ServiceAddURLs(r)
    BY <1>1 DEF Next, Handler, Call, ServiceStart, ServiceStartFail, Register, StopCheck,
           ServiceStopTake, ServiceStopMissing, ServiceStopHalt, StopMark, StatsCheck,
           Check, ServiceStats, AddCheck, ServiceAddLookup, Return, ContextEnds, adding, vars
  <2>4. QED
    BY <2>1, <2>2, <2>3
<1>2. QED
  BY <1>1, ServiceInvariant, PTL DEF Spec, NoAddAfterStop

-----------------------------------------------------------------------------
(* The progress tracker *)

\* A channel on the map is open, and a broadcast under way serves only clients
\* that are on the map.
ChannelInv ==
    /\ clients \subseteq open
    /\ \A c \in clients : cpc[c] \in {"first", "stream"}
    /\ \A s \in P!Senders : spc[s] = "sending" => todo[s] \subseteq clients

ProgressInd == P!TypeOK /\ ChannelInv /\ panicked = FALSE

\* A tracker without clients satisfies it.
LEMMA ProgressInit == ASSUME P!ProgressAssumption PROVE P!Init => ProgressInd
<1> SUFFICES ASSUME P!Init PROVE ProgressInd
  OBVIOUS
<1>1. P!TypeOK
  <2>1. \A c \in Clients : chan[c] = <<>> /\ Len(chan[c]) <= Cap
    BY DEF P!Init, P!ProgressAssumption
  <2>2. chan \in [Clients -> Seq(P!Events)] /\ 0 \in P!Events
    BY DEF P!Init, P!Events, P!ProgressAssumption
  <2>3. QED
    BY <2>1, <2>2 DEF P!Init, P!TypeOK
<1>2. ChannelInv /\ panicked = FALSE
  BY DEF P!Init, ChannelInv, P!Senders
<1>3. QED
  BY <1>1, <1>2 DEF ProgressInd

\* Updates, ticks, locks and unlocks of broadcasts.
LEMMA ProgressSender ==
    ASSUME P!ProgressAssumption, ProgressInd,
           \/ \E s \in Updaters : P!Update(s)
           \/ P!Tick(Loop) \/ P!LoopEnds(Loop)
           \/ \E s \in P!Senders : P!Lock(s) \/ P!Unlock(s)
    PROVE  ProgressInd'
<1> USE DEF ProgressInd, P!TypeOK
<1>1. UNCHANGED <<clients, chan, open, cpc, shown, panicked>>
  BY DEF P!Update, P!Ready, P!Tick, P!LoopEnds, P!Lock, P!Unlock
<1>2. PICK s \in P!Senders :
        \/ P!Update(s) \/ P!Tick(s) \/ P!LoopEnds(s) \/ P!Lock(s) \/ P!Unlock(s)
  BY DEF P!Senders
<1>3. current' \in P!Events /\ event' \in [P!Senders -> P!Events]
  <2>1. CASE P!Update(s)
    <3>1. current + 1 \in P!Events
      BY <2>1 DEF P!Update, P!Events, P!ProgressAssumption
    <3>2. QED
      BY <2>1, <3>1 DEF P!Update, P!Ready
  <2>2. CASE P!Tick(s) \/ P!LoopEnds(s) \/ P!Lock(s) \/ P!Unlock(s)
    BY <2>2 DEF P!Tick, P!Ready, P!LoopEnds, P!Lock, P!Unlock
  <2>3. QED
    BY <1>2, <2>1, <2>2
<1>4. /\ spc' \in [P!Senders -> {"idle", "ready", "sending", "ended"}]
      /\ todo' \in [P!Senders -> SUBSET Clients]
  BY <1>2 DEF P!Update, P!Ready, P!Tick, P!LoopEnds, P!Lock, P!Unlock
<1>5. \A t \in P!Senders : spc'[t] = "sending" => todo'[t] \subseteq clients
  BY <1>2 DEF P!Update, P!Ready, P!Tick, P!LoopEnds, P!Lock, P!Unlock, ChannelInv
<1>6. ChannelInv'
  BY <1>1, <1>5 DEF ChannelInv
<1>7. QED
  BY <1>1, <1>3, <1>4, <1>6

\* A broadcast sends to a client, whose channel is open.
LEMMA ProgressSend ==
    ASSUME P!ProgressAssumption, ProgressInd,
           NEW s \in P!Senders, NEW c \in Clients, P!Send(s, c)
    PROVE  ProgressInd'
<1> USE DEF ProgressInd, P!TypeOK
<1>1. c \in open
  BY DEF P!Send, ChannelInv
<1>2. panicked' = FALSE
  BY <1>1 DEF P!Send
<1>3. chan' \in [Clients -> Seq(P!Events)] /\ \A d \in Clients : Len(chan'[d]) <= Cap
  <2> DEFINE q == IF Len(chan[c]) < Cap THEN Append(chan[c], event[s]) ELSE chan[c]
  <2>1. chan[c] \in Seq(P!Events) /\ Len(chan[c]) <= Cap /\ Cap \in Nat
    BY DEF P!ProgressAssumption
  <2>2. q \in Seq(P!Events) /\ Len(q) <= Cap
    BY <2>1
  <2>3. chan' = [chan EXCEPT ![c] = q]
    BY <1>1 DEF P!Send
  <2> HIDE DEF q
  <2>4. QED
    BY <2>2, <2>3
<1>4. todo' = [todo EXCEPT ![s] = @ \ {c}] /\ UNCHANGED <<current, clients, open>>
  BY DEF P!Send
<1>5. UNCHANGED <<spc, event, cpc, shown>>
  BY DEF P!Send
<1>6. ChannelInv'
  BY <1>4, <1>5 DEF ChannelInv
<1>7. QED
  BY <1>2, <1>3, <1>4, <1>5, <1>6

\* A handler subscribes, writes, unsubscribes and closes its channel.
LEMMA ProgressClient ==
    ASSUME P!ProgressAssumption, ProgressInd, NEW c \in Clients,
           \/ P!Subscribe(c) \/ P!First(c) \/ P!Receive(c)
           \/ P!Unsubscribe(c) \/ P!Close(c)
    PROVE  ProgressInd'
<1> USE DEF ProgressInd, P!TypeOK, P!senders
<1>1. UNCHANGED <<current, spc, event, todo, panicked>>
  BY DEF P!Subscribe, P!First, P!Receive, P!Unsubscribe, P!Close
<1>2. /\ cpc' \in [Clients -> {"new", "first", "stream", "closing", "gone"}]
      /\ clients' \subseteq Clients /\ open' \subseteq Clients
  BY DEF P!Subscribe, P!First, P!Receive, P!Unsubscribe, P!Close
<1>3. /\ chan' \in [Clients -> Seq(P!Events)] /\ shown' \in [Clients -> P!Events]
      /\ \A d \in Clients : Len(chan'[d]) <= Cap
  <2>1. CASE P!Receive(c)
    <3>1. /\ chan[c] \in Seq(P!Events) /\ chan[c] # <<>> /\ Len(chan[c]) <= Cap
          /\ Cap \in Nat
      BY <2>1 DEF P!Receive, P!ProgressAssumption
    <3>2. /\ Head(chan[c]) \in P!Events /\ Tail(chan[c]) \in Seq(P!Events)
          /\ Len(Tail(chan[c])) <= Cap
      BY <3>1
    <3>3. QED
      BY <2>1, <3>2 DEF P!Receive, P!Show
  <2>2. CASE P!Subscribe(c) \/ P!First(c) \/ P!Unsubscribe(c) \/ P!Close(c)
    BY <2>2 DEF P!Subscribe, P!First, P!Show, P!Unsubscribe, P!Close
  <2>3. QED
    BY <2>1, <2>2
<1>4. ChannelInv'
  <2>1. CASE P!Subscribe(c)
    BY <2>1 DEF P!Subscribe, P!NoReader, ChannelInv
  <2>2. CASE P!First(c) \/ P!Receive(c)
    BY <2>2 DEF P!First, P!Receive, ChannelInv
  <2>3. CASE P!Unsubscribe(c)
    BY <2>3 DEF P!Unsubscribe, P!NoReader, ChannelInv
  <2>4. CASE P!Close(c)
    BY <2>4 DEF P!Close, ChannelInv
  <2>5. QED
    BY <2>1, <2>2, <2>3, <2>4
<1>5. QED
  BY <1>1, <1>2, <1>3, <1>4

\* For any senders, clients and capacity: a client that disconnects while
\* broadcasts are under way never has one of them send on its closed channel,
\* because progress.go takes the channel off the map under the write lock
\* before it closes it.
THEOREM ProgressCorrect ==
    ASSUME P!ProgressAssumption
    PROVE  P!Spec => []ProgressInv
<1>1. ProgressInd /\ [P!Next]_P!vars => ProgressInd'
  <2> SUFFICES ASSUME ProgressInd, [P!Next]_P!vars PROVE ProgressInd'
    OBVIOUS
  <2>1. CASE UNCHANGED P!vars
    BY <2>1 DEF P!vars, ProgressInd, P!TypeOK, ChannelInv
  <2>2. QED
    BY <2>1, ProgressSender, ProgressSend, ProgressClient
    DEF P!Next, P!SenderStep, P!ClientStep
<1>2. ProgressInd => ProgressInv
  BY DEF ProgressInd, ProgressInv, P!ProgressInv, P!NoSendOnClosed
<1>3. QED
  BY <1>1, <1>2, ProgressInit, PTL DEF P!Spec

-----------------------------------------------------------------------------
(* Shutdown: the inductive invariant *)

\* Start's position and how much of the server it has made; only a Start that
\* finds its context done calls Stop, and it then finds the server.
BeginInv ==
    /\ begin \in {"idle", "listening"} => grpc = "nil"
    /\ begin \in {"created", "checked", "ready", "select", "stopping"} => grpc # "nil"
    /\ begin = "returned" => grpc \in {"nil", "stopped"}
    /\ stop[Starter] # "idle" => begin \in {"stopping", "returned"}
    /\ stop[Starter] # "lost"

\* A Stop that goes on has found the server; one whose drain has ended, or that
\* has ended itself otherwise than lost, leaves it stopped.
StopInv ==
    /\ \A s \in S!Stops : stop[s] \in {"drain", "graceful", "forced"} => grpc # "nil"
    /\ \A s \in S!Stops : drain[s] # "none" => grpc # "nil"
    /\ \A s \in S!Stops : drain[s] = "closed" => grpc = "stopped"
    /\ \A s \in S!Stops : stop[s] \in {"graceful", "forced"} => grpc = "stopped"

\* A stopped server runs no RPC, and one that was cut off was so by a timeout.
StreamInv ==
    /\ grpc = "stopped" => \A r \in Streams : rpc[r] # "running"
    /\ \A r \in Streams : rpc[r] = "killed" => S!Forced

ShutdownInd == S!TypeOK /\ BeginInv /\ StopInv /\ StreamInv

\* Nothing was started or stopped.
LEMMA ShutdownStart == S!Init => ShutdownInd
BY DEF S!Init, ShutdownInd, S!TypeOK, BeginInv, StopInv, StreamInv, S!Stops, S!Ended

\* Start's own steps and the cancellation of its context.
LEMMA StartNext ==
    ASSUME ShutdownInd, S!Listen \/ S!StartStep \/ S!Cancel
    PROVE  ShutdownInd'
<1>1. UNCHANGED <<stop, drain, rpc>>
  BY DEF S!Listen, S!StartStep, S!Cancel, S!StartTo, S!Create, S!CreateHealth, S!SetServing,
     S!Serve, S!ServeReturns, S!StartCancelled, S!StopReturned
<1>2. /\ grpc = "stopped" <=> grpc' = "stopped"
      /\ grpc # "nil" => grpc' # "nil"
  BY DEF ShutdownInd, BeginInv, S!Listen, S!StartStep, S!Cancel, S!StartTo, S!Create,
     S!CreateHealth, S!SetServing, S!Serve, S!ServeReturns, S!StartCancelled, S!StopReturned
<1>3. StopInv' /\ StreamInv'
  BY <1>1, <1>2 DEF ShutdownInd, StopInv, StreamInv, S!Stops, S!Forced
<1>4. S!TypeOK'
  <2>1. /\ begin' \in {"idle", "listening", "created", "checked", "ready", "select",
                       "stopping", "returned"}
        /\ ctxDone' \in BOOLEAN
    BY DEF ShutdownInd, S!TypeOK, S!Listen, S!StartStep, S!Cancel, S!StartTo, S!Create,
       S!CreateHealth, S!SetServing, S!Serve, S!ServeReturns, S!StartCancelled, S!StopReturned
  <2>2. /\ grpc' \in {"nil", "new", "serving", "draining", "stopped"}
        /\ health' \in {"nil", "SERVING", "NOT_SERVING"}
    BY DEF ShutdownInd, S!TypeOK, S!Listen, S!StartStep, S!Cancel, S!StartTo, S!Create,
       S!CreateHealth, S!SetServing, S!Serve, S!ServeReturns, S!StartCancelled, S!StopReturned
  <2>3. QED
    BY <1>1, <2>1, <2>2 DEF ShutdownInd, S!TypeOK, S!Stops, S!Ended
<1>5. BeginInv'
  <2>1. CASE S!StopReturned
    BY <1>1, <2>1 DEF ShutdownInd, BeginInv, StopInv, S!StopReturned, S!StartTo, S!Ended, S!Stops
  <2>2. CASE S!Listen \/ S!Create \/ S!CreateHealth \/ S!SetServing \/ S!Cancel
    BY <1>1, <2>2 DEF ShutdownInd, BeginInv, S!StartTo, S!Listen, S!Create, S!CreateHealth,
       S!SetServing, S!Cancel
  <2>3. CASE S!Serve \/ S!ServeReturns \/ S!StartCancelled
    BY <1>1, <2>3 DEF ShutdownInd, BeginInv, S!StartTo, S!Serve, S!ServeReturns, S!StartCancelled
  <2>4. QED
    BY <2>1, <2>2, <2>3 DEF S!StartStep
<1>6. QED
  BY <1>3, <1>4, <1>5 DEF ShutdownInd

\* A call of Stop: it finds no server, half of one, or drains it.
LEMMA StopCallNext ==
    ASSUME ShutdownInd, NEW s \in S!Stops, S!StopCall(s)
    PROVE  ShutdownInd'
<1>1. /\ UNCHANGED <<begin, ctxDone, grpc, rpc>> /\ stop[s] = "idle"
      /\ s = Starter => begin = "stopping"
      /\ \E v \in {"lost", "panic", "drain"} :
            /\ stop' = [stop EXCEPT ![s] = v]
            /\ v \in {"panic", "drain"} <=> grpc # "nil"
  BY DEF S!StopCall
<1>2. \A t \in S!Stops : stop[t] = "forced" => stop'[t] = "forced"
  BY <1>1 DEF ShutdownInd, S!TypeOK
<1>3. StreamInv'
  BY <1>1, <1>2 DEF ShutdownInd, StreamInv, S!Forced, S!Stops
<1>4. \/ drain' = drain /\ health' = health
      \/ /\ drain' = [drain EXCEPT ![s] = "called"] /\ health' = "NOT_SERVING"
         /\ grpc # "nil"
  BY DEF ShutdownInd, S!TypeOK, S!StopCall
<1>5. S!TypeOK'
  <2>1. stop' \in [S!Stops -> {"idle", "drain", "panic"} \cup S!Ended]
    BY <1>1 DEF ShutdownInd, S!TypeOK, S!Ended
  <2>2. drain' \in [S!Stops -> {"none", "called", "waiting", "closed"}]
    BY <1>4 DEF ShutdownInd, S!TypeOK
  <2>3. QED
    BY <1>1, <1>4, <2>1, <2>2 DEF ShutdownInd, S!TypeOK, S!Stops, S!Ended
<1>6. StopInv'
  <2>1. \A t \in S!Stops : t # s => stop'[t] = stop[t] /\ drain'[t] = drain[t]
    BY <1>1, <1>4 DEF ShutdownInd, S!TypeOK
  <2>2. stop'[s] \in {"lost", "panic", "drain"} /\ (stop'[s] = "drain" => grpc # "nil")
    BY <1>1 DEF ShutdownInd, S!TypeOK
  <2>3. drain'[s] = drain[s] \/ (drain'[s] = "called" /\ grpc # "nil")
    BY <1>4 DEF ShutdownInd, S!TypeOK
  <2>4. QED
    BY <1>1, <2>1, <2>2, <2>3 DEF ShutdownInd, StopInv, S!Stops
<1>7. BeginInv'
  BY <1>1 DEF ShutdownInd, S!TypeOK, BeginInv, S!Stops
<1>8. QED
  BY <1>3, <1>5, <1>6, <1>7 DEF ShutdownInd

\* The drain begins and ends, and a Stop returns with it or at its timeout.
LEMMA StopStepNext ==
    ASSUME ShutdownInd, NEW s \in S!Stops, S!StopStep(s)
    PROVE  ShutdownInd'
<1>1. CASE S!GracefulStop(s)
  <2>1. /\ drain[s] = "called" /\ drain' = [drain EXCEPT ![s] = "waiting"] /\ grpc # "nil"
        /\ grpc' = IF grpc = "stopped" THEN grpc ELSE "draining"
        /\ UNCHANGED <<begin, ctxDone, health, stop, rpc>>
    BY <1>1 DEF S!GracefulStop, ShutdownInd, StopInv
  <2>2. S!TypeOK'
    BY <2>1 DEF ShutdownInd, S!TypeOK, S!Stops, S!Ended
  <2>3. BeginInv'
    BY <2>1 DEF ShutdownInd, BeginInv
  <2>4. StopInv'
    BY <2>1 DEF ShutdownInd, S!TypeOK, StopInv, S!Stops
  <2>5. StreamInv'
    BY <2>1 DEF ShutdownInd, StreamInv, S!Forced, S!Stops
  <2>6. QED
    BY <2>2, <2>3, <2>4, <2>5 DEF ShutdownInd
<1>2. CASE S!Drained(s)
  <2>1. /\ drain[s] = "waiting" /\ drain' = [drain EXCEPT ![s] = "closed"] /\ grpc # "nil"
        /\ grpc' = "stopped" /\ \A r \in Streams : rpc[r] # "running"
        /\ UNCHANGED <<begin, ctxDone, health, stop, rpc>>
    BY <1>2 DEF S!Drained, ShutdownInd, StopInv
  <2>2. S!TypeOK'
    BY <2>1 DEF ShutdownInd, S!TypeOK, S!Stops, S!Ended
  <2>3. BeginInv'
    BY <2>1 DEF ShutdownInd, BeginInv
  <2>4. StopInv'
    BY <2>1 DEF ShutdownInd, S!TypeOK, StopInv, S!Stops
  <2>5. StreamInv'
    BY <2>1 DEF ShutdownInd, StreamInv, S!Forced, S!Stops
  <2>6. QED
    BY <2>2, <2>3, <2>4, <2>5 DEF ShutdownInd
<1>3. CASE S!StopDone(s)
  <2>1. /\ drain[s] = "closed" /\ grpc = "stopped" /\ stop[s] = "drain"
        /\ stop' = [stop EXCEPT ![s] = "graceful"]
        /\ UNCHANGED <<begin, ctxDone, grpc, health, drain, rpc>>
    BY <1>3 DEF S!StopDone, S!StopEnds, ShutdownInd, StopInv
  <2>2. S!TypeOK'
    BY <2>1 DEF ShutdownInd, S!TypeOK, S!Stops, S!Ended
  <2>3. BeginInv'
    BY <2>1 DEF ShutdownInd, S!TypeOK, BeginInv
  <2>4. StopInv'
    BY <2>1 DEF ShutdownInd, S!TypeOK, StopInv, S!Stops
  <2>5. StreamInv'
    BY <2>1 DEF ShutdownInd, S!TypeOK, StreamInv, S!Forced, S!Stops
  <2>6. QED
    BY <2>2, <2>3, <2>4, <2>5 DEF ShutdownInd
<1>4. CASE S!StopTimeout(s)
  <2>1. /\ grpc # "nil" /\ grpc' = "stopped" /\ stop[s] = "drain"
        /\ stop' = [stop EXCEPT ![s] = "forced"]
        /\ rpc' = [r \in Streams |-> IF rpc[r] = "running" THEN "killed" ELSE rpc[r]]
        /\ UNCHANGED <<begin, ctxDone, health, drain>>
    BY <1>4 DEF S!StopTimeout, S!StopEnds, ShutdownInd, StopInv
  <2>2. S!TypeOK'
    BY <2>1 DEF ShutdownInd, S!TypeOK, S!Stops, S!Ended
  <2>3. BeginInv'
    BY <2>1 DEF ShutdownInd, S!TypeOK, BeginInv
  <2>4. StopInv'
    BY <2>1 DEF ShutdownInd, S!TypeOK, StopInv, S!Stops
  <2>5. StreamInv'
    BY <2>1 DEF ShutdownInd, S!TypeOK, StreamInv, S!Forced, S!Stops
  <2>6. QED
    BY <2>2, <2>3, <2>4, <2>5 DEF ShutdownInd
<1>5. QED
  BY <1>1, <1>2, <1>3, <1>4 DEF S!StopStep

\* Clients start RPCs while the server serves, and RPCs end.
LEMMA StreamNext ==
    ASSUME ShutdownInd, NEW r \in Streams, S!RpcStart(r) \/ S!RpcEnd(r)
    PROVE  ShutdownInd'
<1>1. /\ UNCHANGED <<begin, ctxDone, grpc, health, stop, drain>>
      /\ \/ grpc = "serving" /\ rpc' = [rpc EXCEPT ![r] = "running"]
         \/ rpc' = [rpc EXCEPT ![r] = "ended"]
  BY DEF S!RpcStart, S!RpcEnd
<1>2. rpc' \in [Streams -> {"none", "running", "ended", "killed"}]
  BY <1>1 DEF ShutdownInd, S!TypeOK
<1>3. S!TypeOK' /\ BeginInv' /\ StopInv'
  BY <1>1, <1>2 DEF ShutdownInd, S!TypeOK, S!Stops, S!Ended, BeginInv, StopInv
<1>4. StreamInv'
  BY <1>1 DEF ShutdownInd, S!TypeOK, StreamInv, S!Forced, S!Stops
<1>5. QED
  BY <1>3, <1>4 DEF ShutdownInd

\* server.go: through every order of Start, the end of its context and Stop
\* calls, and for any number of streams, an RPC is cut off only by a Stop that
\* waited for DrainTimeout, and a Stop that returns to a caller who had a server,
\* or a Start that returns, leaves one that takes no more RPCs.  This is the
\* safety part of ShutdownOK.
THEOREM ShutdownCorrect == S!Spec => [](S!TypeOK /\ S!ShutdownInv)
<1>1. S!Init => ShutdownInd
  BY ShutdownStart
<1>2. ShutdownInd /\ [S!Next]_S!vars => ShutdownInd'
  <2> SUFFICES ASSUME ShutdownInd, [S!Next]_S!vars PROVE ShutdownInd'
    OBVIOUS
  <2>1. CASE UNCHANGED S!vars
    BY <2>1 DEF S!vars, ShutdownInd, S!TypeOK, S!Stops, S!Ended, BeginInv, StopInv, StreamInv,
       S!Forced
  <2>2. CASE S!Next
    BY <2>2, StartNext, StopCallNext, StopStepNext, StreamNext DEF S!Next
  <2>3. QED
    BY <2>1, <2>2
<1>3. ShutdownInd => S!TypeOK /\ S!ShutdownInv
  BY DEF ShutdownInd, BeginInv, StopInv, StreamInv, S!ShutdownInv
<1>4. QED
  BY <1>1, <1>2, <1>3, PTL DEF S!Spec

=============================================================================

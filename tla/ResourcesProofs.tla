-------------------------- MODULE ResourcesProofs ---------------------------
(***************************************************************************)
(* Proofs about what a crawl borrows and keeps: the PostgreSQL storage     *)
(* plugin (Postgres), for any number of processes, migrations and batches, *)
(* the HTTP client with its buffer pool (HTTPClient), for any number of    *)
(* calls, buffers and bytes, the browser pool (BrowserPool), for any       *)
(* number of users, browsers, tabs and health checks, the plugin registry  *)
(* with its loader (Plugins), for any configurations, and the cookie jar   *)
(* with its file (CookieJar), for any cookies, savers and times.           *)
(***************************************************************************)
EXTENDS MCResources, SequenceTheorems, FiniteSetTheorems, WellFoundedInduction, TLAPS

-----------------------------------------------------------------------------
(* Postgres: the inductive invariant *)

\* A process at a version has found all earlier ones recorded, and records a
\* version only once it is in the schema.
MigrationOrder ==
    /\ \A p \in Procs : \A v \in G!Versions : v < version[p] => v \in recorded
    /\ \A p \in Procs : pc[p] \in {"apply", "record"} => version[p] \in G!Versions
    /\ \A p \in Procs : pc[p] = "record" => version[p] \in applied

PostgresInd == G!PostgresInv /\ MigrationOrder

\* An empty database and processes that are all off satisfy it.
LEMMA PostgresInit ==
    ASSUME G!PostgresAssumption, G!Init
    PROVE  PostgresInd
<1>1. G!TypeOK
  <2>1. pool \in [Procs -> BOOLEAN]
    BY Zenon DEF G!Init
  <2>2. QED
    BY <2>1 DEF G!PostgresAssumption, G!Init, G!TypeOK, G!Versions
<1>2. G!SchemaComplete
  BY DEF G!Init, G!SchemaComplete
<1>3. \A p \in Procs : pool[p] <=> pc[p] # "off"
  BY DEF G!Init
<1>4. stored # {} => applied = G!Versions
  BY DEF G!Init
<1>5. MigrationOrder
  BY DEF G!Init, G!Versions, MigrationOrder
<1>6. QED
  BY <1>1, <1>2, <1>3, <1>4, <1>5 DEF PostgresInd, G!PostgresInv

\* Recording a version that all earlier ones precede keeps the order.
LEMMA RecordNext ==
    ASSUME G!PostgresAssumption, PostgresInd, NEW p \in Procs, pc[p] = "record",
           recorded' = recorded \cup {version[p]}, applied' = applied
    PROVE  /\ recorded' \subseteq applied' /\ recorded' \subseteq G!Versions
           /\ \A v \in recorded' : 1 .. v \subseteq recorded'
           /\ recorded = G!Versions => recorded' = G!Versions
<1>1. version[p] \in G!Versions /\ version[p] \in applied
  BY DEF PostgresInd, MigrationOrder
<1>2. 1 .. version[p] \subseteq recorded'
  BY <1>1 DEF PostgresInd, MigrationOrder, G!Versions, G!PostgresAssumption
<1>3. QED
  BY <1>1, <1>2 DEF PostgresInd, G!PostgresInv, G!SchemaComplete, G!TypeOK

\* Every step of a process, and its failures and death, preserve it.
LEMMA PostgresNext ==
    ASSUME G!PostgresAssumption, PostgresInd, [G!Next]_G!vars
    PROVE  PostgresInd'
<1> USE DEF PostgresInd, G!PostgresInv
<1>0. CASE UNCHANGED G!vars
  BY <1>0 DEF G!vars, G!TypeOK, G!SchemaComplete, MigrationOrder
<1>1. ASSUME NEW p \in Procs, G!Connect(p)
      PROVE  PostgresInd'
  <2>1. G!TypeOK'
    BY <1>1 DEF G!Connect, G!Goto, G!database, G!TypeOK, G!PostgresAssumption
  <2>2. QED
    BY <1>1, <2>1 DEF G!Connect, G!Goto, G!database, G!TypeOK, G!SchemaComplete,
       MigrationOrder, G!Versions
<1>2. ASSUME NEW p \in Procs, G!Check(p)
      PROVE  PostgresInd'
  <2>0. /\ UNCHANGED <<applied, recorded, stored, pool>>
        /\ pc[p] = "check" /\ version[p] \in 1 .. Migrations + 1
    BY <1>2 DEF G!Check, G!database, G!TypeOK
  <2>1. CASE version[p] > Migrations /\ G!Goto(p, "ready") /\ UNCHANGED version
    <3>1. recorded = G!Versions
      <4>1. \A v \in G!Versions : v \in recorded
        BY <2>0, <2>1 DEF MigrationOrder, G!Versions, G!PostgresAssumption
      <4>2. QED
        BY <4>1 DEF G!TypeOK
    <3>2. QED
      BY <2>0, <2>1, <3>1 DEF G!Goto, G!TypeOK, G!SchemaComplete, MigrationOrder
  <2>2. CASE /\ version[p] \in recorded
             /\ version' = [version EXCEPT ![p] = @ + 1] /\ UNCHANGED pc
    <3>1. version[p] \in 1 .. Migrations /\ version[p] + 1 \in 1 .. Migrations + 1
      BY <2>0, <2>2 DEF G!TypeOK, G!Versions, G!PostgresAssumption
    <3>2. G!TypeOK'
      BY <2>0, <2>2, <3>1 DEF G!TypeOK
    <3>3. MigrationOrder'
      BY <2>0, <2>2, <3>1 DEF G!TypeOK, MigrationOrder, G!Versions
    <3>4. QED
      BY <2>0, <2>2, <3>2, <3>3 DEF G!SchemaComplete
  <2>3. CASE /\ version[p] \in G!Versions \ recorded
             /\ G!Goto(p, "apply") /\ UNCHANGED version
    BY <2>0, <2>3 DEF G!Goto, G!TypeOK, G!SchemaComplete, MigrationOrder
  <2>4. QED
    BY <1>2, <2>1, <2>2, <2>3 DEF G!Check
<1>3. ASSUME NEW p \in Procs, G!Apply(p)
      PROVE  PostgresInd'
  BY <1>3 DEF G!Apply, G!Goto, G!TypeOK, G!SchemaComplete, MigrationOrder
<1>4. ASSUME NEW p \in Procs, G!Record(p)
      PROVE  PostgresInd'
  <2>1. /\ pc[p] = "record" /\ recorded' = recorded \cup {version[p]}
        /\ pc' = [pc EXCEPT ![p] = "check"] /\ version' = [version EXCEPT ![p] = @ + 1]
        /\ UNCHANGED <<applied, stored, pool>>
    BY <1>4 DEF G!Record, G!Goto
  <2>2. version[p] \in G!Versions
    BY <2>1 DEF MigrationOrder
  <2>3. version[p] + 1 \in 1 .. Migrations + 1
    BY <2>2 DEF G!Versions, G!PostgresAssumption
  <2>4. G!TypeOK'
    BY <2>1, <2>2, <2>3 DEF G!TypeOK
  <2>5. G!SchemaComplete'
    BY <2>1, RecordNext DEF G!SchemaComplete, G!TypeOK
  <2>6. MigrationOrder'
    BY <2>1, <2>2 DEF MigrationOrder, G!TypeOK, G!Versions
  <2>7. QED
    BY <2>1, <2>4, <2>5, <2>6 DEF G!TypeOK
<1>5. ASSUME NEW p \in Procs, G!InitFails(p)
      PROVE  PostgresInd'
  <2>1. /\ pc[p] # "off" /\ pc[p] # "ready"
        /\ pc' = [pc EXCEPT ![p] = "off"] /\ pool' = [pool EXCEPT ![p] = FALSE]
        /\ UNCHANGED <<version, stored>>
        /\ \/ UNCHANGED <<applied, recorded>>
           \/ /\ pc[p] = "apply" /\ applied' = applied \cup {version[p]}
              /\ recorded' = recorded
           \/ /\ pc[p] = "record" /\ recorded' = recorded \cup {version[p]}
              /\ applied' = applied
    BY <1>5 DEF G!InitFails, G!Goto, G!database
  <2>2. recorded \subseteq recorded' /\ applied \subseteq applied'
    BY <2>1
  <2>3. G!SchemaComplete'
    BY <2>1, RecordNext DEF G!SchemaComplete, G!TypeOK
  <2>4. G!TypeOK'
    BY <2>1 DEF G!TypeOK, MigrationOrder
  <2>5. MigrationOrder'
    BY <2>1, <2>2 DEF MigrationOrder, G!TypeOK
  <2>6. QED
    BY <2>1, <2>2, <2>3, <2>4, <2>5 DEF G!TypeOK
<1>6. ASSUME NEW p \in Procs, NEW b \in Batches, G!Store(p, b)
      PROVE  PostgresInd'
  BY <1>6 DEF G!Store, G!Insert, G!Fault, G!TypeOK, G!SchemaComplete, MigrationOrder
<1>7. ASSUME NEW p \in Procs, G!Close(p) \/ G!Crash(p)
      PROVE  PostgresInd'
  BY <1>7 DEF G!Close, G!Crash, G!Goto, G!database, G!TypeOK, G!SchemaComplete,
              MigrationOrder
<1>8. QED
  BY <1>0, <1>1, <1>2, <1>3, <1>4, <1>5, <1>6, <1>7 DEF G!Next, G!InitStep

\* Whatever processes migrate one database at the same time, fail at, die at or
\* lose the answer of, the plugin is used only on a complete schema: versions
\* are recorded in order and after their migration has run.
THEOREM PostgresCorrect ==
    ASSUME G!PostgresAssumption
    PROVE  G!Spec => []PostgresInv
<1>1. G!Init => PostgresInd
  BY PostgresInit
<1>2. PostgresInd /\ [G!Next]_G!vars => PostgresInd'
  BY PostgresNext
<1>3. PostgresInd => PostgresInv
  BY DEF PostgresInd, PostgresInv
<1>4. QED
  BY <1>1, <1>2, <1>3, PTL DEF G!Spec

-----------------------------------------------------------------------------
(* Plugins: the inductive invariant *)

\* A loader stands at one of its entries, or behind the last; what it has
\* initialized is an entry it has reached, and the one it is about to register
\* is initialized.
LoaderInv ==
    /\ cfg \in [Loaders -> P!Configs]
    /\ \A l \in Loaders : at[l] <= Len(cfg[l]) + 1
    /\ \A l \in Loaders : epc[l] \in {"init", "register"} => at[l] <= Len(cfg[l])
    /\ \A l \in Loaders : epc[l] = "register" => <<l, at[l]>> \in inited
    /\ \A l \in Loaders : epc[l] \in {"next", "init", "ok"} => <<l, at[l]>> \notin inited
    /\ \A l \in Loaders, n \in 1 .. MaxEntries : <<l, n>> \in inited => n <= Len(cfg[l])

\* A CloseAll under way holds the read lock: what was registered when it began
\* is registered still, and is closed or left to close.
ClosingInv ==
    \A c \in Closers : /\ readers[c] \subseteq P!Registered
                       /\ readers[c] # {} => P!Registered \subseteq closed \cup readers[c]

PluginsSafe ==
    P!TypeOK /\ P!Reachable /\ P!Registered \subseteq inited /\ closed \subseteq inited

PluginsInd == PluginsSafe /\ LoaderInv /\ ClosingInv

\* A configuration has at most MaxEntries entries, each a key.
LEMMA ConfigEntries ==
    ASSUME P!PluginsAssumption, NEW e \in P!Configs
    PROVE  /\ Len(e) \in 0 .. MaxEntries
           /\ \A n \in 1 .. Len(e) : e[n] \in Keys
<1>1. PICK m \in 0 .. MaxEntries : e \in [1 .. m -> Keys]
  BY DEF P!Configs
<1>2. m \in Nat
  BY <1>1 DEF P!PluginsAssumption
<1>3. e \in Seq(Keys) /\ Len(e) = m
  BY <1>1, <1>2, IsASeq, LenProperties
<1>4. QED
  BY <1>1, <1>3

\* No loader has begun and the registry is empty.
LEMMA PluginsStart == ASSUME P!PluginsAssumption, P!Init PROVE PluginsInd
<1>1. \A l \in Loaders : Len(cfg[l]) \in Nat
  BY ConfigEntries DEF P!Init, P!PluginsAssumption
<1>2. P!TypeOK
  BY DEF P!Init, P!TypeOK, P!PluginsAssumption
<1>3. P!Registered = {}
  BY DEF P!Init, P!Registered
<1>4. P!Reachable
  BY DEF P!Init, P!Reachable
<1>5. LoaderInv
  BY <1>1 DEF P!Init, LoaderInv
<1>6. ClosingInv
  BY <1>3 DEF P!Init, ClosingInv
<1>7. QED
  BY <1>2, <1>3, <1>4, <1>5, <1>6 DEF P!Init, PluginsInd, PluginsSafe

\* A loader's steps up to Register leave the registry and the closers alone.
LEMMA LoaderStep ==
    ASSUME P!PluginsAssumption, PluginsInd, NEW l \in Loaders,
           P!LoadCreate(l) \/ P!LoadInit(l)
    PROVE  PluginsInd'
<1>1. UNCHANGED <<cfg, registry, at, readers, done, closed>>
  BY DEF P!LoadCreate, P!LoadInit, P!close
<1>2. P!Registered' = P!Registered
  BY <1>1 DEF P!Registered
<1>3. ClosingInv'
  BY <1>1, <1>2 DEF PluginsInd, ClosingInv
<1>4. inited \subseteq inited'
  BY DEF P!LoadCreate, P!LoadInit
<1>5. <<l, at[l]>> \in P!Instances \/ inited' = inited
  BY ConfigEntries DEF P!LoadCreate, P!LoadInit, PluginsInd, PluginsSafe, LoaderInv, P!TypeOK,
     P!Instances, P!PluginsAssumption
<1>6. P!TypeOK'
  BY <1>1, <1>5 DEF P!LoadCreate, P!LoadInit, PluginsInd, PluginsSafe, P!TypeOK
<1>7. LoaderInv'
  BY <1>1 DEF P!LoadCreate, P!LoadInit, PluginsInd, PluginsSafe, P!TypeOK, LoaderInv
<1>8. P!Reachable'
  <2> SUFFICES ASSUME NEW h \in Loaders, NEW n \in 1 .. MaxEntries
               PROVE  /\ n < at[h] => registry[cfg[h][n]] = <<h, n>>
                      /\ <<h, n>> \in inited' /\ n >= at[h] =>
                            n = at[h] /\ (epc'[h] = "register" \/ registry[cfg[h][n]] # NoPlugin)
    BY <1>1 DEF P!Reachable
  <2>1. n < at[h] => registry[cfg[h][n]] = <<h, n>>
    BY DEF PluginsInd, PluginsSafe, P!Reachable
  <2>2. ASSUME <<h, n>> \in inited, n >= at[h]
        PROVE  n = at[h] /\ (epc'[h] = "register" \/ registry[cfg[h][n]] # NoPlugin)
    <3>1. n = at[h] /\ (epc[h] = "register" \/ registry[cfg[h][n]] # NoPlugin)
      BY <2>2 DEF PluginsInd, PluginsSafe, P!Reachable
    <3>2. epc[h] = "register" => epc'[h] = "register"
      BY DEF P!LoadCreate, P!LoadInit, PluginsInd, PluginsSafe, P!TypeOK
    <3>3. QED
      BY <3>1, <3>2
  <2>3. ASSUME <<h, n>> \in inited', <<h, n>> \notin inited
        PROVE  n = at[h] /\ epc'[h] = "register"
    BY <2>3 DEF P!LoadCreate, P!LoadInit, PluginsInd, PluginsSafe, P!TypeOK
  <2>4. QED
    BY <2>1, <2>2, <2>3
<1>9. QED
  BY <1>1, <1>2, <1>3, <1>4, <1>6, <1>7, <1>8 DEF PluginsInd, PluginsSafe

\* A plugin that is registered takes a name that no other one has.
LEMMA RegisterStep ==
    ASSUME P!PluginsAssumption, PluginsInd, NEW l \in Loaders, P!LoadRegister(l)
    PROVE  /\ PluginsInd'
           /\ \A k \in Keys : registry[k] # NoPlugin => registry'[k] = registry[k]
<1> DEFINE e == P!Key(l)  q == <<l, at[l]>>
<1>1. /\ epc[l] = "register" /\ P!Closing = {} /\ P!Register(l)
      /\ UNCHANGED <<cfg, inited, readers, done, closed>>
  BY DEF P!LoadRegister, P!close
<1>2. at[l] \in 1 .. Len(cfg[l]) /\ e \in Keys /\ q \in P!Instances /\ q \in inited
  BY <1>1, ConfigEntries DEF PluginsInd, PluginsSafe, LoaderInv, P!TypeOK, P!Key, P!Instances,
     P!PluginsAssumption
<1>3. \A c \in Closers : readers[c] = {}
  BY <1>1 DEF P!Closing
<1>4. ClosingInv'
  BY <1>1, <1>3 DEF ClosingInv
<1>5. CASE registry[e] # NoPlugin
  <2>1. epc' = [epc EXCEPT ![l] = "failed"] /\ UNCHANGED <<registry, at>>
    BY <1>1, <1>5 DEF P!Register
  <2>2. P!Registered' = P!Registered
    BY <2>1 DEF P!Registered
  <2>3. P!TypeOK'
    BY <1>1, <2>1 DEF PluginsInd, PluginsSafe, P!TypeOK
  <2>4. LoaderInv'
    BY <1>1, <2>1 DEF PluginsInd, PluginsSafe, LoaderInv, P!TypeOK
  <2>5. P!Reachable'
    BY <1>1, <1>5, <2>1 DEF PluginsInd, PluginsSafe, P!Reachable, P!TypeOK, P!Key
  <2>6. QED
    BY <1>1, <1>4, <2>1, <2>2, <2>3, <2>4, <2>5 DEF PluginsInd, PluginsSafe
<1>6. CASE registry[e] = NoPlugin
  <2>1. /\ registry' = [registry EXCEPT ![e] = q]
        /\ at' = [at EXCEPT ![l] = @ + 1] /\ epc' = [epc EXCEPT ![l] = "next"]
    BY <1>1, <1>6 DEF P!Register
  <2>2. P!Registered' \subseteq P!Registered \cup {q}
    BY <2>1 DEF P!Registered, PluginsInd, PluginsSafe, P!TypeOK
  <2>3. Len(cfg[l]) \in 0 .. MaxEntries
    BY ConfigEntries DEF PluginsInd, LoaderInv
  <2>4. P!TypeOK'
    <3>1. registry' \in [Keys -> P!Instances \cup {NoPlugin}]
      BY <1>2, <2>1 DEF PluginsInd, PluginsSafe, P!TypeOK
    <3>2. at' \in [Loaders -> 1 .. MaxEntries + 1]
      BY <1>2, <2>1, <2>3 DEF PluginsInd, PluginsSafe, P!TypeOK, P!PluginsAssumption
    <3>3. QED
      BY <1>1, <2>1, <3>1, <3>2 DEF PluginsInd, PluginsSafe, P!TypeOK
  <2>5. \A k \in Keys : registry[k] # NoPlugin => registry'[k] = registry[k]
    BY <1>6, <2>1 DEF PluginsInd, PluginsSafe, P!TypeOK
  <2>6. \A h \in Loaders : at'[h] = IF h = l THEN at[h] + 1 ELSE at[h]
    BY <2>1 DEF PluginsInd, PluginsSafe, P!TypeOK
  <2>7. \A n \in 1 .. MaxEntries : <<l, n>> \in inited => n <= at[l]
    BY DEF PluginsInd, PluginsSafe, P!TypeOK, P!Reachable
  <2>8. LoaderInv'
    BY <1>1, <1>2, <2>1, <2>3, <2>6, <2>7 DEF PluginsInd, PluginsSafe, LoaderInv, P!TypeOK, P!Instances
  <2>9. P!Reachable'
    <3> SUFFICES ASSUME NEW h \in Loaders, NEW n \in 1 .. MaxEntries
                 PROVE  /\ n < at'[h] => registry'[cfg[h][n]] = <<h, n>>
                        /\ <<h, n>> \in inited /\ n >= at'[h] =>
                              n = at'[h] /\ (epc'[h] = "register" \/ registry'[cfg[h][n]] # NoPlugin)
      BY <1>1 DEF P!Reachable
    <3>1. Len(cfg[h]) \in 0 .. MaxEntries /\ \A j \in 1 .. Len(cfg[h]) : cfg[h][j] \in Keys
      BY ConfigEntries DEF PluginsInd, LoaderInv
    <3>2. at[h] \in 1 .. MaxEntries + 1 /\ at[h] <= Len(cfg[h]) + 1
      BY DEF PluginsInd, PluginsSafe, LoaderInv, P!TypeOK
    <3>3. ASSUME n < at'[h] PROVE registry'[cfg[h][n]] = <<h, n>>
      <4>1. CASE h = l /\ n = at[l]
        BY <1>2, <2>1, <4>1 DEF P!Key, PluginsInd, PluginsSafe, P!TypeOK
      <4>2. CASE n < at[h]
        <5>1. registry[cfg[h][n]] = <<h, n>> /\ cfg[h][n] \in Keys /\ <<h, n>> # NoPlugin
          <6>1. registry[cfg[h][n]] = <<h, n>>
            BY <4>2 DEF PluginsInd, PluginsSafe, P!Reachable
          <6>2. cfg[h][n] \in Keys
            BY <3>1, <3>2, <4>2
          <6>3. <<h, n>> # NoPlugin
            BY DEF P!Instances, P!PluginsAssumption
          <6>4. QED
            BY <6>1, <6>2, <6>3
        <5>2. QED
          BY <2>5, <5>1
      <4>3. QED
        BY <2>6, <3>2, <3>3, <4>1, <4>2
    <3>4. ASSUME <<h, n>> \in inited, n >= at'[h]
          PROVE  n = at'[h] /\ (epc'[h] = "register" \/ registry'[cfg[h][n]] # NoPlugin)
      <4>1. h # l
        BY <1>2, <2>6, <2>7, <3>2, <3>4
      <4>2. n = at[h] /\ (epc[h] = "register" \/ registry[cfg[h][n]] # NoPlugin)
        BY <2>6, <3>4, <4>1 DEF PluginsInd, PluginsSafe, P!Reachable
      <4>3. registry[cfg[h][n]] # NoPlugin => registry'[cfg[h][n]] # NoPlugin
        <5>1. cfg[h][n] \in Keys
          BY <3>1, <3>4 DEF PluginsInd, LoaderInv
        <5>2. QED
          BY <2>5, <5>1
      <4>4. QED
        BY <2>1, <2>6, <4>1, <4>2, <4>3 DEF PluginsInd, PluginsSafe, P!TypeOK
    <3>5. QED
      BY <3>3, <3>4
  <2>10. QED
    BY <1>1, <1>2, <1>4, <2>2, <2>4, <2>5, <2>8, <2>9 DEF PluginsInd, PluginsSafe
<1>7. QED
  BY <1>5, <1>6

\* A CloseAll takes the read lock, closes one plugin after the other, and
\* returns with the last.
LEMMA CloserStep ==
    ASSUME PluginsInd, NEW c \in Closers,
           P!CloseAll(c) \/ \E p \in P!Instances : P!CloseOne(c, p)
    PROVE  /\ PluginsInd'
           /\ done' # done => P!Registered \subseteq closed'
<1>1. UNCHANGED <<cfg, registry, at, epc, inited>> /\ P!Registered' = P!Registered
  BY DEF P!CloseAll, P!CloseOne, P!Registered
<1>2. LoaderInv' /\ P!Reachable'
  BY <1>1 DEF PluginsInd, PluginsSafe, LoaderInv, P!Reachable
<1>3. P!Registered \subseteq inited /\ inited \subseteq P!Instances
  BY DEF PluginsInd, PluginsSafe, P!TypeOK
<1>4. CASE P!CloseAll(c)
  <2>1. P!TypeOK'
    BY <1>1, <1>3, <1>4 DEF PluginsInd, PluginsSafe, P!TypeOK, P!CloseAll
  <2>2. ClosingInv'
    BY <1>1, <1>4 DEF PluginsInd, PluginsSafe, P!TypeOK, P!CloseAll, ClosingInv
  <2>3. QED
    BY <1>1, <1>2, <1>4, <2>1, <2>2 DEF PluginsInd, PluginsSafe, P!CloseAll
<1>5. ASSUME NEW p \in P!Instances, P!CloseOne(c, p)
      PROVE  PluginsInd' /\ (done' # done => P!Registered \subseteq closed')
  <2>1. p \in inited
    BY <1>3, <1>5 DEF PluginsInd, ClosingInv, P!CloseOne
  <2>2. P!TypeOK'
    BY <1>1, <1>5 DEF PluginsInd, PluginsSafe, P!TypeOK, P!CloseOne
  <2>3. ClosingInv'
    BY <1>1, <1>5 DEF PluginsInd, PluginsSafe, P!TypeOK, P!CloseOne, ClosingInv
  <2>4. done' # done => P!Registered \subseteq closed'
    BY <1>5 DEF PluginsInd, ClosingInv, P!CloseOne
  <2>5. QED
    BY <1>1, <1>2, <1>5, <2>1, <2>2, <2>3, <2>4 DEF PluginsInd, PluginsSafe, P!CloseOne
<1>6. QED
  BY <1>4, <1>5

\* PluginsOK (registry.go, config.go): for any number of loaders, closers and
\* plugins, what a Load leaves behind, also one that failed, is in the registry
\* under its own name; a CloseAll closes everything that is registered when it
\* returns and nothing that was not initialized; a name is never taken over.
THEOREM PluginsCorrect ==
    ASSUME P!PluginsAssumption PROVE P!Spec => PluginsOK
<1>1. P!Init => PluginsInd
  BY PluginsStart
<1>2. PluginsInd /\ [P!Next]_P!vars =>
        /\ PluginsInd'
        /\ done' # done => P!Registered \subseteq closed'
        /\ \A k \in Keys : registry[k] # NoPlugin => registry'[k] = registry[k]
  <2> SUFFICES ASSUME PluginsInd, [P!Next]_P!vars
               PROVE  /\ PluginsInd'
                      /\ done' # done => P!Registered \subseteq closed'
                      /\ \A k \in Keys : registry[k] # NoPlugin => registry'[k] = registry[k]
    OBVIOUS
  <2>1. ASSUME NEW l \in Loaders, P!LoadCreate(l) \/ P!LoadInit(l)
        PROVE  PluginsInd' /\ UNCHANGED <<done, registry>>
    BY <2>1, LoaderStep DEF P!LoadCreate, P!LoadInit, P!close
  <2>2. ASSUME NEW l \in Loaders, P!LoadRegister(l)
        PROVE  /\ PluginsInd' /\ UNCHANGED done
               /\ \A k \in Keys : registry[k] # NoPlugin => registry'[k] = registry[k]
    BY <2>2, RegisterStep DEF P!LoadRegister, P!close
  <2>3. ASSUME NEW c \in Closers, P!CloseAll(c) \/ \E p \in P!Instances : P!CloseOne(c, p)
        PROVE  /\ PluginsInd' /\ UNCHANGED registry
               /\ done' # done => P!Registered \subseteq closed'
    BY <2>3, CloserStep DEF P!CloseAll, P!CloseOne
  <2>4. CASE UNCHANGED P!vars
    <3>1. /\ UNCHANGED <<cfg, registry, at, epc, inited, readers, done, closed>>
          /\ P!Registered' = P!Registered
      BY <2>4 DEF P!vars, P!Registered
    <3>2. PluginsInd'
      BY <3>1 DEF PluginsInd, PluginsSafe, P!TypeOK, P!Reachable, LoaderInv, ClosingInv
    <3>3. QED
      BY <3>1, <3>2
  <2>5. QED
    BY <2>1, <2>2, <2>3, <2>4 DEF P!Next
<1>3. PluginsInd => PluginsSafe
  BY DEF PluginsInd
<1>4. QED
  BY <1>1, <1>2, <1>3, PTL DEF P!Spec, PluginsOK, P!PluginsOK, PluginsSafe

-----------------------------------------------------------------------------
(* HTTPClient: the inductive invariant *)

\* A call has a buffer exactly while it reads, the buffer holds bytes of this
\* call only, and a body that was returned is in the call's own array.
BuffersOwned ==
    /\ \A c \in Calls : buf[c] # NoArray <=> dpc[c] = "read"
    /\ \A c \in Calls : dpc[c] = "read" =>
          \A i \in 1 .. Len(mem[buf[c]]) : mem[buf[c]][i] = c
    /\ \A c \in Calls : dpc[c] = "ok" => body[c] = c

ClientInd == H!ClientInv /\ BuffersOwned

\* Before any call there is no buffer and no body.
LEMMA ClientInit ==
    ASSUME H!ClientAssumption, H!Init
    PROVE  ClientInd
  BY DEF H!ClientAssumption, H!Init, ClientInd, H!ClientInv, H!TypeOK, H!BodiesOwned,
         BuffersOwned, H!InUse, H!Arrays

\* Steps that move a call forward without touching memory.
LEMMA ClientQuiet ==
    ASSUME H!ClientAssumption, ClientInd, NEW c \in Calls,
           H!Send(c) \/ H!Redirect(c) \/ H!Fail(c)
    PROVE  ClientInd'
<1> USE DEF ClientInd, H!ClientInv
<1>1. /\ UNCHANGED <<buf, body, mem, pooled>>
      /\ dpc[c] \in {"idle", "sent"}
      /\ \E l \in {"sent", "failed"} : dpc' = [dpc EXCEPT ![c] = l]
  BY DEF H!Send, H!Redirect, H!Fail, H!TypeOK
<1>2. /\ via' \in [Calls -> Nat] /\ totalRequests' \in Nat
      /\ \A d \in Calls : via'[d] <= 1 \/ via'[d] <= MaxRedirects
  <2>1. MaxRedirects \in Nat /\ via \in [Calls -> Nat] /\ totalRequests \in Nat
    BY DEF H!ClientAssumption, H!TypeOK
  <2>2. \A d \in Calls : via[d] <= 1 \/ via[d] <= MaxRedirects
    BY DEF H!BodiesOwned
  <2>3. CASE H!Send(c)
    BY <2>1, <2>2, <2>3 DEF H!Send
  <2>4. CASE H!Redirect(c)
    BY <2>1, <2>2, <2>4 DEF H!Redirect
  <2>5. CASE H!Fail(c)
    BY <2>1, <2>2, <2>5 DEF H!Fail
  <2>6. QED
    BY <2>3, <2>4, <2>5
<1>3. H!TypeOK'
  BY <1>1, <1>2 DEF H!TypeOK
<1>4. H!InUse' = H!InUse
  BY <1>1 DEF H!InUse
<1>5. H!BodiesOwned'
  BY <1>1, <1>2, <1>4 DEF H!BodiesOwned, H!TypeOK
<1>6. BuffersOwned'
  BY <1>1 DEF BuffersOwned, H!TypeOK
<1>7. QED
  BY <1>3, <1>5, <1>6

\* A buffer that is taken from the pool, or new, is nobody else's.
LEMMA ClientAnswer ==
    ASSUME H!ClientAssumption, ClientInd, NEW c \in Calls, NEW b \in Buffers,
           H!Answer(c, b)
    PROVE  ClientInd'
<1> USE DEF ClientInd, H!ClientInv
<1>1. /\ dpc[c] = "sent" /\ dpc' = [dpc EXCEPT ![c] = "read"]
      /\ b \notin H!InUse /\ pooled' = pooled \ {b}
      /\ buf' = [buf EXCEPT ![c] = b] /\ mem' = [mem EXCEPT ![b] = <<>>]
      /\ UNCHANGED <<via, body, totalRequests>>
  BY DEF H!Answer
<1>2. H!TypeOK'
  BY <1>1 DEF H!TypeOK, H!Arrays
<1>3. \A d \in Calls : buf[d] # b
  BY <1>1 DEF H!InUse, H!ClientAssumption
<1>4. H!InUse' \cap pooled' = {}
  BY <1>1 DEF H!InUse, H!TypeOK, H!BodiesOwned
<1>5. \A d \in Calls : dpc'[d] = "ok" => dpc[d] = "ok" /\ body[d] = d /\ mem'[d] = mem[d]
  BY <1>1 DEF H!TypeOK, BuffersOwned, H!ClientAssumption, H!Arrays
<1>6. H!BodiesOwned'
  <2>1. \A d \in Calls : dpc'[d] = "ok" => mem'[body'[d]] = [i \in 1 .. Size |-> d]
    BY <1>1, <1>5 DEF H!BodiesOwned
  <2>2. \A d, e \in Calls : buf'[d] # NoArray /\ buf'[d] = buf'[e] => d = e
    BY <1>1, <1>3 DEF H!BodiesOwned, H!TypeOK
  <2>3. QED
    BY <1>1, <1>4, <2>1, <2>2 DEF H!BodiesOwned
<1>7. BuffersOwned'
  BY <1>1, <1>3 DEF BuffersOwned, H!TypeOK, H!Arrays, H!ClientAssumption
<1>8. QED
  BY <1>2, <1>6, <1>7

\* Reading appends a byte of the call to the call's own buffer.
LEMMA ClientRead ==
    ASSUME H!ClientAssumption, ClientInd, NEW c \in Calls, H!Read(c)
    PROVE  ClientInd'
<1> USE DEF ClientInd, H!ClientInv
<1> DEFINE s == mem[buf[c]]
<1>1. /\ dpc[c] = "read" /\ mem' = [mem EXCEPT ![buf[c]] = Append(s, c)]
      /\ UNCHANGED <<dpc, via, buf, body, pooled, totalRequests>>
  BY DEF H!Read
<1>2. buf[c] \in Buffers /\ s \in Seq(Calls)
  BY <1>1 DEF BuffersOwned, H!TypeOK, H!Arrays
<1>3. /\ Append(s, c) \in Seq(Calls) /\ Len(Append(s, c)) = Len(s) + 1
      /\ \A i \in 1 .. Len(Append(s, c)) : Append(s, c)[i] = c
  <2>1. /\ Append(s, c) \in Seq(Calls) /\ Len(Append(s, c)) = Len(s) + 1
        /\ Append(s, c)[Len(s) + 1] = c
        /\ \A i \in 1 .. Len(s) : Append(s, c)[i] = s[i]
    BY <1>2, AppendProperties
  <2>2. \A i \in 1 .. Len(s) : s[i] = c
    BY <1>1 DEF BuffersOwned
  <2>3. \A i \in 1 .. Len(s) + 1 : i \in 1 .. Len(s) \/ i = Len(s) + 1
    BY <1>2
  <2>4. QED
    BY <2>1, <2>2, <2>3
<1>4. H!TypeOK'
  BY <1>1, <1>3 DEF H!TypeOK
<1>5. \A d \in Calls : mem'[d] = mem[d]
  BY <1>1, <1>2 DEF H!TypeOK, H!Arrays, H!ClientAssumption
<1>6. H!BodiesOwned'
  BY <1>1, <1>5 DEF H!BodiesOwned, BuffersOwned, H!InUse
<1>7. \A d \in Calls : d # c /\ dpc[d] = "read" => mem'[buf[d]] = mem[buf[d]]
  BY <1>1, <1>2 DEF H!BodiesOwned, BuffersOwned, H!TypeOK, H!Arrays
<1>8. BuffersOwned'
  <2>1. mem'[buf[c]] = Append(s, c)
    BY <1>1, <1>2 DEF H!TypeOK, H!Arrays
  <2>2. \A d \in Calls : dpc'[d] = "read" =>
           \A i \in 1 .. Len(mem'[buf'[d]]) : mem'[buf'[d]][i] = d
    <3>1. ASSUME NEW d \in Calls, dpc'[d] = "read", d # c
          PROVE  \A i \in 1 .. Len(mem'[buf'[d]]) : mem'[buf'[d]][i] = d
      <4>1. dpc[d] = "read" /\ mem'[buf'[d]] = mem[buf[d]]
        BY <1>1, <1>7, <3>1
      <4>2. \A i \in 1 .. Len(mem[buf[d]]) : mem[buf[d]][i] = d
        BY <4>1 DEF BuffersOwned
      <4>3. QED
        BY <4>1, <4>2
    <3>2. \A i \in 1 .. Len(mem'[buf'[c]]) : mem'[buf'[c]][i] = c
      BY <1>1, <1>3, <2>1
    <3>3. QED
      BY <3>1, <3>2
  <2>3. QED
    BY <1>1, <2>2 DEF BuffersOwned
<1>9. QED
  BY <1>4, <1>6, <1>8

\* Do returns: the caller has its own copy, and the buffer is let go of.
LEMMA ClientReturn ==
    ASSUME H!ClientAssumption, ClientInd, NEW c \in Calls, H!Return(c)
    PROVE  ClientInd'
<1> USE DEF ClientInd, H!ClientInv
<1> DEFINE s == mem[buf[c]]
<1>1. /\ dpc[c] = "read" /\ buf' = [buf EXCEPT ![c] = NoArray]
      /\ pooled' = pooled \/ pooled' = pooled \cup {buf[c]}
      /\ UNCHANGED <<via, totalRequests>>
  BY DEF H!Return, H!releaseBuf
<1>2. buf[c] \in Buffers /\ s \in Seq(Calls)
  BY <1>1 DEF BuffersOwned, H!TypeOK, H!Arrays
<1>3. H!InUse' \cap pooled' = {}
  BY <1>1, <1>2 DEF H!InUse, H!TypeOK, H!BodiesOwned
<1>4. \A d, e \in Calls : buf'[d] # NoArray /\ buf'[d] = buf'[e] => d = e
  BY <1>1 DEF H!BodiesOwned, H!TypeOK
<1>5. CASE /\ Len(s) = Size /\ H!CopyOut(c)
           /\ dpc' = [dpc EXCEPT ![c] = "ok"]
  <2>1. body' = [body EXCEPT ![c] = c] /\ mem' = [mem EXCEPT ![c] = s]
    BY <1>5 DEF H!CopyOut
  <2>2. s = [i \in 1 .. Size |-> c]
    <3>1. \A i \in 1 .. Len(s) : s[i] = c
      BY <1>1 DEF BuffersOwned
    <3>2. s = [i \in 1 .. Len(s) |-> s[i]]
      BY <1>2
    <3>3. Len(s) = Size
      BY <1>5
    <3> HIDE DEF s
    <3>4. QED
      BY <3>1, <3>2, <3>3
  <2>3. H!TypeOK'
    BY <1>1, <1>2, <1>5, <2>1 DEF H!TypeOK, H!Arrays
  <2>4. \A a \in H!Arrays : a # c => mem'[a] = mem[a]
    BY <2>1 DEF H!TypeOK
  <2>5. mem'[c] = s /\ body'[c] = c
    BY <2>1 DEF H!TypeOK, H!Arrays
  <2>6. BuffersOwned'
    <3>1. \A d \in Calls : buf'[d] # NoArray <=> dpc'[d] = "read"
      BY <1>1, <1>5 DEF BuffersOwned, H!TypeOK
    <3>2. \A d \in Calls : dpc'[d] = "read" =>
             dpc[d] = "read" /\ d # c /\ buf'[d] = buf[d] /\ mem'[buf[d]] = mem[buf[d]]
      BY <1>1, <1>5, <2>4 DEF BuffersOwned, H!TypeOK, H!Arrays, H!ClientAssumption
    <3>3. \A d \in Calls : dpc'[d] = "ok" => body'[d] = d
      BY <1>5, <2>1 DEF BuffersOwned, H!TypeOK
    <3>4. QED
      BY <3>1, <3>2, <3>3 DEF BuffersOwned
  <2>7. \A d \in Calls : dpc'[d] = "ok" => mem'[body'[d]] = [i \in 1 .. Size |-> d]
    <3>1. ASSUME NEW d \in Calls, d # c, dpc'[d] = "ok"
          PROVE  mem'[body'[d]] = [i \in 1 .. Size |-> d]
      <4>1. dpc[d] = "ok" /\ body'[d] = body[d] /\ body[d] = d
        BY <1>5, <2>1, <3>1 DEF BuffersOwned, H!TypeOK
      <4>2. QED
        BY <2>4, <3>1, <4>1 DEF H!BodiesOwned, H!Arrays
    <3>2. QED
      BY <2>2, <2>5, <3>1
  <2>8. H!BodiesOwned'
    BY <1>1, <1>3, <1>4, <2>7 DEF H!BodiesOwned
  <2>9. QED
    BY <2>3, <2>6, <2>8
<1>6. CASE dpc' = [dpc EXCEPT ![c] = "failed"] /\ UNCHANGED <<body, mem>>
  <2>1. H!TypeOK'
    BY <1>1, <1>2, <1>6 DEF H!TypeOK
  <2>2. H!BodiesOwned'
    BY <1>1, <1>3, <1>4, <1>6 DEF H!BodiesOwned, H!TypeOK
  <2>3. BuffersOwned'
    BY <1>1, <1>6 DEF BuffersOwned, H!TypeOK
  <2>4. QED
    BY <2>1, <2>2, <2>3
<1>7. QED
  BY <1>5, <1>6 DEF H!Return

\* Every body that Do returned stays what was received for it, however other
\* calls reuse the buffers, no two calls read into one buffer, none that is in
\* the pool, and redirects are bounded.
THEOREM ClientCorrect ==
    ASSUME H!ClientAssumption
    PROVE  H!Spec => []ClientInv
<1>1. H!Init => ClientInd
  BY ClientInit
<1>2. ClientInd /\ [H!Next]_H!vars => ClientInd'
  <2> SUFFICES ASSUME ClientInd, [H!Next]_H!vars PROVE ClientInd'
    OBVIOUS
  <2>1. CASE UNCHANGED H!vars
    <3>1. UNCHANGED <<dpc, via, buf, body, mem, pooled, totalRequests>>
      BY <2>1 DEF H!vars
    <3>2. H!TypeOK'
      BY <3>1 DEF ClientInd, H!ClientInv, H!TypeOK
    <3>3. H!BodiesOwned'
      <4>1. H!InUse' = H!InUse
        BY <3>1 DEF H!InUse
      <4>2. QED
        BY <3>1, <4>1 DEF ClientInd, H!ClientInv, H!BodiesOwned
    <3>4. BuffersOwned'
      BY <3>1 DEF ClientInd, BuffersOwned
    <3>5. QED
      BY <3>2, <3>3, <3>4 DEF ClientInd, H!ClientInv
  <2>2. CASE H!Next
    BY <2>2, ClientQuiet, ClientAnswer, ClientRead, ClientReturn DEF H!Next
  <2>3. QED
    BY <2>1, <2>2
<1>3. ClientInd => ClientInv
  BY DEF ClientInd, ClientInv
<1>4. QED
  BY <1>1, <1>2, <1>3, PTL DEF H!Spec

-----------------------------------------------------------------------------
(* The browser pool *)

InSlot == {u \in Users : upc[u] \notin {"out", "acquire"}}
Holders == {u \in Users : held[u] # NoBrowser}

\* Slots and positions, whether or not health checks run.
SlotInv ==
    /\ upc \in [Users -> {"out", "acquire", "pick", "tab", "use", "release"}]
    /\ held = [u \in Users |-> held[u]]
    /\ \A u \in Users : held[u] # NoBrowser => upc[u] \in {"tab", "use", "release"}
    /\ IsFiniteSet(InSlot) /\ slots = Cardinality(InSlot) /\ slots <= MaxBrowsers
    /\ checks \in Nat

\* Until a health check runs, a browser that is not closed is on the idle list
\* or in a user's hands, once, and list and hands are within the slots.
OwnerInv ==
    /\ hpc = "idle"
    /\ idle \in Seq(Browsers) /\ launched \subseteq Browsers
    /\ closedB \in [Browsers -> BOOLEAN]
    /\ \A u \in Users : upc[u] \in {"tab", "use", "release"} => held[u] \in Browsers
    /\ \A u \in Users : held[u] # NoBrowser => held[u] \in launched
    /\ \A i \in 1..Len(idle) : idle[i] \in launched
    /\ \A u, v \in Users : held[u] # NoBrowser /\ held[u] = held[v] => u = v
    /\ \A u \in Users, i \in 1..Len(idle) : idle[i] # held[u]
    /\ \A i, j \in 1..Len(idle) : idle[i] = idle[j] => i = j
    /\ \A b \in launched : closedB[b] = FALSE =>
          (\E i \in 1..Len(idle) : idle[i] = b) \/ (\E u \in Users : held[u] = b)
    /\ Len(idle) + Cardinality(Holders) <= MaxBrowsers

\* A user past its Acquire was given a browser.
HandsFull == \A u \in Users : upc[u] \in {"tab", "use", "release"} => held[u] \in Browsers

PoolInd == TypeOK /\ SlotInv /\ HandsFull /\ (checks = 0 => OwnerInv)

\* The pre-warmed pool has MaxBrowsers browsers, each once on its list.
LEMMA Prewarmed ==
    ASSUME Init
    PROVE  /\ launched \subseteq Browsers /\ idle \in Seq(Browsers)
           /\ Len(idle) = MaxBrowsers
           /\ \A i \in 1..Len(idle) : idle[i] \in launched
           /\ \A i, j \in 1..Len(idle) : idle[i] = idle[j] => i = j
           /\ \A b \in launched : \E i \in 1..Len(idle) : idle[i] = b
<1>1. MaxBrowsers \in Nat /\ IsFiniteSet(Browsers) /\ Cardinality(Browsers) >= MaxBrowsers
  BY PoolAssumption
<1>2. \E S \in SUBSET Browsers : Cardinality(S) = MaxBrowsers
  <2>1. /\ Cardinality(Browsers) \in Nat
        /\ ExistsBijection(1..Cardinality(Browsers), Browsers)
    BY <1>1, FS_CardinalityType
  <2>2. PICK f : f \in Bijection(1..Cardinality(Browsers), Browsers)
    BY <2>1 DEF ExistsBijection
  <2>3. /\ f \in [1..Cardinality(Browsers) -> Browsers]
        /\ \A a, b \in 1..Cardinality(Browsers) : f[a] = f[b] => a = b
    BY <2>2 DEF Bijection, Injection, IsInjective
  <2> DEFINE S == {f[i] : i \in 1..MaxBrowsers}
             g == [i \in 1..MaxBrowsers |-> f[i]]
  <2>4. 1..MaxBrowsers \subseteq 1..Cardinality(Browsers)
    BY <1>1, <2>1
  <2>5. g \in Bijection(1..MaxBrowsers, S)
    <3>1. g \in [1..MaxBrowsers -> S]
      OBVIOUS
    <3>2. \A a, b \in 1..MaxBrowsers : g[a] = g[b] => a = b
      BY <2>3, <2>4
    <3>3. \A t \in S : \E a \in 1..MaxBrowsers : g[a] = t
      OBVIOUS
    <3>4. QED
      BY <3>1, <3>2, <3>3 DEF Bijection, Injection, Surjection, IsInjective
  <2>6. IsFiniteSet(1..MaxBrowsers) /\ Cardinality(1..MaxBrowsers) = MaxBrowsers
    BY <1>1, FS_Interval, PoolAssumption
  <2>7. ExistsBijection(1..MaxBrowsers, S)
    BY <2>5 DEF ExistsBijection
  <2>8. Cardinality(S) = MaxBrowsers
    BY <2>6, <2>7, FS_Bijection
  <2>9. S \in SUBSET Browsers
    BY <2>3, <2>4
  <2>10. QED
    BY <2>8, <2>9
<1>3. launched \in SUBSET Browsers /\ Cardinality(launched) = MaxBrowsers
  BY <1>2 DEF Init
<1>4. IsFiniteSet(launched) /\ ExistsBijection(1..MaxBrowsers, launched)
  BY <1>1, <1>3, FS_Subset, FS_CardinalityType
<1>5. \E f \in [1..MaxBrowsers -> launched] : IsInjective(f)
  BY <1>4 DEF ExistsBijection, Bijection, Injection
<1>6. idle \in [1..MaxBrowsers -> launched] /\ IsInjective(idle)
  BY <1>3, <1>5 DEF Init, SetToSeq
<1>7. idle \in Seq(Browsers) /\ Len(idle) = MaxBrowsers
  BY <1>1, <1>3, <1>6
<1>8. \A i, j \in 1..Len(idle) : idle[i] = idle[j] => i = j
  BY <1>6, <1>7 DEF IsInjective
<1>9. \A b \in launched : \E i \in 1..Len(idle) : idle[i] = b
  <2>1. idle \in Injection(1..MaxBrowsers, launched)
    BY <1>6 DEF Injection
  <2>2. Cardinality(1..MaxBrowsers) = Cardinality(launched)
    BY <1>1, <1>3, FS_Interval, PoolAssumption
  <2>3. idle \in Surjection(1..MaxBrowsers, launched)
    BY <1>4, <2>1, <2>2, FS_Injection
  <2>4. QED
    BY <1>7, <2>3 DEF Surjection
<1>10. QED
  BY <1>3, <1>6, <1>7, <1>8, <1>9

\* The pool that NewPool returns satisfies it.
LEMMA PoolInit == Init => PoolInd
<1> SUFFICES ASSUME Init PROVE PoolInd
  OBVIOUS
<1>1. InSlot = {} /\ Holders = {}
  BY DEF Init, InSlot, Holders
<1>2. /\ IsFiniteSet(InSlot) /\ Cardinality(InSlot) = 0 /\ Cardinality(Holders) = 0
  BY <1>1, FS_EmptySet, Zenon
<1>3. SlotInv
  BY <1>2, PoolAssumption DEF Init, SlotInv
<1>4. closedB \in [Browsers -> BOOLEAN]
  BY Zenon DEF Init
<1>5. Len(idle) + Cardinality(Holders) <= MaxBrowsers
  BY <1>2, Prewarmed, PoolAssumption
<1>6. hpc = "idle" /\ \A u \in Users : held[u] = NoBrowser /\ upc[u] = "out"
  BY DEF Init
<1>7. \A u \in Users, i \in 1..Len(idle) : idle[i] # held[u]
  BY <1>6, Prewarmed, PoolAssumption
<1>8. OwnerInv
  BY <1>4, <1>5, <1>6, <1>7, Prewarmed DEF OwnerInv
<1>9. TypeOK
  <2>1. /\ closedB \in [Browsers -> BOOLEAN] /\ poolClosed \in BOOLEAN /\ allocDone \in BOOLEAN
    BY Zenon DEF Init
  <2>2. /\ idle \in Seq(Browsers) /\ launched \subseteq Browsers /\ tabs \in [Browsers -> Nat]
        /\ held \in [Users -> Browsers \cup {NoBrowser}]
        /\ upc \in [Users -> {"out", "acquire", "pick", "tab", "use", "release"}]
    BY Prewarmed DEF Init
  <2>3. /\ slots \in 0..MaxBrowsers /\ hpc = "idle" /\ checks \in 0..MaxChecks
        /\ needed \in Nat /\ live \in Seq(Browsers) /\ healthy \in Seq(Browsers)
        /\ dead \in Seq(Browsers)
    BY PoolAssumption DEF Init
  <2>4. QED
    BY <2>1, <2>2, <2>3 DEF TypeOK
<1>10. QED
  BY <1>3, <1>6, <1>8, <1>9 DEF PoolInd, HandsFull

\* A user takes a slot, gives it back, or moves while it has one.
LEMMA SlotMoves ==
    ASSUME SlotInv, NEW u \in Users,
           NEW l \in {"out", "acquire", "pick", "tab", "use", "release"}, Goto(u, l)
    PROVE  /\ upc' \in [Users -> {"out", "acquire", "pick", "tab", "use", "release"}]
           /\ IsFiniteSet(InSlot') /\ Cardinality(InSlot) \in Nat
           /\ u \notin InSlot /\ l \notin {"out", "acquire"} =>
                 Cardinality(InSlot') = Cardinality(InSlot) + 1
           /\ u \in InSlot /\ l \in {"out", "acquire"} =>
                 Cardinality(InSlot') = Cardinality(InSlot) - 1
           /\ u \in InSlot <=> l \notin {"out", "acquire"} => InSlot' = InSlot
<1>1. upc'[u] = l /\ \A v \in Users : v # u => upc'[v] = upc[v]
  BY DEF SlotInv, Goto
<1>2. IsFiniteSet(InSlot) /\ Cardinality(InSlot) \in Nat
  BY FS_CardinalityType DEF SlotInv
<1>3. upc' \in [Users -> {"out", "acquire", "pick", "tab", "use", "release"}]
  BY DEF SlotInv, Goto
<1>4. CASE u \notin InSlot /\ l \notin {"out", "acquire"}
  <2>1. InSlot' = InSlot \cup {u}
    BY <1>1, <1>4 DEF InSlot
  <2>2. QED
    BY <1>2, <1>3, <1>4, <2>1, FS_AddElement
<1>5. CASE u \in InSlot /\ l \in {"out", "acquire"}
  <2>1. InSlot' = InSlot \ {u}
    BY <1>1, <1>5 DEF InSlot
  <2>2. QED
    BY <1>2, <1>3, <1>5, <2>1, FS_RemoveElement
<1>6. CASE u \in InSlot <=> l \notin {"out", "acquire"}
  <2>1. InSlot' = InSlot
    BY <1>1, <1>6 DEF InSlot
  <2>2. QED
    BY <1>2, <1>3, <1>6, <2>1
<1>7. QED
  BY <1>4, <1>5, <1>6

\* Every step keeps the account of the slots.
LEMMA SlotNext == ASSUME SlotInv, [Next]_vars PROVE SlotInv'
<1> USE DEF users, health
<1> DEFINE HandsInv == /\ held = [u \in Users |-> held[u]]
                       /\ \A u \in Users : held[u] # NoBrowser =>
                             upc[u] \in {"tab", "use", "release"}
<1>0. /\ MaxBrowsers \in Nat /\ slots \in Nat /\ Cardinality(InSlot) \in Nat
      /\ slots = Cardinality(InSlot) /\ slots <= MaxBrowsers
  BY PoolAssumption, FS_CardinalityType DEF SlotInv
<1>1. ASSUME NEW u \in Users, AcquireCall(u) \/ AcquireTimeout(u) PROVE SlotInv'
  <2>1. /\ upc[u] \in {"out", "acquire"} /\ UNCHANGED <<held, slots, checks>>
        /\ \E l \in {"out", "acquire"} : Goto(u, l)
    BY <1>1 DEF AcquireCall, AcquireTimeout
  <2>2. InSlot' = InSlot /\ upc' \in [Users -> {"out", "acquire", "pick", "tab", "use", "release"}]
    BY <2>1, SlotMoves DEF InSlot
  <2>3. HandsInv'
    BY <2>1 DEF SlotInv, Goto
  <2>4. QED
    BY <2>1, <2>2, <2>3 DEF SlotInv
<1>2. ASSUME NEW u \in Users, AcquireSlot(u) PROVE SlotInv'
  <2>1. /\ upc[u] = "acquire" /\ slots < MaxBrowsers /\ slots' = slots + 1
        /\ Goto(u, "pick") /\ UNCHANGED <<held, checks>>
    BY <1>2 DEF AcquireSlot
  <2>2. /\ IsFiniteSet(InSlot') /\ Cardinality(InSlot') = Cardinality(InSlot) + 1
        /\ upc' \in [Users -> {"out", "acquire", "pick", "tab", "use", "release"}]
    BY <2>1, SlotMoves DEF InSlot
  <2>3. HandsInv'
    BY <2>1 DEF SlotInv, Goto
  <2>4. QED
    BY <1>0, <2>1, <2>2, <2>3 DEF SlotInv
<1>3. ASSUME NEW u \in Users, Pick(u) \/ PickLaunch(u) \/ NewTab(u) \/ UseEnds(u) PROVE SlotInv'
  <2>1. upc[u] \in {"pick", "tab", "use"} /\ UNCHANGED <<slots, checks>>
    BY <1>3 DEF Pick, PickLaunch, NewTab, UseEnds
  <2>2. \E l \in {"tab", "use", "release"} : Goto(u, l)
    BY <1>3 DEF Pick, PickLaunch, NewTab, UseEnds
  <2>3. held' = held \/ \E b : held' = [held EXCEPT ![u] = b]
    BY <1>3 DEF Pick, PickLaunch, NewTab, UseEnds
  <2>4. InSlot' = InSlot /\ upc' \in [Users -> {"out", "acquire", "pick", "tab", "use", "release"}]
    BY <2>1, <2>2, SlotMoves DEF InSlot
  <2>5. HandsInv'
    BY <2>2, <2>3 DEF SlotInv, Goto
  <2>6. QED
    BY <2>1, <2>4, <2>5 DEF SlotInv
<1>4. ASSUME NEW u \in Users, PickFail(u) \/ Retire(u) \/ PutBack(u) PROVE SlotInv'
  <2>1. /\ upc[u] \in {"pick", "release"} /\ slots' = slots - 1 /\ Goto(u, "out")
        /\ UNCHANGED checks
    BY <1>4 DEF PickFail, Retire, PutBack
  <2>2. \/ upc[u] = "pick" /\ held' = held
        \/ held' = [held EXCEPT ![u] = NoBrowser]
    BY <1>4 DEF PickFail, Retire, PutBack
  <2>3. /\ IsFiniteSet(InSlot') /\ Cardinality(InSlot') = Cardinality(InSlot) - 1
        /\ upc' \in [Users -> {"out", "acquire", "pick", "tab", "use", "release"}]
    BY <2>1, SlotMoves DEF InSlot
  <2>4. HandsInv'
    BY <2>1, <2>2 DEF SlotInv, Goto
  <2>5. QED
    BY <1>0, <2>1, <2>3, <2>4 DEF SlotInv
<1>5. CASE UNCHANGED <<upc, held, slots>> /\ checks' \in Nat
  BY <1>5 DEF SlotInv, InSlot
<1>6. CASE CheckSnapshot \/ HealthStep \/ CloseStart \/ CloseAll \/ UNCHANGED vars
  <2>1. UNCHANGED <<upc, held, slots>>
    BY <1>6 DEF CheckSnapshot, HealthStep, CheckPing, CheckCloseDead, CheckMerge, CheckSpawn,
                CheckEnd, CloseStart, CloseAll, vars
  <2>2. checks' \in {checks, checks + 1}
    BY <1>6 DEF CheckSnapshot, HealthStep, CheckPing, CheckCloseDead, CheckMerge, CheckSpawn,
                CheckEnd, CloseStart, CloseAll, vars
  <2>3. QED
    BY <1>5, <2>1, <2>2 DEF SlotInv
<1>7. QED
  BY <1>1, <1>2, <1>3, <1>4, <1>6 DEF Next, UserStep

\* Users that hold a browser have a slot; how their number changes.
LEMMA HolderMoves ==
    ASSUME SlotInv
    PROVE  /\ Holders \subseteq InSlot /\ IsFiniteSet(Holders)
           /\ Cardinality(Holders) \in Nat
           /\ \A u \in Users : \A b :
                 held' = [held EXCEPT ![u] = b] /\ held[u] = NoBrowser /\ b # NoBrowser =>
                    Cardinality(Holders') = Cardinality(Holders) + 1
           /\ \A u \in Users :
                 held' = [held EXCEPT ![u] = NoBrowser] /\ held[u] # NoBrowser =>
                    Cardinality(Holders') = Cardinality(Holders) - 1
<1>1. Holders \subseteq InSlot
  BY DEF SlotInv, Holders, InSlot
<1>2. IsFiniteSet(Holders) /\ Cardinality(Holders) \in Nat
  BY <1>1, FS_Subset, FS_CardinalityType DEF SlotInv
<1>3. ASSUME NEW u \in Users, NEW b, held' = [held EXCEPT ![u] = b],
             held[u] = NoBrowser, b # NoBrowser
      PROVE  Cardinality(Holders') = Cardinality(Holders) + 1
  <2>1. held'[u] = b /\ \A v \in Users : v # u => held'[v] = held[v]
    BY <1>3 DEF SlotInv
  <2>2. Holders' = Holders \cup {u} /\ u \notin Holders
    BY <1>3, <2>1 DEF Holders
  <2>3. QED
    BY <1>2, <2>2, FS_AddElement
<1>4. ASSUME NEW u \in Users, held' = [held EXCEPT ![u] = NoBrowser], held[u] # NoBrowser
      PROVE  Cardinality(Holders') = Cardinality(Holders) - 1
  <2>1. held'[u] = NoBrowser /\ \A v \in Users : v # u => held'[v] = held[v]
    BY <1>4 DEF SlotInv
  <2>2. Holders' = Holders \ {u} /\ u \in Holders
    BY <1>4, <2>1 DEF Holders
  <2>3. QED
    BY <1>2, <2>2, FS_RemoveElement
<1>5. QED
  BY <1>1, <1>2, <1>3, <1>4

\* A user pops the last browser off the idle list.
LEMMA OwnerPick ==
    ASSUME SlotInv, OwnerInv, NEW u \in Users, Pick(u) PROVE OwnerInv'
<1> USE DEF health
<1> DEFINE n == Len(idle)
<1>1. /\ upc[u] = "pick" /\ idle # <<>> /\ held' = [held EXCEPT ![u] = idle[n]]
      /\ idle' = SubSeq(idle, 1, n - 1) /\ Goto(u, "tab")
      /\ UNCHANGED <<launched, closedB, hpc>>
  BY DEF Pick, Last, Front
<1>2. n \in Nat \ {0} /\ idle[n] \in Browsers /\ idle[n] # NoBrowser
  BY <1>1, PoolAssumption DEF OwnerInv
<1>3. /\ idle' \in Seq(Browsers) /\ Len(idle') = n - 1
      /\ \A i \in 1..(n - 1) : idle'[i] = idle[i]
  <2>1. \A i \in 1..(n - 1) : idle[i] \in Browsers
    BY <1>2 DEF OwnerInv
  <2> HIDE DEF n
  <2>2. 1 \in Int /\ n - 1 \in Int /\ (1 <= n - 1 => (n - 1) - 1 + 1 = n - 1)
    BY <1>2
  <2>3. /\ SubSeq(idle, 1, n - 1) \in Seq(Browsers)
        /\ Len(SubSeq(idle, 1, n - 1)) = (IF 1 <= n - 1 THEN (n - 1) - 1 + 1 ELSE 0)
        /\ \A i \in 1..((n - 1) - 1 + 1) : SubSeq(idle, 1, n - 1)[i] = idle[1 + i - 1]
    BY <2>1, <2>2, SubSeqProperties
  <2>4. QED
    BY <1>1, <1>2, <2>3
<1> HIDE DEF n
<1>4. held[u] = NoBrowser
  BY <1>1 DEF SlotInv
<1>5. /\ held'[u] = idle[n] /\ \A v \in Users : v # u => held'[v] = held[v]
      /\ \A v \in Users : v # u => upc'[v] = upc[v]
  BY <1>1 DEF SlotInv, Goto
<1>6. n \in 1..n /\ \A i \in 1..(n - 1) : i \in 1..n /\ i # n
  BY <1>2
<1>7. Len(idle') + Cardinality(Holders') <= MaxBrowsers
  <2>1. Cardinality(Holders') = Cardinality(Holders) + 1
    BY <1>1, <1>2, <1>4, HolderMoves
  <2>2. n + Cardinality(Holders) <= MaxBrowsers
    BY DEF OwnerInv, n
  <2>3. QED
    BY <1>2, <1>3, <2>1, <2>2, HolderMoves, PoolAssumption
<1>8. \A b \in launched' : closedB'[b] = FALSE =>
         (\E i \in 1..Len(idle') : idle'[i] = b) \/ (\E v \in Users : held'[v] = b)
  <2> SUFFICES ASSUME NEW b \in launched, closedB[b] = FALSE, \A v \in Users : held'[v] # b
               PROVE  \E i \in 1..(n - 1) : idle'[i] = b
    BY <1>1, <1>3
  <2>1. \A v \in Users : held[v] # b
    <3>1. b # NoBrowser
      BY PoolAssumption DEF OwnerInv
    <3>2. QED
      BY <1>4, <1>5, <3>1
  <2>2. PICK i \in 1..n : idle[i] = b
    BY <2>1 DEF OwnerInv, n
  <2>3. i # n
    BY <1>5, <2>2
  <2>4. i \in 1..(n - 1)
    BY <1>2, <2>2, <2>3
  <2>5. QED
    BY <1>3, <2>2, <2>4
<1>9. /\ \A v \in Users : upc'[v] \in {"tab", "use", "release"} => held'[v] \in Browsers
      /\ \A v \in Users : held'[v] # NoBrowser => held'[v] \in launched'
      /\ \A i \in 1..Len(idle') : idle'[i] \in launched'
  <2>1. \A v \in Users : upc'[v] \in {"tab", "use", "release"} => held'[v] \in Browsers
    BY <1>2, <1>5 DEF OwnerInv
  <2>2. idle[n] \in launched
    BY <1>6 DEF OwnerInv, n
  <2>3. \A v \in Users : held'[v] # NoBrowser => held'[v] \in launched'
    BY <1>1, <1>5, <2>2 DEF OwnerInv
  <2>4. \A i \in 1..(n - 1) : idle'[i] \in launched
    BY <1>3, <1>6 DEF OwnerInv, n
  <2>5. QED
    BY <1>1, <1>3, <2>1, <2>3, <2>4
<1>10. /\ \A v, w \in Users : held'[v] # NoBrowser /\ held'[v] = held'[w] => v = w
       /\ \A v \in Users, i \in 1..Len(idle') : idle'[i] # held'[v]
       /\ \A i, j \in 1..Len(idle') : idle'[i] = idle'[j] => i = j
  <2>1. /\ \A v \in Users : idle[n] # held[v]
        /\ \A i \in 1..(n - 1) : idle[i] # idle[n]
    BY <1>6 DEF OwnerInv, n
  <2>2. /\ \A v, w \in Users : held[v] # NoBrowser /\ held[v] = held[w] => v = w
        /\ \A v \in Users, i \in 1..(n - 1) : idle[i] # held[v]
        /\ \A i, j \in 1..(n - 1) : idle[i] = idle[j] => i = j
    BY <1>6 DEF OwnerInv, n
  <2>3. \A v, w \in Users : held'[v] # NoBrowser /\ held'[v] = held'[w] => v = w
    BY <1>5, <2>1, <2>2
  <2>4. \A v \in Users, i \in 1..(n - 1) : idle'[i] # held'[v]
    BY <1>3, <1>5, <2>1, <2>2
  <2>5. \A i, j \in 1..(n - 1) : idle'[i] = idle'[j] => i = j
    BY <1>3, <2>2
  <2>6. QED
    BY <1>3, <2>3, <2>4, <2>5
<1>11. QED
  BY <1>1, <1>3, <1>7, <1>8, <1>9, <1>10 DEF OwnerInv

\* A launch takes a browser that never ran.
LEMMA LaunchFresh ==
    ASSUME launched \subseteq Browsers, NEW b, Launch(b)
    PROVE  b \in Browsers /\ b \notin launched /\ launched' = launched \cup {b}
<1>1. \E x \in Browsers : x \notin launched
  BY DEF Launch
<1>2. QED
  BY <1>1 DEF Launch

\* A user launches a browser, the idle list being empty.
LEMMA OwnerLaunch ==
    ASSUME SlotInv, OwnerInv, NEW u \in Users, PickLaunch(u) PROVE OwnerInv'
<1> USE DEF health
<1>1. PICK b \in Browsers : Launch(b) /\ held' = [held EXCEPT ![u] = b]
  BY DEF PickLaunch
<1>2. /\ upc[u] = "pick" /\ idle = <<>> /\ Goto(u, "tab")
      /\ UNCHANGED <<idle, closedB, hpc>>
  BY DEF PickLaunch
<1>3. b \notin launched /\ launched' = launched \cup {b} /\ b # NoBrowser
  BY <1>1, LaunchFresh, PoolAssumption DEF OwnerInv
<1>4. held[u] = NoBrowser
  BY <1>2 DEF SlotInv
<1>5. /\ held'[u] = b /\ \A v \in Users : v # u => held'[v] = held[v]
      /\ \A v \in Users : v # u => upc'[v] = upc[v]
  BY <1>1, <1>2 DEF SlotInv, Goto
<1>6. Len(idle') = 0 /\ idle' \in Seq(Browsers)
  BY <1>2
<1>7. Len(idle') + Cardinality(Holders') <= MaxBrowsers
  <2>1. Cardinality(Holders') = Cardinality(Holders) + 1
    BY <1>1, <1>3, <1>4, HolderMoves
  <2>2. Cardinality(Holders \cup {u}) = Cardinality(Holders) + 1
    BY <1>4, HolderMoves, FS_AddElement DEF Holders
  <2>3. Holders \cup {u} \subseteq InSlot
    BY <1>2, HolderMoves DEF InSlot
  <2>4. Cardinality(Holders \cup {u}) <= Cardinality(InSlot)
    BY <2>3, FS_Subset DEF SlotInv
  <2>5. Cardinality(InSlot) <= MaxBrowsers
    BY DEF SlotInv
  <2>6. Cardinality(InSlot) \in Nat
    BY FS_CardinalityType DEF SlotInv
  <2>7. QED
    BY <1>6, <2>1, <2>2, <2>4, <2>5, <2>6, HolderMoves, PoolAssumption
<1>8. \A x \in launched' : closedB'[x] = FALSE => \E v \in Users : held'[v] = x
  <2> SUFFICES ASSUME NEW x \in launched, closedB[x] = FALSE
               PROVE  \E v \in Users : held'[v] = x
    BY <1>2, <1>3, <1>5
  <2>1. PICK v \in Users : held[v] = x
    BY <1>2 DEF OwnerInv
  <2>2. x # NoBrowser
    BY PoolAssumption DEF OwnerInv
  <2>3. QED
    BY <1>4, <1>5, <2>1, <2>2
<1>9. /\ \A v \in Users : upc'[v] \in {"tab", "use", "release"} => held'[v] \in Browsers
      /\ \A v \in Users : held'[v] # NoBrowser => held'[v] \in launched'
      /\ \A v, w \in Users : held'[v] # NoBrowser /\ held'[v] = held'[w] => v = w
  BY <1>3, <1>5 DEF OwnerInv
<1>10. launched' \subseteq Browsers
  BY <1>3 DEF OwnerInv
<1>11. QED
  BY <1>2, <1>6, <1>7, <1>8, <1>9, <1>10 DEF OwnerInv

\* A user's step that leaves the list, the browsers and the hands alone.
LEMMA OwnerQuiet ==
    ASSUME SlotInv, OwnerInv, UNCHANGED <<idle, launched, closedB, held, hpc>>,
           \A v \in Users : upc'[v] \in {"tab", "use", "release"} =>
                             upc[v] \in {"tab", "use", "release"}
    PROVE  OwnerInv'
<1>1. Holders' = Holders
  BY DEF Holders
<1>2. QED
  BY <1>1 DEF OwnerInv

\* A browser that never ran, or comes from a user's hands, joins the list.
LEMMA OwnerAppend ==
    ASSUME SlotInv, OwnerInv, NEW u \in Users, held[u] # NoBrowser,
           held' = [held EXCEPT ![u] = NoBrowser], Goto(u, "out"), UNCHANGED hpc,
           NEW b \in Browsers, \/ b = held[u] /\ UNCHANGED <<launched, closedB>>
                              \/ /\ b \notin launched /\ launched' = launched \cup {b}
                                 /\ closedB' = [closedB EXCEPT ![held[u]] = TRUE],
           idle' = Append(idle, b)
    PROVE  OwnerInv'
<1> DEFINE n == Len(idle)
<1>1. /\ held'[u] = NoBrowser /\ \A v \in Users : v # u => held'[v] = held[v]
      /\ upc'[u] = "out" /\ \A v \in Users : v # u => upc'[v] = upc[v]
  BY DEF SlotInv, Goto
<1>2. n \in Nat /\ Len(idle') = n + 1 /\ idle' \in Seq(Browsers)
  BY DEF OwnerInv
<1>3. idle'[n + 1] = b /\ \A i \in 1..n : idle'[i] = idle[i]
  BY DEF OwnerInv
<1> HIDE DEF n
<1>4. \A i \in 1..(n + 1) : i \in 1..n \/ i = n + 1
  BY <1>2
<1>5. \A i \in 1..n : i \in 1..(n + 1)
  BY <1>2
<1>6. n + 1 \in 1..(n + 1)
  BY <1>2
<1>7. b \in launched' /\ launched \subseteq launched' /\ launched' \subseteq Browsers
  BY DEF OwnerInv
<1>8. \A v \in Users : v # u => held[v] # b
  BY PoolAssumption DEF OwnerInv
<1>9. \A i \in 1..n : idle[i] # b
  BY DEF OwnerInv, n
<1>10. closedB' \in [Browsers -> BOOLEAN]
  BY Zenon DEF OwnerInv
<1>11. Len(idle') + Cardinality(Holders') <= MaxBrowsers
  <2>1. Cardinality(Holders') = Cardinality(Holders) - 1
    BY HolderMoves
  <2>2. n + Cardinality(Holders) <= MaxBrowsers
    BY DEF OwnerInv, n
  <2>3. QED
    BY <1>2, <2>1, <2>2, HolderMoves, PoolAssumption
<1>12. \A i \in 1..Len(idle') : idle'[i] \in launched'
  <2>1. \A i \in 1..n : idle[i] \in launched
    BY DEF OwnerInv, n
  <2>2. QED
    BY <1>2, <1>3, <1>4, <1>7, <2>1
<1>13. \A v \in Users, i \in 1..Len(idle') : idle'[i] # held'[v]
  <2>1. \A v \in Users, i \in 1..n : idle[i] # held[v]
    BY DEF OwnerInv, n
  <2>2. b # NoBrowser /\ \A i \in 1..n : idle[i] # NoBrowser
    BY PoolAssumption DEF OwnerInv, n
  <2>3. \A v \in Users : held'[v] # b
    BY <1>1, <1>8, <2>2
  <2>4. \A v \in Users, i \in 1..n : idle[i] # held'[v]
    BY <1>1, <2>1, <2>2
  <2>5. QED
    BY <1>2, <1>3, <1>4, <2>3, <2>4
<1>14. \A i, j \in 1..Len(idle') : idle'[i] = idle'[j] => i = j
  <2>1. \A i, j \in 1..n : idle[i] = idle[j] => i = j
    BY DEF OwnerInv, n
  <2>2. QED
    BY <1>2, <1>3, <1>4, <1>9, <2>1
<1>15. \A x \in launched' : closedB'[x] = FALSE =>
          (\E i \in 1..Len(idle') : idle'[i] = x) \/ (\E v \in Users : held'[v] = x)
  <2>1. \A x \in launched : closedB[x] = FALSE =>
           (\E i \in 1..n : idle[i] = x) \/ (\E v \in Users : held[v] = x)
    BY DEF OwnerInv, n
  <2> SUFFICES ASSUME NEW x \in launched', closedB'[x] = FALSE,
                      \A v \in Users : held'[v] # x, x # b
               PROVE  \E i \in 1..Len(idle') : idle'[i] = x
    BY <1>2, <1>3, <1>6
  <2>2. x \in launched /\ x \in Browsers
    BY DEF OwnerInv
  <2>3. closedB[x] = FALSE /\ x # held[u]
    BY <2>2 DEF OwnerInv
  <2>4. \A v \in Users : held[v] # x
    BY <1>1, <2>3
  <2>5. PICK i \in 1..n : idle[i] = x
    BY <2>1, <2>2, <2>3, <2>4
  <2>6. QED
    BY <1>2, <1>3, <1>5, <2>5
<1>16. /\ \A v \in Users : upc'[v] \in {"tab", "use", "release"} => held'[v] \in Browsers
       /\ \A v \in Users : held'[v] # NoBrowser => held'[v] \in launched'
       /\ \A v, w \in Users : held'[v] # NoBrowser /\ held'[v] = held'[w] => v = w
  <2>1. /\ \A v \in Users : upc[v] \in {"tab", "use", "release"} => held[v] \in Browsers
        /\ \A v \in Users : held[v] # NoBrowser => held[v] \in launched
        /\ \A v, w \in Users : held[v] # NoBrowser /\ held[v] = held[w] => v = w
    BY DEF OwnerInv
  <2>2. \A v \in Users : upc'[v] \in {"tab", "use", "release"} => held'[v] \in Browsers
    BY <1>1, <2>1
  <2>3. \A v \in Users : held'[v] # NoBrowser => held'[v] \in launched'
    BY <1>1, <1>7, <2>1
  <2>4. \A v, w \in Users : held'[v] # NoBrowser /\ held'[v] = held'[w] => v = w
    BY <1>1, <2>1
  <2>5. QED
    BY <2>2, <2>3, <2>4
<1>17. QED
  BY <1>2, <1>7, <1>10, <1>11, <1>12, <1>13, <1>14, <1>15, <1>16 DEF OwnerInv

\* A user closes its browser and cannot replace it.
LEMMA OwnerDrop ==
    ASSUME SlotInv, OwnerInv, NEW u \in Users, held[u] # NoBrowser,
           held' = [held EXCEPT ![u] = NoBrowser], Goto(u, "out"),
           closedB' = [closedB EXCEPT ![held[u]] = TRUE],
           UNCHANGED <<idle, launched, hpc>>
    PROVE  OwnerInv'
<1>1. /\ held'[u] = NoBrowser /\ \A v \in Users : v # u => held'[v] = held[v]
      /\ upc'[u] = "out" /\ \A v \in Users : v # u => upc'[v] = upc[v]
  BY DEF SlotInv, Goto
<1>2. closedB' \in [Browsers -> BOOLEAN]
  BY Zenon DEF OwnerInv
<1>3. Len(idle') + Cardinality(Holders') <= MaxBrowsers
  <2>1. Cardinality(Holders') = Cardinality(Holders) - 1
    BY HolderMoves
  <2>2. QED
    BY <2>1, HolderMoves, PoolAssumption DEF OwnerInv
<1>4. \A i \in 1..Len(idle) : idle[i] # NoBrowser
  BY PoolAssumption DEF OwnerInv
<1>5. \A x \in launched : closedB'[x] = FALSE =>
         (\E i \in 1..Len(idle) : idle[i] = x) \/ (\E v \in Users : held'[v] = x)
  <2> SUFFICES ASSUME NEW x \in launched, closedB'[x] = FALSE,
                      \A v \in Users : held'[v] # x
               PROVE  \E i \in 1..Len(idle) : idle[i] = x
    OBVIOUS
  <2>1. closedB[x] = FALSE /\ x # held[u]
    BY DEF OwnerInv
  <2>2. \A v \in Users : held[v] # x
    BY <1>1, <2>1
  <2>3. QED
    BY <2>1, <2>2 DEF OwnerInv
<1>6. /\ \A v \in Users : upc'[v] \in {"tab", "use", "release"} => held'[v] \in Browsers
      /\ \A v \in Users : held'[v] # NoBrowser => held'[v] \in launched
      /\ \A v, w \in Users : held'[v] # NoBrowser /\ held'[v] = held'[w] => v = w
      /\ \A v \in Users, i \in 1..Len(idle) : idle[i] # held'[v]
  BY <1>1, <1>4 DEF OwnerInv
<1>7. QED
  BY <1>2, <1>3, <1>5, <1>6 DEF OwnerInv

\* Close empties the list and closes what was on it.
LEMMA OwnerCloseAll == ASSUME SlotInv, OwnerInv, CloseAll PROVE OwnerInv'
<1> USE DEF users, health
<1>1. /\ closedB' = [b \in Browsers |-> closedB[b] \/ Contains(idle, b)]
      /\ idle' = <<>> /\ UNCHANGED <<launched, upc, held, hpc>>
  BY DEF CloseAll
<1>2. closedB' \in [Browsers -> BOOLEAN]
  BY <1>1, Zenon DEF OwnerInv, Contains
<1>3. Holders' = Holders
  BY <1>1 DEF Holders
<1>4. idle' \in Seq(Browsers) /\ Len(idle') = 0
  BY <1>1
<1>5. Len(idle') + Cardinality(Holders') <= MaxBrowsers
  BY <1>3, <1>4, HolderMoves, PoolAssumption DEF OwnerInv
<1>6. \A b \in launched : closedB'[b] = FALSE => \E v \in Users : held[v] = b
  <2> SUFFICES ASSUME NEW b \in launched, closedB'[b] = FALSE
               PROVE  \E v \in Users : held[v] = b
    OBVIOUS
  <2>1. b \in Browsers
    BY DEF OwnerInv
  <2>2. ~(closedB[b] \/ Contains(idle, b))
    BY <1>1, <2>1
  <2>3. closedB[b] = FALSE
    BY <2>1, <2>2 DEF OwnerInv
  <2>4. QED
    BY <2>2, <2>3 DEF OwnerInv, Contains
<1>7. \A i \in 1..Len(idle') : FALSE
  BY <1>4
<1>8. QED
  BY <1>1, <1>2, <1>4, <1>5, <1>6, <1>7 DEF OwnerInv

\* While no health check has run, every step keeps one owner per browser.
LEMMA OwnerNext ==
    ASSUME SlotInv, OwnerInv, checks = 0, checks' = 0, [Next]_vars PROVE OwnerInv'
<1> USE DEF users, health
<1>1. ASSUME NEW u \in Users,
             \/ AcquireCall(u) \/ AcquireSlot(u) \/ AcquireTimeout(u)
             \/ PickFail(u) \/ NewTab(u) \/ UseEnds(u)
      PROVE  OwnerInv'
  <2>1. UNCHANGED <<idle, launched, closedB, held, hpc>>
    BY <1>1 DEF AcquireCall, AcquireSlot, AcquireTimeout, PickFail, NewTab, UseEnds
  <2>2. \/ upc[u] \in {"tab", "use"} /\ \E l : Goto(u, l)
        \/ \E l \in {"out", "acquire", "pick"} : Goto(u, l)
    BY <1>1 DEF AcquireCall, AcquireSlot, AcquireTimeout, PickFail, NewTab, UseEnds
  <2>3. \A v \in Users : upc'[v] \in {"tab", "use", "release"} =>
                          upc[v] \in {"tab", "use", "release"}
    BY <2>2 DEF SlotInv, Goto
  <2>4. QED
    BY <2>1, <2>3, OwnerQuiet
<1>2. ASSUME NEW u \in Users, Retire(u) PROVE OwnerInv'
  <2>1. /\ held[u] \in Browsers /\ Goto(u, "out") /\ UNCHANGED hpc
        /\ held' = [held EXCEPT ![u] = NoBrowser]
        /\ closedB' = [closedB EXCEPT ![held[u]] = TRUE]
    BY <1>2 DEF Retire, OwnerInv
  <2>2. held[u] # NoBrowser
    BY <2>1, PoolAssumption
  <2>3. CASE UNCHANGED <<idle, launched>>
    BY <2>1, <2>2, <2>3, OwnerDrop
  <2>4. CASE \E b \in Browsers : Launch(b) /\ idle' = Append(idle, b)
    <3>1. PICK b \in Browsers : Launch(b) /\ idle' = Append(idle, b)
      BY <2>4
    <3>2. b \notin launched /\ launched' = launched \cup {b}
      BY <3>1, LaunchFresh DEF OwnerInv
    <3>3. QED
      BY <2>1, <2>2, <3>1, <3>2, OwnerAppend
  <2>5. QED
    BY <1>2, <2>3, <2>4 DEF Retire
<1>3. ASSUME NEW u \in Users, PutBack(u) PROVE OwnerInv'
  <2>1. /\ held[u] \in Browsers /\ Goto(u, "out") /\ UNCHANGED <<hpc, launched, closedB>>
        /\ held' = [held EXCEPT ![u] = NoBrowser] /\ idle' = Append(idle, held[u])
    BY <1>3 DEF PutBack, OwnerInv
  <2>2. held[u] # NoBrowser
    BY <2>1, PoolAssumption
  <2>3. QED
    BY <2>1, <2>2, OwnerAppend
<1>4. CASE CloseStart \/ UNCHANGED vars
  <2>1. UNCHANGED <<idle, launched, closedB, held, hpc, upc>>
    BY <1>4 DEF CloseStart, vars
  <2>2. QED
    BY <2>1, OwnerQuiet
<1>5. ~CheckSnapshot /\ ~HealthStep
  BY DEF CheckSnapshot, HealthStep, CheckPing, CheckCloseDead, CheckMerge, CheckSpawn,
         CheckEnd, OwnerInv
<1>6. QED
  BY <1>1, <1>2, <1>3, <1>4, <1>5, OwnerPick, OwnerLaunch, OwnerCloseAll DEF Next, UserStep

\* One owner per browser: the live browsers are on the list or in a hand, so
\* they are no more than the two together.
LEMMA OwnersBound == ASSUME SlotInv, OwnerInv PROVE Cardinality(Live) <= MaxBrowsers
<1> DEFINE n == Len(idle)
           Listed == {idle[i] : i \in 1..n}
           InHand == {held[u] : u \in Holders}
           f == [i \in 1..n |-> idle[i]]
           g == [u \in Holders |-> held[u]]
<1>1. n \in Nat
  BY DEF OwnerInv
<1>2. Live \subseteq Listed \cup InHand
  <2> SUFFICES ASSUME NEW b \in launched, ~closedB[b] PROVE b \in Listed \cup InHand
    BY DEF Live
  <2>1. closedB[b] = FALSE /\ b # NoBrowser
    BY PoolAssumption DEF OwnerInv
  <2>2. QED
    BY <2>1 DEF OwnerInv, Holders
<1> HIDE DEF n
<1>3. IsFiniteSet(1..n) /\ Cardinality(1..n) = n
  BY <1>1, FS_Interval
<1>4. f \in Surjection(1..n, Listed) /\ g \in Surjection(Holders, InHand)
  BY DEF Surjection
<1> HIDE DEF f, g, Listed, InHand
<1>5. /\ IsFiniteSet(Listed) /\ Cardinality(Listed) <= n
      /\ IsFiniteSet(InHand) /\ Cardinality(InHand) <= Cardinality(Holders)
  BY <1>3, <1>4, FS_Surjection, HolderMoves
<1>6. IsFiniteSet(Listed \cap InHand)
  BY <1>5, FS_Intersection
<1>7. /\ IsFiniteSet(Listed \cup InHand)
      /\ Cardinality(Listed \cup InHand) = Cardinality(Listed) + Cardinality(InHand) - Cardinality(Listed \cap InHand)
  BY <1>5, FS_Union
<1>8. IsFiniteSet(Live) /\ Cardinality(Live) <= Cardinality(Listed \cup InHand)
  BY <1>2, <1>7, FS_Subset
<1>9. /\ Cardinality(Listed) \in Nat /\ Cardinality(InHand) \in Nat /\ Cardinality(Listed \cap InHand) \in Nat
      /\ Cardinality(Listed \cup InHand) \in Nat /\ Cardinality(Live) \in Nat
  BY <1>5, <1>6, <1>7, <1>8, FS_CardinalityType
<1>10. n + Cardinality(Holders) <= MaxBrowsers
  BY DEF OwnerInv, n
<1>11. QED
  BY <1>1, <1>5, <1>7, <1>8, <1>9, <1>10, HolderMoves, PoolAssumption

\* Induction on the natural numbers, in the form of a set that is closed under
\* successor: a set without all of them would have a least missing one.
LEMMA SetInduction ==
  ASSUME NEW S, 0 \in S, \A n \in Nat : n \in S => n + 1 \in S
  PROVE Nat \subseteq S
<1> DEFINE T == Nat \ S
           R == OpToRel(<, Nat)
<1>1. SUFFICES ASSUME T # {} PROVE FALSE
  OBVIOUS
<1>2. IsWellFoundedOn(R, Nat)
  BY NatLessThanWellFounded DEF OpToRel
<1>3. T \subseteq Nat
  OBVIOUS
<1>4. \A m, n \in Nat : m < n => <<m, n>> \in R
  BY DEF OpToRel
<1> HIDE DEF T, R
<1>5. PICK x \in T : \A y \in T : ~ (<<y, x>> \in R)
  BY <1>1, <1>2, <1>3, WFMin
<1>6. x \in Nat /\ x # 0 /\ x \notin S
  BY DEF T
<1>7. x - 1 \in Nat /\ x - 1 < x /\ (x - 1) + 1 = x
  BY <1>6
<1>8. x - 1 \in S
  BY <1>5, <1>6, <1>7, <1>4 DEF T
<1>9. QED
  BY <1>6, <1>7, <1>8

Sifting(s, S, f) ==
    /\ f[0] = <<>>
    /\ \A i \in 1..Len(s) : f[i] = IF s[i] \in S THEN Append(f[i - 1], s[i]) ELSE f[i - 1]

\* The recursive function that sifts a list exists, and each of its values is a
\* sequence.
LEMMA SiftRec ==
  ASSUME NEW B, NEW s \in Seq(B), NEW S
  PROVE \E f \in [0..Len(s) -> Seq(B)] : Sift(s, S) = f[Len(s)] /\ Sifting(s, S, f)
<1> DEFINE L == Len(s)
           Step(f, i) == IF s[i] \in S THEN Append(f[i - 1], s[i]) ELSE f[i - 1]
           Obeys(f, n) == f[0] = <<>> /\ \A i \in 1..n : f[i] = Step(f, i)
           Upto(n) == \E f \in [0..n -> Seq(B)] : Obeys(f, n)
           Good == {n \in Nat : n <= L => Upto(n)}
           Rec(f) == f = [i \in 0..L |-> IF i = 0 THEN <<>> ELSE Step(f, i)]
           kept == CHOOSE f : Rec(f)
           Typed == {n \in Nat : n <= L => kept[n] \in Seq(B)}
<1>1. L \in Nat /\ \A i \in 1..L : s[i] \in B
  OBVIOUS
<1>2. Sift(s, S) = kept[L]
  BY DEF Sift
<1> HIDE DEF L
<1>3. ASSUME NEW f, NEW g, NEW i \in Nat, f[i - 1] = g[i - 1]
      PROVE  Step(f, i) = Step(g, i)
  BY <1>3
<1>4. ASSUME NEW f, NEW i \in 1..L, f[i - 1] \in Seq(B)
      PROVE  Step(f, i) \in Seq(B)
  BY <1>1, <1>4
<1> HIDE DEF Step, kept
<1>5. 0 \in Good
  <2> DEFINE f == [i \in 0..0 |-> <<>>]
  <2>1. f \in [0..0 -> Seq(B)] /\ f[0] = <<>>
    OBVIOUS
  <2> HIDE DEF f
  <2>2. Obeys(f, 0)
    BY <2>1
  <2>3. QED
    BY <2>1, <2>2
<1>6. ASSUME NEW n \in Nat, n \in Good PROVE n + 1 \in Good
  <2>0. SUFFICES ASSUME n + 1 <= L PROVE Upto(n + 1)
    <3> HIDE DEF Upto
    <3>1. QED
      OBVIOUS
  <2>1. PICK f \in [0..n -> Seq(B)] : Obeys(f, n)
    <3>1. n <= L
      BY <1>1, <2>0
    <3> HIDE DEF Obeys
    <3>2. QED
      BY <1>6, <3>1
  <2> DEFINE v == Step(f, n + 1)
             g == [i \in 0..(n + 1) |-> IF i = n + 1 THEN v ELSE f[i]]
  <2>2. v \in Seq(B)
    <3>1. n + 1 \in 1..L /\ (n + 1) - 1 = n /\ f[n] \in Seq(B)
      BY <1>1, <2>0
    <3>2. QED
      BY <1>4, <3>1
  <2> HIDE DEF v
  <2>3. g \in [0..(n + 1) -> Seq(B)]
    BY <2>2
  <2>4. g[0] = <<>> /\ g[n + 1] = v /\ \A i \in 0..n : g[i] = f[i]
    BY <2>1
  <2> HIDE DEF g
  <2>5. ASSUME NEW i \in 1..n PROVE g[i] = Step(g, i)
    <3>1. g[i] = f[i] /\ g[i - 1] = f[i - 1] /\ f[i] = Step(f, i)
      BY <2>1, <2>4
    <3>2. QED
      BY <1>3, <3>1
  <2>6. g[n + 1] = Step(g, n + 1)
    <3>1. g[(n + 1) - 1] = f[(n + 1) - 1] /\ n + 1 \in Nat
      BY <2>4
    <3>2. QED
      BY <1>3, <2>4, <3>1 DEF v
  <2>7. Obeys(g, n + 1)
    BY <2>4, <2>5, <2>6
  <2>8. QED
    BY <2>3, <2>7
<1>7. PICK f \in [0..L -> Seq(B)] : Obeys(f, L)
  <2> HIDE DEF Good
  <2>1. Nat \subseteq Good
    BY <1>5, <1>6, SetInduction
  <2> HIDE DEF Obeys
  <2>2. QED
    BY <1>1, <2>1 DEF Good
<1>8. Rec(f)
  BY <1>1, <1>7
<1>9. Rec(kept)
  BY <1>8 DEF kept
<1>10. \A i \in 0..L : kept[i] = IF i = 0 THEN <<>> ELSE Step(kept, i)
  <2> HIDE DEF L
  <2> SUFFICES ASSUME NEW i \in 0..L
               PROVE  kept[i] = IF i = 0 THEN <<>> ELSE Step(kept, i)
    BY Zenon
  <2> DEFINE h == [j \in 0..L |-> IF j = 0 THEN <<>> ELSE Step(kept, j)]
  <2>1. h[i] = IF i = 0 THEN <<>> ELSE Step(kept, i)
    BY Zenon
  <2>2. kept = h
    BY <1>9, Zenon
  <2>3. QED
    BY <2>1, <2>2, Zenon
<1>11. 0 \in Typed
  BY <1>1, <1>9
<1>12. ASSUME NEW n \in Nat, n \in Typed PROVE n + 1 \in Typed
  <2>1. SUFFICES ASSUME n + 1 <= L PROVE kept[n + 1] \in Seq(B)
    OBVIOUS
  <2>2. n + 1 \in 1..L /\ (n + 1) - 1 = n /\ kept[n] \in Seq(B)
    BY <1>1, <1>12, <2>1
  <2>3. kept[n + 1] = Step(kept, n + 1)
    <3>1. n + 1 \in 0..L /\ n + 1 # 0
      BY <1>1, <2>2
    <3>2. QED
      BY <1>10, <3>1
  <2>4. QED
    BY <1>4, <2>2, <2>3
<1>13. Nat \subseteq Typed
  <2> HIDE DEF Typed
  <2>1. QED
    BY <1>11, <1>12, SetInduction
<1>14. kept \in [0..L -> Seq(B)]
  <2>1. \A i \in 0..L : kept[i] \in Seq(B)
    BY <1>1, <1>13
  <2>2. DOMAIN kept = 0..L
    BY <1>9
  <2>3. kept = [i \in 0..L |-> kept[i]]
    BY <1>9
  <2>4. QED
    BY <2>1, <2>2, <2>3
<1>15. ASSUME NEW i \in 1..L
       PROVE  kept[i] = IF s[i] \in S THEN Append(kept[i - 1], s[i]) ELSE kept[i - 1]
  <2>1. i \in 0..L /\ i # 0
    BY <1>1
  <2>2. QED
    BY <1>10, <2>1 DEF Step
<1>16. kept[0] = <<>>
  <2>1. 0 \in 0..L
    BY <1>1
  <2>2. QED
    BY <1>10, <2>1, Zenon
<1>17. QED
  <2>1. Sifting(s, S, kept)
    BY <1>15, <1>16 DEF L, Sifting
  <2>2. QED
    BY <1>2, <1>14, <2>1 DEF L

LEMMA SiftType ==
  ASSUME NEW B, NEW s \in Seq(B), NEW S
  PROVE Sift(s, S) \in Seq(B)
<1>1. PICK f \in [0..Len(s) -> Seq(B)] : Sift(s, S) = f[Len(s)]
  BY SiftRec
<1>2. Len(s) \in 0..Len(s)
  OBVIOUS
<1>3. QED
  BY <1>1, <1>2

\* Lists of browsers that the pool builds from lists of browsers.
LEMMA Lists ==
    ASSUME NEW B
    PROVE  /\ <<>> \in Seq(B)
           /\ \A s \in Seq(B) : \A b \in B : Append(s, b) \in Seq(B)
           /\ \A s, t \in Seq(B) : s \o t \in Seq(B)
<1>1. <<>> \in Seq(B)
  OBVIOUS
<1>2. ASSUME NEW s \in Seq(B), NEW b \in B PROVE Append(s, b) \in Seq(B)
  BY AppendProperties
<1>3. ASSUME NEW s \in Seq(B), NEW t \in Seq(B) PROVE s \o t \in Seq(B)
  BY ConcatProperties
<1>4. QED
  BY <1>1, <1>2, <1>3

\* Every step keeps the types; a health check sorts the idle list into lists of
\* browsers.
LEMMA PoolType == ASSUME TypeOK, HandsFull, SlotInv', [Next]_vars PROVE TypeOK'
<1> USE DEF users, health
<1>1. /\ slots' \in 0..MaxBrowsers
      /\ upc' \in [Users -> {"out", "acquire", "pick", "tab", "use", "release"}]
  <2>1. Cardinality(InSlot') \in Nat
    BY FS_CardinalityType DEF SlotInv
  <2>2. QED
    BY <2>1, PoolAssumption DEF SlotInv
<1>2. CASE UNCHANGED vars
  BY <1>1, <1>2 DEF vars, TypeOK
<1>3. ASSUME NEW u \in Users,
             \/ AcquireCall(u) \/ AcquireSlot(u) \/ AcquireTimeout(u)
             \/ PickFail(u) \/ NewTab(u) \/ UseEnds(u)
      PROVE  TypeOK'
  <2>1. UNCHANGED <<idle, launched, closedB, held, poolClosed, allocDone, health>>
    BY <1>3 DEF AcquireCall, AcquireSlot, AcquireTimeout, PickFail, NewTab, UseEnds
  <2>2. tabs' = tabs \/ tabs' = [tabs EXCEPT ![held[u]] = @ + 1]
    BY <1>3 DEF AcquireCall, AcquireSlot, AcquireTimeout, PickFail, NewTab, UseEnds
  <2>3. tabs' \in [Browsers -> Nat]
    <3>1. tabs \in [Browsers -> Nat] /\ (held[u] \in Browsers => tabs[held[u]] + 1 \in Nat)
      BY DEF TypeOK
    <3>2. QED
      BY <2>2, <3>1
  <2>4. QED
    BY <1>1, <2>1, <2>3 DEF TypeOK
<1>4. ASSUME NEW u \in Users, Pick(u) \/ PickLaunch(u) PROVE TypeOK'
  <2>1. UNCHANGED <<closedB, tabs, poolClosed, allocDone, health>>
    BY <1>4 DEF Pick, PickLaunch
  <2>2. /\ idle' \in Seq(Browsers) /\ launched' \subseteq Browsers
        /\ \E b \in Browsers : held' = [held EXCEPT ![u] = b]
    <3>1. CASE Pick(u)
      <4>1. /\ idle # <<>> /\ held' = [held EXCEPT ![u] = idle[Len(idle)]]
            /\ idle' = SubSeq(idle, 1, Len(idle) - 1) /\ launched' = launched
        BY <3>1 DEF Pick, Last, Front
      <4>2. idle[Len(idle)] \in Browsers /\ 1 \in Int /\ Len(idle) - 1 \in Int
        BY <4>1 DEF TypeOK
      <4>3. \A i \in 1..(Len(idle) - 1) : idle[i] \in Browsers
        BY DEF TypeOK
      <4>4. idle' \in Seq(Browsers)
        BY <4>1, <4>2, <4>3, SubSeqProperties
      <4>5. QED
        BY <4>1, <4>2, <4>4 DEF TypeOK
    <3>2. CASE PickLaunch(u)
      BY <3>2 DEF PickLaunch, Launch, TypeOK
    <3>3. QED
      BY <1>4, <3>1, <3>2
  <2>3. held' \in [Users -> Browsers \cup {NoBrowser}]
    BY <2>2 DEF TypeOK
  <2>4. QED
    BY <1>1, <2>1, <2>2, <2>3 DEF TypeOK
<1>5. ASSUME NEW u \in Users, Retire(u) \/ PutBack(u) PROVE TypeOK'
  <2>1. UNCHANGED <<tabs, poolClosed, allocDone, health>>
    BY <1>5 DEF Retire, PutBack
  <2>2. held' \in [Users -> Browsers \cup {NoBrowser}]
    BY <1>5 DEF Retire, PutBack, TypeOK
  <2>3. closedB' \in [Browsers -> BOOLEAN]
    <3>1. closedB' = closedB \/ closedB' = [closedB EXCEPT ![held[u]] = TRUE]
      BY <1>5 DEF Retire, PutBack
    <3>2. QED
      BY <3>1, Zenon DEF TypeOK
  <2>4. idle' \in Seq(Browsers) /\ launched' \subseteq Browsers
    <3>1. idle \in Seq(Browsers) /\ launched \subseteq Browsers /\ held[u] \in Browsers
      BY <1>5 DEF Retire, PutBack, TypeOK, HandsFull
    <3>2. idle' = idle \/ \E b \in Browsers : idle' = Append(idle, b)
      BY <1>5, <3>1 DEF Retire, PutBack
    <3>3. launched' = launched \/ \E b \in Browsers : launched' = launched \cup {b}
      BY <1>5 DEF Retire, PutBack, Launch
    <3>4. QED
      BY <3>1, <3>2, <3>3, AppendProperties
  <2>5. QED
    BY <1>1, <2>1, <2>2, <2>3, <2>4 DEF TypeOK
<1>6. CASE CheckSnapshot
  <2>1. /\ UNCHANGED <<idle, launched, closedB, tabs, held, poolClosed, allocDone, needed>>
        /\ checks < MaxChecks /\ checks' = checks + 1 /\ hpc' = "ping" /\ healthy' = <<>>
        /\ \E S : live' = Sift(idle, S)
        /\ \E S : dead' = Sift(idle, S)
    BY <1>6 DEF CheckSnapshot
  <2>2. live' \in Seq(Browsers) /\ dead' \in Seq(Browsers)
    BY <2>1, SiftType DEF TypeOK
  <2>3. healthy' \in Seq(Browsers)
    BY <2>1
  <2>4. checks' \in 0..MaxChecks
    BY <2>1, PoolAssumption DEF TypeOK
  <2>5. QED
    BY <1>1, <2>1, <2>2, <2>3, <2>4 DEF TypeOK
<1>7. CASE HealthStep
  <2>1. UNCHANGED <<tabs, held, poolClosed, allocDone, checks>>
    BY <1>7 DEF HealthStep, CheckPing, CheckCloseDead, CheckMerge, CheckSpawn, CheckEnd
  <2>2. closedB' \in [Browsers -> BOOLEAN]
    <3>1. \/ closedB' = closedB
          \/ closedB' = [b \in Browsers |-> closedB[b] \/ Contains(dead, b)]
      BY <1>7 DEF HealthStep, CheckPing, CheckCloseDead, CheckMerge, CheckSpawn, CheckEnd
    <3>2. QED
      BY <3>1, Zenon DEF TypeOK, Contains
  <2>3. idle' \in Seq(Browsers) /\ launched' \subseteq Browsers
    <3>1. idle \in Seq(Browsers) /\ launched \subseteq Browsers /\ healthy \in Seq(Browsers)
      BY DEF TypeOK
    <3>2. \/ idle' = idle \/ idle' = healthy \o idle
          \/ \E b \in Browsers : idle' = Append(idle, b)
      BY <1>7 DEF HealthStep, CheckPing, CheckCloseDead, CheckMerge, CheckSpawn, CheckEnd
    <3>3. launched' = launched \/ \E b \in Browsers : launched' = launched \cup {b}
      BY <1>7 DEF HealthStep, CheckPing, CheckCloseDead, CheckMerge, CheckSpawn, CheckEnd, Launch
    <3>4. QED
      BY <3>1, <3>2, <3>3, Lists, Zenon
  <2>4. /\ live' \in Seq(Browsers) /\ healthy' \in Seq(Browsers) /\ dead' \in Seq(Browsers)
    <3>1. live \in Seq(Browsers) /\ healthy \in Seq(Browsers) /\ dead \in Seq(Browsers)
      BY DEF TypeOK
    <3>2. CASE live # <<>> /\ CheckPing
      <4>1. Head(live) \in Browsers /\ Tail(live) \in Seq(Browsers)
        BY <3>1, <3>2, HeadTailProperties
      <4>2. /\ live' = Tail(live)
            /\ healthy' \in {healthy, Append(healthy, Head(live))}
            /\ dead' \in {dead, Append(dead, Head(live))}
        BY <3>2 DEF CheckPing
      <4>3. QED
        BY <3>1, <4>1, <4>2, Lists, Zenon
    <3>3. CASE live' = live /\ healthy' \in {healthy, <<>>} /\ dead' \in {dead, <<>>}
      BY <3>1, <3>3, Lists, Zenon
    <3>4. QED
      BY <1>7, <3>2, <3>3
         DEF HealthStep, CheckPing, CheckCloseDead, CheckMerge, CheckSpawn, CheckEnd
  <2>5. needed' \in Nat /\ hpc' \in {"idle", "ping", "merge", "spawn"}
    <3>1. needed \in Nat /\ Len(dead) \in Nat
      BY DEF TypeOK
    <3>2. \/ needed' = needed
          \/ needed' = Len(dead)
          \/ needed > 0 /\ needed' = needed - 1
      BY <1>7 DEF HealthStep, CheckPing, CheckCloseDead, CheckMerge, CheckSpawn, CheckEnd
    <3>3. hpc' \in {"idle", "ping", "merge", "spawn"}
      BY <1>7 DEF HealthStep, CheckPing, CheckCloseDead, CheckMerge, CheckSpawn, CheckEnd
    <3>4. QED
      BY <3>1, <3>2, <3>3
  <2>6. QED
    BY <1>1, <2>1, <2>2, <2>3, <2>4, <2>5 DEF TypeOK
<1>8. CASE CloseStart \/ CloseAll
  <2>1. UNCHANGED <<launched, tabs, held, health>> /\ idle' \in {idle, <<>>}
    BY <1>8 DEF CloseStart, CloseAll
  <2>2. closedB' \in [Browsers -> BOOLEAN] /\ poolClosed' \in BOOLEAN /\ allocDone' \in BOOLEAN
    BY <1>8, Zenon DEF CloseStart, CloseAll, TypeOK, Contains
  <2>3. idle' \in Seq(Browsers)
    BY <2>1, Lists, Zenon DEF TypeOK
  <2>4. QED
    BY <1>1, <2>1, <2>2, <2>3 DEF TypeOK
<1>9. QED
  BY <1>2, <1>3, <1>4, <1>5, <1>6, <1>7, <1>8 DEF Next, UserStep

\* Every step keeps the hands full.
LEMMA HandsNext == ASSUME TypeOK, HandsFull, [Next]_vars PROVE HandsFull'
<1> USE DEF users, health
<1>1. ASSUME NEW u \in Users, Pick(u) \/ PickLaunch(u) PROVE HandsFull'
  <2>1. Goto(u, "tab") /\ \E b \in Browsers : held' = [held EXCEPT ![u] = b]
    <3>1. idle # <<>> => idle[Len(idle)] \in Browsers
      BY DEF TypeOK
    <3>2. QED
      BY <1>1, <3>1 DEF Pick, PickLaunch, Last
  <2>2. QED
    BY <2>1 DEF HandsFull, TypeOK, Goto
<1>2. ASSUME NEW u \in Users, Retire(u) \/ PutBack(u) PROVE HandsFull'
  BY <1>2 DEF Retire, PutBack, HandsFull, TypeOK, Goto
<1>3. ASSUME NEW u \in Users,
             \/ AcquireCall(u) \/ AcquireSlot(u) \/ AcquireTimeout(u)
             \/ PickFail(u) \/ NewTab(u) \/ UseEnds(u)
      PROVE  HandsFull'
  <2>1. \/ upc[u] \in {"tab", "use"} /\ \E l : Goto(u, l)
        \/ \E l \in {"out", "acquire", "pick"} : Goto(u, l)
    BY <1>3 DEF AcquireCall, AcquireSlot, AcquireTimeout, PickFail, NewTab, UseEnds
  <2>2. held' = held
    BY <1>3 DEF AcquireCall, AcquireSlot, AcquireTimeout, PickFail, NewTab, UseEnds
  <2>3. QED
    BY <2>1, <2>2 DEF HandsFull, TypeOK, Goto
<1>4. CASE CheckSnapshot \/ HealthStep \/ CloseStart \/ CloseAll \/ UNCHANGED vars
  <2>1. UNCHANGED <<upc, held>>
    BY <1>4 DEF CheckSnapshot, HealthStep, CheckPing, CheckCloseDead, CheckMerge, CheckSpawn,
                CheckEnd, CloseStart, CloseAll, vars
  <2>2. QED
    BY <2>1 DEF HandsFull
<1>5. QED
  BY <1>1, <1>2, <1>3, <1>4 DEF Next, UserStep

\* The semaphore of pool.go counts exactly the users between Acquire and
\* release, whatever fails and whether or not the health loop runs; and until
\* that loop first runs, no browser has two owners and no more than
\* MaxBrowsers live.
THEOREM PoolCorrect == Spec => []PoolInv
<1>1. Init => PoolInd
  BY PoolInit
<1>2. PoolInd /\ [Next]_vars => PoolInd'
  <2> SUFFICES ASSUME PoolInd, [Next]_vars PROVE PoolInd'
    OBVIOUS
  <2>1. SlotInv'
    BY SlotNext DEF PoolInd
  <2>2. TypeOK'
    BY <2>1, PoolType DEF PoolInd
  <2>3. ASSUME checks' = 0 PROVE OwnerInv'
    <3>1. checks \in Nat /\ checks' \in {checks, checks + 1}
      BY DEF PoolInd, SlotInv, vars, health, Next, UserStep, AcquireCall, AcquireSlot,
             AcquireTimeout, Pick, PickLaunch, PickFail, NewTab, UseEnds, Retire, PutBack,
             CheckSnapshot, HealthStep, CheckPing, CheckCloseDead, CheckMerge, CheckSpawn,
             CheckEnd, CloseStart, CloseAll
    <3>2. checks = 0
      BY <2>3, <3>1
    <3>3. QED
      BY <2>3, <3>2, OwnerNext DEF PoolInd
  <2>4. HandsFull'
    BY HandsNext DEF PoolInd
  <2>5. QED
    BY <2>1, <2>2, <2>3, <2>4 DEF PoolInd
<1>3. PoolInd => PoolInv
  <2> SUFFICES ASSUME PoolInd PROVE PoolInv
    OBVIOUS
  <2>1. SlotsAccounted
    BY DEF PoolInd, SlotInv, SlotsAccounted, InSlot
  <2>2. ExclusiveOwner
    BY DEF PoolInd, OwnerInv, ExclusiveOwner, Contains
  <2>3. BoundedLive
    BY OwnersBound DEF PoolInd, BoundedLive
  <2>4. QED
    BY <2>1, <2>2, <2>3 DEF PoolInd, PoolInv
<1>4. QED
  BY <1>1, <1>2, <1>3, PTL DEF Spec

-----------------------------------------------------------------------------
(* CookieJar: lists of entries *)

Distinct(list) ==
    \A j, k \in 1 .. Len(list) : j # k => list[j].name # list[k].name

\* A sifted list has the elements in S, and no name twice if the list has none.
LEMMA JarSift ==
    ASSUME NEW B, NEW s \in Seq(B), NEW S
    PROVE  /\ J!Sift(s, S) \in Seq(B)
           /\ \A c : (\E j \in 1 .. Len(J!Sift(s, S)) : J!Sift(s, S)[j] = c)
                       <=> c \in S /\ \E j \in 1 .. Len(s) : s[j] = c
           /\ Distinct(s) => Distinct(J!Sift(s, S))
<1>1. J!Sift(s, S) = Sift(s, S)
  BY DEF J!Sift, Sift
<1>2. PICK f \in [0 .. Len(s) -> Seq(B)] : Sift(s, S) = f[Len(s)] /\ Sifting(s, S, f)
  BY SiftRec
<1>3. /\ Sift(s, S) = f[Len(s)] /\ f[0] = <<>>
      /\ \A i \in 1 .. Len(s) : f[i] = IF s[i] \in S THEN Append(f[i - 1], s[i]) ELSE f[i - 1]
  BY <1>2 DEF Sifting
<1> DEFINE Has(l, c) == \E j \in 1 .. Len(l) : l[j] = c
           Early(i, c) == \E j \in 1 .. i : s[j] = c
           Same(i) == \A c : Has(f[i], c) <=> c \in S /\ Early(i, c)
           Good == {n \in Nat : n <= Len(s) => Same(n) /\ (Distinct(s) => Distinct(f[n]))}
<1>4. 0 \in Good
  <2>1. Len(f[0]) = 0
    BY <1>3
  <2>2. QED
    BY <2>1 DEF Distinct
<1>5. ASSUME NEW n \in Nat, n \in Good PROVE n + 1 \in Good
  <2> SUFFICES ASSUME n + 1 <= Len(s)
               PROVE  Same(n + 1) /\ (Distinct(s) => Distinct(f[n + 1]))
    OBVIOUS
  <2>1. n + 1 \in 1 .. Len(s) /\ (n + 1) - 1 = n /\ n <= Len(s) /\ n \in 0 .. Len(s)
    OBVIOUS
  <2>2. PICK g \in Seq(B) : g = f[n]
    BY <2>1
  <2>3. PICK x \in B : x = s[n + 1]
    BY <2>1
  <2>4. f[n + 1] = IF x \in S THEN Append(g, x) ELSE g
    BY <1>3, <2>1, <2>2, <2>3
  <2>5. \A c : Has(g, c) <=> c \in S /\ Early(n, c)
    BY <1>5, <2>1, <2>2
  <2>6. \A c : Early(n + 1, c) <=> Early(n, c) \/ c = x
    <3>1. \A j \in 1 .. n + 1 : j \in 1 .. n \/ j = n + 1
      OBVIOUS
    <3>2. \A j \in 1 .. n : j \in 1 .. n + 1
      OBVIOUS
    <3>3. n + 1 \in 1 .. n + 1
      OBVIOUS
    <3>4. QED
      BY <2>3, <3>1, <3>2, <3>3, Zenon
  <2>7. CASE x \notin S
    <3>1. f[n + 1] = g
      BY <2>4, <2>7
    <3>2. \A c : Has(g, c) <=> c \in S /\ Early(n + 1, c)
      <4> HIDE DEF Has, Early
      <4>1. QED
        BY <2>5, <2>6, <2>7
    <3>3. Distinct(s) => Distinct(g)
      BY <1>5, <2>1, <2>2
    <3>4. QED
      BY <3>1, <3>2, <3>3
  <2>8. CASE x \in S
    <3>1. PICK h : h = Append(g, x)
      OBVIOUS
    <3>2. /\ h \in Seq(B) /\ Len(h) = Len(g) + 1 /\ Len(g) \in Nat
          /\ \A j \in 1 .. Len(h) : h[j] = IF j = Len(g) + 1 THEN x ELSE g[j]
      BY <3>1
    <3>3. f[n + 1] = h
      BY <2>4, <2>8, <3>1
    <3>4. \A c : Has(h, c) <=> Has(g, c) \/ c = x
      <4> SUFFICES ASSUME NEW c PROVE Has(h, c) <=> Has(g, c) \/ c = x
        OBVIOUS
      <4>1. ASSUME Has(h, c) PROVE Has(g, c) \/ c = x
        <5>1. PICK j \in 1 .. Len(h) : h[j] = c
          BY <4>1
        <5>2. j = Len(g) + 1 \/ j \in 1 .. Len(g)
          BY <3>2
        <5>3. QED
          BY <3>2, <5>1, <5>2
      <4>2. ASSUME Has(g, c) PROVE Has(h, c)
        <5>1. PICK j \in 1 .. Len(g) : g[j] = c
          BY <4>2
        <5>2. j \in 1 .. Len(h) /\ j # Len(g) + 1
          BY <3>2
        <5>3. QED
          BY <3>2, <5>1, <5>2
      <4>3. ASSUME c = x PROVE Has(h, c)
        <5>1. Len(g) + 1 \in 1 .. Len(h)
          BY <3>2
        <5>2. QED
          BY <3>2, <4>3, <5>1
      <4>4. QED
        BY <4>1, <4>2, <4>3
    <3>5. \A c : Has(h, c) <=> c \in S /\ Early(n + 1, c)
      <4> HIDE DEF Has, Early
      <4>1. QED
        BY <2>5, <2>6, <2>8, <3>4
    <3>6. ASSUME Distinct(s) PROVE Distinct(h)
      <4>1. \A j, k \in 1 .. Len(g) : j # k => g[j].name # g[k].name
        BY <1>5, <2>1, <2>2, <3>6 DEF Distinct
      <4>2. ASSUME NEW j \in 1 .. Len(g) PROVE g[j].name # x.name
        <5>1. Early(n, g[j])
          BY <2>5
        <5>2. PICK k \in 1 .. n : s[k] = g[j]
          BY <5>1
        <5>3. k \in 1 .. Len(s) /\ k # n + 1
          BY <2>1
        <5>4. s[k].name # s[n + 1].name
          BY <2>1, <3>6, <5>3 DEF Distinct
        <5>5. QED
          BY <2>3, <5>2, <5>4
      <4>3. \A j \in 1 .. Len(h) : j # Len(g) + 1 => j \in 1 .. Len(g) /\ h[j] = g[j]
        BY <3>2
      <4>4. h[Len(g) + 1] = x
        BY <3>2
      <4>5. ASSUME NEW j \in 1 .. Len(h), NEW k \in 1 .. Len(h), j # k
            PROVE  h[j].name # h[k].name
        <5>1. CASE j = Len(g) + 1
          BY <4>2, <4>3, <4>4, <4>5, <5>1
        <5>2. CASE k = Len(g) + 1
          BY <4>2, <4>3, <4>4, <4>5, <5>2
        <5>3. CASE j # Len(g) + 1 /\ k # Len(g) + 1
          BY <4>1, <4>3, <4>5, <5>3
        <5>4. QED
          BY <5>1, <5>2, <5>3
      <4>6. QED
        BY <4>5 DEF Distinct
    <3>7. QED
      BY <3>3, <3>5, <3>6
  <2>9. QED
    BY <2>7, <2>8
<1>6. Len(s) \in Good
  <2> HIDE DEF Good
  <2>1. Nat \subseteq Good
    BY <1>4, <1>5, SetInduction
  <2>2. QED
    BY <2>1
<1>7. PICK r \in Seq(B) : r = f[Len(s)]
  OBVIOUS
<1>8. (\A c : Has(r, c) <=> c \in S /\ Early(Len(s), c)) /\ (Distinct(s) => Distinct(r))
  BY <1>6, <1>7
<1>9. J!Sift(s, S) = r
  BY <1>1, <1>3, <1>7
<1>10. QED
  BY <1>7, <1>8, <1>9

\* Filling a new jar with entries of different names leaves those that net/http
\* takes for alive: no entry replaces another one.
LEMMA RefilledIs ==
    ASSUME NEW B, NEW list \in Seq(B), Distinct(list)
    PROVE  J!Refilled(list) = {c \in B : J!Alive(c) /\ \E j \in 1 .. Len(list) : list[j] = c}
<1> DEFINE L == Len(list)
           f == [i \in 0 .. L |-> {c \in B : J!Alive(c) /\ \E j \in 1 .. i : list[j] = c}]
           Rec(g) == g = [i \in 0 .. L |-> IF i = 0 THEN {} ELSE J!InnerSet(g[i - 1], list[i])]
           filled == CHOOSE g : Rec(g)
           Good == {n \in Nat : n <= L => filled[n] = f[n]}
<1>1. L \in Nat /\ \A i \in 1 .. L : list[i] \in B
  OBVIOUS
<1>2. J!Refilled(list) = filled[L]
  BY DEF J!Refilled
<1> HIDE DEF L
<1>3. f[0] = {}
  BY <1>1
<1>4. ASSUME NEW i \in 1 .. L PROVE f[i] = J!InnerSet(f[i - 1], list[i])
  <2>1. i \in 0 .. L /\ i - 1 \in 0 .. L /\ i - 1 \in Nat
    BY <1>1
  <2>2. PICK x \in B : x = list[i]
    BY <1>1
  <2>3. \A c : c \in f[i - 1] <=> c \in B /\ J!Alive(c) /\ \E j \in 1 .. i - 1 : list[j] = c
    BY <2>1
  <2>4. \A c : c \in f[i] <=> c \in B /\ J!Alive(c) /\ \E j \in 1 .. i : list[j] = c
    BY <2>1
  <2> HIDE DEF f
  <2>5. \A c : (\E j \in 1 .. i : list[j] = c) <=> c = x \/ \E j \in 1 .. i - 1 : list[j] = c
    <3>1. \A j \in 1 .. i : j \in 1 .. i - 1 \/ j = i
      BY <2>1
    <3>2. \A j \in 1 .. i - 1 : j \in 1 .. i
      BY <2>1
    <3>3. i \in 1 .. i
      BY <2>1
    <3>4. QED
      BY <2>2, <3>1, <3>2, <3>3, Zenon
  <2>6. ASSUME NEW c \in f[i - 1] PROVE c.name # x.name
    <3>1. PICK j \in 1 .. i - 1 : list[j] = c
      BY <2>3
    <3>2. j \in 1 .. L /\ j # i
      BY <1>1, <2>1
    <3>3. QED
      BY <2>2, <3>1, <3>2 DEF Distinct, L
  <2>7. {d \in f[i - 1] : d.name # x.name} = f[i - 1]
    BY <2>6
  <2>8. J!InnerSet(f[i - 1], x) = f[i - 1] \cup (IF J!Alive(x) THEN {x} ELSE {})
    BY <2>7 DEF J!InnerSet
  <2>9. \A c : c \in f[i] <=> c \in f[i - 1] \/ (c = x /\ J!Alive(x))
    BY <2>2, <2>3, <2>4, <2>5, Zenon
  <2>10. f[i] = f[i - 1] \cup (IF J!Alive(x) THEN {x} ELSE {})
    <3>1. CASE J!Alive(x)
      BY <2>9, <3>1
    <3>2. CASE ~J!Alive(x)
      BY <2>9, <3>2
    <3>3. QED
      BY <3>1, <3>2
  <2>11. QED
    BY <2>2, <2>8, <2>10
<1>5. Rec(f)
  <2> DEFINE h == [i \in 0 .. L |-> IF i = 0 THEN {} ELSE J!InnerSet(f[i - 1], list[i])]
  <2>1. ASSUME NEW i \in 0 .. L PROVE f[i] = h[i]
    <3>1. CASE i = 0
      <4>1. h[i] = {}
        BY <3>1
      <4>2. QED
        BY <1>3, <3>1, <4>1
    <3>2. CASE i # 0
      <4>1. i \in 1 .. L
        BY <1>1, <3>2
      <4>2. h[i] = J!InnerSet(f[i - 1], list[i])
        BY <3>2, Zenon
      <4>3. QED
        BY <1>4, <4>1, <4>2
    <3>3. QED
      BY <3>1, <3>2
  <2>2. DOMAIN f = 0 .. L /\ DOMAIN h = 0 .. L
    OBVIOUS
  <2>3. f = [i \in 0 .. L |-> f[i]]
    OBVIOUS
  <2>4. h = [i \in 0 .. L |-> h[i]]
    OBVIOUS
  <2> HIDE DEF f, h
  <2>5. f = h
    BY <2>1, <2>3, <2>4
  <2>6. QED
    BY <2>5 DEF h
<1> HIDE DEF f
<1>6. Rec(filled)
  <2> HIDE DEF Rec
  <2>1. QED
    BY <1>5
<1> HIDE DEF filled
<1>7. \A i \in 0 .. L : filled[i] = IF i = 0 THEN {} ELSE J!InnerSet(filled[i - 1], list[i])
  <2> SUFFICES ASSUME NEW i \in 0 .. L
               PROVE  filled[i] = IF i = 0 THEN {} ELSE J!InnerSet(filled[i - 1], list[i])
    BY Zenon
  <2> DEFINE h == [k \in 0 .. L |-> IF k = 0 THEN {} ELSE J!InnerSet(filled[k - 1], list[k])]
  <2>1. h[i] = IF i = 0 THEN {} ELSE J!InnerSet(filled[i - 1], list[i])
    BY Zenon
  <2>2. filled = h
    BY <1>6, Zenon
  <2>3. QED
    BY <2>1, <2>2, Zenon
<1>8. 0 \in Good
  <2>1. 0 \in 0 .. L
    BY <1>1
  <2>2. filled[0] = {}
    BY <1>7, <2>1, Zenon
  <2>3. QED
    BY <1>3, <2>2
<1>9. ASSUME NEW n \in Nat, n \in Good PROVE n + 1 \in Good
  <2> SUFFICES ASSUME n + 1 <= L PROVE filled[n + 1] = f[n + 1]
    OBVIOUS
  <2>1. n + 1 \in 0 .. L /\ n + 1 \in 1 .. L /\ n + 1 # 0 /\ (n + 1) - 1 = n /\ n <= L
    BY <1>1
  <2>2. filled[n + 1] = J!InnerSet(filled[(n + 1) - 1], list[n + 1])
    BY <1>7, <2>1, Zenon
  <2>3. f[n + 1] = J!InnerSet(f[(n + 1) - 1], list[n + 1])
    BY <1>4, <2>1
  <2>4. filled[n] = f[n]
    BY <1>9, <2>1
  <2>5. QED
    BY <2>1, <2>2, <2>3, <2>4
<1>10. filled[L] = f[L]
  <2> HIDE DEF Good
  <2>1. Nat \subseteq Good
    BY <1>8, <1>9, SetInduction
  <2>2. QED
    BY <1>1, <2>1 DEF Good
<1>11. f[L] = {c \in B : J!Alive(c) /\ \E j \in 1 .. L : list[j] = c}
  BY <1>1 DEF f
<1>12. QED
  BY <1>2, <1>10, <1>11 DEF L

-----------------------------------------------------------------------------
(* CookieJar: the inductive invariant *)

Has(list, c) == \E j \in 1 .. Len(list) : list[j] = c
AliveAt(t, c) == c.exp = 0 \/ c.exp > t

\* At time t a list has the cookies of S that are alive, but for those that may
\* come with a Max-Age.
SameAt(t, list, S) ==
    \A c \in J!Cookies : c.name \notin Aged /\ AliveAt(t, c) => (Has(list, c) <=> c \in S)

\* What is on its way to or from the file, and in it, has no name twice and is
\* what was served.
Copies == [kind : {"absent", "broken", "list"}, list : Seq(J!Cookies), served : SUBSET J!Cookies]
CopyAt(t, r) == r \in Copies /\ Distinct(r.list) /\ SameAt(t, r.list, r.served)

JarInv ==
    /\ inner \subseteq J!Cookies /\ entries \in Seq(J!Cookies)
    /\ Distinct(entries) /\ SameAt(now, entries, inner)
    /\ now \in Nat /\ sets \in 0 .. MaxSets

CopyInv ==
    /\ CopyAt(now, file) /\ CopyAt(now, data)
    /\ snap \in [Savers -> Copies] /\ \A s \in Savers : CopyAt(now, snap[s])

CookieInd ==
    /\ JarInv /\ CopyInv
    /\ spc \in [Savers -> {"idle", "open", "write"}] /\ lpc \in {"idle", "apply"}

LEMMA AliveIs == ASSUME NEW c PROVE J!Alive(c) <=> AliveAt(now, c)
BY DEF J!Alive, J!Session, AliveAt

LEMMA InList == ASSUME NEW B, NEW list \in Seq(B), NEW c PROVE c \in J!Range(list) <=> Has(list, c)
<1>1. DOMAIN list = 1 .. Len(list)
  OBVIOUS
<1>2. QED
  BY <1>1 DEF J!Range, Has

LEMMA SameSets ==
    ASSUME NEW list \in Seq(J!Cookies), NEW S, S \subseteq J!Cookies, SameAt(now, list, S)
    PROVE  J!PlainOnly({c \in J!Range(list) : J!Alive(c)}) = J!PlainOnly({c \in S : J!Alive(c)})
<1> DEFINE X == J!PlainOnly({c \in J!Range(list) : J!Alive(c)})
           Y == J!PlainOnly({c \in S : J!Alive(c)})
<1>1. \A c : Has(list, c) => c \in J!Cookies
  BY DEF Has
<1>2. \A c : c \in X <=> Has(list, c) /\ AliveAt(now, c) /\ c.name \notin Aged
  BY InList, AliveIs DEF J!PlainOnly
<1>3. \A c : c \in Y <=> c \in S /\ AliveAt(now, c) /\ c.name \notin Aged
  BY AliveIs DEF J!PlainOnly
<1> HIDE DEF X, Y
<1>4. \A c : c \in X <=> c \in Y
  BY <1>1, <1>2, <1>3 DEF SameAt
<1>5. X = Y
  BY <1>4
<1>6. QED
  BY <1>5 DEF X, Y

LEMMA NoList == Distinct(<<>>) /\ \A c : ~Has(<<>>, c)
BY DEF Distinct, Has

LEMMA NoCopies ==
    ASSUME NEW t
    PROVE  CopyAt(t, J!Absent) /\ CopyAt(t, J!Broken)
<1>1. J!Absent \in Copies /\ J!Broken \in Copies
  BY DEF J!Absent, J!Broken, Copies
<1>2. QED
  BY <1>1, NoList DEF J!Absent, J!Broken, CopyAt, SameAt

\* Time only takes cookies away.
LEMMA Later ==
    ASSUME NEW t \in Nat, NEW list, NEW S, SameAt(t, list, S)
    PROVE  SameAt(t + 1, list, S)
<1>1. ASSUME NEW c \in J!Cookies, AliveAt(t + 1, c) PROVE AliveAt(t, c)
  <2>1. c.exp \in Int
    BY DEF J!Cookies
  <2>2. QED
    BY <1>1, <2>1 DEF AliveAt
<1>2. QED
  BY <1>1 DEF SameAt

LEMMA CookieStart == ASSUME J!JarAssumption, J!Init PROVE CookieInd
<1>1. JarInv
  BY NoList DEF J!Init, J!JarAssumption, JarInv, SameAt
<1>2. CopyInv
  <2>1. J!Absent \in Copies
    BY NoCopies DEF CopyAt
  <2>2. snap \in [Savers -> Copies] /\ \A s \in Savers : snap[s] = J!Absent
    BY <2>1 DEF J!Init
  <2>3. QED
    BY <2>2, NoCopies DEF J!Init, CopyInv
<1>3. QED
  BY <1>1, <1>2 DEF CookieInd, J!Init

\* The entries that have not expired, with all that net/http takes for alive.
LEMMA ActiveIs ==
    ASSUME JarInv, NEW list \in Seq(J!Cookies), Distinct(list)
    PROVE  /\ J!ActiveOf(list) \in Seq(J!Cookies) /\ Distinct(J!ActiveOf(list))
           /\ \A c \in J!Cookies : AliveAt(now, c) => (Has(J!ActiveOf(list), c) <=> Has(list, c))
<1>1. PICK S : S = {e \in J!Cookies : J!Active(e)}
  OBVIOUS
<1>2. PICK r : r = J!Sift(list, S)
  OBVIOUS
<1>3. J!ActiveOf(list) = r
  BY <1>1, <1>2 DEF J!ActiveOf
<1>4. /\ r \in Seq(J!Cookies) /\ Distinct(r)
      /\ \A c : Has(r, c) <=> c \in S /\ Has(list, c)
  BY <1>2, JarSift DEF Has
<1>5. ASSUME NEW c \in J!Cookies, AliveAt(now, c) PROVE c \in S
  <2>1. c.exp \in Int /\ now \in Int
    BY DEF J!Cookies, JarInv
  <2>2. QED
    BY <1>1, <1>5, <2>1 DEF AliveAt, J!Active, J!Session
<1>6. QED
  BY <1>3, <1>4, <1>5

LEMMA SetStep ==
    ASSUME J!JarAssumption, JarInv, NEW n \in Names, NEW e \in 0 .. MaxTime - 1,
           NEW a \in BOOLEAN, J!SetCookies(n, e, a)
    PROVE  JarInv' /\ UNCHANGED <<now, file, spc, snap, lpc, data>>
<1>1. PICK c : c = J!cookieToEntry(n, e)
  OBVIOUS
<1>2. /\ sets < MaxSets /\ sets' = sets + 1 /\ (a => n \in Aged)
      /\ inner' = (IF a THEN {d \in inner : d.name # n} ELSE J!InnerSet(inner, c))
      /\ entries' = J!trackCookies(entries, c)
      /\ UNCHANGED <<now, file, spc, snap, lpc, data>>
  BY <1>1 DEF J!SetCookies, J!calls
<1>3. sets \in Nat /\ MaxSets \in Nat /\ sets + 1 \in 1 .. MaxSets
  BY <1>2 DEF JarInv, J!JarAssumption
<1>4. c \in J!Cookies /\ c.name = n
  BY <1>1, <1>3 DEF J!cookieToEntry, J!Cookies
<1>5. PICK S : S = {d \in J!Cookies : d.name # n}
  OBVIOUS
<1>6. PICK r : r = J!Sift(entries, S)
  OBVIOUS
<1>7. /\ r \in Seq(J!Cookies) /\ Distinct(r)
      /\ \A d : Has(r, d) <=> d \in S /\ Has(entries, d)
  BY <1>6, JarSift DEF Has, JarInv
<1>8. entries' = Append(r, c)
  BY <1>2, <1>4, <1>5, <1>6 DEF J!trackCookies, J!removeCookieEntry
<1>9. PICK h : h = Append(r, c)
  OBVIOUS
<1>10. /\ h \in Seq(J!Cookies) /\ Len(h) = Len(r) + 1 /\ Len(r) \in Nat
       /\ \A j \in 1 .. Len(h) : h[j] = IF j = Len(r) + 1 THEN c ELSE r[j]
  BY <1>4, <1>7, <1>9
<1>11. \A d : Has(h, d) <=> Has(r, d) \/ d = c
  <2> SUFFICES ASSUME NEW d PROVE Has(h, d) <=> Has(r, d) \/ d = c
    OBVIOUS
  <2>1. ASSUME Has(h, d) PROVE Has(r, d) \/ d = c
    <3>1. PICK j \in 1 .. Len(h) : h[j] = d
      BY <2>1 DEF Has
    <3>2. j = Len(r) + 1 \/ j \in 1 .. Len(r)
      BY <1>10
    <3>3. QED
      BY <1>10, <3>1, <3>2 DEF Has
  <2>2. ASSUME Has(r, d) PROVE Has(h, d)
    <3>1. PICK j \in 1 .. Len(r) : r[j] = d
      BY <2>2 DEF Has
    <3>2. j \in 1 .. Len(h) /\ j # Len(r) + 1
      BY <1>10
    <3>3. QED
      BY <1>10, <3>1, <3>2 DEF Has
  <2>3. ASSUME d = c PROVE Has(h, d)
    <3>1. Len(r) + 1 \in 1 .. Len(h)
      BY <1>10
    <3>2. QED
      BY <1>10, <2>3, <3>1 DEF Has
  <2>4. QED
    BY <2>1, <2>2, <2>3
<1>12. Distinct(h)
  <2>1. ASSUME NEW j \in 1 .. Len(r) PROVE r[j].name # n
    <3>1. Has(r, r[j])
      BY DEF Has
    <3>2. r[j] \in S
      BY <1>7, <3>1
    <3>3. QED
      BY <1>5, <3>2
  <2>2. \A j \in 1 .. Len(h) : j # Len(r) + 1 => j \in 1 .. Len(r) /\ h[j] = r[j]
    BY <1>10
  <2>3. Len(r) + 1 \in 1 .. Len(h) /\ h[Len(r) + 1] = c
    BY <1>10
  <2>4. ASSUME NEW j \in 1 .. Len(h), NEW k \in 1 .. Len(h), j # k
        PROVE  h[j].name # h[k].name
    <3>1. CASE j = Len(r) + 1
      BY <1>4, <2>1, <2>2, <2>3, <2>4, <3>1
    <3>2. CASE k = Len(r) + 1
      BY <1>4, <2>1, <2>2, <2>3, <2>4, <3>2
    <3>3. CASE j # Len(r) + 1 /\ k # Len(r) + 1
      BY <1>7, <2>2, <2>4, <3>3 DEF Distinct
    <3>4. QED
      BY <3>1, <3>2, <3>3
  <2>5. QED
    BY <2>4 DEF Distinct
<1>13. PICK I : I = (IF a THEN {d \in inner : d.name # n} ELSE J!InnerSet(inner, c))
  OBVIOUS
<1>14. /\ I \subseteq J!Cookies
       /\ \A d : d.name # n => (d \in I <=> d \in inner)
       /\ \A d : d.name = n => (d \in I <=> ~a /\ d = c /\ AliveAt(now, c))
  <2>1. inner \subseteq J!Cookies
    BY DEF JarInv
  <2>2. CASE a
    BY <1>13, <2>1, <2>2
  <2>3. CASE ~a
    <3>1. I = {d \in inner : d.name # n} \cup (IF AliveAt(now, c) THEN {c} ELSE {})
      BY <1>4, <1>13, <2>3, AliveIs DEF J!InnerSet
    <3>2. CASE AliveAt(now, c)
      BY <1>4, <2>1, <2>3, <3>1, <3>2
    <3>3. CASE ~AliveAt(now, c)
      BY <1>4, <2>1, <2>3, <3>1, <3>3
    <3>4. QED
      BY <3>2, <3>3
  <2>4. QED
    BY <2>2, <2>3
<1>15. SameAt(now, h, I)
  <2>1. ASSUME NEW d \in J!Cookies, d.name \notin Aged, AliveAt(now, d)
        PROVE  Has(h, d) <=> d \in I
    <3>1. CASE d.name # n
      <4>1. d \in S /\ d # c
        BY <1>4, <1>5, <3>1
      <4>2. Has(entries, d) <=> d \in inner
        BY <2>1 DEF JarInv, SameAt
      <4>3. QED
        BY <1>7, <1>11, <1>14, <3>1, <4>1, <4>2
    <3>2. CASE d.name = n
      <4>1. d \notin S /\ ~a
        BY <1>2, <1>5, <2>1, <3>2
      <4>2. QED
        BY <1>7, <1>11, <1>14, <2>1, <3>2, <4>1
    <3>3. QED
      BY <3>1, <3>2
  <2>2. QED
    BY <2>1 DEF SameAt
<1>16. /\ inner' = I /\ entries' = h /\ now' = now /\ sets' \in 0 .. MaxSets
  BY <1>2, <1>3, <1>8, <1>9, <1>13
<1>17. QED
  BY <1>2, <1>10, <1>12, <1>14, <1>15, <1>16 DEF JarInv

\* LoadApply: the entries, without those that have expired, and a new jar that
\* serves them.
LEMMA LoadStep ==
    ASSUME JarInv, CopyInv, J!LoadApply
    PROVE  /\ JarInv' /\ J!PlainOnly(J!Served') = J!PlainOnly({c \in data.served : J!Alive(c)})
           /\ lpc' = "idle" /\ data' = J!Absent /\ UNCHANGED <<now, file, spc, snap, sets>>
<1>1. PICK r : r = J!ActiveOf(data.list)
  OBVIOUS
<1>2. /\ lpc' = "idle" /\ data' = J!Absent /\ UNCHANGED <<now, file, spc, snap, sets>>
      /\ inner' = J!Refilled(r) /\ entries' = r
  BY <1>1 DEF J!LoadApply
<1>3. /\ data.list \in Seq(J!Cookies) /\ Distinct(data.list) /\ data.served \subseteq J!Cookies
      /\ SameAt(now, data.list, data.served)
  BY DEF CopyInv, CopyAt, Copies
<1>4. /\ r \in Seq(J!Cookies) /\ Distinct(r)
      /\ \A c \in J!Cookies : AliveAt(now, c) => (Has(r, c) <=> Has(data.list, c))
  BY <1>1, <1>3, ActiveIs
<1>5. PICK I : I = {c \in J!Cookies : AliveAt(now, c) /\ Has(r, c)}
  OBVIOUS
<1>6. inner' = I
  <2>1. J!Refilled(r) = {c \in J!Cookies : J!Alive(c) /\ \E j \in 1 .. Len(r) : r[j] = c}
    BY <1>4, RefilledIs
  <2>2. QED
    BY <1>2, <1>5, <2>1, AliveIs DEF Has
<1>7. SameAt(now, r, I) /\ I \subseteq J!Cookies
  BY <1>5 DEF SameAt
<1>8. JarInv'
  BY <1>2, <1>4, <1>6, <1>7 DEF JarInv
<1>9. J!Served' = I
  <2>1. J!Served' = {c \in inner' : AliveAt(now', c)}
    BY DEF J!Served, J!Alive, J!Session, AliveAt
  <2>2. QED
    BY <1>2, <1>5, <1>6, <2>1
<1>10. \A c : c \in J!PlainOnly(I) <=> c \in J!PlainOnly({d \in data.served : J!Alive(d)})
  <2>1. \A c : c \in J!PlainOnly(I) <=>
          c \in J!Cookies /\ AliveAt(now, c) /\ Has(r, c) /\ c.name \notin Aged
    BY <1>5 DEF J!PlainOnly
  <2>2. \A c : c \in J!PlainOnly({d \in data.served : J!Alive(d)}) <=>
          c \in data.served /\ AliveAt(now, c) /\ c.name \notin Aged
    BY AliveIs DEF J!PlainOnly
  <2>3. QED
    BY <1>3, <1>4, <2>1, <2>2 DEF SameAt
<1>11. J!PlainOnly(I) = J!PlainOnly({c \in data.served : J!Alive(c)})
  BY <1>10
<1>12. QED
  BY <1>2, <1>8, <1>9, <1>11

\* Save: the copy it takes is what is served, and what it leaves in the file is
\* that copy or nothing that parses.
LEMMA SaveStep ==
    ASSUME CookieInd, NEW s \in Savers,
           J!SaveSnapshot(s) \/ J!SaveOpen(s) \/ J!SaveWrite(s)
    PROVE  CookieInd'
<1>1. /\ UNCHANGED <<now, inner, entries, lpc, data, sets>>
      /\ spc' \in [Savers -> {"idle", "open", "write"}]
  BY DEF J!SaveSnapshot, J!SaveOpen, J!SaveWrite, CookieInd
<1>2. JarInv' /\ lpc' \in {"idle", "apply"}
  BY <1>1 DEF CookieInd, JarInv
<1>3. PICK t : t = now /\ now' = t
  BY <1>1
<1>4. /\ CopyAt(t, file) /\ CopyAt(t, data) /\ snap \in [Savers -> Copies]
      /\ \A z \in Savers : CopyAt(t, snap[z])
  BY <1>3 DEF CookieInd, CopyInv
<1>5. PICK k : k = [kind |-> "list", list |-> J!ActiveOf(entries), served |-> J!Served]
  OBVIOUS
<1>6. CopyAt(t, k)
  <2>1. /\ entries \in Seq(J!Cookies) /\ Distinct(entries) /\ inner \subseteq J!Cookies
        /\ SameAt(t, entries, inner) /\ JarInv
    BY <1>3 DEF CookieInd, JarInv
  <2>2. PICK r : r = J!ActiveOf(entries)
    OBVIOUS
  <2>3. /\ r \in Seq(J!Cookies) /\ Distinct(r)
        /\ \A c \in J!Cookies : AliveAt(t, c) => (Has(r, c) <=> Has(entries, c))
    BY <1>3, <2>1, <2>2, ActiveIs
  <2>4. \A c : c \in J!Served <=> c \in inner /\ AliveAt(t, c)
    BY <1>3, AliveIs DEF J!Served
  <2>5. J!Served \subseteq J!Cookies
    BY <2>1, <2>4
  <2>6. SameAt(t, r, J!Served)
    BY <2>1, <2>3, <2>4 DEF SameAt
  <2>7. k.list = r /\ k.served = J!Served /\ k \in Copies
    BY <1>5, <2>2, <2>3, <2>5 DEF Copies
  <2>8. QED
    BY <2>3, <2>6, <2>7 DEF CopyAt
<1>7. \E m : CopyAt(t, m) /\ snap' = [snap EXCEPT ![s] = m]
  <2>1. CASE J!SaveSnapshot(s)
    BY <1>5, <1>6, <2>1 DEF J!SaveSnapshot
  <2>2. CASE J!SaveOpen(s)
    <3>1. snap' = snap \/ snap' = [snap EXCEPT ![s] = J!Absent]
      BY <2>2 DEF J!SaveOpen
    <3>2. snap = [snap EXCEPT ![s] = snap[s]]
      BY <1>4
    <3>3. CopyAt(t, snap[s]) /\ CopyAt(t, J!Absent)
      BY <1>4, NoCopies
    <3>4. QED
      BY <3>1, <3>2, <3>3
  <2>3. CASE J!SaveWrite(s)
    BY <2>3, NoCopies DEF J!SaveWrite
  <2>4. QED
    BY <2>1, <2>2, <2>3
<1>8. CopyAt(t, file')
  <2>1. CASE J!SaveSnapshot(s)
    BY <1>4, <2>1 DEF J!SaveSnapshot
  <2>2. CASE J!SaveOpen(s)
    BY <1>4, <2>2, NoCopies DEF J!SaveOpen
  <2>3. CASE J!SaveWrite(s)
    <3>1. file' = J!Written(snap[s]) \/ file' = J!Broken
      BY <2>3 DEF J!SaveWrite
    <3>2. PICK w : w = J!Written(snap[s])
      OBVIOUS
    <3>3. w = [kind |-> "list", list |-> snap[s].list, served |-> snap[s].served]
      BY <3>2 DEF J!Written
    <3>4. CopyAt(t, snap[s])
      BY <1>4
    <3>5. w.list = snap[s].list /\ w.served = snap[s].served /\ w \in Copies
      BY <3>3, <3>4 DEF CopyAt, Copies
    <3>6. CopyAt(t, w)
      BY <3>4, <3>5 DEF CopyAt
    <3>7. QED
      BY <3>1, <3>2, <3>6, NoCopies
  <2>4. QED
    BY <2>1, <2>2, <2>3
<1>9. snap' \in [Savers -> Copies] /\ \A z \in Savers : CopyAt(t, snap'[z])
  <2>1. PICK m : CopyAt(t, m) /\ snap' = [snap EXCEPT ![s] = m]
    BY <1>7
  <2>2. m \in Copies
    BY <2>1 DEF CopyAt
  <2>3. QED
    BY <1>4, <2>1, <2>2
<1>10. CopyInv'
  BY <1>1, <1>3, <1>4, <1>8, <1>9 DEF CopyInv
<1>11. QED
  BY <1>1, <1>2, <1>10 DEF CookieInd

LEMMA CookieStep ==
    ASSUME J!JarAssumption, CookieInd, [J!Next]_J!vars
    PROVE  CookieInd'
<1>1. CASE UNCHANGED J!vars
  BY <1>1 DEF J!vars, CookieInd, JarInv, CopyInv
<1>2. ASSUME NEW n \in Names, NEW e \in 0 .. MaxTime - 1, NEW a \in BOOLEAN, J!SetCookies(n, e, a)
      PROVE  CookieInd'
  BY <1>2, SetStep DEF CookieInd, CopyInv
<1>3. CASE J!Clear
  <2>1. /\ inner' = {} /\ entries' = <<>>
        /\ UNCHANGED <<now, file, spc, snap, lpc, data, sets>>
    BY <1>3 DEF J!Clear, J!calls
  <2>2. JarInv'
    BY <2>1, NoList DEF CookieInd, JarInv, SameAt
  <2>3. QED
    BY <2>1, <2>2 DEF CookieInd, CopyInv
<1>4. CASE J!LoadRead
  BY <1>4 DEF J!LoadRead, CookieInd, JarInv, CopyInv
<1>5. CASE J!LoadApply
  BY <1>5, LoadStep, NoCopies DEF CookieInd, CopyInv
<1>6. CASE J!Restart
  <2>1. /\ inner' = {} /\ entries' = <<>> /\ lpc' = "idle" /\ data' = J!Absent
        /\ spc' = [s \in Savers |-> "idle"] /\ snap' = [s \in Savers |-> J!Absent]
        /\ UNCHANGED <<now, file, sets>>
    BY <1>6 DEF J!Restart
  <2>2. JarInv'
    BY <2>1, NoList DEF CookieInd, JarInv, SameAt
  <2>3. J!Absent \in Copies
    BY NoCopies DEF CopyAt
  <2>4. snap' \in [Savers -> Copies] /\ \A s \in Savers : snap'[s] = J!Absent
    BY <2>1, <2>3
  <2>5. CopyInv'
    BY <2>1, <2>4, NoCopies DEF CookieInd, CopyInv
  <2>6. QED
    BY <2>1, <2>2, <2>5 DEF CookieInd
<1>7. CASE J!Tick
  <2>1. now \in Nat /\ now' = now + 1 /\ now' \in Nat
        /\ UNCHANGED <<inner, entries, file, spc, snap, lpc, data, sets>>
    BY <1>7 DEF J!Tick, J!calls, CookieInd, JarInv
  <2>2. PICK t \in Nat : t = now /\ now' = t + 1
    BY <2>1
  <2>3. SameAt(t + 1, entries, inner)
    BY <2>2, Later DEF CookieInd, JarInv
  <2>4. JarInv'
    BY <2>1, <2>2, <2>3 DEF CookieInd, JarInv
  <2>5. ASSUME NEW r, CopyAt(t, r) PROVE CopyAt(t + 1, r)
    BY <2>5, Later DEF CopyAt
  <2>6. CopyInv'
    BY <2>1, <2>2, <2>5 DEF CookieInd, CopyInv
  <2>7. QED
    BY <2>1, <2>4, <2>6 DEF CookieInd
<1>8. QED
  BY <1>1, <1>2, <1>3, <1>4, <1>5, <1>6, <1>7, SaveStep DEF J!Next

LEMMA CookieHolds == CookieInd => J!TypeOK /\ J!StoresAgree
<1> SUFFICES ASSUME CookieInd PROVE J!TypeOK /\ J!StoresAgree
  OBVIOUS
<1>1. J!TypeOK
  BY DEF CookieInd, JarInv, CopyInv, CopyAt, Copies, J!TypeOK
<1>2. J!StoresAgree
  BY SameSets DEF CookieInd, JarInv, J!StoresAgree, J!Served
<1>3. QED
  BY <1>1, <1>2

\* CookiesOK: for any cookies, expiries and racing Saves, what net/http serves and
\* the list that is saved agree, and a Load brings back what was served at the
\* Save, but for what has expired (SetCookies, Save, Load and Clear of the jar).
THEOREM CookiesCorrect ==
    ASSUME J!JarAssumption
    PROVE  J!Spec => CookiesOK
<1>1. J!Init => CookieInd
  BY CookieStart
<1>2. CookieInd /\ [J!Next]_J!vars => CookieInd'
  BY CookieStep
<1>3. CookieInd => J!TypeOK /\ J!StoresAgree
  BY CookieHolds
<1>4. CookieInd /\ [J!Next]_J!vars =>
        [J!LoadApply =>
            J!PlainOnly(J!Served') = J!PlainOnly({c \in data.served : J!Alive(c)})]_J!vars
  BY LoadStep DEF CookieInd
<1>5. QED
  BY <1>1, <1>2, <1>3, <1>4, PTL DEF J!Spec, CookiesOK, J!CookiesOK, J!LoadRestores

=============================================================================

------------------------------ MODULE Postgres ------------------------------
(***************************************************************************)
(* The PostgreSQL storage plugin (pkg/storage/postgres.go): Init with the  *)
(* migrations that several processes run on one database, Store and Close. *)
(*                                                                         *)
(* The database is external: a migration's SQL leaves alone what is there  *)
(* (IF NOT EXISTS), the version is a primary key, a statement may fail     *)
(* without an effect, and the answer to one that took effect may be lost.  *)
(* A Store is one statement: all its items are inserted or none, by COPY   *)
(* or by INSERT.  A process calls the methods of its plugin one after the  *)
(* other, dies at any point, and starts anew.                              *)
(***************************************************************************)
EXTENDS Integers, Sequences, FiniteSets

CONSTANTS
    Procs,
    Migrations,  \* the number of up-migrations, applied in the order of names
    Batches,     \* the Items of a call of Store
    MaxFaults    \* bound on failures, lost answers and deaths

PostgresAssumption == Migrations \in Nat \ {0} /\ MaxFaults \in Nat

Versions == 1 .. Migrations

VARIABLES
    applied, recorded,   \* migrations in the schema, and in schema_migrations
    stored,              \* batches in crawled_items
    pc, version,         \* a process and the migration it is at
    pool,                \* p.pool is not nil
    faults

vars == <<applied, recorded, stored, pc, version, pool, faults>>
database == <<applied, recorded, stored>>

Goto(p, l) == pc' = [pc EXCEPT ![p] = l]
Fault == faults < MaxFaults /\ faults' = faults + 1

TypeOK ==
    /\ applied \subseteq Versions /\ recorded \subseteq Versions
    /\ stored \subseteq Batches
    /\ pc \in [Procs -> {"off", "check", "apply", "record", "ready"}]
    /\ version \in [Procs -> 1 .. Migrations + 1] /\ pool \in [Procs -> BOOLEAN]

Init ==
    /\ applied = {} /\ recorded = {} /\ stored = {}
    /\ pc = [p \in Procs |-> "off"] /\ version = [p \in Procs |-> 1]
    /\ pool = [p \in Procs |-> FALSE] /\ faults = 0

\* Init: connect, and create the table of versions.
Connect(p) ==
    /\ pc[p] = "off" /\ Goto(p, "check")
    /\ pool' = [pool EXCEPT ![p] = TRUE] /\ version' = [version EXCEPT ![p] = 1]
    /\ UNCHANGED <<database, faults>>

Check(p) ==
    /\ pc[p] = "check"
    /\ \/ version[p] > Migrations /\ Goto(p, "ready") /\ UNCHANGED version
       \/ /\ version[p] \in recorded
          /\ version' = [version EXCEPT ![p] = @ + 1] /\ UNCHANGED pc
       \/ /\ version[p] \in Versions \ recorded
          /\ Goto(p, "apply") /\ UNCHANGED version
    /\ UNCHANGED <<database, pool, faults>>

\* Fault: the version is recorded before the migration has run.
ApplyRecordFirst(p) ==
    /\ pc[p] = "apply" /\ Goto(p, "record")
    /\ recorded' = recorded \cup {version[p]}
    /\ UNCHANGED <<applied, stored, version, pool, faults>>

Apply(p) ==
    /\ pc[p] = "apply" /\ Goto(p, "record")
    /\ applied' = applied \cup {version[p]}
    /\ UNCHANGED <<recorded, stored, version, pool, faults>>

\* INSERT fails if another process has recorded the version meanwhile.
Record(p) ==
    /\ pc[p] = "record" /\ version[p] \notin recorded
    /\ recorded' = recorded \cup {version[p]}
    /\ Goto(p, "check") /\ version' = [version EXCEPT ![p] = @ + 1]
    /\ UNCHANGED <<applied, stored, pool, faults>>

\* A migration fails: Init closes the pool and forgets it.
InitFails(p) ==
    /\ \/ pc[p] = "record" /\ version[p] \in recorded /\ UNCHANGED <<database, faults>>
       \/ pc[p] \in {"check", "apply", "record"} /\ Fault /\ UNCHANGED database
       \/ /\ pc[p] = "apply" /\ Fault
          /\ applied' = applied \cup {version[p]} /\ UNCHANGED <<recorded, stored>>
       \/ /\ pc[p] = "record" /\ Fault
          /\ recorded' = recorded \cup {version[p]} /\ UNCHANGED <<applied, stored>>
    /\ Goto(p, "off") /\ pool' = [pool EXCEPT ![p] = FALSE]
    /\ UNCHANGED <<version>>

\* copyFrom and insertBatch: done (answered or not) or failed.
Insert(b) ==
    \/ stored' = stored \cup {b} /\ UNCHANGED faults
    \/ stored' = stored /\ Fault

\* Store, once the nil check has passed.
Store(p, b) ==
    /\ pool[p] /\ pc[p] = "ready"
    /\ Insert(b)
    /\ UNCHANGED <<applied, recorded, pc, version, pool>>

Close(p) ==
    /\ pc[p] = "ready" /\ Goto(p, "off")
    /\ pool' = [pool EXCEPT ![p] = FALSE]
    /\ UNCHANGED <<database, version, faults>>

Crash(p) ==
    /\ pc[p] # "off" /\ Fault
    /\ Goto(p, "off") /\ pool' = [pool EXCEPT ![p] = FALSE]
    /\ UNCHANGED <<database, version>>

InitStep(p) == Connect(p) \/ Check(p) \/ Apply(p) \/ Record(p) \/ InitFails(p)

Next ==
    \E p \in Procs :
        InitStep(p) \/ (\E b \in Batches : Store(p, b)) \/ Close(p) \/ Crash(p)

Spec == Init /\ [][Next]_vars

-----------------------------------------------------------------------------
(* Properties *)

\* A version is recorded only after its migration has run, so that whoever
\* skips a migration or uses the plugin finds the schema complete, wherever
\* another process died or failed; and versions are recorded in their order.
SchemaComplete ==
    /\ recorded \subseteq applied
    /\ \A p \in Procs : pc[p] = "ready" => recorded = Versions
    /\ \A v \in recorded : 1 .. v \subseteq recorded

\* A plugin keeps a pool exactly while it is initialized or being so, and
\* nothing is stored in a schema that is not complete.
PostgresInv ==
    /\ TypeOK /\ SchemaComplete
    /\ \A p \in Procs : pool[p] <=> pc[p] # "off"
    /\ stored # {} => applied = Versions

=============================================================================

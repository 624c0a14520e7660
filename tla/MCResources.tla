---------------------------- MODULE MCResources -----------------------------
(***************************************************************************)
(* What a crawl borrows and keeps, for TLC: browsers (BrowserPool), the    *)
(* buffers of the HTTP client (HTTPClient), cookies (CookieJar), plugins   *)
(* (Plugins) and the database (Postgres).  They share no state: part says  *)
(* which of them a behaviour is about, and the others stay in their        *)
(* initial state.                                                          *)
(***************************************************************************)
EXTENDS BrowserPool, TLC

CONSTANTS Names, Aged, Savers, MaxTime, MaxSets,
          Loaders, Closers, Keys, Known, MaxEntries, NoPlugin,
          Procs, Migrations, Batches, MaxFaults,
          Calls, Buffers, NoArray, Size, MaxRedirects

VARIABLES part,
          now, inner, entries, file, spc, snap, lpc, data, sets,
          cfg, registry, at, epc, inited, readers, done, closed,
          applied, recorded, stored, pc, version, pool, faults,
          dpc, via, buf, body, mem, pooled, totalRequests

J == INSTANCE CookieJar
P == INSTANCE Plugins WITH lpc <- epc
G == INSTANCE Postgres
H == INSTANCE HTTPClient

ASSUME /\ J!JarAssumption /\ P!PluginsAssumption
       /\ G!PostgresAssumption /\ H!ClientAssumption

jar == <<now, inner, entries, file, spc, snap, lpc, data, sets>>
plugins == <<cfg, registry, at, epc, inited, readers, done, closed>>
postgres == <<applied, recorded, stored, pc, version, pool, faults>>
client == <<dpc, via, buf, body, mem, pooled, totalRequests>>

ResourcesInit ==
    /\ part \in {"pool", "cookies", "plugins", "postgres", "client"}
    /\ Init /\ J!Init /\ P!Init /\ G!Init /\ H!Init
    /\ part = "plugins" \/ \A l \in Loaders : cfg[l] = <<>>

ResourcesNext ==
    \/ part = "pool" /\ Next /\ UNCHANGED <<part, jar, plugins, postgres, client>>
    \/ part = "cookies" /\ J!Next /\ UNCHANGED <<part, vars, plugins, postgres, client>>
    \/ part = "plugins" /\ P!Next /\ UNCHANGED <<part, vars, jar, postgres, client>>
    \/ part = "postgres" /\ G!Next /\ UNCHANGED <<part, vars, jar, plugins, client>>
    \/ part = "client" /\ H!Next /\ UNCHANGED <<part, vars, jar, plugins, postgres>>

ResourcesSpec ==
    ResourcesInit /\ [][ResourcesNext]_<<part, vars, jar, plugins, postgres, client>>

\* What is served from the jar and what is saved do not drift apart, and a Load
\* brings back what was served at the Save, through racing Saves and restarts.
CookiesOK == J!CookiesOK

\* Every plugin that is initialized and kept is in the registry and closed by a
\* CloseAll, also after a Load that failed.
PluginsOK == P!PluginsOK

\* Processes that migrate one database at the same time, fail and die use no
\* schema that is not complete.
PostgresInv == G!PostgresInv

\* A response's body stays its caller's own while its buffer is reused.
ClientInv == H!ClientInv

\* Users of the pool are interchangeable, and so are Saves; browsers are named
\* in the order of their launch.
Symmetry == Permutations(Users) \cup Permutations(Savers)

=============================================================================

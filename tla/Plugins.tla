------------------------------ MODULE Plugins ------------------------------
(***************************************************************************)
(* The plugin registry (pkg/plugin/registry.go) and the loader that fills  *)
(* it from a configuration (pkg/plugin/config.go), with Load and CloseAll  *)
(* called by several goroutines.                                           *)
(*                                                                         *)
(* A key is a category and a name: the four maps are under one lock, and a *)
(* configuration lists its plugins category by category.  The instance     *)
(* that a loader makes for its i-th entry is <<loader, i>>.  What a        *)
(* factory, Init or Close does is external: each may fail.                 *)
(***************************************************************************)
EXTENDS Integers, Sequences, FiniteSets

CONSTANTS
    Loaders, Closers,
    Keys,
    Known,       \* keys with a factory
    MaxEntries,  \* bound on the length of a configuration
    NoPlugin

Instances == Loaders \X (1 .. MaxEntries)

PluginsAssumption ==
    Known \subseteq Keys /\ MaxEntries \in Nat /\ NoPlugin \notin Instances

Configs == UNION {[1 .. n -> Keys] : n \in 0 .. MaxEntries}

VARIABLES
    cfg,       \* the plugins a loader's configuration declares
    registry,  \* a key's plugin
    at, lpc,   \* the entry a loader is at, and its step there
    inited,    \* plugins whose Init has succeeded
    readers,   \* a CloseAll that holds the read lock: the plugins left to close
    done,      \* the closers that have returned
    closed     \* plugins whose Close was called

vars == <<cfg, registry, at, lpc, inited, readers, done, closed>>
close == <<readers, done, closed>>

Registered == {registry[k] : k \in Keys} \ {NoPlugin}
Key(l) == cfg[l][at[l]]
Closing == {c \in Closers : readers[c] # {}}

TypeOK ==
    /\ registry \in [Keys -> Instances \cup {NoPlugin}]
    /\ at \in [Loaders -> 1 .. MaxEntries + 1]
    /\ lpc \in [Loaders -> {"next", "init", "register", "ok", "failed"}]
    /\ inited \subseteq Instances /\ closed \subseteq Instances
    /\ readers \in [Closers -> SUBSET Instances] /\ done \subseteq Closers

Init ==
    /\ cfg \in [Loaders -> Configs]
    /\ registry = [k \in Keys |-> NoPlugin]
    /\ at = [l \in Loaders |-> 1] /\ lpc = [l \in Loaders |-> "next"]
    /\ inited = {}
    /\ readers = [c \in Closers |-> {}] /\ done = {} /\ closed = {}

\* The factory is looked up and called.
LoadCreate(l) ==
    /\ lpc[l] = "next"
    /\ \/ /\ at[l] > Len(cfg[l])
          /\ lpc' = [lpc EXCEPT ![l] = "ok"]
       \/ /\ at[l] <= Len(cfg[l]) /\ Key(l) \in Known
          /\ \E r \in {"init", "failed"} : lpc' = [lpc EXCEPT ![l] = r]
       \/ /\ at[l] <= Len(cfg[l]) /\ Key(l) \notin Known
          /\ lpc' = [lpc EXCEPT ![l] = "failed"]
    /\ UNCHANGED <<cfg, registry, at, inited, close>>

LoadInit(l) ==
    /\ lpc[l] = "init"
    /\ \/ /\ lpc' = [lpc EXCEPT ![l] = "register"]
          /\ inited' = inited \cup {<<l, at[l]>>}
       \/ lpc' = [lpc EXCEPT ![l] = "failed"] /\ UNCHANGED inited
    /\ UNCHANGED <<cfg, registry, at, close>>

\* Fault: the plugin that has the name is replaced.
RegisterReplace(l) ==
    /\ registry' = [registry EXCEPT ![Key(l)] = <<l, at[l]>>]
    /\ at' = [at EXCEPT ![l] = @ + 1] /\ lpc' = [lpc EXCEPT ![l] = "next"]

\* RegisterStorage and its siblings.
Register(l) ==
    \/ /\ registry[Key(l)] = NoPlugin
       /\ registry' = [registry EXCEPT ![Key(l)] = <<l, at[l]>>]
       /\ at' = [at EXCEPT ![l] = @ + 1] /\ lpc' = [lpc EXCEPT ![l] = "next"]
    \/ /\ registry[Key(l)] # NoPlugin
       /\ lpc' = [lpc EXCEPT ![l] = "failed"] /\ UNCHANGED <<registry, at>>

\* Lock waits for the readers.
LoadRegister(l) ==
    /\ lpc[l] = "register" /\ Closing = {}
    /\ Register(l)
    /\ UNCHANGED <<cfg, inited, close>>

\* CloseAll takes the read lock and closes the plugins one by one, whatever
\* Close returns.
CloseAll(c) ==
    /\ c \notin done /\ readers[c] = {}
    /\ readers' = [readers EXCEPT ![c] = Registered]
    /\ done' = IF Registered = {} THEN done \cup {c} ELSE done
    /\ UNCHANGED <<cfg, registry, at, lpc, inited, closed>>

CloseOne(c, p) ==
    /\ p \in readers[c]
    /\ readers' = [readers EXCEPT ![c] = @ \ {p}]
    /\ closed' = closed \cup {p}
    /\ done' = IF readers[c] = {p} THEN done \cup {c} ELSE done
    /\ UNCHANGED <<cfg, registry, at, lpc, inited>>

Next ==
    \/ \E l \in Loaders : LoadCreate(l) \/ LoadInit(l) \/ LoadRegister(l)
    \/ \E c \in Closers : CloseAll(c) \/ \E p \in Instances : CloseOne(c, p)

Spec == Init /\ [][Next]_vars

-----------------------------------------------------------------------------
(* Properties *)

\* Every plugin a loader has left behind is in the registry, so that CloseAll
\* reaches it, also where the Load failed at a later entry; the one exception
\* is a plugin whose name another one has, which is initialized and then
\* dropped without Close.
Reachable ==
    \A l \in Loaders, i \in 1 .. MaxEntries :
        /\ i < at[l] => registry[cfg[l][i]] = <<l, i>>
        /\ <<l, i>> \in inited /\ i >= at[l] =>
              i = at[l] /\ (lpc[l] = "register" \/ registry[cfg[l][i]] # NoPlugin)

\* A CloseAll that returns has closed every plugin registered at that time,
\* and none that was not initialized, and a name's first plugin keeps it, while
\* several goroutines close and load.
PluginsOK ==
    /\ [](TypeOK /\ Reachable /\ Registered \subseteq inited /\ closed \subseteq inited)
    /\ [][done' # done => Registered \subseteq closed']_vars
    /\ [][\A k \in Keys : registry[k] # NoPlugin => registry'[k] = registry[k]]_vars

=============================================================================

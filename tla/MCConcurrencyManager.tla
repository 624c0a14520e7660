------------------------ MODULE MCConcurrencyManager ------------------------
(***************************************************************************)
(* The locks a worker of the engine waits for, for TLC: the permits of the *)
(* concurrency manager (ConcurrencyManager) and the lock of the callback   *)
(* lists (Callbacks).  A worker waits for one of them at a time and they   *)
(* share no state: part says which of them a behaviour is about, and the   *)
(* other one stays in its initial state.                                   *)
(***************************************************************************)
EXTENDS ConcurrencyManager

CONSTANTS Firers, Registrars, Nobody

VARIABLES part, readers, pending, cbs, gpc, fire, due

K == INSTANCE Callbacks

ASSUME K!CallbacksAssumption

callbacks == <<readers, pending, cbs, gpc, fire, due>>

LocksInit == part \in {"permits", "callbacks"} /\ Init /\ K!Init

LocksNext ==
    \/ part = "permits" /\ Next /\ UNCHANGED <<part, callbacks>>
    \/ part = "callbacks" /\ K!Next /\ UNCHANGED <<part, vars>>

LocksSpec ==
    /\ LocksInit /\ [][LocksNext]_<<part, vars, callbacks>>
    /\ Fairness /\ K!Fairness

\* Every callback that was registered before a fire is run by it; and although
\* the lock is held while callbacks run, a registration returns while workers
\* keep firing, and no fire goes on for ever.
CallbacksOK == [](K!TypeOK /\ K!FiresAll) /\ K!CallbacksProgress

=============================================================================

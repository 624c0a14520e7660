------------------------- MODULE ConcurrencyLimits -------------------------
(***************************************************************************)
(* What ConcurrencyManager promises (pkg/crawler/concurrency.go): requests *)
(* enter and leave, never more than GlobalMax at a time and never more     *)
(* than DomainMax for one domain.  Entering is one step that finds room    *)
(* under both limits.                                                      *)
(***************************************************************************)
EXTENDS Integers, FiniteSets

CONSTANTS Procs, Domains, NoDomain, GlobalMax, DomainMax, PerDomain

VARIABLE held    \* the domain a process is inside of

Inside == {p \in Procs : held[p] # NoDomain}
InsideOf(d) == {p \in Procs : held[p] = d}

LimitsInit == held = [p \in Procs |-> NoDomain]

Enter(p, d) ==
    /\ held[p] = NoDomain
    /\ Cardinality(Inside) < GlobalMax
    /\ PerDomain => Cardinality(InsideOf(d)) < DomainMax
    /\ held' = [held EXCEPT ![p] = d]

Leave(p) ==
    /\ held[p] # NoDomain
    /\ held' = [held EXCEPT ![p] = NoDomain]

LimitsNext == \E p \in Procs : Leave(p) \/ \E d \in Domains : Enter(p, d)

LimitsSpec == LimitsInit /\ [][LimitsNext]_held

=============================================================================

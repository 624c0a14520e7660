------------------------- MODULE ConcurrencyManager -------------------------
(***************************************************************************)
(* ConcurrencyManager (pkg/crawler/concurrency.go) step by step: a global  *)
(* weighted semaphore, one semaphore per domain created on first use under *)
(* double-checked locking, and Acquire / Release as goroutines run them.   *)
(*                                                                         *)
(* A semaphore is its count of permits taken; semCur is the sequence of    *)
(* all domain semaphores ever made, and domainSems maps a domain to its    *)
(* index there (0: no entry).  semaphore.Weighted is external: Acquire     *)
(* takes a free permit, or fails when its context is done.                 *)
(***************************************************************************)
EXTENDS Integers, Sequences, FiniteSets

CONSTANTS
    Procs,        \* goroutines that call Acquire and Release
    Domains, NoDomain,
    GlobalMax, DomainMax,
    PerDomain     \* ~DisablePerDomainLimits

ASSUME ManagerAssumption ==
    /\ IsFiniteSet(Procs)
    /\ NoDomain \notin Domains
    /\ GlobalMax \in Nat \ {0} /\ DomainMax \in Nat \ {0}
    /\ PerDomain \in BOOLEAN

VARIABLES
    globalCur,    \* permits of globalSem that are taken
    domainSems,   \* the map, guarded by cm.mu
    semCur,       \* permits taken of each domain semaphore
    pc, dom,      \* where a goroutine is, and for which domain
    ref,          \* the domain semaphore getOrCreateDomainSem gave it
    cancelled     \* the context of the Acquire calls is done

vars == <<globalCur, domainSems, semCur, pc, dom, ref, cancelled>>

Pc == {"out", "global", "lookup", "create", "domain", "in", "relGlobal"}

TypeOK ==
    /\ globalCur \in Nat
    /\ semCur \in Seq(Nat)
    /\ domainSems \in [Domains -> 0..Len(semCur)]
    /\ pc \in [Procs -> Pc]
    /\ dom \in [Procs -> Domains \cup {NoDomain}]
    /\ ref \in [Procs -> 0..Len(semCur)]
    /\ cancelled \in BOOLEAN

\* NewConcurrencyManager.
Init ==
    /\ globalCur = 0
    /\ domainSems = [d \in Domains |-> 0]
    /\ semCur = <<>>
    /\ pc = [p \in Procs |-> "out"]
    /\ dom = [p \in Procs |-> NoDomain]
    /\ ref = [p \in Procs |-> 0]
    /\ cancelled = FALSE

Goto(p, l) == pc' = [pc EXCEPT ![p] = l]

Cancel ==
    /\ ~cancelled
    /\ cancelled' = TRUE
    /\ UNCHANGED <<globalCur, domainSems, semCur, pc, dom, ref>>

AcquireCall(p, d) ==
    /\ pc[p] = "out"
    /\ dom' = [dom EXCEPT ![p] = d]
    /\ Goto(p, "global")
    /\ UNCHANGED <<globalCur, domainSems, semCur, ref, cancelled>>

\* The semaphore looks at the context before it takes the permit, and so a
\* context cancelled in between may still let the call succeed.
GlobalAcquire(p) ==
    /\ pc[p] = "global"
    /\ globalCur < GlobalMax
    /\ globalCur' = globalCur + 1
    /\ Goto(p, IF PerDomain THEN "lookup" ELSE "in")
    /\ UNCHANGED <<domainSems, semCur, dom, ref, cancelled>>

GlobalFail(p) ==
    /\ pc[p] = "global"
    /\ cancelled
    /\ Goto(p, "out")
    /\ dom' = [dom EXCEPT ![p] = NoDomain]
    /\ UNCHANGED <<globalCur, domainSems, semCur, ref, cancelled>>

\* getOrCreateDomainSem: the read under RLock ...
Lookup(p) ==
    /\ pc[p] = "lookup"
    /\ ref' = [ref EXCEPT ![p] = domainSems[dom[p]]]
    /\ Goto(p, IF domainSems[dom[p]] # 0 THEN "domain" ELSE "create")
    /\ UNCHANGED <<globalCur, domainSems, semCur, dom, cancelled>>

\* Fault: the second check under the write lock is missing.
CreateUnchecked(p) ==
    /\ pc[p] = "create"
    /\ semCur' = Append(semCur, 0)
    /\ domainSems' = [domainSems EXCEPT ![dom[p]] = Len(semCur) + 1]
    /\ ref' = [ref EXCEPT ![p] = Len(semCur) + 1]
    /\ Goto(p, "domain")
    /\ UNCHANGED <<globalCur, dom, cancelled>>

\* ... and the double check and creation under Lock.
Create(p) ==
    /\ pc[p] = "create"
    /\ \/ /\ domainSems[dom[p]] # 0
          /\ ref' = [ref EXCEPT ![p] = domainSems[dom[p]]]
          /\ UNCHANGED <<semCur, domainSems>>
       \/ /\ domainSems[dom[p]] = 0
          /\ semCur' = Append(semCur, 0)
          /\ domainSems' = [domainSems EXCEPT ![dom[p]] = Len(semCur) + 1]
          /\ ref' = [ref EXCEPT ![p] = Len(semCur) + 1]
    /\ Goto(p, "domain")
    /\ UNCHANGED <<globalCur, dom, cancelled>>

DomainAcquire(p) ==
    /\ pc[p] = "domain"
    /\ semCur[ref[p]] < DomainMax
    /\ semCur' = [semCur EXCEPT ![ref[p]] = @ + 1]
    /\ ref' = [ref EXCEPT ![p] = 0]
    /\ Goto(p, "in")
    /\ UNCHANGED <<globalCur, domainSems, dom, cancelled>>

\* Fault: the failed domain Acquire keeps the global permit.
DomainFailLeak(p) ==
    /\ pc[p] = "domain"
    /\ cancelled
    /\ dom' = [dom EXCEPT ![p] = NoDomain]
    /\ ref' = [ref EXCEPT ![p] = 0]
    /\ Goto(p, "out")
    /\ UNCHANGED <<globalCur, domainSems, semCur, cancelled>>

DomainFail(p) ==
    /\ pc[p] = "domain"
    /\ cancelled
    /\ globalCur' = globalCur - 1
    /\ dom' = [dom EXCEPT ![p] = NoDomain]
    /\ ref' = [ref EXCEPT ![p] = 0]
    /\ Goto(p, "out")
    /\ UNCHANGED <<domainSems, semCur, cancelled>>

\* Fault: Release forgets the domain semaphore.
ReleaseDomainSkip(p) ==
    /\ pc[p] = "in"
    /\ Goto(p, "relGlobal")
    /\ UNCHANGED <<globalCur, domainSems, semCur, dom, ref, cancelled>>

\* Release: the domain permit, through the map, then the global one.
ReleaseDomain(p) ==
    /\ pc[p] = "in"
    /\ semCur' = IF PerDomain /\ domainSems[dom[p]] # 0
                 THEN [semCur EXCEPT ![domainSems[dom[p]]] = @ - 1]
                 ELSE semCur
    /\ Goto(p, "relGlobal")
    /\ UNCHANGED <<globalCur, domainSems, dom, ref, cancelled>>

ReleaseGlobal(p) ==
    /\ pc[p] = "relGlobal"
    /\ globalCur' = globalCur - 1
    /\ dom' = [dom EXCEPT ![p] = NoDomain]
    /\ Goto(p, "out")
    /\ UNCHANGED <<domainSems, semCur, ref, cancelled>>

Finish(p) == GlobalFail(p) \/ Lookup(p) \/ Create(p) \/ DomainFail(p)
             \/ ReleaseDomain(p) \/ ReleaseGlobal(p)

Next ==
    \/ Cancel
    \/ \E p \in Procs : \/ \E d \in Domains : AcquireCall(p, d)
                        \/ GlobalAcquire(p) \/ DomainAcquire(p) \/ Finish(p)

Spec == Init /\ [][Next]_vars

(* Holders release: the fetch between Acquire and Release ends.  Strong    *)
(* fairness on taking a permit is the FIFO queue of semaphore.Weighted: a  *)
(* waiter that could be served again and again is served.                  *)
Fairness ==
    \A p \in Procs : /\ WF_vars(Finish(p))
                     /\ SF_vars(GlobalAcquire(p)) /\ SF_vars(DomainAcquire(p))

FairSpec == Spec /\ Fairness

-----------------------------------------------------------------------------
(* Properties *)

PastGlobal == {p \in Procs : pc[p] \in {"lookup", "create", "domain", "in",
                                        "relGlobal"}}
InDomain(d) == {p \in Procs : pc[p] = "in" /\ dom[p] = d}

\* Every permit that is taken has exactly one goroutine that will give it
\* back, and a domain has one semaphore, however many goroutines race to
\* create it: the doc comments' "blocks until both the global and per-domain
\* semaphores are acquired" and "exactly once for each successful Acquire".
PermitsAccounted ==
    /\ globalCur = Cardinality(PastGlobal)
    /\ globalCur <= GlobalMax
    /\ \A d \in Domains :
          /\ domainSems[d] # 0 =>
                semCur[domainSems[d]] = IF PerDomain
                                        THEN Cardinality(InDomain(d)) ELSE 0
          /\ domainSems[d] = 0 /\ PerDomain => InDomain(d) = {}
    /\ \A p \in Procs : pc[p] = "domain" => ref[p] = domainSems[dom[p]]

\* The limits the manager exists for, on the goroutines between a successful
\* Acquire and their Release.
LimitsHold ==
    /\ Cardinality({p \in Procs : pc[p] = "in"}) <= GlobalMax
    /\ PerDomain => \A d \in Domains : Cardinality(InDomain(d)) <= DomainMax

\* Refinement: a goroutine is inside from its last acquire to its first
\* release, and each of these is one step of the abstract limits.
Limits == INSTANCE ConcurrencyLimits WITH
    held <- [p \in Procs |-> IF pc[p] = "in" THEN dom[p] ELSE NoDomain]

\* Acquire and Release implement the atomic enter and leave.
ImplementsLimits == Limits!LimitsSpec

\* An Acquire call always comes back, although it holds a global permit while
\* it waits for the domain's: no cycle of waiting goroutines exists.
AcquireReturns ==
    \A p \in Procs : pc[p] = "global" ~> pc[p] \in {"in", "out"}

=============================================================================

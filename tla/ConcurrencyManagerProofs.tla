---------------------- MODULE ConcurrencyManagerProofs ----------------------
(***************************************************************************)
(* Proofs about ConcurrencyManager: for any number of goroutines, domains  *)
(* and permits, the permits are accounted for, the limits hold, and the    *)
(* manager implements ConcurrencyLimits.  And about the lock beside it, of *)
(* the engine's callback lists (Callbacks): a fire leaves no callback out. *)
(***************************************************************************)
EXTENDS MCConcurrencyManager, FiniteSetTheorems, TLAPS

-----------------------------------------------------------------------------
(* The inductive invariant *)

\* What the steps of getOrCreateDomainSem keep true between its two locks:
\* a semaphore reference is held only in "domain", two domains never share a
\* semaphore, and no semaphore is over its capacity.
Shape ==
    /\ \A p \in Procs : /\ pc[p] # "out" => dom[p] \in Domains
                        /\ pc[p] = "domain" => ref[p] # 0
                        /\ pc[p] \in {"lookup", "create", "domain"} => PerDomain
    /\ \A d, e \in Domains :
          domainSems[d] # 0 /\ domainSems[d] = domainSems[e] => d = e
    /\ \A i \in 1..Len(semCur) : semCur[i] <= DomainMax

IndInv == TypeOK /\ PermitsAccounted /\ Shape

Inside == {"lookup", "create", "domain", "in", "relGlobal"}

-----------------------------------------------------------------------------
(* How one goroutine's move changes the sets the invariant counts *)

\* The sets of goroutines are finite, so their cardinalities are naturals.
LEMMA FiniteGroups ==
    /\ IsFiniteSet(PastGlobal) /\ Cardinality(PastGlobal) \in Nat
    /\ \A d : IsFiniteSet(InDomain(d)) /\ Cardinality(InDomain(d)) \in Nat
<1>1. IsFiniteSet(PastGlobal)
  BY ManagerAssumption, FS_Subset DEF PastGlobal
<1>2. ASSUME NEW d PROVE IsFiniteSet(InDomain(d))
  BY ManagerAssumption, FS_Subset DEF InDomain
<1>3. QED
  BY <1>1, <1>2, FS_CardinalityType

\* A goroutine that passes the global semaphore enters PastGlobal, one that
\* leaves it exits, any other move keeps the set.
LEMMA PastGlobalMoves ==
    ASSUME pc \in [Procs -> Pc], NEW p \in Procs, NEW l \in Pc, Goto(p, l)
    PROVE  /\ pc[p] \notin Inside /\ l \in Inside =>
                Cardinality(PastGlobal') = Cardinality(PastGlobal) + 1
           /\ pc[p] \in Inside /\ l \notin Inside =>
                /\ Cardinality(PastGlobal') = Cardinality(PastGlobal) - 1
                /\ Cardinality(PastGlobal) > 0
           /\ (pc[p] \in Inside <=> l \in Inside) => PastGlobal' = PastGlobal
<1>0. pc' = [pc EXCEPT ![p] = l]
  BY DEF Goto
<1>1. CASE pc[p] \notin Inside /\ l \in Inside
  <2>1. PastGlobal' = PastGlobal \cup {p} /\ p \notin PastGlobal
    BY <1>0, <1>1 DEF PastGlobal, Inside
  <2>2. QED
    BY <1>1, <2>1, FiniteGroups, FS_AddElement
<1>2. CASE pc[p] \in Inside /\ l \notin Inside
  <2>1. PastGlobal' = PastGlobal \ {p} /\ p \in PastGlobal
    BY <1>0, <1>2 DEF PastGlobal, Inside
  <2>2. Cardinality(PastGlobal') = Cardinality(PastGlobal) - 1
    BY <2>1, FiniteGroups, FS_RemoveElement
  <2>3. Cardinality(PastGlobal) > 0
    BY <2>1, FiniteGroups, FS_EmptySet
  <2>4. QED
    BY <1>2, <2>2, <2>3
<1>3. CASE pc[p] \in Inside <=> l \in Inside
  <2>1. PastGlobal' = PastGlobal
    BY <1>0, <1>3 DEF PastGlobal, Inside
  <2>2. QED
    BY <1>3, <2>1
<1>4. QED
  BY <1>1, <1>2, <1>3

\* The same for the goroutines inside a domain, whose domain does not change
\* while they are.
LEMMA InDomainMoves ==
    ASSUME pc \in [Procs -> Pc], NEW p \in Procs, NEW l \in Pc, Goto(p, l),
           dom \in [Procs -> Domains \cup {NoDomain}],
           \A q \in Procs \ {p} : dom'[q] = dom[q],
           pc[p] = "in" \/ l = "in" => dom'[p] = dom[p],
           NEW d \in Domains
    PROVE  /\ pc[p] # "in" /\ l = "in" /\ d = dom[p] =>
                /\ Cardinality(InDomain(d)') = Cardinality(InDomain(d)) + 1
                /\ p \in InDomain(d)'
           /\ pc[p] = "in" /\ l # "in" /\ d = dom[p] =>
                /\ Cardinality(InDomain(d)') = Cardinality(InDomain(d)) - 1
                /\ Cardinality(InDomain(d)) > 0
           /\ d # dom[p] \/ (pc[p] # "in" /\ l # "in") =>
                InDomain(d)' = InDomain(d)
<1>0. pc' = [pc EXCEPT ![p] = l]
  BY DEF Goto
<1>1. CASE pc[p] # "in" /\ l = "in" /\ d = dom[p]
  <2>1. InDomain(d)' = InDomain(d) \cup {p} /\ p \notin InDomain(d)
    BY <1>0, <1>1 DEF InDomain
  <2>2. QED
    BY <1>1, <2>1, FiniteGroups, FS_AddElement
<1>2. CASE pc[p] = "in" /\ l # "in" /\ d = dom[p]
  <2>1. InDomain(d)' = InDomain(d) \ {p} /\ p \in InDomain(d)
    BY <1>0, <1>2 DEF InDomain
  <2>2. Cardinality(InDomain(d)') = Cardinality(InDomain(d)) - 1
    BY <2>1, FiniteGroups, FS_RemoveElement
  <2>3. Cardinality(InDomain(d)) > 0
    BY <2>1, FiniteGroups, FS_EmptySet
  <2>4. QED
    BY <1>2, <2>2, <2>3
<1>3. CASE d # dom[p] \/ (pc[p] # "in" /\ l # "in")
  <2>1. InDomain(d)' = InDomain(d)
    BY <1>0, <1>3 DEF InDomain
  <2>2. QED
    BY <1>3, <2>1
<1>4. CASE pc[p] = "in" /\ l = "in" /\ d = dom[p]
  BY <1>4
<1>5. QED
  BY <1>1, <1>2, <1>3, <1>4

-----------------------------------------------------------------------------
(* The invariant is inductive *)

\* The initial state satisfies the inductive invariant.
LEMMA IndInvInit == Init => IndInv
<1> SUFFICES ASSUME Init PROVE IndInv
  OBVIOUS
<1>0. semCur \in Seq(Nat) /\ Len(semCur) = 0
  BY DEF Init
<1>1. TypeOK
  <2>0. cancelled \in BOOLEAN
    BY Zenon DEF Init
  <2>1. 0 \in 0..Len(semCur) /\ globalCur \in Nat
    BY <1>0 DEF Init
  <2>2. /\ domainSems \in [Domains -> 0..Len(semCur)]
        /\ ref \in [Procs -> 0..Len(semCur)]
    BY <2>1 DEF Init
  <2>3. pc \in [Procs -> Pc] /\ dom \in [Procs -> Domains \cup {NoDomain}]
    BY DEF Init, Pc
  <2>4. QED
    BY <1>0, <2>0, <2>1, <2>2, <2>3 DEF TypeOK
<1>2. PastGlobal = {} /\ \A d \in Domains : InDomain(d) = {}
  BY DEF Init, PastGlobal, InDomain
<1>3. PermitsAccounted
  BY <1>2, ManagerAssumption, FS_EmptySet DEF Init, PermitsAccounted
<1>4. Shape
  BY DEF Init, Shape
<1>5. QED
  BY <1>1, <1>3, <1>4 DEF IndInv

\* Calls, the failed global Acquire and the lookup under the read lock take
\* and give no permit.
LEMMA QuietStep ==
    ASSUME IndInv, NEW p \in Procs,
           (\E d \in Domains : AcquireCall(p, d)) \/ GlobalFail(p) \/ Lookup(p)
    PROVE  IndInv'
<1> USE DEF IndInv
<1>0. \E l \in Pc : Goto(p, l) /\ l # "in" /\ (pc[p] \in Inside <=> l \in Inside)
  BY DEF AcquireCall, GlobalFail, Lookup, Pc, Inside
<1>1. pc[p] # "in" /\ \A q \in Procs \ {p} : dom'[q] = dom[q]
  BY DEF AcquireCall, GlobalFail, Lookup, TypeOK
<1>2. PastGlobal' = PastGlobal
  BY <1>0, PastGlobalMoves DEF TypeOK
<1>3. \A d \in Domains : InDomain(d)' = InDomain(d)
  BY <1>0, <1>1, InDomainMoves DEF TypeOK
<1>4. UNCHANGED <<globalCur, domainSems, semCur>>
  BY DEF AcquireCall, GlobalFail, Lookup
<1>5. TypeOK'
  BY DEF AcquireCall, GlobalFail, Lookup, TypeOK, Goto, Pc, Shape
<1>6. PermitsAccounted'
  <2>1. \A q \in Procs : pc'[q] = "domain" => ref'[q] = domainSems'[dom'[q]]
    BY DEF AcquireCall, GlobalFail, Lookup, TypeOK, Goto, Pc, PermitsAccounted
  <2>2. QED
    BY <1>2, <1>3, <1>4, <2>1 DEF PermitsAccounted
<1>7. Shape'
  BY <1>4 DEF AcquireCall, GlobalFail, Lookup, TypeOK, Goto, Pc, Shape
<1>8. QED
  BY <1>5, <1>6, <1>7

\* Taking the global permit.
LEMMA GlobalAcquireStep ==
    ASSUME IndInv, NEW p \in Procs, GlobalAcquire(p)
    PROVE  IndInv'
<1> USE DEF IndInv
<1> DEFINE l == IF PerDomain THEN "lookup" ELSE "in"
<1>0. Goto(p, l) /\ l \in Pc /\ l \in Inside /\ pc[p] \notin Inside
  BY DEF GlobalAcquire, Pc, Inside
<1>1. Cardinality(PastGlobal') = Cardinality(PastGlobal) + 1
  BY <1>0, PastGlobalMoves DEF TypeOK
<1>2. PerDomain => \A d \in Domains : InDomain(d)' = InDomain(d)
  BY <1>0, InDomainMoves DEF TypeOK, GlobalAcquire
<1>3. TypeOK'
  BY DEF GlobalAcquire, TypeOK, Goto, Pc
<1>4. PermitsAccounted'
  BY <1>1, <1>2, ManagerAssumption
  DEF GlobalAcquire, TypeOK, Goto, PermitsAccounted
<1>5. Shape'
  BY DEF GlobalAcquire, TypeOK, Goto, Shape
<1>6. QED
  BY <1>3, <1>4, <1>5

\* The double check under the write lock: a new semaphore is used by nobody.
LEMMA CreateStep ==
    ASSUME IndInv, NEW p \in Procs, Create(p)
    PROVE  IndInv'
<1> USE DEF IndInv
<1>0. /\ Goto(p, "domain") /\ "domain" \in Pc /\ pc[p] \in Inside
      /\ "domain" \in Inside /\ pc[p] # "in" /\ dom[p] \in Domains
  BY DEF Create, Pc, Inside, Shape
<1>1. PastGlobal' = PastGlobal
  BY <1>0, PastGlobalMoves DEF TypeOK
<1>2. \A d \in Domains : InDomain(d)' = InDomain(d)
  <2>1. dom' = dom
    BY DEF Create
  <2>2. QED
    BY <1>0, <2>1, InDomainMoves DEF TypeOK
<1>3. CASE domainSems[dom[p]] # 0
  <2>1. TypeOK'
    BY <1>0, <1>3 DEF Create, TypeOK, Goto, Pc
  <2>2. PermitsAccounted'
    BY <1>0, <1>1, <1>2, <1>3 DEF Create, TypeOK, Goto, PermitsAccounted
  <2>3. Shape'
    BY <1>0, <1>3 DEF Create, TypeOK, Goto, Shape
  <2>4. QED
    BY <2>1, <2>2, <2>3
<1>4. CASE domainSems[dom[p]] = 0
  <2> DEFINE k == Len(semCur) + 1
  <2>1. /\ semCur' = Append(semCur, 0) /\ ref' = [ref EXCEPT ![p] = k]
        /\ domainSems' = [domainSems EXCEPT ![dom[p]] = k]
        /\ UNCHANGED <<globalCur, dom, cancelled>>
    BY <1>4 DEF Create
  <2>2. /\ k \in Nat /\ Len(semCur') = k /\ semCur' \in Seq(Nat)
        /\ semCur'[k] = 0 /\ \A i \in 1..Len(semCur) : semCur'[i] = semCur[i]
    BY <2>1 DEF TypeOK
  <2>3. /\ domainSems'[dom[p]] = k
        /\ \A d \in Domains \ {dom[p]} : domainSems'[d] = domainSems[d]
    BY <1>0, <2>1 DEF TypeOK
  <2>4. TypeOK'
    BY <1>0, <2>1, <2>2 DEF TypeOK, Goto, Pc
  <2>5. PermitsAccounted'
    <3>1. PerDomain /\ InDomain(dom[p]) = {}
      BY <1>0, <1>4 DEF Shape, PermitsAccounted, Create
    <3>2. ASSUME NEW d \in Domains
          PROVE  /\ domainSems'[d] # 0 =>
                      semCur'[domainSems'[d]] = Cardinality(InDomain(d)')
                 /\ domainSems'[d] = 0 => InDomain(d)' = {}
      <4>1. CASE d = dom[p]
        BY <4>1, <1>2, <2>2, <2>3, <3>1, FS_EmptySet
      <4>2. CASE d # dom[p]
        <5>1. domainSems'[d] = domainSems[d] /\ domainSems[d] \in 0..Len(semCur)
          BY <4>2, <2>3 DEF TypeOK
        <5>2. domainSems[d] # 0 => semCur'[domainSems[d]] = semCur[domainSems[d]]
          BY <5>1, <2>2
        <5>3. QED
          BY <1>2, <3>1, <5>1, <5>2 DEF PermitsAccounted
      <4>3. QED
        BY <4>1, <4>2
    <3>3. ASSUME NEW q \in Procs, pc'[q] = "domain"
          PROVE  ref'[q] = domainSems'[dom'[q]]
      <4>1. CASE q = p
        BY <4>1, <2>1, <2>3 DEF TypeOK
      <4>2. CASE q # p
        <5>1. pc[q] = "domain" /\ dom'[q] = dom[q] /\ ref'[q] = ref[q]
          BY <4>2, <3>3, <1>0, <2>1 DEF Goto, TypeOK
        <5>2. ref[q] = domainSems[dom[q]] /\ ref[q] # 0 /\ dom[q] \in Domains
          BY <5>1 DEF PermitsAccounted, Shape
        <5>3. QED
          BY <5>1, <5>2, <1>4, <2>3
      <4>3. QED
        BY <4>1, <4>2
    <3>4. QED
      BY <1>1, <2>1, <3>1, <3>2, <3>3 DEF PermitsAccounted
  <2>6. Shape'
    <3>1. \A q \in Procs :
             /\ pc'[q] # "out" => dom'[q] \in Domains
             /\ pc'[q] = "domain" => ref'[q] # 0
             /\ pc'[q] \in {"lookup", "create", "domain"} => PerDomain
      BY <1>0, <2>1, <2>2 DEF Goto, Shape, TypeOK, Create
    <3>2. \A d, e \in Domains :
             domainSems'[d] # 0 /\ domainSems'[d] = domainSems'[e] => d = e
      BY <2>2, <2>3 DEF Shape, TypeOK
    <3>3. ASSUME NEW i \in 1..Len(semCur') PROVE semCur'[i] <= DomainMax
      <4>1. i = k \/ i \in 1..Len(semCur)
        BY <2>2 DEF TypeOK
      <4>2. QED
        BY <4>1, <2>2, ManagerAssumption DEF Shape
    <3>4. QED
      BY <3>1, <3>2, <3>3 DEF Shape
  <2>7. QED
    BY <2>4, <2>5, <2>6
<1>5. QED
  BY <1>3, <1>4

\* Taking the domain permit: the reference the goroutine looked up is still
\* the domain's only semaphore.
LEMMA DomainAcquireStep ==
    ASSUME IndInv, NEW p \in Procs, DomainAcquire(p)
    PROVE  IndInv'
<1> USE DEF IndInv
<1> DEFINE k == domainSems[dom[p]]
<1>0. /\ Goto(p, "in") /\ "in" \in Pc /\ pc[p] \in Inside /\ "in" \in Inside
      /\ pc[p] = "domain" /\ dom[p] \in Domains /\ PerDomain
      /\ ref[p] = k /\ k \in 1..Len(semCur)
  BY DEF DomainAcquire, Pc, Inside, Shape, PermitsAccounted, TypeOK
<1>1. /\ semCur' = [semCur EXCEPT ![k] = @ + 1] /\ semCur[k] < DomainMax
      /\ ref' = [ref EXCEPT ![p] = 0]
      /\ UNCHANGED <<globalCur, domainSems, dom, cancelled>>
  BY <1>0 DEF DomainAcquire
<1>2. /\ semCur' \in Seq(Nat) /\ Len(semCur') = Len(semCur)
      /\ semCur'[k] = semCur[k] + 1
      /\ \A i \in 1..Len(semCur) : i # k => semCur'[i] = semCur[i]
  BY <1>0, <1>1 DEF TypeOK
<1>3. PastGlobal' = PastGlobal
  BY <1>0, PastGlobalMoves DEF TypeOK
<1>4. /\ \A d \in Domains : d = dom[p] =>
            Cardinality(InDomain(d)') = Cardinality(InDomain(d)) + 1
      /\ \A d \in Domains \ {dom[p]} : InDomain(d)' = InDomain(d)
  BY <1>0, <1>1, InDomainMoves DEF TypeOK
<1>5. TypeOK'
  BY <1>0, <1>1, <1>2 DEF TypeOK, Goto, Pc
<1>6. PermitsAccounted'
  <2>1. ASSUME NEW d \in Domains
        PROVE  /\ domainSems[d] # 0 =>
                    semCur'[domainSems[d]] = Cardinality(InDomain(d)')
               /\ domainSems[d] = 0 => InDomain(d)' = {}
    <3>1. CASE d = dom[p]
      BY <3>1, <1>0, <1>2, <1>4 DEF PermitsAccounted
    <3>2. CASE d # dom[p]
      <4>1. domainSems[d] # 0 => domainSems[d] # k /\ domainSems[d] \in 1..Len(semCur)
        BY <3>2, <1>0 DEF Shape, TypeOK
      <4>2. QED
        BY <3>2, <4>1, <1>0, <1>2, <1>4 DEF PermitsAccounted
    <3>3. QED
      BY <3>1, <3>2
  <2>2. \A q \in Procs : pc'[q] = "domain" => ref'[q] = domainSems'[dom'[q]]
    BY <1>0, <1>1 DEF PermitsAccounted, Goto, TypeOK
  <2>3. QED
    BY <1>0, <1>1, <1>3, <2>1, <2>2 DEF PermitsAccounted
<1>7. Shape'
  <2>1. \A i \in 1..Len(semCur') : semCur'[i] <= DomainMax
    BY <1>0, <1>1, <1>2, ManagerAssumption DEF Shape, TypeOK
  <2>2. \A q \in Procs :
           /\ pc'[q] # "out" => dom'[q] \in Domains
           /\ pc'[q] = "domain" => ref'[q] # 0
           /\ pc'[q] \in {"lookup", "create", "domain"} => PerDomain
    BY <1>0, <1>1 DEF Shape, Goto, TypeOK
  <2>3. QED
    BY <1>1, <2>1, <2>2 DEF Shape
<1>8. QED
  BY <1>5, <1>6, <1>7

\* Giving the global permit back, after a release or a failed domain Acquire.
LEMMA GlobalReleaseStep ==
    ASSUME IndInv, NEW p \in Procs, DomainFail(p) \/ ReleaseGlobal(p)
    PROVE  IndInv'
<1> USE DEF IndInv
<1>0. /\ Goto(p, "out") /\ "out" \in Pc /\ "out" \notin Inside
      /\ pc[p] \in Inside /\ pc[p] # "in"
  BY DEF DomainFail, ReleaseGlobal, Pc, Inside
<1>1. /\ globalCur' = globalCur - 1 /\ dom' = [dom EXCEPT ![p] = NoDomain]
      /\ ref' = [ref EXCEPT ![p] = 0] \/ ref' = ref
      /\ UNCHANGED <<domainSems, semCur, cancelled>>
  BY DEF DomainFail, ReleaseGlobal
<1>2. /\ Cardinality(PastGlobal') = Cardinality(PastGlobal) - 1
      /\ Cardinality(PastGlobal) > 0
  BY <1>0, PastGlobalMoves DEF TypeOK
<1>3. \A d \in Domains : InDomain(d)' = InDomain(d)
  BY <1>0, <1>1, InDomainMoves DEF TypeOK
<1>4. TypeOK'
  BY <1>0, <1>1, <1>2 DEF TypeOK, Goto, Pc, PermitsAccounted
<1>5. PermitsAccounted'
  <2>1. \A q \in Procs : pc'[q] = "domain" => ref'[q] = domainSems'[dom'[q]]
    BY <1>0, <1>1 DEF PermitsAccounted, Goto, TypeOK
  <2>2. globalCur' = Cardinality(PastGlobal') /\ globalCur' <= GlobalMax
    BY <1>1, <1>2, ManagerAssumption DEF PermitsAccounted, TypeOK
  <2>3. QED
    BY <1>1, <1>3, <2>1, <2>2 DEF PermitsAccounted
<1>6. Shape'
  <2>1. \A q \in Procs :
           /\ pc'[q] # "out" => dom'[q] \in Domains
           /\ pc'[q] = "domain" => ref'[q] # 0
           /\ pc'[q] \in {"lookup", "create", "domain"} => PerDomain
    BY <1>0, <1>1 DEF Shape, Goto, TypeOK
  <2>2. QED
    BY <1>1, <2>1 DEF Shape
<1>7. QED
  BY <1>4, <1>5, <1>6

\* Giving the domain permit back, through the map.
LEMMA ReleaseDomainStep ==
    ASSUME IndInv, NEW p \in Procs, ReleaseDomain(p)
    PROVE  IndInv'
<1> USE DEF IndInv
<1> DEFINE k == domainSems[dom[p]]
<1>0. /\ Goto(p, "relGlobal") /\ "relGlobal" \in Pc /\ pc[p] \in Inside
      /\ "relGlobal" \in Inside /\ pc[p] = "in" /\ dom[p] \in Domains
      /\ UNCHANGED <<globalCur, domainSems, dom, ref, cancelled>>
  BY DEF ReleaseDomain, Pc, Inside, Shape
<1>1. PastGlobal' = PastGlobal
  BY <1>0, PastGlobalMoves DEF TypeOK
<1>2. /\ \A d \in Domains : d = dom[p] =>
            /\ Cardinality(InDomain(d)') = Cardinality(InDomain(d)) - 1
            /\ Cardinality(InDomain(d)) > 0
      /\ \A d \in Domains \ {dom[p]} : InDomain(d)' = InDomain(d)
  BY <1>0, InDomainMoves DEF TypeOK
<1>3. \A q \in Procs : pc'[q] = "domain" => ref'[q] = domainSems'[dom'[q]]
  BY <1>0 DEF PermitsAccounted, Goto, TypeOK
<1>4. \A q \in Procs :
         /\ pc'[q] # "out" => dom'[q] \in Domains
         /\ pc'[q] = "domain" => ref'[q] # 0
         /\ pc'[q] \in {"lookup", "create", "domain"} => PerDomain
  BY <1>0 DEF Shape, Goto, TypeOK
<1>5. CASE ~PerDomain
  <2>1. UNCHANGED semCur
    BY <1>5 DEF ReleaseDomain
  <2>2. TypeOK'
    BY <1>0, <2>1 DEF TypeOK, Goto, Pc
  <2>3. PermitsAccounted'
    BY <1>0, <1>1, <1>3, <1>5, <2>1 DEF PermitsAccounted
  <2>4. Shape'
    BY <1>0, <1>4, <2>1 DEF Shape
  <2>5. QED
    BY <2>2, <2>3, <2>4
<1>6. CASE PerDomain
  <2>1. k \in 1..Len(semCur) /\ semCur[k] = Cardinality(InDomain(dom[p]))
    <3>1. InDomain(dom[p]) # {}
      BY <1>0 DEF InDomain
    <3>2. k # 0
      BY <1>0, <1>6, <3>1 DEF PermitsAccounted
    <3>3. QED
      BY <1>0, <1>6, <3>2 DEF PermitsAccounted, TypeOK
  <2>2. semCur' = [semCur EXCEPT ![k] = @ - 1]
    BY <1>6, <2>1 DEF ReleaseDomain
  <2>3. /\ semCur' \in Seq(Nat) /\ Len(semCur') = Len(semCur)
        /\ semCur'[k] = semCur[k] - 1
        /\ \A i \in 1..Len(semCur) : i # k => semCur'[i] = semCur[i]
    BY <1>0, <1>2, <2>1, <2>2 DEF TypeOK
  <2>4. TypeOK'
    BY <1>0, <2>3 DEF TypeOK, Goto, Pc
  <2>5. PermitsAccounted'
    <3>1. ASSUME NEW d \in Domains
          PROVE  /\ domainSems[d] # 0 =>
                      semCur'[domainSems[d]] = Cardinality(InDomain(d)')
                 /\ domainSems[d] = 0 => InDomain(d)' = {}
      <4>1. CASE d = dom[p]
        BY <4>1, <1>2, <2>1, <2>3
      <4>2. CASE d # dom[p]
        <5>1. domainSems[d] # 0 =>
                 domainSems[d] # k /\ domainSems[d] \in 1..Len(semCur)
          BY <4>2, <1>0, <2>1 DEF Shape, TypeOK
        <5>2. QED
          BY <4>2, <5>1, <1>2, <1>6, <2>3 DEF PermitsAccounted
      <4>3. QED
        BY <4>1, <4>2
    <3>2. QED
      BY <1>0, <1>1, <1>3, <1>6, <3>1 DEF PermitsAccounted
  <2>6. Shape'
    <3>1. ASSUME NEW i \in 1..Len(semCur') PROVE semCur'[i] <= DomainMax
      <4>1. i \in 1..Len(semCur) /\ semCur[i] \in Nat /\ semCur[i] <= DomainMax
        BY <2>3 DEF Shape, TypeOK
      <4>2. semCur'[i] = semCur[i] \/ semCur'[i] = semCur[i] - 1
        BY <2>3, <4>1
      <4>3. QED
        BY <4>1, <4>2, ManagerAssumption
    <3>2. QED
      BY <1>0, <1>4, <3>1 DEF Shape
  <2>7. QED
    BY <2>4, <2>5, <2>6
<1>7. QED
  BY <1>5, <1>6

\* Every step of the manager, and stuttering, preserves the invariant.
LEMMA IndInvNext == IndInv /\ [Next]_vars => IndInv'
<1> SUFFICES ASSUME IndInv, [Next]_vars PROVE IndInv'
  OBVIOUS
<1>1. CASE Cancel
  <2>1. UNCHANGED <<globalCur, domainSems, semCur, pc, dom, ref>>
    BY <1>1 DEF Cancel
  <2>2. cancelled' \in BOOLEAN
    BY <1>1, Zenon DEF Cancel
  <2>3. QED
    BY <2>1, <2>2 DEF IndInv, TypeOK, PermitsAccounted, Shape, PastGlobal, InDomain
<1>2. ASSUME NEW p \in Procs,
             \/ \E d \in Domains : AcquireCall(p, d)
             \/ GlobalAcquire(p) \/ DomainAcquire(p) \/ Finish(p)
      PROVE  IndInv'
  BY <1>2, QuietStep, GlobalAcquireStep, CreateStep, DomainAcquireStep,
     GlobalReleaseStep, ReleaseDomainStep DEF Finish
<1>3. CASE UNCHANGED vars
  <2>1. UNCHANGED <<globalCur, domainSems, semCur, pc, dom, ref>>
    BY <1>3 DEF vars
  <2>2. cancelled' \in BOOLEAN
    BY <1>3, Zenon DEF vars, IndInv, TypeOK
  <2>3. QED
    BY <2>1, <2>2 DEF IndInv, TypeOK, PermitsAccounted, Shape, PastGlobal, InDomain
<1>4. QED
  BY <1>1, <1>2, <1>3 DEF Next

-----------------------------------------------------------------------------
(* The theorems *)

\* In every reachable state the inductive invariant holds.
THEOREM Invariance == Spec => []IndInv
<1>1. QED
  BY IndInvInit, IndInvNext, PTL DEF Spec

\* The state of the manager is well typed: in particular the counts of
\* permits never become negative, which would make semaphore.Release panic.
THEOREM TypeCorrect == Spec => []TypeOK
<1>1. IndInv => TypeOK
  BY DEF IndInv
<1>2. QED
  BY <1>1, Invariance, PTL

\* Every permit taken has one goroutine that will give it back, on the error
\* paths of Acquire too, and racing goroutines create one semaphore a domain.
THEOREM Accounting == Spec => []PermitsAccounted
<1>1. IndInv => PermitsAccounted
  BY DEF IndInv
<1>2. QED
  BY <1>1, Invariance, PTL

\* A domain never has more holders than its semaphore has permits.
LEMMA DomainLimit ==
    ASSUME IndInv, PerDomain, NEW d \in Domains
    PROVE  Cardinality(InDomain(d)) <= DomainMax
<1>1. CASE domainSems[d] = 0
  BY <1>1, FS_EmptySet, ManagerAssumption DEF IndInv, PermitsAccounted
<1>2. CASE domainSems[d] # 0
  <2>1. domainSems[d] \in 1..Len(semCur)
    BY <1>2 DEF IndInv, TypeOK
  <2>2. QED
    BY <1>2, <2>1 DEF IndInv, PermitsAccounted, Shape
<1>3. QED
  BY <1>1, <1>2

\* The global and the per-domain limit hold between Acquire and Release, for
\* any number of goroutines and domains.
THEOREM LimitsCorrect == Spec => []LimitsHold
<1>1. IndInv => LimitsHold
  <2> SUFFICES ASSUME IndInv PROVE LimitsHold
    OBVIOUS
  <2>1. {p \in Procs : pc[p] = "in"} \in SUBSET PastGlobal
    BY DEF PastGlobal
  <2>2. Cardinality({p \in Procs : pc[p] = "in"}) <= Cardinality(PastGlobal)
    BY <2>1, FiniteGroups, FS_Subset
  <2>3. Cardinality({p \in Procs : pc[p] = "in"}) \in Nat
    BY <2>1, FiniteGroups, FS_Subset, FS_CardinalityType
  <2>4. Cardinality({p \in Procs : pc[p] = "in"}) <= GlobalMax
    BY <2>2, <2>3, FiniteGroups, ManagerAssumption DEF IndInv, PermitsAccounted
  <2>5. QED
    BY <2>4, DomainLimit DEF LimitsHold
<1>2. QED
  BY <1>1, Invariance, PTL

-----------------------------------------------------------------------------
(* Refinement of ConcurrencyLimits *)

HeldBar == [p \in Procs |-> IF pc[p] = "in" THEN dom[p] ELSE NoDomain]

\* The goroutines inside, seen through the refinement mapping.
LEMMA InsideBar ==
    ASSUME IndInv
    PROVE  /\ Limits!Inside = {p \in Procs : pc[p] = "in"}
           /\ \A d \in Domains : Limits!InsideOf(d) = InDomain(d)
  BY ManagerAssumption
  DEF IndInv, TypeOK, Shape, Pc, Limits!Inside, Limits!InsideOf, InDomain

\* A goroutine that takes its last permit enters, finding room under both
\* limits.
LEMMA EnterStep ==
    ASSUME IndInv, NEW p \in Procs, pc[p] # "in",
           pc' = [pc EXCEPT ![p] = "in"], dom' = dom, NEW d \in Domains,
           d = dom[p],
           pc[p] \in Inside \/ globalCur < GlobalMax,
           PerDomain => Cardinality(InDomain(d)) < DomainMax
    PROVE  Limits!Enter(p, d)
<1>1. HeldBar' = [HeldBar EXCEPT ![p] = d] /\ HeldBar[p] = NoDomain
  BY DEF HeldBar, IndInv, TypeOK
<1>2. Cardinality(Limits!Inside) < GlobalMax
  <2> DEFINE In == {q \in Procs : pc[q] = "in"}
  <2>1. In \in SUBSET (PastGlobal \ {p})
    BY DEF PastGlobal
  <2>2. /\ IsFiniteSet(PastGlobal \ {p})
        /\ p \in PastGlobal =>
              Cardinality(PastGlobal \ {p}) = Cardinality(PastGlobal) - 1
        /\ p \notin PastGlobal =>
              Cardinality(PastGlobal \ {p}) = Cardinality(PastGlobal)
    BY FiniteGroups, FS_RemoveElement
  <2>3. Cardinality(In) <= Cardinality(PastGlobal \ {p})
    BY <2>1, <2>2, FS_Subset
  <2>4. Cardinality(In) \in Nat
    BY <2>1, <2>2, FS_Subset, FS_CardinalityType
  <2>5. p \in PastGlobal \/ globalCur < GlobalMax
    BY DEF PastGlobal, Inside
  <2>6. Cardinality(In) < GlobalMax
    BY <2>2, <2>3, <2>4, <2>5, FiniteGroups, ManagerAssumption
    DEF IndInv, PermitsAccounted
  <2>7. QED
    BY <2>6, InsideBar
<1>3. PerDomain => Cardinality(Limits!InsideOf(d)) < DomainMax
  BY InsideBar
<1>4. \A S : Limits!Cardinality(S) = Cardinality(S)
  BY DEF Limits!Cardinality, Cardinality
<1>5. QED
  BY <1>1, <1>2, <1>3, <1>4 DEF Limits!Enter, HeldBar

\* Any other step of a goroutine leaves, or changes nothing of what the
\* abstract specification sees.
LEMMA RefinementStep ==
    ASSUME IndInv, [Next]_vars
    PROVE  [Limits!LimitsNext]_HeldBar
<1>1. CASE Cancel \/ UNCHANGED vars
  BY <1>1 DEF Cancel, vars, HeldBar
<1>2. ASSUME NEW p \in Procs, NEW d \in Domains, AcquireCall(p, d)
      PROVE  UNCHANGED HeldBar
  BY <1>2 DEF AcquireCall, Goto, HeldBar, IndInv, TypeOK
<1>3. ASSUME NEW p \in Procs,
             GlobalFail(p) \/ Lookup(p) \/ Create(p) \/ DomainFail(p)
             \/ ReleaseGlobal(p)
      PROVE  UNCHANGED HeldBar
  BY <1>3 DEF GlobalFail, Lookup, Create, DomainFail, ReleaseGlobal, Goto,
              HeldBar, IndInv, TypeOK
<1>4. ASSUME NEW p \in Procs, ReleaseDomain(p)
      PROVE  Limits!Leave(p)
  <2>1. /\ pc[p] = "in" /\ dom' = dom /\ pc' = [pc EXCEPT ![p] = "relGlobal"]
        /\ dom[p] \in Domains
    BY <1>4 DEF ReleaseDomain, Goto, IndInv, Shape
  <2>2. HeldBar' = [HeldBar EXCEPT ![p] = NoDomain] /\ HeldBar[p] # NoDomain
    BY <2>1, ManagerAssumption DEF HeldBar, IndInv, TypeOK
  <2>3. QED
    BY <2>2 DEF Limits!Leave, HeldBar
<1>5. ASSUME NEW p \in Procs, GlobalAcquire(p)
      PROVE  UNCHANGED HeldBar \/ \E d \in Domains : Limits!Enter(p, d)
  <2>1. pc[p] = "global" /\ dom' = dom /\ dom[p] \in Domains /\ globalCur < GlobalMax
    BY <1>5 DEF GlobalAcquire, IndInv, Shape
  <2>2. CASE PerDomain
    BY <1>5, <2>1, <2>2 DEF GlobalAcquire, Goto, HeldBar, IndInv, TypeOK
  <2>3. CASE ~PerDomain
    <3>1. pc' = [pc EXCEPT ![p] = "in"]
      BY <1>5, <2>3 DEF GlobalAcquire, Goto
    <3>2. QED
      BY <2>1, <2>3, <3>1, EnterStep
  <2>4. QED
    BY <2>2, <2>3
<1>6. ASSUME NEW p \in Procs, DomainAcquire(p)
      PROVE  \E d \in Domains : Limits!Enter(p, d)
  <2>1. /\ pc[p] = "domain" /\ dom' = dom /\ dom[p] \in Domains
        /\ pc' = [pc EXCEPT ![p] = "in"] /\ semCur[ref[p]] < DomainMax
        /\ PerDomain /\ ref[p] = domainSems[dom[p]] /\ ref[p] # 0
    BY <1>6 DEF DomainAcquire, Goto, IndInv, Shape, PermitsAccounted
  <2>2. Cardinality(InDomain(dom[p])) < DomainMax
    BY <2>1 DEF IndInv, PermitsAccounted
  <2>3. QED
    BY <2>1, <2>2, EnterStep DEF Inside
<1>7. QED
  BY <1>1, <1>2, <1>3, <1>4, <1>5, <1>6
  DEF Next, Finish, Limits!LimitsNext

\* Acquire and Release, with the lookup, the creation of semaphores, failures
\* and cancellation between their steps, implement the atomic enter and leave
\* of ConcurrencyLimits.
THEOREM Refinement == Spec => ImplementsLimits
<1>1. Init => Limits!LimitsInit
  BY DEF Init, Limits!LimitsInit
<1>2. IndInv /\ [Next]_vars => [Limits!LimitsNext]_HeldBar
  BY RefinementStep
<1>3. QED
  BY <1>1, <1>2, Invariance, PTL
  DEF Spec, ImplementsLimits, Limits!LimitsSpec, HeldBar

-----------------------------------------------------------------------------
(* Callbacks: the inductive invariant *)

\* The workers in a fire hold the read lock, and a callback they still have to
\* run stands behind those they have run; a registration that has returned left
\* its callback in the list.
FireInv ==
    /\ \A w \in Firers : w \in readers <=> fire[w] # -1
    /\ \A w \in Firers : fire[w] \in -1 .. Len(cbs)
    /\ \A w \in readers : \A g \in due[w] : \E j \in fire[w] + 1 .. Len(cbs) : cbs[j] = g
    /\ \A g \in K!Returned : \E j \in 1 .. Len(cbs) : cbs[j] = g

CallbacksInd == K!TypeOK /\ K!FiresAll /\ FireInv

\* Nothing is registered, and nobody fires.
LEMMA CallbacksStart == ASSUME K!Init PROVE CallbacksInd
BY DEF K!Init, CallbacksInd, K!TypeOK, K!FiresAll, FireInv, K!Returned

\* OnX: the list grows at its end, while no fire is under way.
LEMMA RegisterKeeps ==
    ASSUME CallbacksInd, NEW g \in Registrars, K!RegisterCall(g) \/ K!RegisterStep(g)
    PROVE  CallbacksInd'
<1> USE DEF CallbacksInd, K!TypeOK
<1>1. CASE K!RegisterCall(g) \/ K!RegisterLock(g)
  <2>1. UNCHANGED <<readers, cbs, fire, due>> /\ K!TypeOK'
    BY <1>1 DEF K!RegisterCall, K!RegisterLock
  <2>2. K!Returned' = K!Returned
    BY <1>1 DEF K!RegisterCall, K!RegisterLock, K!Returned
  <2>3. QED
    BY <2>1, <2>2 DEF K!FiresAll, FireInv
<1>2. CASE K!RegisterAppend(g)
  <2>1. /\ readers = {} /\ UNCHANGED <<readers, fire, due>> /\ K!TypeOK'
        /\ cbs' = Append(cbs, g) /\ Len(cbs') = Len(cbs) + 1 /\ cbs'[Len(cbs) + 1] = g
        /\ \A j \in 1 .. Len(cbs) : cbs'[j] = cbs[j]
    BY <1>2 DEF K!RegisterAppend
  <2>2. K!Returned' \subseteq K!Returned \cup {g}
    BY <1>2 DEF K!RegisterAppend, K!Returned
  <2>3. ASSUME NEW h \in K!Returned' PROVE \E j \in 1 .. Len(cbs') : cbs'[j] = h
    <3>1. CASE h = g
      BY <2>1, <3>1
    <3>2. CASE h \in K!Returned
      <4>1. PICK j \in 1 .. Len(cbs) : cbs[j] = h
        BY <3>2 DEF FireInv
      <4>2. QED
        BY <2>1, <4>1
    <3>3. QED
      BY <2>2, <3>1, <3>2
  <2>4. QED
    BY <2>1, <2>3 DEF K!FiresAll, FireInv
<1>3. QED
  BY <1>1, <1>2 DEF K!RegisterStep

\* The fire functions: what is due is what was registered when the lock was
\* taken, and less one callback after each.
LEMMA FireKeeps ==
    ASSUME CallbacksInd, NEW w \in Firers, K!FireLock(w) \/ K!FireStep(w)
    PROVE  CallbacksInd'
<1> USE DEF CallbacksInd, K!TypeOK
<1>1. CASE K!FireLock(w)
  <2>1. UNCHANGED <<pending, cbs, gpc>> /\ K!TypeOK'
    BY <1>1 DEF K!FireLock, K!Returned
  <2>2. K!Returned' = K!Returned
    BY <2>1 DEF K!Returned
  <2>3. QED
    BY <1>1, <2>1, <2>2 DEF K!FireLock, K!FiresAll, FireInv
<1>2. CASE K!FireCallback(w)
  <2>1. UNCHANGED <<readers, pending, cbs, gpc>> /\ K!TypeOK' /\ K!Returned' = K!Returned
    BY <1>2 DEF K!FireCallback, K!Returned
  <2>2. /\ w \in readers /\ fire[w] \in 0 .. Len(cbs) - 1 /\ fire'[w] = fire[w] + 1
        /\ due'[w] = due[w] \ {cbs[fire[w] + 1]}
        /\ \A v \in Firers \ {w} : fire'[v] = fire[v] /\ due'[v] = due[v]
    BY <1>2 DEF K!FireCallback, FireInv
  <2>3. ASSUME NEW g \in due'[w] PROVE \E j \in fire'[w] + 1 .. Len(cbs) : cbs[j] = g
    <3>1. PICK j \in fire[w] + 1 .. Len(cbs) : cbs[j] = g
      BY <2>2 DEF FireInv
    <3>2. j # fire[w] + 1
      BY <2>2, <3>1
    <3>3. QED
      BY <2>2, <3>1, <3>2
  <2>4. \A v \in readers : \A g \in due'[v] : \E j \in fire'[v] + 1 .. Len(cbs) : cbs[j] = g
    <3> SUFFICES ASSUME NEW v \in readers, NEW g \in due'[v]
                 PROVE  \E j \in fire'[v] + 1 .. Len(cbs) : cbs[j] = g
      OBVIOUS
    <3>1. CASE v = w
      BY <2>3, <3>1
    <3>2. CASE v # w
      <4>1. fire'[v] = fire[v] /\ due'[v] = due[v]
        BY <2>2, <3>2
      <4>2. PICK j \in fire[v] + 1 .. Len(cbs) : cbs[j] = g
        BY <4>1 DEF FireInv
      <4>3. QED
        BY <4>1, <4>2
    <3>3. QED
      BY <3>1, <3>2
  <2>5. /\ \A v \in Firers : v \in readers <=> fire'[v] # -1
        /\ \A v \in Firers : fire'[v] \in -1 .. Len(cbs)
        /\ \A v \in Firers : fire'[v] = -1 => due'[v] = {}
    BY <2>2 DEF K!FiresAll, FireInv
  <2>6. QED
    BY <2>1, <2>4, <2>5 DEF K!FiresAll, FireInv
<1>3. CASE K!FireUnlock(w)
  <2>1. UNCHANGED <<pending, cbs, gpc, due>> /\ K!TypeOK' /\ K!Returned' = K!Returned
    BY <1>3 DEF K!FireUnlock, K!Returned
  <2>2. due[w] = {}
    BY <1>3 DEF K!FireUnlock, FireInv
  <2>3. QED
    BY <1>3, <2>1, <2>2 DEF K!FireUnlock, K!FiresAll, FireInv
<1>4. QED
  BY <1>1, <1>2, <1>3 DEF K!FireStep

\* The safety part of CallbacksOK, for any workers and registrations: a fire
\* (fireRequest and its siblings) runs every callback whose registration had
\* returned when it began, although others are registered meanwhile.
THEOREM CallbacksCorrect == K!Spec => [](K!TypeOK /\ K!FiresAll)
<1>1. K!Init => CallbacksInd
  BY CallbacksStart
<1>2. CallbacksInd /\ [K!Next]_K!vars => CallbacksInd'
  <2>1. CASE UNCHANGED K!vars
    BY <2>1 DEF CallbacksInd, K!TypeOK, K!FiresAll, FireInv, K!Returned, K!vars
  <2>2. CASE K!Next
    BY <2>2, RegisterKeeps, FireKeeps DEF K!Next
  <2>3. QED
    BY <2>1, <2>2
<1>3. CallbacksInd => K!TypeOK /\ K!FiresAll
  BY DEF CallbacksInd
<1>4. QED
  BY <1>1, <1>2, <1>3, PTL DEF K!Spec

=============================================================================

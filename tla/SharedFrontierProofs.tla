------------------------ MODULE SharedFrontierProofs ------------------------
(***************************************************************************)
(* Proofs about the frontiers apart from their queue in memory: the queue  *)
(* in Redis (RedisFrontier), for any processes, URLs and times and both    *)
(* with and without lost replies; the politeness delay (CrawlDelay), for   *)
(* any domains and delay; and the canonical form of a URL (Canonical), for *)
(* paths and queries of any length.                                        *)
(***************************************************************************)
EXTENDS MCSharedFrontier, FiniteSetTheorems, SequenceTheorems, WellFoundedInduction, TLAPS

-----------------------------------------------------------------------------
(* Sums over a finite set *)

\* Every natural number is in a set that has 0 and, with n, n + 1.
LEMMA SetInduction ==
  ASSUME NEW S, 0 \in S, \A n \in Nat : n \in S => n + 1 \in S
  PROVE Nat \subseteq S
<1> DEFINE T == Nat \ S
           R == OpToRel(<, Nat)
<1>1. SUFFICES ASSUME T # {} PROVE FALSE
  OBVIOUS
<1>2. IsWellFoundedOn(R, Nat)
  BY NatLessThanWellFounded DEF OpToRel
<1>3. T \subseteq Nat
  OBVIOUS
<1>4. \A m, n \in Nat : m < n => <<m, n>> \in R
  BY DEF OpToRel
<1> HIDE DEF T, R
<1>5. PICK x \in T : \A y \in T : ~ (<<y, x>> \in R)
  BY <1>1, <1>2, <1>3, WFMin
<1>6. x \in Nat /\ x # 0 /\ x \notin S
  BY DEF T
<1>7. x - 1 \in Nat /\ x - 1 < x /\ (x - 1) + 1 = x
  BY <1>6
<1>8. x - 1 \in S
  BY <1>5, <1>6, <1>7, <1>4 DEF T
<1>9. QED
  BY <1>6, <1>7, <1>8

\* The recursive function that SumFunction is defined by.
Picked(s) == CHOOSE x \in s : TRUE
SumStep(f, g, s) == IF s = {} THEN 0 ELSE f[Picked(s)] + g[s \ {Picked(s)}]
Partial(f, W) == CHOOSE g : g = [s \in SUBSET W |-> SumStep(f, g, s)]

LEMMA SumIs ==
    ASSUME NEW f, NEW W, W = DOMAIN f
    PROVE  SumFunction(f) = Partial(f, W)[W]
BY DEF SumFunction, SumFunctionOnSet, FoldFunctionOnSet, MapThenFoldSet, Partial, SumStep, Picked

LEMMA OneLess ==
    ASSUME NEW W, IsFiniteSet(W), NEW s \in SUBSET W, s # {}
    PROVE  /\ Picked(s) \in W /\ Picked(s) \in s /\ s \ {Picked(s)} \in SUBSET W
           /\ Cardinality(s) \in Nat /\ Cardinality(s \ {Picked(s)}) \in Nat
           /\ Cardinality(s \ {Picked(s)}) = Cardinality(s) - 1
<1>1. Picked(s) \in s
  BY DEF Picked
<1>2. IsFiniteSet(s)
  BY FS_Subset
<1>3. PICK x : x = Picked(s)
  OBVIOUS
<1>4. /\ IsFiniteSet(s \ {x}) /\ Cardinality(s) \in Nat /\ Cardinality(s \ {x}) \in Nat
      /\ Cardinality(s \ {x}) = IF x \in s THEN Cardinality(s) - 1 ELSE Cardinality(s)
  BY <1>2, FS_RemoveElement, FS_CardinalityType
<1>5. QED
  BY <1>1, <1>3, <1>4

\* It exists, by induction on the size of the sets.
LEMMA PartialExists ==
    ASSUME NEW W, IsFiniteSet(W), NEW f \in [W -> Int]
    PROVE  \E g \in [SUBSET W -> Int] : \A s \in SUBSET W : g[s] = SumStep(f, g, s)
<1> DEFINE Obeys(g, n) == \A s \in SUBSET W : Cardinality(s) <= n => g[s] = SumStep(f, g, s)
           Upto(n) == \E g \in [SUBSET W -> Int] : Obeys(g, n)
           Good == {n \in Nat : Upto(n)}
<1>1. \A s \in SUBSET W : IsFiniteSet(s) /\ Cardinality(s) \in Nat
  BY FS_Subset, FS_CardinalityType
<1>2. \A s \in SUBSET W : Cardinality(s) <= 0 => s = {}
  <2> SUFFICES ASSUME NEW s \in SUBSET W, Cardinality(s) <= 0 PROVE s = {}
    OBVIOUS
  <2>1. Cardinality(s) = 0 /\ IsFiniteSet(s)
    BY <1>1
  <2>2. QED
    BY <2>1, FS_EmptySet
<1>3. 0 \in Good
  <2> DEFINE g == [s \in SUBSET W |-> 0]
  <2>1. g \in [SUBSET W -> Int]
    OBVIOUS
  <2>2. \A s \in SUBSET W : s = {} => g[s] = SumStep(f, g, s)
    BY DEF SumStep
  <2>3. Obeys(g, 0)
    BY <1>2, <2>2
  <2> HIDE DEF g, Obeys
  <2>4. QED
    BY <2>1, <2>3
<1>4. ASSUME NEW n \in Nat, n \in Good PROVE n + 1 \in Good
  <2>1. PICK g \in [SUBSET W -> Int] : Obeys(g, n)
    <3> HIDE DEF Obeys
    <3>1. QED
      BY <1>4
  <2> DEFINE h == [s \in SUBSET W |-> IF Cardinality(s) = n + 1 THEN SumStep(f, g, s) ELSE g[s]]
  <2>2. \A s \in SUBSET W : SumStep(f, g, s) \in Int
    <3> SUFFICES ASSUME NEW s \in SUBSET W PROVE SumStep(f, g, s) \in Int
      OBVIOUS
    <3>1. CASE s = {}
      BY <3>1 DEF SumStep
    <3>2. CASE s # {}
      <4>1. f[Picked(s)] \in Int /\ g[s \ {Picked(s)}] \in Int
        BY <3>2, OneLess
      <4>2. QED
        BY <3>2, <4>1 DEF SumStep
    <3>3. QED
      BY <3>1, <3>2
  <2>3. /\ h \in [SUBSET W -> Int]
        /\ \A s \in SUBSET W : h[s] = IF Cardinality(s) = n + 1 THEN SumStep(f, g, s) ELSE g[s]
    BY <2>2
  <2> HIDE DEF h
  <2>4. ASSUME NEW s \in SUBSET W, Cardinality(s) <= n + 1 PROVE h[s] = SumStep(f, h, s)
    <3>1. SumStep(f, h, s) = SumStep(f, g, s)
      <4>1. CASE s = {}
        BY <4>1 DEF SumStep
      <4>2. CASE s # {}
        <5>1. PICK t \in SUBSET W : t = s \ {Picked(s)} /\ Cardinality(t) = Cardinality(s) - 1
          BY <4>2, OneLess
        <5>2. Cardinality(t) # n + 1
          BY <1>1, <2>4, <5>1
        <5>3. h[t] = g[t]
          BY <2>3, <5>2
        <5>4. QED
          BY <4>2, <5>1, <5>3 DEF SumStep
      <4>3. QED
        BY <4>1, <4>2
    <3>2. CASE Cardinality(s) = n + 1
      BY <2>3, <3>1, <3>2
    <3>3. CASE Cardinality(s) # n + 1
      <4>1. Cardinality(s) <= n
        BY <1>1, <2>4, <3>3
      <4>2. h[s] = g[s] /\ g[s] = SumStep(f, g, s)
        BY <2>1, <2>3, <3>3, <4>1
      <4>3. QED
        BY <3>1, <4>2
    <3>4. QED
      BY <3>2, <3>3
  <2>5. Obeys(h, n + 1)
    BY <2>4
  <2> HIDE DEF Obeys
  <2>6. QED
    BY <2>3, <2>5
<1>5. PICK n \in Nat : n = Cardinality(W)
  BY <1>1
<1>6. PICK g \in [SUBSET W -> Int] : Obeys(g, n)
  <2> HIDE DEF Good
  <2>1. Nat \subseteq Good
    BY <1>3, <1>4, SetInduction
  <2> HIDE DEF Obeys
  <2>2. QED
    BY <2>1 DEF Good
<1>7. \A s \in SUBSET W : Cardinality(s) <= n
  BY <1>5, FS_Subset
<1>8. QED
  BY <1>6, <1>7

LEMMA PartialIs ==
    ASSUME NEW W, IsFiniteSet(W), NEW f \in [W -> Int]
    PROVE  \A s \in SUBSET W : Partial(f, W)[s] = SumStep(f, Partial(f, W), s)
<1> DEFINE Rec(g) == g = [s \in SUBSET W |-> SumStep(f, g, s)]
           p == CHOOSE g : Rec(g)
<1>1. PICK g \in [SUBSET W -> Int] : \A s \in SUBSET W : g[s] = SumStep(f, g, s)
  BY PartialExists
<1>2. Rec(g)
  BY <1>1
<1>3. Rec(p)
  <2> HIDE DEF Rec
  <2>1. QED
    BY <1>2, Zenon
<1>4. p = Partial(f, W)
  BY DEF Partial
<1> HIDE DEF p
<1>5. SUFFICES ASSUME NEW s \in SUBSET W PROVE p[s] = SumStep(f, p, s)
  BY <1>4
<1> DEFINE h == [t \in SUBSET W |-> SumStep(f, p, t)]
<1>6. h[s] = SumStep(f, p, s)
  BY Zenon
<1>7. p = h
  BY <1>3, Zenon
<1>8. QED
  BY <1>6, <1>7, Zenon

\* h is f but for k more at n.
Shifted(h, f, n, k, W) == \A x \in W : h[x] = IF x = n THEN f[x] + k ELSE f[x]

\* A sum changes by what one of its terms does.
LEMMA SumChange ==
    ASSUME NEW W, IsFiniteSet(W), NEW f \in [W -> Int], NEW n \in W, NEW k \in Int,
           NEW h \in [W -> Int], Shifted(h, f, n, k, W)
    PROVE  SumFunction(f) \in Int /\ SumFunction(h) = SumFunction(f) + k
<1>2. PICK p : p = Partial(f, W)
  OBVIOUS
<1>3. PICK q : q = Partial(h, W)
  OBVIOUS
<1>4. \A s \in SUBSET W : p[s] = SumStep(f, p, s) /\ q[s] = SumStep(h, q, s)
  BY <1>2, <1>3, PartialIs
<1> DEFINE Changed(s) == p[s] \in Int /\ q[s] = p[s] + (IF n \in s THEN k ELSE 0)
           Good == {m \in Nat : \A s \in SUBSET W : Cardinality(s) = m => Changed(s)}
<1>5. 0 \in Good
  <2> SUFFICES ASSUME NEW s \in SUBSET W, Cardinality(s) = 0 PROVE Changed(s)
    OBVIOUS
  <2>1. s = {}
    BY FS_Subset, FS_EmptySet
  <2>2. p[s] = 0 /\ q[s] = 0
    BY <1>4, <2>1 DEF SumStep
  <2>3. QED
    BY <2>1, <2>2
<1>6. ASSUME NEW m \in Nat, m \in Good PROVE m + 1 \in Good
  <2> SUFFICES ASSUME NEW s \in SUBSET W, Cardinality(s) = m + 1 PROVE Changed(s)
    OBVIOUS
  <2>1. s # {}
    <3>1. Cardinality({}) = 0 /\ m + 1 # 0
      BY FS_EmptySet
    <3>2. QED
      BY <3>1
  <2>2. PICK x \in s, t \in SUBSET W : x = Picked(s) /\ t = s \ {x} /\ Cardinality(t) = m
    <3>1. /\ Picked(s) \in s /\ s \ {Picked(s)} \in SUBSET W
          /\ Cardinality(s \ {Picked(s)}) = Cardinality(s) - 1
      BY <2>1, OneLess
    <3>2. QED
      BY <3>1
  <2>3. Changed(t)
    BY <1>6, <2>2
  <2>4. p[s] = f[x] + p[t] /\ q[s] = h[x] + q[t]
    BY <1>4, <2>1, <2>2 DEF SumStep
  <2>5. f[x] \in Int /\ h[x] = IF x = n THEN f[x] + k ELSE f[x]
    BY <2>2 DEF Shifted
  <2>6. QED
    BY <2>2, <2>3, <2>4, <2>5
<1>7. Changed(W)
  <2> HIDE DEF Changed
  <2>1. PICK m \in Nat : m = Cardinality(W)
    BY FS_CardinalityType
  <2>2. Nat \subseteq Good
    <3> HIDE DEF Good
    <3>1. QED
      BY <1>5, <1>6, SetInduction
  <2>3. QED
    BY <2>1, <2>2
<1>8. SumFunction(f) = p[W] /\ SumFunction(h) = q[W]
  BY <1>2, <1>3, SumIs
<1>9. QED
  BY <1>7, <1>8

LEMMA SumZero ==
    ASSUME NEW W, IsFiniteSet(W), NEW f \in [W -> Int], \A n \in W : f[n] = 0
    PROVE  SumFunction(f) = 0
<1>1. PICK p : p = Partial(f, W)
  OBVIOUS
<1>2. \A s \in SUBSET W : p[s] = SumStep(f, p, s)
  BY <1>1, PartialIs
<1> DEFINE Good == {m \in Nat : \A s \in SUBSET W : Cardinality(s) = m => p[s] = 0}
<1>3. 0 \in Good
  <2> SUFFICES ASSUME NEW s \in SUBSET W, Cardinality(s) = 0 PROVE p[s] = 0
    OBVIOUS
  <2>1. s = {}
    BY FS_Subset, FS_EmptySet
  <2>2. QED
    BY <1>2, <2>1 DEF SumStep
<1>4. ASSUME NEW m \in Nat, m \in Good PROVE m + 1 \in Good
  <2> SUFFICES ASSUME NEW s \in SUBSET W, Cardinality(s) = m + 1 PROVE p[s] = 0
    OBVIOUS
  <2>1. s # {}
    <3>1. Cardinality({}) = 0 /\ m + 1 # 0
      BY FS_EmptySet
    <3>2. QED
      BY <3>1
  <2>2. PICK x \in s, t \in SUBSET W : x = Picked(s) /\ t = s \ {x} /\ Cardinality(t) = m
    <3>1. /\ Picked(s) \in s /\ s \ {Picked(s)} \in SUBSET W
          /\ Cardinality(s \ {Picked(s)}) = Cardinality(s) - 1
      BY <2>1, OneLess
    <3>2. QED
      BY <3>1
  <2>3. p[t] = 0 /\ f[x] = 0
    BY <1>4, <2>2
  <2>4. p[s] = f[x] + p[t]
    BY <1>2, <2>1, <2>2 DEF SumStep
  <2>5. QED
    BY <2>3, <2>4
<1>5. Nat \subseteq Good
  <2> HIDE DEF Good
  <2>1. QED
    BY <1>3, <1>4, SetInduction
<1>6. PICK m \in Nat : m = Cardinality(W)
  BY FS_CardinalityType
<1>7. p[W] = 0
  BY <1>5, <1>6
<1>8. QED
  BY <1>1, <1>7, SumIs

-----------------------------------------------------------------------------
(* CrawlDelay: the inductive invariant *)

\* The time recorded for a domain is no later than now, and no earlier than the
\* request before the last.
RecordInv ==
    \A d \in Domains :
        lastOut[d] <= clock /\ domainLast[d] <= clock /\ prevOut[d] <= domainLast[d]

\* Who sleeps for a domain has recorded a time since its last request, and is
\* woken a delay after the one before that.
SleeperInv ==
    \A c \in Consumers : pc[c] = "sleep" =>
        /\ dom[c] \in Domains /\ lastOut[dom[c]] <= domainLast[dom[c]]
        /\ prevOut[dom[c]] + Delay <= wakeAt[c]

DelayInd == D!TypeOK /\ RecordInv /\ SleeperInv

LEMMA DelayStart == ASSUME D!DelayAssumption, D!Init PROVE DelayInd
<1>1. D!TypeOK
  <2>1. 0 \in 0 .. DelayTime /\ 0 \in 0 .. DelayTime + Delay /\ -1 \in -1 .. DelayTime
    BY DEF D!DelayAssumption
  <2>2. clock \in 0 .. DelayTime /\ ctxDone \in BOOLEAN
    BY <2>1 DEF D!Init
  <2>3. wakeAt \in [Consumers -> 0 .. DelayTime + Delay]
    BY <2>1 DEF D!Init
  <2>4. pc \in [Consumers -> {"idle", "sleep"}] /\ dom \in [Consumers -> Domains \cup {NoDomain}]
    BY DEF D!Init
  <2>5. /\ domainLast \in [Domains -> -1 .. DelayTime]
        /\ lastOut \in [Domains -> -1 .. DelayTime] /\ prevOut \in [Domains -> -1 .. DelayTime]
    BY <2>1 DEF D!Init
  <2>6. QED
    BY <2>2, <2>3, <2>4, <2>5 DEF D!TypeOK, D!Times
<1>2. RecordInv
  BY DEF D!Init, RecordInv
<1>3. SleeperInv
  BY DEF D!Init, SleeperInv
<1>4. QED
  BY <1>1, <1>2, <1>3 DEF DelayInd

\* A single consumer is not asleep when it calls Next.
LEMMA DelayStep ==
    ASSUME D!DelayAssumption, DelayInd, [D!Next]_D!vars,
           \A c, e \in Consumers : c = e
    PROVE  /\ DelayInd'
           /\ ~ctxDone => \A d \in Domains :
                lastOut'[d] # lastOut[d] \/ prevOut'[d] # prevOut[d] =>
                    prevOut[d] = -1 \/ clock - prevOut[d] >= Delay
<1>1. /\ clock \in 0 .. DelayTime /\ Delay \in Nat /\ DelayTime \in Nat
      /\ domainLast \in [Domains -> -1 .. DelayTime] /\ ctxDone \in BOOLEAN
      /\ pc \in [Consumers -> {"idle", "sleep"}]
      /\ dom \in [Consumers -> Domains \cup {NoDomain}]
      /\ wakeAt \in [Consumers -> 0 .. DelayTime + Delay]
      /\ lastOut \in [Domains -> -1 .. DelayTime] /\ prevOut \in [Domains -> -1 .. DelayTime]
  BY DEF DelayInd, D!TypeOK, D!Times, D!DelayAssumption
<1>2. RecordInv /\ SleeperInv
  BY DEF DelayInd
<1>3. CASE D!Tick \/ D!CancelContext \/ UNCHANGED D!vars
  <2>1. /\ UNCHANGED <<domainLast, pc, dom, wakeAt, lastOut, prevOut>>
        /\ clock' \in 0 .. DelayTime /\ clock' >= clock /\ ctxDone' \in BOOLEAN
    <3>1. UNCHANGED <<domainLast, pc, dom, wakeAt, lastOut, prevOut>>
      BY <1>3 DEF D!Tick, D!CancelContext, D!vars
    <3>2. \/ clock < DelayTime /\ clock' = clock + 1
          \/ clock' = clock
      BY <1>3 DEF D!Tick, D!CancelContext, D!vars
    <3>3. clock' \in 0 .. DelayTime /\ clock' >= clock
      BY <1>1, <3>2
    <3>4. ctxDone' = ctxDone \/ ctxDone' = TRUE
      BY <1>3 DEF D!Tick, D!CancelContext, D!vars
    <3>5. ctxDone' \in BOOLEAN
      BY <1>1, <3>4
    <3>6. QED
      BY <3>1, <3>3, <3>5
  <2>2. D!TypeOK'
    BY <1>1, <2>1 DEF D!TypeOK, D!Times
  <2>3. RecordInv' /\ SleeperInv'
    BY <1>1, <1>2, <2>1 DEF RecordInv, SleeperInv
  <2>4. QED
    BY <2>1, <2>2, <2>3 DEF DelayInd
<1>4. ASSUME NEW c \in Consumers, NEW d \in Domains, D!PassAtOnce(c, d)
      PROVE  DelayInd' /\ (prevOut[d] = -1 \/ clock - prevOut[d] >= Delay)
                       /\ \A f \in Domains \ {d} : lastOut'[f] = lastOut[f] /\ prevOut'[f] = prevOut[f]
  <2>1. /\ \A f \in Domains :
              /\ domainLast'[f] = IF f = d THEN clock ELSE domainLast[f]
              /\ lastOut'[f] = IF f = d THEN clock ELSE lastOut[f]
              /\ prevOut'[f] = IF f = d THEN lastOut[f] ELSE prevOut[f]
        /\ domainLast' \in [Domains -> -1 .. DelayTime]
        /\ lastOut' \in [Domains -> -1 .. DelayTime] /\ prevOut' \in [Domains -> -1 .. DelayTime]
        /\ UNCHANGED <<clock, pc, dom, wakeAt, ctxDone>>
        /\ pc[c] = "idle" /\ (domainLast[d] = -1 \/ clock - domainLast[d] >= Delay)
    BY <1>1, <1>4 DEF D!PassAtOnce, D!LetOut, D!Elapsed
  <2>2. D!TypeOK'
    BY <1>1, <2>1 DEF D!TypeOK, D!Times
  <2>3. RecordInv'
    BY <1>1, <1>2, <2>1 DEF RecordInv
  <2>4. SleeperInv'
    BY <1>1, <2>1 DEF SleeperInv
  <2>5. prevOut[d] = -1 \/ clock - prevOut[d] >= Delay
    BY <1>1, <1>2, <2>1 DEF RecordInv
  <2>6. QED
    BY <2>1, <2>2, <2>3, <2>4, <2>5 DEF DelayInd
<1>5. ASSUME NEW c \in Consumers, NEW d \in Domains, D!Sleep(c, d)
      PROVE  DelayInd' /\ UNCHANGED <<lastOut, prevOut>>
  <2>1. domainLast[d] # -1 /\ domainLast[d] \in 0 .. DelayTime
    BY <1>1, <1>5 DEF D!Sleep, D!Elapsed
  <2>2. PICK w \in 0 .. DelayTime + Delay : w = clock + (Delay - (clock - domainLast[d]))
                                            /\ w = domainLast[d] + Delay
    BY <1>1, <2>1
  <2>3. /\ \A f \in Domains : domainLast'[f] = IF f = d THEN clock ELSE domainLast[f]
        /\ domainLast' \in [Domains -> -1 .. DelayTime]
        /\ UNCHANGED <<clock, ctxDone, lastOut, prevOut>>
    BY <1>1, <1>5 DEF D!Sleep
  <2>4. /\ pc' = [pc EXCEPT ![c] = "sleep"] /\ dom' = [dom EXCEPT ![c] = d]
        /\ wakeAt' = [wakeAt EXCEPT ![c] = w]
    BY <1>5, <2>2 DEF D!Sleep
  <2>5. D!TypeOK'
    BY <1>1, <2>3, <2>4 DEF D!TypeOK, D!Times
  <2>6. RecordInv'
    BY <1>1, <1>2, <2>3 DEF RecordInv
  <2>7. SleeperInv'
    <3> SUFFICES ASSUME NEW e \in Consumers
                 PROVE  /\ dom'[e] \in Domains /\ lastOut'[dom'[e]] <= domainLast'[dom'[e]]
                        /\ prevOut'[dom'[e]] + Delay <= wakeAt'[e]
      BY DEF SleeperInv
    <3>1. e = c
      OBVIOUS
    <3>2. dom'[e] = d /\ wakeAt'[e] = w
      BY <1>1, <2>4, <3>1
    <3>3. QED
      BY <1>1, <1>2, <2>2, <2>3, <3>2 DEF RecordInv
  <2>8. QED
    BY <2>3, <2>5, <2>6, <2>7 DEF DelayInd
<1>6. ASSUME NEW c \in Consumers, D!Wake(c)
      PROVE  DelayInd' /\ \A d \in Domains :
                 lastOut'[d] # lastOut[d] \/ prevOut'[d] # prevOut[d] =>
                     ctxDone \/ clock - prevOut[d] >= Delay
  <2>1. PICK d \in Domains : /\ d = dom[c] /\ lastOut[d] <= domainLast[d]
                             /\ prevOut[d] + Delay <= wakeAt[c]
    BY <1>2, <1>6 DEF SleeperInv, D!Wake
  <2>2. /\ \A f \in Domains :
              /\ lastOut'[f] = IF f = d THEN clock ELSE lastOut[f]
              /\ prevOut'[f] = IF f = d THEN lastOut[f] ELSE prevOut[f]
        /\ lastOut' \in [Domains -> -1 .. DelayTime] /\ prevOut' \in [Domains -> -1 .. DelayTime]
        /\ UNCHANGED <<clock, domainLast, ctxDone>>
    BY <1>1, <1>6, <2>1 DEF D!Wake, D!LetOut
  <2>3. /\ pc' \in [Consumers -> {"idle", "sleep"}] /\ pc'[c] = "idle"
        /\ dom' \in [Consumers -> Domains \cup {NoDomain}]
        /\ wakeAt' \in [Consumers -> 0 .. DelayTime + Delay]
    BY <1>1, <1>6 DEF D!Wake
  <2>4. D!TypeOK'
    BY <1>1, <2>2, <2>3 DEF D!TypeOK, D!Times
  <2>5. RecordInv'
    BY <1>1, <1>2, <2>1, <2>2 DEF RecordInv
  <2>6. SleeperInv'
    BY <2>3 DEF SleeperInv
  <2>7. clock >= wakeAt[c] \/ ctxDone
    BY <1>6 DEF D!Wake
  <2>8. clock - prevOut[d] >= Delay \/ ctxDone
    BY <1>1, <2>1, <2>7
  <2>9. QED
    BY <2>2, <2>4, <2>5, <2>6, <2>8 DEF DelayInd
<1>7. QED
  BY <1>3, <1>4, <1>5, <1>6 DEF D!Next

\* TwoPerWindow: between two requests of a domain that are let out to a single
\* consumer, with one other in between, at least CrawlDelay has passed, although
\* a call records its time before it sleeps (enforceCrawlDelay).
THEOREM DelayCorrect ==
    ASSUME D!DelayAssumption, \A c, e \in Consumers : c = e
    PROVE  D!Spec => TwoPerWindow
<1>1. D!Init => DelayInd
  BY DelayStart
<1>2. DelayInd /\ [D!Next]_D!vars => DelayInd'
  BY DelayStep
<1>3. DelayInd => D!TypeOK
  BY DEF DelayInd
<1>4. DelayInd /\ [D!Next]_D!vars =>
        [~ctxDone => \A d \in Domains :
            lastOut'[d] # lastOut[d] \/ prevOut'[d] # prevOut[d] =>
                prevOut[d] = -1 \/ clock - prevOut[d] >= Delay]_D!vars
  BY DelayStep
<1>5. QED
  BY <1>1, <1>2, <1>3, <1>4, PTL DEF D!Spec, TwoPerWindow, D!TwoPerWindow

-----------------------------------------------------------------------------
(* RedisFrontier: the inductive invariant *)

One(c) == IF c = "count" THEN 1 ELSE 0

\* A process that has not begun has counted nothing.
DownInv ==
    \A n \in Nodes : ~up[n] =>
        apc[n] = "idle" /\ npc[n] = "idle" /\ size[n] = 0 /\ base[n] = 0

\* A counter moves by no more than the Add calls so far, calls in progress
\* included; what is in the set was added, and taken out of it at most once.
RoomInv ==
    \A n \in Nodes : /\ size[n] + One(apc[n]) <= adds
                     /\ Cardinality(zset) + One(npc[n]) - size[n] <= adds

RedisInd ==
    /\ TypeOK /\ IsFiniteSet(zset) /\ Cardinality(zset) <= adds
    /\ DownInv /\ RoomInv /\ CountersMatchSet

Moved == [n \in Nodes |-> size[n] - base[n]]

\* What the types say of the pieces.
LEMMA RedisTypes ==
    ASSUME RedisInd
    PROVE  /\ IsFiniteSet(Nodes) /\ MaxAdds \in Nat /\ MaxTime \in Nat /\ Band \in Nat
           /\ adds \in 0 .. MaxAdds /\ Cardinality(zset) \in Nat /\ now \in 0 .. MaxTime
           /\ size \in [Nodes -> Int] /\ base \in [Nodes -> Int] /\ Moved \in [Nodes -> Int]
           /\ IsFiniteSet(Counting(apc)) /\ IsFiniteSet(Counting(npc))
           /\ Cardinality(Counting(apc)) \in Nat /\ Cardinality(Counting(npc)) \in Nat
           /\ LocalChanges = SumFunction(Moved)
<1>1. IsFiniteSet(Nodes) /\ MaxAdds \in Nat /\ MaxTime \in Nat /\ Band \in Nat
  BY RedisAssumption
<1>2. size \in [Nodes -> Int] /\ base \in [Nodes -> Int] /\ adds \in 0 .. MaxAdds /\ now \in 0 .. MaxTime
  BY <1>1 DEF RedisInd, TypeOK
<1>3. Moved \in [Nodes -> Int]
  BY <1>2 DEF Moved
<1>4. Cardinality(zset) \in Nat
  BY FS_CardinalityType DEF RedisInd
<1>5. IsFiniteSet(Counting(apc)) /\ IsFiniteSet(Counting(npc))
  BY <1>1, FS_Subset DEF Counting
<1>6. Cardinality(Counting(apc)) \in Nat /\ Cardinality(Counting(npc)) \in Nat
  BY <1>5, FS_CardinalityType
<1>7. LocalChanges = SumFunction(Moved)
  BY DEF LocalChanges, Moved
<1>8. QED
  BY <1>1, <1>2, <1>3, <1>4, <1>5, <1>6, <1>7

\* n's call is at c, the others where they were.
AtNow(q, p, n, c) == DOMAIN p = Nodes /\ q = [p EXCEPT ![n] = c]

\* One call begins or ends to be counted.
LEMMA CountingChange ==
    ASSUME IsFiniteSet(Nodes), NEW p, NEW n \in Nodes, NEW c, NEW q, AtNow(q, p, n, c)
    PROVE  Cardinality(Counting(q)) = Cardinality(Counting(p)) - One(p[n]) + One(c)
<1>1. PICK P : P = Counting(p)
  OBVIOUS
<1>2. PICK Q : Q = Counting(q)
  OBVIOUS
<1>3. IsFiniteSet(P) /\ IsFiniteSet(Q) /\ Cardinality(P) \in Nat /\ Cardinality(Q) \in Nat
  BY <1>1, <1>2, FS_Subset, FS_CardinalityType DEF Counting
<1>4. (n \in P <=> p[n] = "count") /\ (n \in Q <=> c = "count") /\ P \ {n} = Q \ {n}
  BY <1>1, <1>2 DEF Counting, AtNow
<1>5. /\ Cardinality(P \ {n}) = IF n \in P THEN Cardinality(P) - 1 ELSE Cardinality(P)
      /\ Cardinality(Q \ {n}) = IF n \in Q THEN Cardinality(Q) - 1 ELSE Cardinality(Q)
  BY <1>3, FS_RemoveElement
<1>6. Cardinality(Q) = Cardinality(P) - One(p[n]) + One(c)
  BY <1>3, <1>4, <1>5 DEF One
<1>7. QED
  BY <1>1, <1>2, <1>6

\* The counters stay, or one of them moves.
LEMMA ChangesStay ==
    ASSUME UNCHANGED <<size, base>>
    PROVE  LocalChanges' = LocalChanges
BY DEF LocalChanges

LEMMA ChangesMove ==
    ASSUME RedisInd, NEW n \in Nodes, NEW k \in Int, size' = [size EXCEPT ![n] = size[n] + k],
           base' = base
    PROVE  LocalChanges' = LocalChanges + k /\ LocalChanges \in Int
<1>1. PICK m : m = Moved
  OBVIOUS
<1>2. m \in [Nodes -> Int] /\ IsFiniteSet(Nodes) /\ LocalChanges = SumFunction(m)
  BY <1>1, RedisTypes
<1>3. PICK h : h = Moved' /\ h = [m EXCEPT ![n] = m[n] + k]
  <2>1. \A j \in Nodes : size'[j] - base'[j] = IF j = n THEN size[n] - base[n] + k
                                                        ELSE size[j] - base[j]
    BY RedisTypes
  <2>2. QED
    BY <1>1, <2>1 DEF Moved
<1>4. SumFunction(m) \in Int /\ SumFunction(h) = SumFunction(m) + k
  <2>1. m[n] + k \in Int
    BY <1>2
  <2>2. h \in [Nodes -> Int] /\ Shifted(h, m, n, k, Nodes)
    BY <1>2, <1>3, <2>1 DEF Shifted
  <2>3. QED
    BY <1>2, <2>2, SumChange
<1>5. LocalChanges' = SumFunction(Moved')
  BY DEF LocalChanges, Moved
<1>6. QED
  BY <1>2, <1>3, <1>4, <1>5

LEMMA ChangesInt ==
    ASSUME RedisInd, NEW n \in Nodes
    PROVE  LocalChanges \in Int
<1>1. PICK m : m = Moved
  OBVIOUS
<1>2. m \in [Nodes -> Int] /\ IsFiniteSet(Nodes) /\ LocalChanges = SumFunction(m)
  BY <1>1, RedisTypes
<1>3. 0 \in Int /\ Shifted(m, m, n, 0, Nodes)
  BY <1>2 DEF Shifted
<1>4. QED
  BY <1>2, <1>3, SumChange

\* The invariant after a step, from its parts; the bounds on the counters give
\* their types.
LEMMA RedisNext ==
    ASSUME now' \in 0 .. MaxTime, adds' \in 0 .. MaxAdds, zset' \subseteq Entries, lost' \in BOOLEAN,
           size' \in [Nodes -> Int], base' \in [Nodes -> 0 .. MaxAdds],
           closed' \in [Nodes -> BOOLEAN], up' \in [Nodes -> BOOLEAN],
           apc' \in [Nodes -> {"idle", "count"}], npc' \in [Nodes -> {"idle", "pop", "count"}],
           popped' \in [Nodes -> Entries \cup {NoEntry}],
           IsFiniteSet(zset)', Cardinality(zset)' <= adds',
           DownInv', RoomInv', CountersMatchSet'
    PROVE  RedisInd'
<1>1. MaxAdds \in Nat /\ Cardinality(zset)' \in Nat
  <2>1. PICK Z : Z = zset'
    OBVIOUS
  <2>2. IsFiniteSet(Z)
    BY <2>1
  <2>3. QED
    BY <2>1, <2>2, RedisAssumption, FS_CardinalityType
<1>2. ASSUME NEW n \in Nodes PROVE size'[n] \in -MaxAdds .. MaxAdds
  <2>1. size'[n] \in Int /\ One(apc[n])' \in Nat /\ One(npc[n])' \in Nat
    BY DEF One
  <2>2. size'[n] + One(apc[n])' <= adds' /\ Cardinality(zset)' + One(npc[n])' - size'[n] <= adds'
    BY DEF RoomInv
  <2>3. QED
    BY <1>1, <2>1, <2>2
<1>3. size' \in [Nodes -> -MaxAdds .. MaxAdds]
  BY <1>2
<1>4. TypeOK'
  BY <1>3 DEF TypeOK
<1>5. QED
  BY <1>4 DEF RedisInd

LEMMA RedisStart == ASSUME Init PROVE RedisInd
<1>1. MaxAdds \in Nat /\ MaxTime \in Nat /\ IsFiniteSet(Nodes)
  BY RedisAssumption
<1>2. IsFiniteSet(zset) /\ Cardinality(zset) = 0 /\ adds = 0
  BY FS_EmptySet DEF Init
<1>3. TypeOK
  <2>1. 0 \in 0 .. MaxTime /\ 0 \in 0 .. MaxAdds /\ 0 \in -MaxAdds .. MaxAdds
    BY <1>1
  <2>2. size \in [Nodes -> -MaxAdds .. MaxAdds] /\ base \in [Nodes -> 0 .. MaxAdds]
    BY <2>1 DEF Init
  <2>3. closed \in [Nodes -> BOOLEAN] /\ up \in [Nodes -> BOOLEAN]
    BY DEF Init
  <2>4. QED
    BY <2>1, <2>2, <2>3 DEF Init, TypeOK
<1>4. DownInv /\ RoomInv
  BY <1>2 DEF Init, DownInv, RoomInv, One
<1>5. CountersMatchSet
  <2>1. PICK m : m = [n \in Nodes |-> size[n] - base[n]]
    OBVIOUS
  <2>2. m \in [Nodes -> Int] /\ \A n \in Nodes : m[n] = 0
    BY <2>1 DEF Init
  <2>3. SumFunction(m) = 0
    BY <1>1, <2>2, SumZero
  <2>4. LocalChanges = 0
    BY <2>1, <2>3 DEF LocalChanges
  <2>5. Counting(apc) = {} /\ Counting(npc) = {}
    BY DEF Init, Counting
  <2>6. QED
    BY <1>2, <2>4, <2>5, FS_EmptySet DEF CountersMatchSet
<1>6. QED
  BY <1>2, <1>3, <1>4, <1>5 DEF RedisInd

\* What a process does with its own call and counter, when the set stays.
CallMove(n, c, e, k) ==
    /\ UNCHANGED <<zset, adds, lost, now, base, up>> /\ up[n]
    /\ closed' \in [Nodes -> BOOLEAN] /\ popped' \in [Nodes -> Entries \cup {NoEntry}]
    /\ c \in {"idle", "count"} /\ apc' = [apc EXCEPT ![n] = c]
    /\ e \in {"idle", "pop", "count"} /\ npc' = [npc EXCEPT ![n] = e]
    /\ k \in Int /\ size' = [size EXCEPT ![n] = size[n] + k]
    /\ k = One(apc[n]) - One(c) - (One(npc[n]) - One(e))
    /\ One(c) <= One(apc[n]) /\ One(e) <= One(npc[n])

LEMMA SetStays ==
    ASSUME RedisInd, NEW n \in Nodes, NEW c, NEW e, NEW k, CallMove(n, c, e, k)
    PROVE  RedisInd'
<1>0. /\ UNCHANGED <<zset, adds, lost, now, base, up>> /\ up[n]
      /\ closed' \in [Nodes -> BOOLEAN] /\ popped' \in [Nodes -> Entries \cup {NoEntry}]
      /\ c \in {"idle", "count"} /\ apc' = [apc EXCEPT ![n] = c]
      /\ e \in {"idle", "pop", "count"} /\ npc' = [npc EXCEPT ![n] = e]
      /\ k \in Int /\ size' = [size EXCEPT ![n] = size[n] + k]
      /\ k = One(apc[n]) - One(c) - (One(npc[n]) - One(e))
      /\ One(c) <= One(apc[n]) /\ One(e) <= One(npc[n])
  BY DEF CallMove
<1>1. /\ size \in [Nodes -> Int] /\ base \in [Nodes -> 0 .. MaxAdds] /\ up \in [Nodes -> BOOLEAN]
      /\ apc \in [Nodes -> {"idle", "count"}] /\ npc \in [Nodes -> {"idle", "pop", "count"}]
      /\ now \in 0 .. MaxTime /\ adds \in 0 .. MaxAdds /\ zset \subseteq Entries /\ lost \in BOOLEAN
      /\ IsFiniteSet(zset) /\ Cardinality(zset) <= adds /\ Cardinality(zset) \in Nat
      /\ IsFiniteSet(Nodes)
  BY RedisTypes DEF RedisInd, TypeOK
<1>2. PICK Z : Z = zset' /\ Z = zset
  BY <1>0
<1>3. PICK q : q = apc'
  BY <1>0
<1>4. PICK r : r = npc'
  BY <1>0
<1>5. PICK L : L = LocalChanges'
  BY <1>0
<1>6. L = LocalChanges + k /\ LocalChanges \in Int
  BY <1>0, <1>5, ChangesMove
<1>7. AtNow(q, apc, n, c) /\ AtNow(r, npc, n, e)
  BY <1>0, <1>1, <1>3, <1>4 DEF AtNow
<1>8. Cardinality(Counting(q)) = Cardinality(Counting(apc)) - One(apc[n]) + One(c)
  BY <1>0, <1>1, <1>7, CountingChange
<1>9. Cardinality(Counting(r)) = Cardinality(Counting(npc)) - One(npc[n]) + One(e)
  BY <1>0, <1>1, <1>7, CountingChange
<1>10. One(c) \in Nat /\ One(e) \in Nat /\ One(apc[n]) \in Nat /\ One(npc[n]) \in Nat
  BY DEF One
<1>11. ~lost' => Cardinality(Z) = L + Cardinality(Counting(q)) - Cardinality(Counting(r))
  <2>1. Cardinality(Counting(apc)) \in Nat /\ Cardinality(Counting(npc)) \in Nat
    BY RedisTypes
  <2>2. ~lost => Cardinality(zset) = LocalChanges + Cardinality(Counting(apc)) - Cardinality(Counting(npc))
    BY DEF RedisInd, CountersMatchSet
  <2>3. QED
    BY <1>0, <1>2, <1>6, <1>8, <1>9, <1>10, <2>1, <2>2
<1>12. \A j \in Nodes : /\ size'[j] = IF j = n THEN size[j] + k ELSE size[j]
                        /\ apc'[j] = IF j = n THEN c ELSE apc[j]
                        /\ npc'[j] = IF j = n THEN e ELSE npc[j]
  BY <1>0, <1>1
<1>13. ASSUME NEW j \in Nodes
       PROVE  /\ size'[j] + One(apc'[j]) <= adds'
              /\ Cardinality(Z) + One(npc'[j]) - size'[j] <= adds'
  <2>1. /\ size[j] + One(apc[j]) <= adds /\ size[j] \in Int
        /\ Cardinality(zset) + One(npc[j]) - size[j] <= adds
    BY <1>0, <1>1 DEF RedisInd, RoomInv
  <2>2. CASE j = n
    BY <1>0, <1>1, <1>2, <1>10, <1>12, <2>1, <2>2
  <2>3. CASE j # n
    BY <1>0, <1>2, <1>12, <2>1, <2>3
  <2>4. QED
    BY <1>0, <2>2, <2>3
<1>14. \A j \in Nodes : ~up'[j] =>
               apc'[j] = "idle" /\ npc'[j] = "idle" /\ size'[j] = 0 /\ base'[j] = 0
  BY <1>0, <1>12 DEF RedisInd, DownInv
<1>15. size' \in [Nodes -> Int]
  <2>1. size[n] + k \in Int
    BY <1>0, <1>1
  <2>2. QED
    BY <1>0, <1>1, <2>1
<1>16. apc' \in [Nodes -> {"idle", "count"}] /\ npc' \in [Nodes -> {"idle", "pop", "count"}]
  BY <1>0, <1>1
<1>17. /\ base' \in [Nodes -> 0 .. MaxAdds] /\ up' \in [Nodes -> BOOLEAN]
       /\ now' \in 0 .. MaxTime /\ adds' \in 0 .. MaxAdds /\ zset' \subseteq Entries /\ lost' \in BOOLEAN
       /\ IsFiniteSet(Z) /\ Cardinality(Z) <= adds'
  BY <1>0, <1>1, <1>2
<1>18. CountersMatchSet'
  BY <1>0, <1>2, <1>3, <1>4, <1>5, <1>11 DEF CountersMatchSet, Counting
<1>19. RoomInv'
  BY <1>0, <1>2, <1>13 DEF RoomInv, One
<1>20. DownInv'
  BY <1>0, <1>14 DEF DownInv
<1>21. IsFiniteSet(zset)' /\ Cardinality(zset)' <= adds'
  BY <1>0, <1>2, <1>17
<1>22. QED
  BY <1>0, <1>15, <1>16, <1>17, <1>18, <1>19, <1>20, <1>21, RedisNext

\* What becomes of the set, of Add calls and of a process's call, when the
\* counters stay.
SetMove(n, c, e, Z, a, z) ==
    /\ UNCHANGED <<size, base, up, closed, now>> /\ up[n]
    /\ popped' \in [Nodes -> Entries \cup {NoEntry}] /\ lost' \in BOOLEAN /\ (lost => lost')
    /\ c \in {"idle", "count"} /\ apc' = [apc EXCEPT ![n] = c]
    /\ e \in {"idle", "pop", "count"} /\ npc' = [npc EXCEPT ![n] = e]
    /\ Z = zset' /\ Z \subseteq Entries /\ IsFiniteSet(Z)
    /\ a \in 0 .. 1 /\ adds' = adds + a /\ adds + a <= MaxAdds
    /\ z \in Int /\ Cardinality(Z) = Cardinality(zset) + z
    /\ z <= a /\ One(c) - One(apc[n]) <= a /\ z + One(e) - One(npc[n]) <= a
    /\ ~lost' => z = One(c) - One(apc[n]) - (One(e) - One(npc[n]))

LEMMA CountersStay ==
    ASSUME RedisInd, NEW n \in Nodes, NEW c, NEW e, NEW Z, NEW a, NEW z, SetMove(n, c, e, Z, a, z)
    PROVE  RedisInd'
<1>0. /\ UNCHANGED <<size, base, up, closed, now>> /\ up[n]
      /\ popped' \in [Nodes -> Entries \cup {NoEntry}] /\ lost' \in BOOLEAN /\ (lost => lost')
      /\ c \in {"idle", "count"} /\ apc' = [apc EXCEPT ![n] = c]
      /\ e \in {"idle", "pop", "count"} /\ npc' = [npc EXCEPT ![n] = e]
      /\ Z = zset' /\ Z \subseteq Entries /\ IsFiniteSet(Z)
      /\ a \in 0 .. 1 /\ adds' = adds + a /\ adds + a <= MaxAdds
      /\ z \in Int /\ Cardinality(Z) = Cardinality(zset) + z
      /\ z <= a /\ One(c) - One(apc[n]) <= a /\ z + One(e) - One(npc[n]) <= a
      /\ ~lost' => z = One(c) - One(apc[n]) - (One(e) - One(npc[n]))
  BY DEF SetMove
<1>1. /\ size \in [Nodes -> Int] /\ base \in [Nodes -> 0 .. MaxAdds] /\ up \in [Nodes -> BOOLEAN]
      /\ apc \in [Nodes -> {"idle", "count"}] /\ npc \in [Nodes -> {"idle", "pop", "count"}]
      /\ now \in 0 .. MaxTime /\ adds \in 0 .. MaxAdds /\ lost \in BOOLEAN
      /\ closed \in [Nodes -> BOOLEAN]
      /\ Cardinality(zset) <= adds /\ Cardinality(zset) \in Nat
      /\ IsFiniteSet(Nodes) /\ MaxAdds \in Nat
  BY RedisTypes DEF RedisInd, TypeOK
<1>2. PICK q : q = apc'
  OBVIOUS
<1>3. PICK r : r = npc'
  OBVIOUS
<1>4. LocalChanges' = LocalChanges /\ LocalChanges \in Int
  BY <1>0, ChangesStay, ChangesInt
<1>5. AtNow(q, apc, n, c) /\ AtNow(r, npc, n, e)
  BY <1>0, <1>1, <1>2, <1>3 DEF AtNow
<1>6. Cardinality(Counting(q)) = Cardinality(Counting(apc)) - One(apc[n]) + One(c)
  BY <1>0, <1>1, <1>5, CountingChange
<1>7. Cardinality(Counting(r)) = Cardinality(Counting(npc)) - One(npc[n]) + One(e)
  BY <1>0, <1>1, <1>5, CountingChange
<1>8. One(c) \in Nat /\ One(e) \in Nat /\ One(apc[n]) \in Nat /\ One(npc[n]) \in Nat
  BY DEF One
<1>9. ~lost' => Cardinality(Z) = LocalChanges + Cardinality(Counting(q)) - Cardinality(Counting(r))
  <2>1. Cardinality(Counting(apc)) \in Nat /\ Cardinality(Counting(npc)) \in Nat
    BY RedisTypes
  <2>2. ~lost => Cardinality(zset) = LocalChanges + Cardinality(Counting(apc)) - Cardinality(Counting(npc))
    BY DEF RedisInd, CountersMatchSet
  <2>3. QED
    BY <1>0, <1>1, <1>4, <1>6, <1>7, <1>8, <2>1, <2>2
<1>10. CountersMatchSet'
  BY <1>0, <1>2, <1>3, <1>4, <1>9 DEF CountersMatchSet, Counting
<1>11. \A j \in Nodes : /\ apc'[j] = IF j = n THEN c ELSE apc[j]
                        /\ npc'[j] = IF j = n THEN e ELSE npc[j]
  BY <1>0, <1>1
<1>12. ASSUME NEW j \in Nodes
       PROVE  /\ size[j] + One(apc'[j]) <= adds + a
              /\ Cardinality(Z) + One(npc'[j]) - size[j] <= adds + a
  <2>1. /\ size[j] + One(apc[j]) <= adds /\ size[j] \in Int
        /\ Cardinality(zset) + One(npc[j]) - size[j] <= adds
        /\ One(apc[j]) \in Nat /\ One(npc[j]) \in Nat
    BY <1>1 DEF RedisInd, RoomInv, One
  <2>2. CASE j = n
    BY <1>0, <1>1, <1>8, <1>11, <2>1, <2>2
  <2>3. CASE j # n
    BY <1>0, <1>1, <1>11, <2>1, <2>3
  <2>4. QED
    BY <2>2, <2>3
<1>13. RoomInv'
  BY <1>0, <1>12 DEF RoomInv, One
<1>14. DownInv'
  BY <1>0, <1>11 DEF RedisInd, DownInv
<1>15. IsFiniteSet(zset)' /\ Cardinality(zset)' <= adds' /\ adds' \in 0 .. MaxAdds
  <2>1. Cardinality(Z) <= adds + a /\ adds + a \in 0 .. MaxAdds
    BY <1>0, <1>1
  <2>2. QED
    BY <1>0, <2>1
<1>16. apc' \in [Nodes -> {"idle", "count"}] /\ npc' \in [Nodes -> {"idle", "pop", "count"}]
  BY <1>0, <1>1
<1>17. QED
  BY <1>0, <1>1, <1>10, <1>13, <1>14, <1>15, <1>16, RedisNext

\* ZADD: a new member, or none.
LEMMA AddStep ==
    ASSUME RedisInd, NEW n \in Nodes, NEW e \in Entries, AddSend(n, e) \/ AddLost(n, e)
    PROVE  RedisInd'
<1>1. /\ UNCHANGED <<size, base, up, closed, now, npc, popped>> /\ up[n]
      /\ adds' = adds + 1 /\ adds < MaxAdds /\ zset' = zset \cup {e} /\ apc[n] = "idle"
  BY DEF AddSend, AddLost
<1>2. /\ zset \subseteq Entries /\ IsFiniteSet(zset) /\ Cardinality(zset) \in Nat
      /\ popped \in [Nodes -> Entries \cup {NoEntry}] /\ lost \in BOOLEAN
      /\ apc \in [Nodes -> {"idle", "count"}] /\ npc \in [Nodes -> {"idle", "pop", "count"}]
      /\ adds \in Nat /\ MaxAdds \in Nat
  BY RedisTypes DEF RedisInd, TypeOK
<1>3. PICK Z : Z = zset' /\ Z = zset \cup {e}
  BY <1>1
<1>4. /\ IsFiniteSet(Z) /\ Z \subseteq Entries
      /\ Cardinality(Z) = IF e \in zset THEN Cardinality(zset) ELSE Cardinality(zset) + 1
  BY <1>2, <1>3, FS_AddElement
<1>5. PICK z \in {0, 1} : z = (IF e \in zset THEN 0 ELSE 1) /\ Cardinality(Z) = Cardinality(zset) + z
  BY <1>2, <1>4
<1>6. npc' = [npc EXCEPT ![n] = npc[n]] /\ npc[n] \in {"idle", "pop", "count"} /\ One(npc[n]) \in Nat
  BY <1>1, <1>2 DEF One
<1>7. adds + 1 <= MaxAdds /\ One("idle") = 0 /\ One("count") = 1
  BY <1>1, <1>2 DEF One
<1>8. PICK c \in {"idle", "count"} :
          /\ apc' = [apc EXCEPT ![n] = c] /\ lost' \in BOOLEAN /\ (lost => lost')
          /\ ~lost' => One(c) = z
          /\ One(c) \in {0, 1}
  <2>1. CASE AddSend(n, e)
    BY <1>2, <1>5, <1>7, <2>1 DEF AddSend
  <2>2. CASE AddLost(n, e)
    <3>1. lost' = TRUE /\ apc' = [apc EXCEPT ![n] = "idle"]
      BY <1>1, <1>2, <2>2 DEF AddLost
    <3>2. QED
      BY <1>7, <3>1
  <2>3. QED
    BY <2>1, <2>2
<1>9. /\ z <= 1 /\ One(c) - One(apc[n]) <= 1 /\ z + One(npc[n]) - One(npc[n]) <= 1
      /\ ~lost' => z = One(c) - One(apc[n]) - (One(npc[n]) - One(npc[n]))
      /\ z \in Int /\ 1 \in 0 .. 1
  BY <1>1, <1>5, <1>6, <1>7, <1>8
<1>10. SetMove(n, c, npc[n], Z, 1, z)
  BY <1>1, <1>2, <1>3, <1>4, <1>5, <1>6, <1>7, <1>8, <1>9 DEF SetMove
<1>11. QED
  BY <1>10, CountersStay

\* BZPOPMIN: one member leaves.
LEMMA PopStep ==
    ASSUME RedisInd, NEW n \in Nodes, NextPop(n) \/ NextLost(n)
    PROVE  RedisInd'
<1>1. /\ UNCHANGED <<size, base, up, closed, now, apc, adds>> /\ npc[n] = "pop"
  BY DEF NextPop, NextLost
<1>2. /\ zset \subseteq Entries /\ IsFiniteSet(zset) /\ Cardinality(zset) \in Nat
      /\ popped \in [Nodes -> Entries \cup {NoEntry}] /\ lost \in BOOLEAN
      /\ apc \in [Nodes -> {"idle", "count"}] /\ npc \in [Nodes -> {"idle", "pop", "count"}]
      /\ adds \in 0 .. MaxAdds /\ MaxAdds \in Nat /\ up[n]
  BY <1>1, RedisTypes DEF RedisInd, TypeOK, DownInv
<1>3. PICK e \in zset : zset' = zset \ {e} /\ popped' \in [Nodes -> Entries \cup {NoEntry}]
  <2>1. Least \subseteq zset
    BY DEF Least
  <2>2. QED
    BY <1>2, <2>1 DEF NextPop, NextLost
<1>4. PICK Z : Z = zset' /\ Z = zset \ {e}
  BY <1>3
<1>5. IsFiniteSet(Z) /\ Z \subseteq Entries /\ Cardinality(Z) = Cardinality(zset) + (-1)
  <2>1. /\ IsFiniteSet(zset \ {e})
        /\ Cardinality(zset \ {e}) = IF e \in zset THEN Cardinality(zset) - 1 ELSE Cardinality(zset)
    BY <1>2, FS_RemoveElement
  <2>2. QED
    BY <1>2, <1>4, <2>1
<1>6. apc' = [apc EXCEPT ![n] = apc[n]] /\ apc[n] \in {"idle", "count"} /\ One(apc[n]) \in Nat
  BY <1>1, <1>2 DEF One
<1>7. One("idle") = 0 /\ One("count") = 1 /\ One("pop") = 0
  BY DEF One
<1>8. PICK c \in {"idle", "pop", "count"} :
          /\ npc' = [npc EXCEPT ![n] = c] /\ lost' \in BOOLEAN /\ (lost => lost')
          /\ ~lost' => One(c) = 1
          /\ One(c) \in {0, 1}
  <2>1. CASE NextPop(n)
    BY <1>2, <1>7, <2>1 DEF NextPop
  <2>2. CASE NextLost(n)
    BY <1>7, <2>2 DEF NextLost
  <2>3. QED
    BY <2>1, <2>2
<1>9. /\ -1 <= 0 /\ One(apc[n]) - One(apc[n]) <= 0 /\ -1 + One(c) - One(npc[n]) <= 0
      /\ ~lost' => -1 = One(apc[n]) - One(apc[n]) - (One(c) - One(npc[n]))
      /\ -1 \in Int /\ 0 \in 0 .. 1 /\ adds' = adds + 0 /\ adds + 0 <= MaxAdds
  BY <1>1, <1>2, <1>6, <1>7, <1>8
<1>10. SetMove(n, apc[n], c, Z, 0, -1)
  BY <1>1, <1>2, <1>3, <1>4, <1>5, <1>6, <1>8, <1>9 DEF SetMove
<1>11. QED
  BY <1>10, CountersStay

\* Calls that begin, end, count or fail, and Close.
LEMMA CallStep ==
    ASSUME RedisInd, NEW n \in Nodes,
           AddCount(n) \/ NextCall(n) \/ NextFail(n) \/ NextCount(n) \/ Close(n)
    PROVE  RedisInd'
<1>1. /\ size \in [Nodes -> Int] /\ closed \in [Nodes -> BOOLEAN]
      /\ popped \in [Nodes -> Entries \cup {NoEntry}]
      /\ apc \in [Nodes -> {"idle", "count"}] /\ npc \in [Nodes -> {"idle", "pop", "count"}]
      /\ size[n] \in Int /\ apc[n] \in {"idle", "count"} /\ npc[n] \in {"idle", "pop", "count"}
  BY RedisTypes DEF RedisInd, TypeOK
<1>2. UNCHANGED <<zset, adds, lost, now, base, up>> /\ up[n]
  BY DEF AddCount, NextCall, NextFail, NextCount, Close, RedisInd, DownInv
<1>3. One("idle") = 0 /\ One("count") = 1 /\ One("pop") = 0 /\ One(apc[n]) \in Nat /\ One(npc[n]) \in Nat
  BY DEF One
<1>4. /\ apc = [apc EXCEPT ![n] = apc[n]] /\ npc = [npc EXCEPT ![n] = npc[n]]
      /\ size = [size EXCEPT ![n] = size[n] + 0]
  BY <1>1
<1>5. CASE AddCount(n)
  <2>1. /\ size' = [size EXCEPT ![n] = size[n] + 1] /\ apc' = [apc EXCEPT ![n] = "idle"]
        /\ UNCHANGED <<npc, popped, closed>> /\ apc[n] = "count"
    BY <1>5 DEF AddCount
  <2>2. CallMove(n, "idle", npc[n], 1)
    BY <1>1, <1>2, <1>3, <1>4, <2>1 DEF CallMove
  <2>3. QED
    BY <2>2, SetStays
<1>6. CASE NextCall(n)
  <2>1. /\ npc' = [npc EXCEPT ![n] = "pop"] /\ UNCHANGED <<apc, popped, closed, size>> /\ npc[n] = "idle"
    BY <1>6 DEF NextCall
  <2>2. CallMove(n, apc[n], "pop", 0)
    BY <1>1, <1>2, <1>3, <1>4, <2>1 DEF CallMove
  <2>3. QED
    BY <2>2, SetStays
<1>7. CASE NextFail(n)
  <2>1. /\ npc' = [npc EXCEPT ![n] = "idle"] /\ UNCHANGED <<apc, popped, closed, size>> /\ npc[n] = "pop"
    BY <1>7 DEF NextFail
  <2>2. CallMove(n, apc[n], "idle", 0)
    BY <1>1, <1>2, <1>3, <1>4, <2>1 DEF CallMove
  <2>3. QED
    BY <2>2, SetStays
<1>8. CASE NextCount(n)
  <2>1. /\ npc' = [npc EXCEPT ![n] = "idle"] /\ UNCHANGED <<apc, closed>> /\ npc[n] = "count"
        /\ popped' = [popped EXCEPT ![n] = NoEntry]
        /\ size' = [size EXCEPT ![n] = size[n] + (-1)]
    BY <1>1, <1>8 DEF NextCount
  <2>2. popped' \in [Nodes -> Entries \cup {NoEntry}]
    BY <1>1, <2>1
  <2>3. CallMove(n, apc[n], "idle", -1)
    BY <1>1, <1>2, <1>3, <1>4, <2>1, <2>2 DEF CallMove
  <2>4. QED
    BY <2>3, SetStays
<1>9. CASE Close(n)
  <2>1. closed' \in [Nodes -> BOOLEAN] /\ UNCHANGED <<apc, npc, popped, size>>
    BY <1>1, <1>9 DEF Close
  <2>2. CallMove(n, apc[n], npc[n], 0)
    BY <1>1, <1>2, <1>3, <1>4, <2>1 DEF CallMove
  <2>3. QED
    BY <2>2, SetStays
<1>10. QED
  BY <1>5, <1>6, <1>7, <1>8, <1>9

\* NewRedisFrontier: the counter starts at what is in the set.
LEMMA NewStep ==
    ASSUME RedisInd, NEW n \in Nodes, NewRedisFrontier(n)
    PROVE  RedisInd'
<1>1. /\ size \in [Nodes -> Int] /\ base \in [Nodes -> 0 .. MaxAdds] /\ up \in [Nodes -> BOOLEAN]
      /\ apc \in [Nodes -> {"idle", "count"}] /\ npc \in [Nodes -> {"idle", "pop", "count"}]
      /\ now \in 0 .. MaxTime /\ adds \in 0 .. MaxAdds /\ zset \subseteq Entries /\ lost \in BOOLEAN
      /\ closed \in [Nodes -> BOOLEAN] /\ popped \in [Nodes -> Entries \cup {NoEntry}]
      /\ IsFiniteSet(zset) /\ Cardinality(zset) <= adds /\ MaxAdds \in Nat
  BY RedisTypes DEF RedisInd, TypeOK
<1>2. PICK z \in 0 .. MaxAdds : z = Cardinality(zset) /\ z <= adds
  BY <1>1, RedisTypes
<1>3. /\ UNCHANGED <<now, zset, closed, apc, npc, popped, adds, lost>> /\ ~up[n]
      /\ up' = [up EXCEPT ![n] = TRUE]
      /\ size' = [size EXCEPT ![n] = z] /\ base' = [base EXCEPT ![n] = z]
  BY <1>2 DEF NewRedisFrontier
<1>4. apc[n] = "idle" /\ npc[n] = "idle" /\ size[n] = 0 /\ base[n] = 0
  BY <1>3 DEF RedisInd, DownInv
<1>5. \A j \in Nodes : /\ size'[j] = IF j = n THEN z ELSE size[j]
                       /\ base'[j] = IF j = n THEN z ELSE base[j]
                       /\ up'[j] = IF j = n THEN TRUE ELSE up[j]
  BY <1>1, <1>3
<1>6. LocalChanges' = LocalChanges
  <2>1. ASSUME NEW j \in Nodes PROVE size'[j] - base'[j] = size[j] - base[j]
    <3>1. CASE j = n
      <4>1. size'[j] = z /\ base'[j] = z /\ size[j] = 0 /\ base[j] = 0
        BY <1>4, <1>5, <3>1
      <4>2. z \in Int
        BY <1>2
      <4>3. QED
        BY <4>1, <4>2
    <3>2. CASE j # n
      BY <1>5, <3>2
    <3>3. QED
      BY <3>1, <3>2
  <2>2. Moved' = Moved
    BY <2>1 DEF Moved
  <2>3. LocalChanges' = SumFunction(Moved') /\ LocalChanges = SumFunction(Moved)
    BY DEF LocalChanges, Moved
  <2>4. QED
    BY <2>2, <2>3
<1>7. CountersMatchSet'
  BY <1>3, <1>6 DEF RedisInd, CountersMatchSet, Counting
<1>8. RoomInv'
  <2>1. ASSUME NEW j \in Nodes
        PROVE  /\ size'[j] + One(apc[j]) <= adds
               /\ Cardinality(zset) + One(npc[j]) - size'[j] <= adds
    <3>1. CASE j = n
      <4>1. size'[j] = z /\ One(apc[j]) = 0 /\ One(npc[j]) = 0 /\ Cardinality(zset) = z
        BY <1>2, <1>4, <1>5, <3>1 DEF One
      <4>2. z \in Nat /\ adds \in Nat /\ z <= adds
        BY <1>1, <1>2
      <4>3. QED
        BY <4>1, <4>2
    <3>2. CASE j # n
      BY <1>5, <3>2 DEF RedisInd, RoomInv
    <3>3. QED
      BY <3>1, <3>2
  <2>2. QED
    BY <1>3, <2>1 DEF RoomInv, One
<1>9. DownInv'
  BY <1>3, <1>5 DEF RedisInd, DownInv
<1>10. /\ size' \in [Nodes -> Int] /\ base' \in [Nodes -> 0 .. MaxAdds]
       /\ up' \in [Nodes -> BOOLEAN]
  BY <1>1, <1>2, <1>3
<1>11. QED
  BY <1>1, <1>3, <1>7, <1>8, <1>9, <1>10, RedisNext

LEMMA RedisStep == ASSUME RedisInd, [Next]_vars PROVE RedisInd'
<1>1. CASE Tick \/ UNCHANGED vars
  <2>1. UNCHANGED <<zset, size, closed, base, up, apc, npc, popped, adds, lost>>
    BY <1>1 DEF Tick, vars
  <2>2. now' \in 0 .. MaxTime
    BY <1>1, RedisTypes DEF Tick, vars
  <2>3. LocalChanges' = LocalChanges
    BY <2>1, ChangesStay
  <2>4. CountersMatchSet'
    BY <2>1, <2>3 DEF RedisInd, CountersMatchSet, Counting
  <2>5. DownInv' /\ RoomInv'
    BY <2>1 DEF RedisInd, DownInv, RoomInv, One
  <2>6. TypeOK'
    BY <2>1, <2>2 DEF RedisInd, TypeOK
  <2>7. QED
    BY <2>1, <2>4, <2>5, <2>6 DEF RedisInd
<1>2. QED
  BY <1>1, AddStep, PopStep, CallStep, NewStep DEF Next

\* A score puts priority before age: an entry of a better priority, or of the
\* same and older, has the lower one.
LEMMA ScoreOrder ==
    ASSUME NEW e \in Entries, NEW f \in Entries, Before(f, e)
    PROVE  ~(ScoreFor(e) <= ScoreFor(f))
<1>1. /\ MaxTime \in Nat /\ Band \in Nat /\ MaxTime < Band
      /\ e.prio \in 0 .. 3 /\ f.prio \in 0 .. 3 /\ e.at \in 0 .. MaxTime /\ f.at \in 0 .. MaxTime
  BY RedisAssumption DEF Entries
<1>2. \A p \in 0 .. 3 : p = 0 \/ p = 1 \/ p = 2 \/ p = 3
  OBVIOUS
<1>3. CASE f.prio = e.prio /\ f.at < e.at
  <2>1. e.prio * Band \in Int
    BY <1>1
  <2>2. QED
    BY <1>1, <1>3, <2>1 DEF ScoreFor
<1>4. CASE f.prio < e.prio
  <2>1. e.prio * Band >= f.prio * Band + Band
    BY <1>1, <1>2, <1>4
  <2>2. e.prio * Band \in Int /\ f.prio * Band \in Int
    BY <1>1
  <2>3. QED
    BY <1>1, <2>1, <2>2 DEF ScoreFor
<1>5. QED
  BY <1>3, <1>4 DEF Before

\* What is popped precedes everything it leaves.
LEMMA PopsBest ==
    ASSUME RedisInd, [Next]_vars, NEW n \in Nodes, npc[n] = "pop", npc'[n] = "count",
           NEW f \in zset'
    PROVE  ~Before(f, popped'[n])
<1>1. npc \in [Nodes -> {"idle", "pop", "count"}] /\ zset \subseteq Entries
      /\ popped \in [Nodes -> Entries \cup {NoEntry}]
  BY DEF RedisInd, TypeOK
<1>2. NextPop(n)
  <2>1. CASE Tick \/ UNCHANGED vars
    BY <2>1 DEF Tick, vars
  <2>2. ASSUME NEW m \in Nodes, NewRedisFrontier(m) \/ AddCount(m) \/ Close(m)
                   \/ \E e \in Entries : AddSend(m, e) \/ AddLost(m, e)
        PROVE  FALSE
    BY <2>2 DEF NewRedisFrontier, AddCount, Close, AddSend, AddLost
  <2>3. ASSUME NEW m \in Nodes, NextCall(m) \/ NextLost(m) \/ NextFail(m) \/ NextCount(m)
        PROVE  FALSE
    BY <1>1, <2>3 DEF NextCall, NextLost, NextFail, NextCount
  <2>4. ASSUME NEW m \in Nodes, NextPop(m) PROVE m = n
    BY <1>1, <2>4 DEF NextPop
  <2>5. QED
    BY <2>1, <2>2, <2>3, <2>4 DEF Next
<1>3. PICK e \in Least : zset' = zset \ {e} /\ popped' = [popped EXCEPT ![n] = e]
  BY <1>2 DEF NextPop
<1>4. popped'[n] = e /\ e \in Entries /\ f \in Entries /\ ScoreFor(e) <= ScoreFor(f)
  BY <1>1, <1>3 DEF Least
<1>5. QED
  BY <1>4, ScoreOrder

\* RedisOK: for any processes that share the sorted set and with replies lost or
\* not, entries come out by priority and age, and without a lost reply the
\* counters that the processes keep for themselves add up to what is in the set
\* (Add, Next, Size and scoreFor of the Redis frontier).
THEOREM RedisCorrect == Spec => RedisOK
<1>1. Init => RedisInd
  BY RedisStart
<1>2. RedisInd /\ [Next]_vars => RedisInd'
  BY RedisStep
<1>3. RedisInd => TypeOK /\ CountersMatchSet
  BY DEF RedisInd
<1>4. RedisInd /\ [Next]_vars =>
        [\A n \in Nodes : npc[n] = "pop" /\ npc'[n] = "count" =>
            \A f \in zset' : ~Before(f, popped'[n])]_vars
  BY PopsBest
<1>5. QED
  BY <1>1, <1>2, <1>3, <1>4, PTL DEF Spec, RedisOK, BestFirst

-----------------------------------------------------------------------------
(* Canonical: sorting the parameters *)

Params == Int \X Int
Occurs(q, x) == {i \in DOMAIN q : q[i] = x}
Count(q, x) == Cardinality(Occurs(q, x))
Ordered(q) == \A i, j \in DOMAIN q : i < j => C!Before(q[i], q[j])

\* The order of parameters is linear.
LEMMA BeforeLinear ==
    /\ \A x \in Params : C!Before(x, x)
    /\ \A x, y \in Params : C!Before(x, y) \/ C!Before(y, x)
    /\ \A x, y \in Params : C!Before(x, y) /\ C!Before(y, x) => x = y
    /\ \A x, y, z \in Params : C!Before(x, y) /\ C!Before(y, z) => C!Before(x, z)
<1>1. \A x \in Params : x[1] \in Int /\ x[2] \in Int /\ x = <<x[1], x[2]>>
  BY DEF Params
<1>2. \A x \in Params : C!Before(x, x)
  BY <1>1 DEF C!Before
<1>3. \A x, y \in Params : C!Before(x, y) \/ C!Before(y, x)
  BY <1>1 DEF C!Before
<1>4. \A x, y \in Params : C!Before(x, y) /\ C!Before(y, x) => x = y
  BY <1>1 DEF C!Before
<1>5. \A x, y, z \in Params : C!Before(x, y) /\ C!Before(y, z) => C!Before(x, z)
  BY <1>1 DEF C!Before
<1>6. QED
  BY <1>2, <1>3, <1>4, <1>5

IsOrder(q, n, p) ==
    /\ p \in [1 .. n -> 1 .. n]
    /\ \A i, j \in 1 .. n : p[i] = p[j] => i = j
    /\ \A k \in 1 .. n : \E i \in 1 .. n : p[i] = k
    /\ \A i, j \in 1 .. n : i < j => C!Before(q[p[i]], q[p[j]])

LEMMA OrdersAre ==
    ASSUME NEW q \in Seq(Params), NEW n, n = Len(q), NEW p
    PROVE  p \in C!Orders(q) <=> IsOrder(q, n, p)
<1>1. DOMAIN q = 1 .. n
  OBVIOUS
<1>2. p \in C!Bijection(1 .. n, 1 .. n) <=>
        /\ p \in [1 .. n -> 1 .. n]
        /\ \A i, j \in 1 .. n : p[i] = p[j] => i = j
        /\ \A k \in 1 .. n : \E i \in 1 .. n : p[i] = k
  BY DEF C!Bijection, C!Injection, C!Surjection, C!IsInjective
<1>3. QED
  BY <1>1, <1>2 DEF C!Orders, IsOrder

\* The least number of a set of numbers.
LEMMA LeastOf ==
    ASSUME NEW S, S \subseteq Nat, S # {}
    PROVE  \E k \in S : \A j \in S : k <= j
<1> DEFINE R == OpToRel(<, Nat)
<1>1. IsWellFoundedOn(R, Nat)
  BY NatLessThanWellFounded DEF OpToRel
<1>2. \A m, n \in Nat : m < n => <<m, n>> \in R
  BY DEF OpToRel
<1> HIDE DEF R
<1>3. PICK x \in S : \A y \in S : ~ (<<y, x>> \in R)
  BY <1>1, WFMin
<1>4. ASSUME NEW j \in S PROVE x <= j
  <2>1. x \in Nat /\ j \in Nat /\ ~(j < x)
    BY <1>2, <1>3
  <2>2. QED
    BY <2>1
<1>5. QED
  BY <1>4

\* Putting the last parameter where it belongs among the others.
Inserted(q, n, p, k) ==
    /\ n \in Nat /\ Len(q) = n + 1 /\ q \in Seq(Params)
    /\ IsOrder(q, n, p) /\ k \in 1 .. n + 1
    /\ \A i \in 1 .. n : i < k => C!Before(q[p[i]], q[n + 1])
    /\ k <= n => ~C!Before(q[p[k]], q[n + 1])

LEMMA InsertOrder ==
    ASSUME NEW q, NEW n, NEW p, NEW k, Inserted(q, n, p, k)
    PROVE  C!Orders(q) # {}
<1> DEFINE o == [i \in 1 .. n + 1 |-> IF i < k THEN p[i] ELSE IF i = k THEN n + 1 ELSE p[i - 1]]
<1>1. /\ n \in Nat /\ DOMAIN q = 1 .. n + 1 /\ q \in Seq(Params) /\ k \in 1 .. n + 1
      /\ p \in [1 .. n -> 1 .. n] /\ Len(q) = n + 1
  BY DEF Inserted, IsOrder
<1>2. \A i \in 1 .. n + 1 : q[i] \in Params
  BY <1>1
<1>3. \A i \in 1 .. n + 1 : /\ i < k => i \in 1 .. n /\ o[i] = p[i]
                            /\ i = k => o[i] = n + 1
                            /\ i > k => i - 1 \in 1 .. n /\ o[i] = p[i - 1]
  BY <1>1
<1>4. \A i \in 1 .. n : p[i] \in 1 .. n /\ p[i] # n + 1 /\ q[p[i]] \in Params
  BY <1>1, <1>2
<1>5. o \in [1 .. n + 1 -> 1 .. n + 1]
  BY <1>1
<1> HIDE DEF o
<1>6. ASSUME NEW i \in 1 .. n + 1, NEW j \in 1 .. n + 1, o[i] = o[j] PROVE i = j
  <2>1. \A a, b \in 1 .. n : p[a] = p[b] => a = b
    BY DEF Inserted, IsOrder
  <2>2. i \in Int /\ j \in Int /\ k \in Int
    BY <1>1
  <2>3. CASE i = k \/ j = k
    BY <1>3, <1>4, <1>6, <2>2, <2>3
  <2>4. CASE i < k /\ j < k
    BY <1>3, <1>6, <2>1, <2>4
  <2>5. CASE i > k /\ j > k
    <3>1. i - 1 = j - 1
      BY <1>3, <1>6, <2>1, <2>5
    <3>2. QED
      BY <2>2, <3>1
  <2>6. CASE i < k /\ j > k
    <3>1. i = j - 1
      BY <1>3, <1>6, <2>1, <2>6
    <3>2. QED
      BY <2>2, <2>6, <3>1
  <2>7. CASE i > k /\ j < k
    <3>1. i - 1 = j
      BY <1>3, <1>6, <2>1, <2>7
    <3>2. QED
      BY <2>2, <2>7, <3>1
  <2>8. QED
    BY <2>2, <2>3, <2>4, <2>5, <2>6, <2>7
<1>7. ASSUME NEW m \in 1 .. n + 1 PROVE \E i \in 1 .. n + 1 : o[i] = m
  <2>1. CASE m = n + 1
    BY <1>1, <1>3, <2>1
  <2>2. CASE m # n + 1
    <3>1. m \in 1 .. n
      BY <1>1, <2>2
    <3>2. PICK a \in 1 .. n : p[a] = m
      BY <3>1 DEF Inserted, IsOrder
    <3>3. CASE a < k
      <4>1. a \in 1 .. n + 1
        BY <1>1
      <4>2. QED
        BY <1>3, <3>2, <3>3, <4>1
    <3>4. CASE ~(a < k)
      <4>1. a + 1 \in 1 .. n + 1 /\ a + 1 > k /\ (a + 1) - 1 = a
        BY <1>1, <3>4
      <4>2. QED
        BY <1>3, <3>2, <4>1
    <3>5. QED
      BY <3>3, <3>4
  <2>3. QED
    BY <2>1, <2>2
<1>8. ASSUME NEW i \in 1 .. n + 1, NEW j \in 1 .. n + 1, i < j
      PROVE  C!Before(q[o[i]], q[o[j]])
  <2>1. i \in Int /\ j \in Int /\ k \in Int
    BY <1>1
  <2>2. \A a, b \in 1 .. n : a < b => C!Before(q[p[a]], q[p[b]])
    BY DEF Inserted, IsOrder
  <2>3. CASE j < k
    BY <1>3, <1>8, <2>1, <2>2, <2>3
  <2>4. CASE j = k
    <3>1. o[i] = p[i] /\ i \in 1 .. n /\ o[j] = n + 1
      BY <1>3, <1>8, <2>4
    <3>2. QED
      BY <1>8, <2>4, <3>1 DEF Inserted
  <2>5. CASE j > k /\ i < k
    <3>1. o[i] = p[i] /\ i \in 1 .. n /\ o[j] = p[j - 1] /\ j - 1 \in 1 .. n
      BY <1>3, <2>5
    <3>2. i < j - 1
      BY <2>1, <2>5
    <3>3. QED
      BY <2>2, <3>1, <3>2
  <2>6. CASE i > k
    <3>1. o[i] = p[i - 1] /\ i - 1 \in 1 .. n /\ o[j] = p[j - 1] /\ j - 1 \in 1 .. n
      BY <1>3, <1>8, <2>1, <2>6
    <3>2. i - 1 < j - 1
      BY <1>8, <2>1
    <3>3. QED
      BY <2>2, <3>1, <3>2
  <2>7. CASE i = k
    <3>1. o[i] = n + 1 /\ o[j] = p[j - 1] /\ j - 1 \in 1 .. n /\ k <= j - 1 /\ k \in 1 .. n
      BY <1>1, <1>3, <1>8, <2>1, <2>7
    <3>2. ~C!Before(q[p[k]], q[n + 1])
      BY <3>1 DEF Inserted
    <3>3. q[p[k]] \in Params /\ q[n + 1] \in Params /\ q[p[j - 1]] \in Params
      BY <1>1, <1>4, <1>2, <3>1
    <3>4. C!Before(q[n + 1], q[p[k]])
      BY <3>2, <3>3, BeforeLinear
    <3>5. C!Before(q[p[k]], q[p[j - 1]])
      <4>1. CASE k = j - 1
        BY <3>3, <4>1, BeforeLinear
      <4>2. CASE k < j - 1
        BY <2>2, <3>1, <4>2
      <4>3. QED
        BY <2>1, <3>1, <4>1, <4>2
    <3>6. QED
      BY <3>1, <3>3, <3>4, <3>5, BeforeLinear
  <2>8. QED
    BY <2>1, <2>3, <2>4, <2>5, <2>6, <2>7
<1>9. o \in C!Orders(q)
  <2>1. IsOrder(q, n + 1, o)
    BY <1>5, <1>6, <1>7, <1>8 DEF IsOrder
  <2>2. QED
    BY <1>1, <2>1, OrdersAre
<1>10. QED
  BY <1>9

\* There is a sorted order of every list of parameters, by induction on its length.
LEMMA OrdersExist == ASSUME NEW q \in Seq(Params) PROVE C!Orders(q) # {}
<1> DEFINE Good == {n \in Nat : \A r \in Seq(Params) : Len(r) = n => C!Orders(r) # {}}
<1>1. 0 \in Good
  <2> SUFFICES ASSUME NEW r \in Seq(Params), Len(r) = 0 PROVE C!Orders(r) # {}
    OBVIOUS
  <2> DEFINE p == [i \in 1 .. 0 |-> i]
  <2>1. IsOrder(r, 0, p)
    BY DEF IsOrder
  <2> HIDE DEF p
  <2>2. QED
    BY <2>1, OrdersAre
<1>2. ASSUME NEW n \in Nat, n \in Good PROVE n + 1 \in Good
  <2> SUFFICES ASSUME NEW r \in Seq(Params), Len(r) = n + 1 PROVE C!Orders(r) # {}
    OBVIOUS
  <2> DEFINE f == [i \in 1 .. n |-> r[i]]
  <2>1. DOMAIN r = 1 .. n + 1 /\ \A i \in 1 .. n + 1 : r[i] \in Params
    OBVIOUS
  <2>2. f \in Seq(Params) /\ Len(f) = n /\ DOMAIN f = 1 .. n /\ \A i \in 1 .. n : f[i] = r[i]
    BY <2>1
  <2> HIDE DEF f
  <2>3. C!Orders(f) # {}
    BY <1>2, <2>2
  <2>4. PICK p : p \in C!Orders(f)
    BY <2>3
  <2>5. IsOrder(f, n, p)
    BY <2>2, <2>4, OrdersAre
  <2>6. \A i \in 1 .. n : f[p[i]] = r[p[i]]
    BY <2>2, <2>5 DEF IsOrder
  <2>7. PICK k \in 1 .. n + 1 :
          /\ \A i \in 1 .. n : i < k => C!Before(r[p[i]], r[n + 1])
          /\ k <= n => ~C!Before(r[p[k]], r[n + 1])
    <3> DEFINE Late == {i \in 1 .. n : ~C!Before(r[p[i]], r[n + 1])} \cup {n + 1}
    <3>1. Late \subseteq Nat /\ Late # {} /\ Late \subseteq 1 .. n + 1
      OBVIOUS
    <3>2. PICK k \in Late : \A j \in Late : k <= j
      <4> HIDE DEF Late
      <4>1. QED
        BY <3>1, LeastOf
    <3>3. k \in 1 .. n + 1 /\ (k <= n => ~C!Before(r[p[k]], r[n + 1]))
      OBVIOUS
    <3>4. \A i \in 1 .. n : i < k => C!Before(r[p[i]], r[n + 1])
      BY <3>2, <3>3
    <3>5. QED
      BY <3>3, <3>4
  <2>8. Inserted(r, n, p, k)
    <3>1. IsOrder(r, n, p)
      BY <2>5, <2>6 DEF IsOrder
    <3>2. QED
      BY <2>7, <3>1 DEF Inserted
  <2>9. QED
    BY <2>8, InsertOrder
<1> HIDE DEF Good
<1>3. Nat \subseteq Good
  BY <1>1, <1>2, SetInduction
<1>4. Len(q) \in Good
  BY <1>3
<1>5. QED
  BY <1>4 DEF Good

LEMMA OccursFinite ==
    ASSUME NEW q \in Seq(Params), NEW x
    PROVE  IsFiniteSet(Occurs(q, x)) /\ Count(q, x) \in Nat
<1>1. IsFiniteSet(1 .. Len(q))
  BY FS_Interval
<1>2. Occurs(q, x) \in SUBSET (1 .. Len(q))
  BY DEF Occurs
<1>3. IsFiniteSet(Occurs(q, x))
  BY <1>1, <1>2, FS_Subset
<1>4. QED
  BY <1>3, FS_CardinalityType DEF Count

\* Sorting orders the parameters, and keeps each as often as it was there.
LEMMA SortedIs ==
    ASSUME NEW q \in Seq(Params)
    PROVE  /\ C!Sorted(q) \in Seq(Params) /\ Ordered(C!Sorted(q))
           /\ \A x : Count(C!Sorted(q), x) = Count(q, x)
<1> DEFINE n == Len(q)
           s == C!Sorted(q)
<1>1. n \in Nat /\ DOMAIN q = 1 .. n /\ \A i \in 1 .. n : q[i] \in Params
  OBVIOUS
<1>2. PICK p : p \in C!Orders(q) /\ s = [i \in DOMAIN q |-> q[p[i]]]
  <2> DEFINE o == CHOOSE o \in C!Orders(q) : TRUE
  <2>1. o \in C!Orders(q)
    BY OrdersExist
  <2>2. s = [i \in DOMAIN q |-> q[o[i]]]
    BY DEF C!Sorted
  <2> HIDE DEF o
  <2>3. QED
    BY <2>1, <2>2
<1>3. IsOrder(q, n, p)
  BY <1>2, OrdersAre
<1>4. \A i \in 1 .. n : p[i] \in 1 .. n
  BY <1>3 DEF IsOrder
<1> HIDE DEF s, n
<1>5. DOMAIN s = 1 .. n /\ \A i \in 1 .. n : s[i] = q[p[i]]
  BY <1>1, <1>2
<1>6. s \in Seq(Params)
  BY <1>1, <1>2, <1>4
<1>7. Ordered(s)
  <2>1. \A i, j \in 1 .. n : i < j => C!Before(q[p[i]], q[p[j]])
    BY <1>3 DEF IsOrder
  <2>2. ASSUME NEW i \in 1 .. n, NEW j \in 1 .. n, i < j PROVE C!Before(s[i], s[j])
    <3>1. s[i] = q[p[i]] /\ s[j] = q[p[j]]
      BY <1>5
    <3>2. QED
      BY <2>1, <2>2, <3>1
  <2>3. QED
    BY <1>5, <2>2 DEF Ordered
<1>8. ASSUME NEW x PROVE Count(s, x) = Count(q, x)
  <2> DEFINE A == Occurs(s, x)
             B == Occurs(q, x)
             g == [i \in A |-> p[i]]
  <2>1. \A i : i \in A <=> i \in 1 .. n /\ q[p[i]] = x
    BY <1>5 DEF Occurs
  <2>2. \A k : k \in B <=> k \in 1 .. n /\ q[k] = x
    BY <1>1 DEF Occurs
  <2> HIDE DEF A, B
  <2>3. g \in [A -> B]
    BY <1>4, <2>1, <2>2
  <2>4. \A i, j \in A : g[i] = g[j] => i = j
    BY <1>3, <2>1 DEF IsOrder
  <2>5. \A k \in B : \E i \in A : g[i] = k
    BY <1>3, <2>1, <2>2 DEF IsOrder
  <2> HIDE DEF g
  <2>6. g \in Bijection(A, B)
    BY <2>3, <2>4, <2>5 DEF Bijection, Injection, Surjection, IsInjective
  <2>7. ExistsBijection(A, B)
    BY <2>6 DEF ExistsBijection
  <2>8. IsFiniteSet(A)
    BY <1>6, OccursFinite DEF A
  <2>9. Cardinality(B) = Cardinality(A)
    BY <2>7, <2>8, FS_Bijection
  <2>10. QED
    BY <2>9 DEF Count, A, B
<1>9. QED
  BY <1>6, <1>7, <1>8 DEF s

\* s and t agree before k, where s has what t has only later or not at all: then
\* it is more often in s.
Apart(s, t, k) ==
    /\ s \in Seq(Params) /\ t \in Seq(Params) /\ Ordered(s) /\ Ordered(t)
    /\ k \in DOMAIN s
    /\ \A i \in Nat : i < k /\ i # 0 => i \in DOMAIN s /\ i \in DOMAIN t /\ s[i] = t[i]
    /\ k \in DOMAIN t => s[k] # t[k] /\ C!Before(s[k], t[k])

LEMMA ApartCounts ==
    ASSUME NEW s, NEW t, NEW k, Apart(s, t, k)
    PROVE  Count(s, s[k]) # Count(t, s[k])
<1>1. /\ s \in Seq(Params) /\ t \in Seq(Params) /\ k \in DOMAIN s /\ Ordered(t)
      /\ \A i \in Nat : i < k /\ i # 0 => i \in DOMAIN s /\ i \in DOMAIN t /\ s[i] = t[i]
      /\ k \in DOMAIN t => s[k] # t[k] /\ C!Before(s[k], t[k])
  BY DEF Apart
<1>2. /\ k \in Nat \ {0} /\ DOMAIN t \subseteq Nat \ {0} /\ s[k] \in Params
      /\ \A i \in DOMAIN t : t[i] \in Params
  BY <1>1
<1>3. DOMAIN t = 1 .. Len(t) /\ Len(t) \in Nat
  BY <1>1
<1>4. ASSUME NEW i \in DOMAIN t, t[i] = s[k] PROVE i < k
  <2>1. SUFFICES ASSUME k <= i PROVE FALSE
    BY <1>2
  <2>2. k \in DOMAIN t
    BY <1>2, <1>3, <2>1
  <2>3. C!Before(t[k], t[i])
    <3>1. CASE k = i
      BY <1>2, <3>1, BeforeLinear
    <3>2. CASE k < i
      BY <1>1, <2>2, <3>2 DEF Ordered
    <3>3. QED
      BY <1>2, <2>1, <3>1, <3>2
  <2>4. C!Before(t[k], s[k]) /\ C!Before(s[k], t[k]) /\ t[k] \in Params
    BY <1>1, <1>2, <1>4, <2>2, <2>3
  <2>5. QED
    BY <1>1, <1>2, <2>2, <2>4, BeforeLinear
<1>5. Occurs(t, s[k]) \subseteq Occurs(s, s[k])
  BY <1>1, <1>2, <1>4 DEF Occurs
<1>6. k \in Occurs(s, s[k]) /\ k \notin Occurs(t, s[k])
  BY <1>1, <1>2, <1>4 DEF Occurs
<1>7. IsFiniteSet(Occurs(s, s[k]))
  BY <1>1, OccursFinite
<1>8. Cardinality(Occurs(s, s[k])) # Cardinality(Occurs(t, s[k]))
  BY <1>5, <1>6, <1>7, FS_Subset
<1>9. QED
  BY <1>8 DEF Count

\* Two ordered lists with the same parameters, each as often, are one list.
LEMMA OrderedUnique ==
    ASSUME NEW s \in Seq(Params), NEW t \in Seq(Params), Ordered(s), Ordered(t),
           \A x : Count(s, x) = Count(t, x)
    PROVE  s = t
<1> DEFINE Differ == {k \in DOMAIN s \cup DOMAIN t :
                        ~(k \in DOMAIN s /\ k \in DOMAIN t /\ s[k] = t[k])}
<1>1. DOMAIN s = 1 .. Len(s) /\ DOMAIN t = 1 .. Len(t) /\ Len(s) \in Nat /\ Len(t) \in Nat
  OBVIOUS
<1>2. CASE Differ = {}
  <2>1. DOMAIN s = DOMAIN t /\ \A k \in DOMAIN s : s[k] = t[k]
    BY <1>2
  <2>2. Len(s) = Len(t)
    <3>1. \A m, n \in Nat : 1 .. m = 1 .. n => m = n
      <4> SUFFICES ASSUME NEW m \in Nat, NEW n \in Nat, 1 .. m = 1 .. n PROVE m = n
        OBVIOUS
      <4>1. Cardinality(1 .. m) = m /\ Cardinality(1 .. n) = n
        BY FS_Interval
      <4>2. QED
        BY <4>1
    <3>2. QED
      BY <1>1, <2>1, <3>1
  <2>3. QED
    BY <2>1, <2>2
<1>3. CASE Differ # {}
  <2>1. Differ \subseteq Nat
    BY <1>1
  <2>2. PICK k \in Differ : \A j \in Differ : k <= j
    <3> HIDE DEF Differ
    <3>1. QED
      BY <1>3, <2>1, LeastOf
  <2>3. k \in Nat /\ k # 0 /\ k \in DOMAIN s \cup DOMAIN t
    BY <1>1, <2>2
  <2>4. ASSUME NEW i \in Nat, i < k, i # 0
        PROVE  i \in DOMAIN s /\ i \in DOMAIN t /\ s[i] = t[i]
    <3>1. i \in DOMAIN s \cup DOMAIN t
      BY <1>1, <2>3, <2>4
    <3>2. i \notin Differ
      BY <2>2, <2>3, <2>4
    <3>3. QED
      BY <3>1, <3>2
  <2>5. k \in DOMAIN s /\ k \in DOMAIN t => s[k] # t[k] /\ s[k] \in Params /\ t[k] \in Params
    OBVIOUS
  <2> HIDE DEF Differ
  <2>6. Apart(s, t, k) \/ Apart(t, s, k)
    <3>1. CASE k \notin DOMAIN t
      BY <2>3, <2>4, <3>1 DEF Apart
    <3>2. CASE k \notin DOMAIN s
      BY <2>3, <2>4, <3>2 DEF Apart
    <3>3. CASE k \in DOMAIN s /\ k \in DOMAIN t /\ C!Before(s[k], t[k])
      BY <2>4, <2>5, <3>3 DEF Apart
    <3>4. CASE k \in DOMAIN s /\ k \in DOMAIN t /\ C!Before(t[k], s[k])
      BY <2>4, <2>5, <3>4 DEF Apart
    <3>5. QED
      BY <2>5, <3>1, <3>2, <3>3, <3>4, BeforeLinear
  <2>7. QED
    BY <2>6, ApartCounts
<1>4. QED
  BY <1>2, <1>3

\* The parameters of a list, each with how often it occurs.
Counted(q) == {<<p, Cardinality({i \in DOMAIN q : q[i] = p})>> : p \in Range(q)}

LEMMA CountedIs ==
    ASSUME NEW q \in Seq(Params), NEW r \in Seq(Params)
    PROVE  Counted(q) = Counted(r) <=> \A x : Count(q, x) = Count(r, x)
<1>1. ASSUME NEW s \in Seq(Params), NEW x
      PROVE  /\ x \in Range(s) <=> Count(s, x) # 0
             /\ \A m : <<x, m>> \in Counted(s) <=> x \in Range(s) /\ m = Count(s, x)
  <2>1. x \in Range(s) <=> Occurs(s, x) # {}
    BY DEF Range, Occurs
  <2>2. Occurs(s, x) # {} <=> Count(s, x) # 0
    BY OccursFinite, FS_EmptySet DEF Count
  <2>3. ASSUME NEW m PROVE <<x, m>> \in Counted(s) <=> x \in Range(s) /\ m = Count(s, x)
    <3>1. Counted(s) = {<<p, Count(s, p)>> : p \in Range(s)}
      BY DEF Counted, Count, Occurs
    <3>2. QED
      BY <3>1
  <2>4. QED
    BY <2>1, <2>2, <2>3
<1>2. ASSUME Counted(q) = Counted(r), NEW x PROVE Count(q, x) = Count(r, x)
  <2>1. CASE x \in Range(q)
    BY <1>1, <1>2, <2>1
  <2>2. CASE x \in Range(r)
    BY <1>1, <1>2, <2>2
  <2>3. CASE x \notin Range(q) /\ x \notin Range(r)
    BY <1>1, <2>3
  <2>4. QED
    BY <2>1, <2>2, <2>3
<1>3. ASSUME \A x : Count(q, x) = Count(r, x) PROVE Counted(q) = Counted(r)
  <2>1. Range(q) = Range(r)
    BY <1>1, <1>3
  <2>2. Counted(q) = {<<p, Count(q, p)>> : p \in Range(q)}
    BY DEF Counted, Count, Occurs
  <2>3. Counted(r) = {<<p, Count(r, p)>> : p \in Range(r)}
    BY DEF Counted, Count, Occurs
  <2>4. QED
    BY <1>3, <2>1, <2>2, <2>3
<1>4. QED
  BY <1>2, <1>3

\* What Canonicalize needs of sorting: it is idempotent, and two lists are sorted
\* into one exactly if they have the same parameters, each as often.
LEMMA SortingCanonical ==
    ASSUME NEW q \in Seq(Params), NEW r \in Seq(Params)
    PROVE  /\ C!Sorted(C!Sorted(q)) = C!Sorted(q)
           /\ C!Sorted(q) = C!Sorted(r) <=> Counted(q) = Counted(r)
<1>1. /\ C!Sorted(q) \in Seq(Params) /\ Ordered(C!Sorted(q))
      /\ \A x : Count(C!Sorted(q), x) = Count(q, x)
  BY SortedIs
<1>2. /\ C!Sorted(r) \in Seq(Params) /\ Ordered(C!Sorted(r))
      /\ \A x : Count(C!Sorted(r), x) = Count(r, x)
  BY SortedIs
<1>3. /\ C!Sorted(C!Sorted(q)) \in Seq(Params) /\ Ordered(C!Sorted(C!Sorted(q)))
      /\ \A x : Count(C!Sorted(C!Sorted(q)), x) = Count(C!Sorted(q), x)
  BY <1>1, SortedIs
<1>4. C!Sorted(C!Sorted(q)) = C!Sorted(q)
  BY <1>1, <1>3, OrderedUnique
<1>5. (\A x : Count(q, x) = Count(r, x)) => C!Sorted(q) = C!Sorted(r)
  BY <1>1, <1>2, OrderedUnique
<1>6. C!Sorted(q) = C!Sorted(r) => \A x : Count(q, x) = Count(r, x)
  BY <1>1, <1>2
<1>7. QED
  BY <1>4, <1>5, <1>6, CountedIs

-----------------------------------------------------------------------------
(* Canonical: the path *)

Escapes == {"%7E", "%2F", "%20"}

Basic == {"/", "~", " ", "%20"}

LEMMA SameList ==
    ASSUME NEW A, NEW s \in Seq(A), NEW t \in Seq(A), Len(s) = Len(t),
           \A i \in 1 .. Len(t) : s[i] = t[i]
    PROVE  s = t
OBVIOUS

LEMMA ListOf ==
    ASSUME NEW A, NEW n \in Nat, NEW f \in [1 .. n -> A]
    PROVE  f \in Seq(A) /\ Len(f) = n
OBVIOUS

\* Trimmed is the part up to the last character that is no slash.
LEMMA TrimmedIs ==
    ASSUME NEW Chars, NEW p \in Seq(Chars)
    PROVE  \E m \in 0 .. Len(p) :
              /\ C!Trimmed(p) \in Seq(Chars) /\ Len(C!Trimmed(p)) = m
              /\ \A i \in 1 .. m : C!Trimmed(p)[i] = p[i]
              /\ \A i \in 1 .. Len(p) : i > m => p[i] = "/"
              /\ m # 0 => p[m] # "/"
<1> DEFINE S == {0} \cup {i \in DOMAIN p : p[i] # "/"}
           T == {j \in 0 .. Len(p) : Len(p) - j \in S}
<1>1. PICK n \in Nat : n = Len(p) /\ DOMAIN p = 1 .. n
  OBVIOUS
<1>2. 0 \in S /\ S \subseteq 0 .. n /\ \A i \in 1 .. n : i \in S <=> p[i] # "/"
  BY <1>1
<1>3. \A j : j \in T <=> j \in 0 .. n /\ n - j \in S
  BY <1>1
<1>4. C!Trimmed(p) = SubSeq(p, 1, C!Max(S))
  BY DEF C!Trimmed
<1> HIDE DEF S, T
<1>5. PICK k \in T : \A j \in T : k <= j
  <2>1. n \in T /\ T \subseteq Nat
    BY <1>2, <1>3
  <2>2. QED
    BY <2>1, LeastOf
<1>6. ASSUME NEW i \in S PROVE n - k >= i
  <2>1. i \in 0 .. n /\ k \in 0 .. n
    BY <1>2, <1>3
  <2>2. n - i \in 0 .. n /\ n - (n - i) = i
    BY <2>1
  <2>3. k <= n - i
    BY <1>3, <1>5, <2>2
  <2>4. QED
    BY <2>1, <2>3
<1> DEFINE m == C!Max(S)
<1>7. m \in S /\ \A i \in S : m >= i
  <2>1. \E x \in S : \A y \in S : x >= y
    BY <1>3, <1>6
  <2>2. QED
    BY <2>1 DEF C!Max
<1>8. C!Trimmed(p) = SubSeq(p, 1, m) /\ m \in 0 .. n
  BY <1>2, <1>4, <1>7
<1> HIDE DEF m
<1>9. /\ C!Trimmed(p) \in Seq(Chars) /\ Len(C!Trimmed(p)) = m
      /\ \A i \in 1 .. m : C!Trimmed(p)[i] = p[i]
  <2>1. \A i \in 1 .. m : i \in 1 .. n /\ p[i] \in Chars
    BY <1>1, <1>8
  <2>2. SubSeq(p, 1, m) = [i \in 1 .. m |-> p[i]]
    BY <1>1, <1>8
  <2>3. QED
    BY <1>8, <2>1, <2>2
<1>10. \A i \in 1 .. n : i > m => p[i] = "/"
  <2> SUFFICES ASSUME NEW i \in 1 .. n, i > m PROVE p[i] = "/"
    OBVIOUS
  <2>1. i \notin S
    BY <1>7, <1>8
  <2>2. QED
    BY <1>2, <2>1
<1>11. m # 0 => p[m] # "/"
  BY <1>2, <1>7, <1>8
<1>12. QED
  BY <1>1, <1>8, <1>9, <1>10, <1>11

LEMMA TrimmedTwice ==
    ASSUME NEW Chars, NEW p \in Seq(Chars)
    PROVE  C!Trimmed(C!Trimmed(p)) = C!Trimmed(p)
<1>1. PICK t : t = C!Trimmed(p)
  OBVIOUS
<1>2. PICK m \in 0 .. Len(p) :
              /\ t \in Seq(Chars) /\ Len(t) = m
              /\ \A i \in 1 .. m : t[i] = p[i]
              /\ m # 0 => p[m] # "/"
  BY <1>1, TrimmedIs
<1>3. PICK u : u = C!Trimmed(t)
  OBVIOUS
<1>4. PICK k \in 0 .. Len(t) :
              /\ u \in Seq(Chars) /\ Len(u) = k
              /\ \A i \in 1 .. k : u[i] = t[i]
              /\ \A i \in 1 .. Len(t) : i > k => t[i] = "/"
  BY <1>2, <1>3, TrimmedIs
<1>5. k = m
  BY <1>2, <1>4
<1>6. u = t
  BY <1>2, <1>4, <1>5
<1>7. QED
  BY <1>1, <1>3, <1>6

\* A path of one character, or none, that is no slash is not trimmed.
LEMMA TrimmedShort ==
    ASSUME NEW Chars, NEW p \in Seq(Chars), Len(p) <= 1, p # <<"/">>
    PROVE  C!Trimmed(p) = p
<1>1. PICK t : t = C!Trimmed(p)
  OBVIOUS
<1>2. PICK m \in 0 .. Len(p) :
              /\ t \in Seq(Chars) /\ Len(t) = m
              /\ \A i \in 1 .. m : t[i] = p[i]
              /\ \A i \in 1 .. Len(p) : i > m => p[i] = "/"
  BY <1>1, TrimmedIs
<1>3. CASE m = Len(p)
  <2>1. t = p
    BY <1>2, <1>3
  <2>2. QED
    BY <1>1, <2>1
<1>4. CASE m # Len(p)
  <2>1. Len(p) = 1 /\ p[1] = "/"
    BY <1>2, <1>4
  <2>2. p = <<"/">>
    BY <2>1
  <2>3. QED
    BY <2>2
<1>5. QED
  BY <1>3, <1>4

\* Decoding and encoding, character by character.
LEMMA DecodeIs ==
    ASSUME NEW Chars, Basic \subseteq Chars, NEW p \in Seq(Chars)
    PROVE  /\ C!Decode(p) \in Seq(Chars) /\ Len(C!Decode(p)) = Len(p)
           /\ \A i \in 1 .. Len(p) :
                 /\ C!Decode(p)[i] \notin Escapes
                 /\ p[i] \notin Escapes => C!Decode(p)[i] = p[i]
                 /\ p[i] = "%20" => C!Decode(p)[i] = " "
                 /\ p[i] # "%" => C!Decode(p)[i] # "%"
<1>1. /\ DOMAIN C!Decoded = Escapes
      /\ C!Decoded["%7E"] = "~" /\ C!Decoded["%2F"] = "/" /\ C!Decoded["%20"] = " "
  BY DEF C!Decoded, Escapes
<1>2. DOMAIN p = 1 .. Len(p) /\ Len(p) \in Nat
  OBVIOUS
<1>3. C!Decode(p) = [i \in 1 .. Len(p) |-> IF p[i] \in Escapes THEN C!Decoded[p[i]] ELSE p[i]]
  BY <1>1, <1>2 DEF C!Decode
<1>4. \A i \in 1 .. Len(p) : p[i] \in Chars
  OBVIOUS
<1>5. \A i \in 1 .. Len(p) :
                 /\ C!Decode(p)[i] \in Chars
                 /\ C!Decode(p)[i] \notin Escapes
                 /\ p[i] \notin Escapes => C!Decode(p)[i] = p[i]
                 /\ p[i] = "%20" => C!Decode(p)[i] = " "
                 /\ p[i] # "%" => C!Decode(p)[i] # "%"
  <2> SUFFICES ASSUME NEW i \in 1 .. Len(p)
               PROVE  /\ C!Decode(p)[i] \in Chars
                      /\ C!Decode(p)[i] \notin Escapes
                      /\ p[i] \notin Escapes => C!Decode(p)[i] = p[i]
                      /\ p[i] = "%20" => C!Decode(p)[i] = " "
                      /\ p[i] # "%" => C!Decode(p)[i] # "%"
    OBVIOUS
  <2>1. PICK c : c = p[i]
    OBVIOUS
  <2>2. PICK d : d = C!Decode(p)[i]
    OBVIOUS
  <2>3. d = (IF c \in Escapes THEN C!Decoded[c] ELSE c) /\ c \in Chars
    BY <1>4, <1>3, <2>1, <2>2
  <2>4. /\ d \in Chars /\ d \notin Escapes /\ (c \notin Escapes => d = c)
        /\ (c = "%20" => d = " ") /\ (c # "%" => d # "%")
    BY <1>1, <2>3 DEF Escapes, Basic
  <2>5. QED
    BY <2>1, <2>2, <2>4
<1>6. C!Decode(p) \in [1 .. Len(p) -> Chars]
  BY <1>5, <1>3
<1>7. C!Decode(p) \in Seq(Chars) /\ Len(C!Decode(p)) = Len(p)
  BY <1>2, <1>6, ListOf
<1>8. QED
  BY <1>5, <1>7

LEMMA EncodeIs ==
    ASSUME NEW Chars, Basic \subseteq Chars, NEW p \in Seq(Chars)
    PROVE  /\ C!Encode(p) \in Seq(Chars) /\ Len(C!Encode(p)) = Len(p)
           /\ \A i \in 1 .. Len(p) : C!Encode(p)[i] = IF p[i] = " " THEN "%20" ELSE p[i]
<1>1. DOMAIN p = 1 .. Len(p) /\ Len(p) \in Nat /\ \A i \in 1 .. Len(p) : p[i] \in Chars
  OBVIOUS
<1>2. C!Encode(p) = [i \in 1 .. Len(p) |-> IF p[i] = " " THEN "%20" ELSE p[i]]
  BY <1>1 DEF C!Encode
<1>3. C!Encode(p) \in [1 .. Len(p) -> Chars]
  BY <1>1, <1>2 DEF Basic
<1>4. C!Encode(p) \in Seq(Chars) /\ Len(C!Encode(p)) = Len(p)
  BY <1>1, <1>3, ListOf
<1>5. QED
  BY <1>2, <1>4

\* Encoding what has been decoded, and decoding it again.
LEMMA DecodeEncode ==
    ASSUME NEW Chars, Basic \subseteq Chars, NEW p \in Seq(Chars), \A i \in 1 .. Len(p) : p[i] \notin Escapes
    PROVE  C!Decode(C!Encode(p)) = p
<1>1. PICK e \in Seq(Chars) : e = C!Encode(p)
  BY EncodeIs
<1>2. Len(e) = Len(p) /\ \A i \in 1 .. Len(p) : e[i] = IF p[i] = " " THEN "%20" ELSE p[i]
  BY <1>1, EncodeIs
<1>3. PICK d \in Seq(Chars) : d = C!Decode(e)
  BY DecodeIs
<1>4. /\ Len(d) = Len(e)
      /\ \A i \in 1 .. Len(e) : e[i] \notin Escapes => d[i] = e[i]
      /\ \A i \in 1 .. Len(e) : e[i] = "%20" => d[i] = " "
  BY <1>3, DecodeIs
<1>5. \A i \in 1 .. Len(p) : d[i] = p[i]
  BY <1>2, <1>4
<1>6. d = p
  BY <1>2, <1>4, <1>5, SameList
<1>7. QED
  BY <1>1, <1>3, <1>6

\* A path with no escape but that of a blank and no blank is spelled as encoding
\* would spell it.
LEMMA EncodeDecode ==
    ASSUME NEW Chars, Basic \subseteq Chars, NEW p \in Seq(Chars), \A i \in 1 .. Len(p) : p[i] \notin {"%7E", "%2F", " "}
    PROVE  C!Encode(C!Decode(p)) = p
<1>1. PICK d \in Seq(Chars) : d = C!Decode(p)
  BY DecodeIs
<1>2. /\ Len(d) = Len(p)
      /\ \A i \in 1 .. Len(p) : p[i] \notin Escapes => d[i] = p[i]
      /\ \A i \in 1 .. Len(p) : p[i] = "%20" => d[i] = " "
  BY <1>1, DecodeIs
<1>3. PICK e \in Seq(Chars) : e = C!Encode(d)
  BY EncodeIs
<1>4. Len(e) = Len(d) /\ \A i \in 1 .. Len(d) : e[i] = IF d[i] = " " THEN "%20" ELSE d[i]
  BY <1>3, EncodeIs
<1>5. \A i \in 1 .. Len(p) : e[i] = p[i]
  BY <1>2, <1>4 DEF Escapes
<1>6. e = p
  BY <1>2, <1>4, <1>5, SameList
<1>7. QED
  BY <1>1, <1>3, <1>6

\* What Canonicalize makes of a path.
Shortened(d) == IF Len(d) > 1 THEN C!Trimmed(d) ELSE d
Kept(r) ==
    /\ C!Encode(C!Decode(r)) # r /\ r # <<>>
    /\ " " \notin C!Range(r) /\ C!Decode(r) = Shortened(C!Decode(r))
PathOf(r) == IF Kept(r) THEN r ELSE C!Encode(Shortened(C!Decode(r)))

LEMMA InRange ==
    ASSUME NEW A, NEW p \in Seq(A), NEW c
    PROVE  c \in C!Range(p) <=> \E i \in 1 .. Len(p) : p[i] = c
<1>1. DOMAIN p = 1 .. Len(p)
  OBVIOUS
<1>2. QED
  BY <1>1 DEF C!Range

LEMMA ShortenedIs ==
    ASSUME NEW A, NEW d \in Seq(A)
    PROVE  /\ Shortened(d) \in Seq(A) /\ Shortened(Shortened(d)) = Shortened(d)
           /\ C!Trimmed(Shortened(d)) = C!Trimmed(d)
           /\ d # <<"/">> => Shortened(d) = C!Trimmed(d)
           /\ Len(Shortened(d)) <= Len(d)
           /\ \A i \in 1 .. Len(Shortened(d)) : Shortened(d)[i] = d[i]
<1>1. PICK t \in Seq(A) : /\ t = C!Trimmed(d) /\ C!Trimmed(t) = t /\ Len(t) <= Len(d)
                          /\ \A i \in 1 .. Len(t) : t[i] = d[i]
  BY TrimmedIs, TrimmedTwice
<1>2. CASE Len(d) > 1
  <2>1. Shortened(d) = t
    BY <1>1, <1>2 DEF Shortened
  <2>2. Shortened(t) = t
    BY <1>1 DEF Shortened
  <2>3. QED
    BY <1>1, <2>1, <2>2
<1>3. CASE ~(Len(d) > 1)
  <2>1. Shortened(d) = d /\ Len(d) <= 1
    BY <1>3 DEF Shortened
  <2>2. d # <<"/">> => C!Trimmed(d) = d
    BY <2>1, TrimmedShort
  <2>3. QED
    BY <2>1, <2>2
<1>4. QED
  BY <1>2, <1>3

\* The decoded form of the new path, and that it is spelled without blanks.
LEMMA PathDecodes ==
    ASSUME NEW Chars, Basic \subseteq Chars, NEW r \in Seq(Chars)
    PROVE  /\ PathOf(r) \in Seq(Chars) /\ C!Decode(PathOf(r)) = Shortened(C!Decode(r))
           /\ " " \notin C!Range(PathOf(r))
           /\ "%" \notin C!Range(r) => "%" \notin C!Range(PathOf(r))
<1>1. PICK d \in Seq(Chars) : d = C!Decode(r)
  BY DecodeIs
<1>2. /\ d = C!Decode(r) /\ Len(d) = Len(r) /\ \A i \in 1 .. Len(r) : d[i] \notin Escapes
      /\ \A i \in 1 .. Len(r) : r[i] # "%" => d[i] # "%"
  BY <1>1, DecodeIs
<1>3. PICK e \in Seq(Chars) :
         /\ e = Shortened(d) /\ Len(e) <= Len(d) /\ \A i \in 1 .. Len(e) : e[i] = d[i]
  BY ShortenedIs
<1>4. CASE Kept(r)
  BY <1>2, <1>3, <1>4 DEF PathOf, Kept
<1>5. CASE ~Kept(r)
  <2>1. PICK f \in Seq(Chars) :
           /\ f = C!Encode(e) /\ Len(f) = Len(e)
           /\ \A i \in 1 .. Len(e) : f[i] = IF e[i] = " " THEN "%20" ELSE e[i]
    BY EncodeIs
  <2>2. PathOf(r) = f
    BY <1>2, <1>3, <1>5, <2>1 DEF PathOf
  <2>3. \A i \in 1 .. Len(e) : i \in 1 .. Len(r) /\ e[i] \notin Escapes
    BY <1>2, <1>3
  <2>4. C!Decode(f) = e
    BY <2>1, <2>3, DecodeEncode
  <2>5. \A i \in 1 .. Len(f) : f[i] # " "
    BY <2>1
  <2>6. ASSUME "%" \notin C!Range(r), NEW i \in 1 .. Len(f) PROVE f[i] # "%"
    <3>1. i \in 1 .. Len(r) /\ e[i] = d[i] /\ f[i] = IF e[i] = " " THEN "%20" ELSE e[i]
      BY <1>3, <2>1, <2>3
    <3>2. r[i] # "%"
      BY <2>6, <3>1, InRange
    <3>3. d[i] # "%"
      BY <1>2, <3>1, <3>2
    <3>4. QED
      BY <3>1, <3>3
  <2>7. " " \notin C!Range(f)
    BY <2>5, InRange
  <2>8. "%" \notin C!Range(r) => "%" \notin C!Range(f)
    BY <2>6, InRange
  <2>9. QED
    BY <1>2, <1>3, <2>2, <2>4, <2>7, <2>8
<1>6. QED
  BY <1>4, <1>5

LEMMA PathTwice ==
    ASSUME NEW Chars, Basic \subseteq Chars, NEW r \in Seq(Chars)
    PROVE  PathOf(PathOf(r)) = PathOf(r)
<1>1. PICK c \in Seq(Chars) : /\ c = PathOf(r) /\ C!Decode(c) = Shortened(C!Decode(r))
                              /\ " " \notin C!Range(c)
  BY PathDecodes
<1>2. PICK e \in Seq(Chars) : e = C!Decode(c) /\ Shortened(e) = e
  <2>1. C!Decode(r) \in Seq(Chars)
    BY DecodeIs
  <2>2. QED
    BY <1>1, <2>1, ShortenedIs
<1>3. CASE C!Encode(e) = c
  BY <1>1, <1>2, <1>3 DEF PathOf, Kept
<1>4. CASE C!Encode(e) # c /\ c # <<>>
  BY <1>1, <1>2, <1>4 DEF PathOf, Kept
<1>5. CASE c = <<>>
  <2>1. Len(e) = 0
    BY <1>2, <1>5, DecodeIs
  <2>2. C!Encode(e) \in Seq(Chars) /\ Len(C!Encode(e)) = 0
    BY <2>1, EncodeIs
  <2>3. C!Encode(e) = c
    BY <1>5, <2>2
  <2>4. QED
    BY <1>3, <2>3
<1>6. QED
  BY <1>3, <1>4, <1>5

\* A path without escapes it need not have is spelled from its decoded form.
LEMMA PathPlain ==
    ASSUME NEW Chars, Basic \subseteq Chars, NEW r \in Seq(Chars), r # <<"/">>,
           C!Range(r) \cap {"%7E", "%2F", "%"} = {}
    PROVE  PathOf(r) = C!Encode(C!Trimmed(C!Decode(r)))
<1>1. PICK d \in Seq(Chars) : d = C!Decode(r)
  BY DecodeIs
<1>2. /\ d = C!Decode(r) /\ Len(d) = Len(r)
      /\ \A i \in 1 .. Len(r) : r[i] \notin Escapes => d[i] = r[i]
      /\ \A i \in 1 .. Len(r) : r[i] = "%20" => d[i] = " "
  BY <1>1, DecodeIs
<1>3. \A i \in 1 .. Len(r) : r[i] \notin {"%7E", "%2F", "%"}
  BY InRange
<1>4. d # <<"/">>
  <2> SUFFICES ASSUME d = <<"/">> PROVE FALSE
    OBVIOUS
  <2>1. Len(<<"/">>) = 1 /\ <<"/">>[1] = "/"
    OBVIOUS
  <2>2. Len(r) = 1 /\ d[1] = "/"
    BY <1>2, <2>1
  <2>3. r[1] = "/"
    BY <1>2, <1>3, <2>2 DEF Escapes
  <2>4. r = <<"/">>
    BY <2>2, <2>3
  <2>5. QED
    BY <2>4
<1>5. Shortened(d) = C!Trimmed(d)
  BY <1>4, ShortenedIs
<1>6. ~Kept(r)
  <2>1. CASE " " \in C!Range(r)
    BY <2>1 DEF Kept
  <2>2. CASE " " \notin C!Range(r)
    <3>1. \A i \in 1 .. Len(r) : r[i] \notin {"%7E", "%2F", " "}
      BY <1>3, <2>2, InRange
    <3>2. C!Encode(C!Decode(r)) = r
      BY <3>1, EncodeDecode
    <3>3. QED
      BY <3>2 DEF Kept
  <2>3. QED
    BY <2>1, <2>2
<1>7. QED
  BY <1>2, <1>5, <1>6 DEF PathOf

-----------------------------------------------------------------------------
(* Canonical: the URL *)

LEMMA CanonicalIs ==
    ASSUME NEW Chars, NEW Ports, NEW a \in C!URLs(Chars, Ports), ~C!Unparsable(a)
    PROVE  C!Canonicalize(a) =
             [scheme |-> a.scheme, upper |-> FALSE, port |-> C!DropPort(a),
              path |-> PathOf(a.path), query |-> C!Sorted(a.query), frag |-> FALSE]
<1>1. PICK u : u = C!Parse(a)
  OBVIOUS
<1>2. u = [path |-> C!Decode(a.path),
           rawPath |-> IF C!Encode(C!Decode(a.path)) = a.path THEN <<>> ELSE a.path]
  BY <1>1 DEF C!Parse
<1>3. PICK v : v = [u EXCEPT !.path = IF Len(@) > 1 THEN C!Trimmed(@) ELSE @]
  OBVIOUS
<1>4. v.path = Shortened(C!Decode(a.path)) /\ v.rawPath = u.rawPath
  BY <1>2, <1>3 DEF Shortened
<1>5. C!Escaped(v) = PathOf(a.path)
  BY <1>2, <1>4 DEF C!Escaped, PathOf, Kept
<1>6. QED
  BY <1>1, <1>3, <1>5 DEF C!Canonicalize

\* Only the default port is left out, and it can be told that it was.
LEMMA DropPortIs ==
    ASSUME NEW a, NEW b, a.scheme = b.scheme
    PROVE  /\ \A c : c.scheme = a.scheme /\ c.port = C!DropPort(a) => C!DropPort(c) = C!DropPort(a)
           /\ C!DropPort(a) = C!DropPort(b) <=> C!Resource(a).port = C!Resource(b).port
<1>1. PICK d : d = C!DefaultPort(a.scheme)
  OBVIOUS
<1>2. d = C!DefaultPort(a.scheme) /\ d # ""
  <2>1. CASE a.scheme = "http"
    BY <1>1, <2>1 DEF C!DefaultPort
  <2>2. CASE a.scheme # "http"
    BY <1>1, <2>2 DEF C!DefaultPort
  <2>3. QED
    BY <2>1, <2>2
<1>3. PICK p : p = a.port
  OBVIOUS
<1>4. PICK q : q = b.port
  OBVIOUS
<1>5. C!DropPort(a) = (IF p = d THEN "" ELSE p) /\ C!DropPort(b) = (IF q = d THEN "" ELSE q)
  BY <1>2, <1>3, <1>4 DEF C!DropPort
<1>6. /\ C!Resource(a).port = (IF p = "" THEN d ELSE p)
      /\ C!Resource(b).port = (IF q = "" THEN d ELSE q)
  BY <1>2, <1>3, <1>4 DEF C!Resource
<1>7. \A c : c.scheme = a.scheme /\ c.port = C!DropPort(a) => C!DropPort(c) = C!DropPort(a)
  <2> SUFFICES ASSUME NEW c, c.scheme = a.scheme, c.port = C!DropPort(a)
               PROVE  C!DropPort(c) = C!DropPort(a)
    OBVIOUS
  <2>1. C!DropPort(c) = (IF c.port = d THEN "" ELSE c.port)
    BY <1>2 DEF C!DropPort
  <2>2. QED
    BY <1>5, <2>1
<1>8. C!DropPort(a) = C!DropPort(b) <=> C!Resource(a).port = C!Resource(b).port
  <2>1. ASSUME NEW x, NEW y, NEW z, z # ""
        PROVE  (IF x = z THEN "" ELSE x) = (IF y = z THEN "" ELSE y)
                 <=> (IF x = "" THEN z ELSE x) = (IF y = "" THEN z ELSE y)
    <3>1. CASE x = z
      BY <2>1, <3>1
    <3>2. CASE x = ""
      BY <2>1, <3>2
    <3>3. CASE x # z /\ x # ""
      BY <2>1, <3>3
    <3>4. QED
      BY <3>1, <3>2, <3>3
  <2>2. QED
    BY <1>2, <1>5, <1>6, <2>1
<1>9. QED
  BY <1>7, <1>8

\* The canonical form of a URL that can be parsed can be parsed.
LEMMA CanonicalParses ==
    ASSUME NEW Chars, Basic \subseteq Chars, NEW Ports, "" \in Ports,
           NEW a \in C!URLs(Chars, Ports), ~C!Unparsable(a)
    PROVE  /\ C!Canonicalize(a) \in C!URLs(Chars, Ports)
           /\ ~C!Unparsable(C!Canonicalize(a))
<1>1. PICK c : c = C!Canonicalize(a)
  OBVIOUS
<1>2. c = [scheme |-> a.scheme, upper |-> FALSE, port |-> C!DropPort(a),
           path |-> PathOf(a.path), query |-> C!Sorted(a.query), frag |-> FALSE]
  BY <1>1, CanonicalIs
<1>3. /\ a.scheme \in {"http", "https"} /\ a.port \in Ports /\ a.path \in Seq(Chars)
      /\ a.query \in Seq(Params)
  BY DEF C!URLs, Params
<1>4. C!DropPort(a) \in Ports
  BY <1>3 DEF C!DropPort
<1>5. PathOf(a.path) \in Seq(Chars) /\ "%" \notin C!Range(PathOf(a.path))
  BY <1>3, PathDecodes DEF C!Unparsable
<1>6. C!Sorted(a.query) \in Seq(Params)
  BY <1>3, SortedIs
<1>7. c \in C!URLs(Chars, Ports)
  BY <1>2, <1>3, <1>4, <1>5, <1>6 DEF C!URLs, Params
<1>8. ~C!Unparsable(c)
  BY <1>2, <1>5 DEF C!Unparsable
<1>9. QED
  BY <1>1, <1>7, <1>8

LEMMA CanonicalTwice ==
    ASSUME NEW Chars, Basic \subseteq Chars, NEW Ports, "" \in Ports,
           NEW a \in C!URLs(Chars, Ports)
    PROVE  C!Canonicalize(C!Canonicalize(a)) = C!Canonicalize(a)
<1>1. CASE C!Unparsable(a)
  BY <1>1 DEF C!Canonicalize
<1>2. CASE ~C!Unparsable(a)
  <2>1. PICK c : c = C!Canonicalize(a)
    OBVIOUS
  <2>2. c \in C!URLs(Chars, Ports) /\ ~C!Unparsable(c)
    BY <1>2, <2>1, CanonicalParses
  <2>3. c = [scheme |-> a.scheme, upper |-> FALSE, port |-> C!DropPort(a),
             path |-> PathOf(a.path), query |-> C!Sorted(a.query), frag |-> FALSE]
    BY <1>2, <2>1, CanonicalIs
  <2>4. C!Canonicalize(c) =
            [scheme |-> c.scheme, upper |-> FALSE, port |-> C!DropPort(c),
             path |-> PathOf(c.path), query |-> C!Sorted(c.query), frag |-> FALSE]
    BY <2>2, CanonicalIs
  <2>5. a.path \in Seq(Chars) /\ a.query \in Seq(Params)
    BY DEF C!URLs, Params
  <2>6. /\ c.scheme = a.scheme /\ c.port = C!DropPort(a) /\ c.path = PathOf(a.path)
        /\ c.query = C!Sorted(a.query)
    BY <2>3
  <2>7. C!DropPort(c) = C!DropPort(a)
    BY <2>6, DropPortIs
  <2>8. PathOf(c.path) = c.path
    BY <2>5, <2>6, PathTwice
  <2>9. C!Sorted(c.query) = c.query
    BY <2>5, <2>6, SortingCanonical
  <2>10. C!Canonicalize(c) = c
    BY <2>3, <2>4, <2>6, <2>7, <2>8, <2>9
  <2>11. QED
    BY <2>1, <2>10
<1>3. QED
  BY <1>1, <1>2

\* The resource that a URL spells, field by field.
LEMMA ResourceIs ==
    ASSUME NEW a, NEW b
    PROVE  C!Resource(a) = C!Resource(b) <=>
             /\ a.scheme = b.scheme
             /\ C!Resource(a).port = C!Resource(b).port
             /\ C!Trimmed(C!Decode(a.path)) = C!Trimmed(C!Decode(b.path))
             /\ Counted(a.query) = Counted(b.query)
<1>1. PICK r : r = C!Resource(a)
  OBVIOUS
<1>2. PICK s : s = C!Resource(b)
  OBVIOUS
<1>3. \A S : C!Cardinality(S) = Cardinality(S)
  BY DEF C!Cardinality, Cardinality
<1>4. ASSUME NEW q
      PROVE  {<<p, C!Cardinality({i \in DOMAIN q : q[i] = p})>> : p \in C!Range(q)} = Counted(q)
  BY <1>3 DEF Counted, Range, C!Range
<1>5. r = [scheme |-> a.scheme, port |-> r.port, path |-> C!Trimmed(C!Decode(a.path)),
           params |-> Counted(a.query)]
  BY <1>1, <1>4 DEF C!Resource
<1>6. s = [scheme |-> b.scheme, port |-> s.port, path |-> C!Trimmed(C!Decode(b.path)),
           params |-> Counted(b.query)]
  BY <1>2, <1>4 DEF C!Resource
<1>7. QED
  BY <1>1, <1>2, <1>5, <1>6

LEMMA CanonicalTells ==
    ASSUME NEW Chars, Basic \subseteq Chars, NEW Ports, "" \in Ports,
           NEW a \in C!URLs(Chars, Ports), NEW b \in C!URLs(Chars, Ports),
           C!Canonicalize(a) = C!Canonicalize(b)
    PROVE  C!Resource(a) = C!Resource(b)
<1>1. CASE C!Unparsable(a) \/ C!Unparsable(b)
  <2>1. ~C!Unparsable(a) => ~C!Unparsable(C!Canonicalize(a))
    BY CanonicalParses
  <2>2. ~C!Unparsable(b) => ~C!Unparsable(C!Canonicalize(b))
    BY CanonicalParses
  <2>3. /\ C!Unparsable(a) => C!Canonicalize(a) = a
        /\ C!Unparsable(b) => C!Canonicalize(b) = b
    BY DEF C!Canonicalize
  <2>4. a = b
    BY <1>1, <2>1, <2>2, <2>3
  <2>5. QED
    BY <2>4
<1>2. CASE ~C!Unparsable(a) /\ ~C!Unparsable(b)
  <2>1. /\ a.path \in Seq(Chars) /\ a.query \in Seq(Params)
        /\ b.path \in Seq(Chars) /\ b.query \in Seq(Params)
    BY DEF C!URLs, Params
  <2>2. [scheme |-> a.scheme, upper |-> FALSE, port |-> C!DropPort(a),
         path |-> PathOf(a.path), query |-> C!Sorted(a.query), frag |-> FALSE] =
        [scheme |-> b.scheme, upper |-> FALSE, port |-> C!DropPort(b),
         path |-> PathOf(b.path), query |-> C!Sorted(b.query), frag |-> FALSE]
    BY <1>2, CanonicalIs
  <2>3. /\ a.scheme = b.scheme /\ C!DropPort(a) = C!DropPort(b)
        /\ PathOf(a.path) = PathOf(b.path) /\ C!Sorted(a.query) = C!Sorted(b.query)
    BY <2>2
  <2>4. C!Resource(a).port = C!Resource(b).port
    BY <2>3, DropPortIs
  <2>5. Counted(a.query) = Counted(b.query)
    BY <2>1, <2>3, SortingCanonical
  <2>6. C!Trimmed(C!Decode(a.path)) = C!Trimmed(C!Decode(b.path))
    <3>1. C!Decode(a.path) \in Seq(Chars) /\ C!Decode(b.path) \in Seq(Chars)
      BY <2>1, DecodeIs
    <3>2. Shortened(C!Decode(a.path)) = Shortened(C!Decode(b.path))
      BY <2>1, <2>3, PathDecodes
    <3>3. QED
      BY <3>1, <3>2, ShortenedIs
  <2>7. QED
    BY <2>3, <2>4, <2>5, <2>6, ResourceIs
<1>3. QED
  BY <1>1, <1>2

LEMMA CanonicalJoins ==
    ASSUME NEW Chars, Basic \subseteq Chars, NEW Ports, "" \in Ports,
           NEW a \in C!URLs(Chars, Ports), NEW b \in C!URLs(Chars, Ports),
           C!Resource(a) = C!Resource(b), C!Plain(a), C!Plain(b), C!Root(a) <=> C!Root(b)
    PROVE  C!Canonicalize(a) = C!Canonicalize(b)
<1>1. /\ a.path \in Seq(Chars) /\ a.query \in Seq(Params)
      /\ b.path \in Seq(Chars) /\ b.query \in Seq(Params)
  BY DEF C!URLs, Params
<1>2. ~C!Unparsable(a) /\ ~C!Unparsable(b)
  BY DEF C!Plain, C!Unparsable
<1>3. /\ a.scheme = b.scheme
      /\ C!Resource(a).port = C!Resource(b).port
      /\ C!Trimmed(C!Decode(a.path)) = C!Trimmed(C!Decode(b.path))
      /\ Counted(a.query) = Counted(b.query)
  BY ResourceIs
<1>4. C!DropPort(a) = C!DropPort(b)
  BY <1>3, DropPortIs
<1>5. C!Sorted(a.query) = C!Sorted(b.query)
  BY <1>1, <1>3, SortingCanonical
<1>6. PathOf(a.path) = PathOf(b.path)
  <2>1. CASE C!Root(a)
    BY <2>1 DEF C!Root
  <2>2. CASE ~C!Root(a)
    <3>1. a.path # <<"/">> /\ b.path # <<"/">>
      BY <2>2 DEF C!Root
    <3>2. /\ PathOf(a.path) = C!Encode(C!Trimmed(C!Decode(a.path)))
          /\ PathOf(b.path) = C!Encode(C!Trimmed(C!Decode(b.path)))
      BY <1>1, <3>1, PathPlain DEF C!Plain
    <3>3. QED
      BY <1>3, <3>2
  <2>3. QED
    BY <2>1, <2>2
<1>7. /\ C!Canonicalize(a) =
            [scheme |-> a.scheme, upper |-> FALSE, port |-> C!DropPort(a),
             path |-> PathOf(a.path), query |-> C!Sorted(a.query), frag |-> FALSE]
      /\ C!Canonicalize(b) =
            [scheme |-> b.scheme, upper |-> FALSE, port |-> C!DropPort(b),
             path |-> PathOf(b.path), query |-> C!Sorted(b.query), frag |-> FALSE]
  BY <1>2, CanonicalIs
<1>8. QED
  BY <1>3, <1>4, <1>5, <1>6, <1>7

\* CanonicalForms for URLs with paths and queries of any length, over any set of
\* characters and ports (Canonicalize).
THEOREM CanonicalFormsHold ==
    \A Chars, Ports : \A a, b \in C!URLs(Chars, Ports) : C!CanonicalForms(a, b)
<1> SUFFICES ASSUME NEW Chars, NEW Ports,
                    NEW a \in C!URLs(Chars, Ports), NEW b \in C!URLs(Chars, Ports)
             PROVE  C!CanonicalForms(a, b)
  OBVIOUS
<1>1. PICK K : K = Chars \cup Basic
  OBVIOUS
<1>2. PICK P : P = Ports \cup {""}
  OBVIOUS
<1>3. Basic \subseteq K /\ "" \in P /\ Chars \subseteq K /\ Ports \subseteq P
  BY <1>1, <1>2
<1>4. ASSUME NEW s \in Seq(Chars) PROVE s \in Seq(K)
  <2>1. Len(s) \in Nat /\ s \in [1 .. Len(s) -> Chars]
    OBVIOUS
  <2>2. s \in [1 .. Len(s) -> K]
    BY <1>3, <2>1
  <2>3. QED
    BY <2>1, <2>2, ListOf
<1>5. a \in C!URLs(K, P) /\ b \in C!URLs(K, P)
  BY <1>3, <1>4 DEF C!URLs
<1>6. C!Canonicalize(C!Canonicalize(a)) = C!Canonicalize(a)
  BY <1>3, <1>5, CanonicalTwice
<1>7. C!Canonicalize(a) = C!Canonicalize(b) => C!Resource(a) = C!Resource(b)
  BY <1>3, <1>5, CanonicalTells
<1>8. C!Resource(a) = C!Resource(b) /\ C!Plain(a) /\ C!Plain(b) /\ (C!Root(a) <=> C!Root(b))
        => C!Canonicalize(a) = C!Canonicalize(b)
  BY <1>3, <1>5, CanonicalJoins
<1>9. QED
  BY <1>6, <1>7, <1>8 DEF C!CanonicalForms

\* CanonicalInv: the spellings that the run tries are such URLs.
THEOREM CanonicalCorrect == SharedSpec => []CanonicalInv
<1> DEFINE Ports == {"", "80", "443"}
           U == C!URLs(Letters, Ports)
<1>1. {"/", "a"} \subseteq Letters
  BY DEF Letters
<1>2. ASSUME NEW x \in Letters, NEW y \in Letters
      PROVE  <<"/">> \in Seq(Letters) /\ <<"/", x>> \in Seq(Letters) /\ <<"/", x, y>> \in Seq(Letters)
  BY <1>1
<1>3. <<"/", "a">> \in Seq(Letters) /\ <<>> \in Seq(Int \X Int) /\ <<>> \in Seq(Letters)
  BY <1>1, <1>2
<1>4. Page \in U
  BY <1>3 DEF Page, C!URLs
<1>5. ASSUME NEW u \in Authorities PROVE u \in U
  <2>1. <<1, 1>> \in Int \X Int
    OBVIOUS
  <2>2. <<<<1, 1>>>> \in Seq(Int \X Int)
    BY <2>1
  <2>3. QED
    BY <1>3, <2>2 DEF C!URLs, Authorities
<1>6. ASSUME NEW u \in Paths PROVE u \in U
  <2>1. <<"/", "a", "/", "/">> \in Seq(Letters)
    BY <1>1
  <2>2. ASSUME NEW p \in {"/"} \X Letters \X Letters PROVE p \in Seq(Letters)
    <3>1. PICK x \in Letters, y \in Letters : p = <<"/", x, y>>
      OBVIOUS
    <3>2. QED
      BY <1>2, <3>1
  <2>3. {<<>>, <<"/">>, <<"/", "/">>, <<"/", "a", "/", "/">>} \subseteq Seq(Letters)
    BY <1>1, <1>2, <1>3, <2>1
  <2>4. u.path \in Seq(Letters)
    BY <2>2, <2>3 DEF Paths
  <2>5. QED
    BY <1>3, <2>4 DEF C!URLs, Paths
<1>7. ASSUME NEW u \in Queries PROVE u \in U
  <2>1. u.query \in Seq(Int \X Int)
    <3>1. PICK n \in 0 .. 2 : u.query \in [1 .. n -> (0 .. 1) \X (0 .. 1)]
      BY DEF Queries
    <3>2. n \in Nat /\ u.query \in [1 .. n -> Int \X Int]
      BY <3>1
    <3>3. QED
      BY <3>2, ListOf
  <2>2. QED
    BY <1>3, <2>1 DEF C!URLs, Queries
<1> HIDE DEF Ports, U
<1> DEFINE Known == spelled[1] \in U /\ spelled[2] \in U
<1>8. SharedInit => Known
  BY <1>4, <1>5, <1>6, <1>7 DEF SharedInit
<1>9. Known /\ [SharedNext]_<<part, spelled, vars, delay>> => Known'
  BY DEF SharedNext
<1>10. Known => CanonicalInv
  BY CanonicalFormsHold DEF U, CanonicalInv
<1> HIDE DEF Known
<1>11. QED
  BY <1>8, <1>9, <1>10, PTL DEF SharedSpec

=============================================================================

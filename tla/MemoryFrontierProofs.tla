------------------------ MODULE MemoryFrontierProofs ------------------------
(***************************************************************************)
(* Proofs about MemoryFrontier, for any number of goroutines that Add and  *)
(* call Next, any URLs, spellings, priorities and filter rules: Size()     *)
(* accounts for every entry, no backlog is slept on, and the frontier      *)
(* implements the abstract one: each URL is scheduled once and deliveries  *)
(* follow priority and discovery.                                          *)
(***************************************************************************)
EXTENDS MemoryFrontier, FiniteSetTheorems, TLAPS

-----------------------------------------------------------------------------
(* The inductive invariant *)

Pushing == InFlight(Adders, apc, "push")
Pushed == InFlight(Adders, apc, "count")
Popped == InFlight(Consumers, cpc, "count")

UrlOfAdd(a) == Canonicalize[raw[a]]

\* What is queued or delivered has been marked as seen, and whoever has marked
\* a URL and not pushed it yet is alone with it.
SeenInv ==
    /\ \A a \in Adders : apc[a] # "idle" => raw[a] \in RawUrls
    /\ \A e \in pq : e.url \in seen
    /\ delivered \subseteq seen
    /\ \A a \in Pushing : /\ UrlOfAdd(a) \in seen
                          /\ UrlOfAdd(a) \notin delivered
                          /\ \A e \in pq : e.url # UrlOfAdd(a)
    /\ \A a, b \in Pushing : UrlOfAdd(a) = UrlOfAdd(b) => a = b

\* A backlog is known to somebody: a token, an Add about to send one, or a
\* consumer that is awake.
BacklogInv ==
    pq = {} \/ notify \/ (\E a \in Adders : apc[a] \in {"count", "notify"})
            \/ (\E c \in Consumers : cpc[c] # "wait")

IndInv == /\ TypeOK /\ IsFiniteSet(pq) /\ SeenInv
          /\ SizeAccounting /\ BacklogInv

\* A fresh frontier satisfies it.
LEMMA IndInvInit == Init => IndInv
<1> SUFFICES ASSUME Init PROVE IndInv
  OBVIOUS
<1>1. TypeOK
  <2>1. closed \in BOOLEAN /\ notify \in BOOLEAN
    BY Zenon DEF Init
  <2>2. rules \in Seq(Rules) /\ Len(rules) <= MaxRules
    BY FrontierAssumption DEF Init
  <2>3. QED
    BY <2>1, <2>2 DEF Init, TypeOK
<1>2. SeenInv
  BY DEF Init, SeenInv, Pushing, InFlight
<1>3. Pushed = {} /\ Popped = {} /\ pq = {}
  BY DEF Init, Pushed, Popped, InFlight
<1>4. SizeAccounting
  <2>1. Cardinality(Pushed) = 0 /\ Cardinality(Popped) = 0 /\ Cardinality(pq) = 0
    BY <1>3, FS_EmptySet, Zenon
  <2>2. QED
    BY <2>1 DEF Init, SizeAccounting, Pushed, Popped
<1>5. IsFiniteSet(pq) /\ BacklogInv
  BY <1>3, FS_EmptySet DEF BacklogInv
<1>6. QED
  BY <1>1, <1>2, <1>4, <1>5 DEF IndInv

\* The groups that the size is off by are finite.
LEMMA FiniteGroups ==
    /\ IsFiniteSet(Pushed) /\ Cardinality(Pushed) \in Nat
    /\ IsFiniteSet(Popped) /\ Cardinality(Popped) \in Nat
<1>1. IsFiniteSet(Pushed) /\ IsFiniteSet(Popped)
  BY FrontierAssumption, FS_Subset DEF Pushed, Popped, InFlight
<1>2. QED
  BY <1>1, FS_CardinalityType

\* An Add joins those that have pushed and not counted, and leaves them.
LEMMA PushedMoves ==
    ASSUME TypeOK, NEW a \in Adders, NEW l, apc' = [apc EXCEPT ![a] = l]
    PROVE  /\ apc[a] # "count" /\ l = "count" =>
                 Cardinality(Pushed') = Cardinality(Pushed) + 1
           /\ apc[a] = "count" /\ l # "count" =>
                 Cardinality(Pushed') = Cardinality(Pushed) - 1
           /\ apc[a] # "count" /\ l # "count" => Pushed' = Pushed
<1>1. apc'[a] = l /\ \A b \in Adders : b # a => apc'[b] = apc[b]
  BY DEF TypeOK
<1>2. CASE apc[a] # "count" /\ l = "count"
  <2>1. Pushed' = Pushed \cup {a} /\ a \notin Pushed
    BY <1>1, <1>2 DEF Pushed, InFlight
  <2>2. QED
    BY <1>2, <2>1, FiniteGroups, FS_AddElement
<1>3. CASE apc[a] = "count" /\ l # "count"
  <2>1. Pushed' = Pushed \ {a} /\ a \in Pushed
    BY <1>1, <1>3 DEF Pushed, InFlight
  <2>2. QED
    BY <1>3, <2>1, FiniteGroups, FS_RemoveElement
<1>4. CASE apc[a] # "count" /\ l # "count"
  BY <1>1, <1>4 DEF Pushed, InFlight
<1>5. CASE apc[a] = "count" /\ l = "count"
  BY <1>5
<1>6. QED
  BY <1>2, <1>3, <1>4, <1>5

\* A Next joins those that have popped and not counted, and leaves them.
LEMMA PoppedMoves ==
    ASSUME TypeOK, NEW c \in Consumers, NEW l, Move(c, l)
    PROVE  /\ cpc[c] # "count" /\ l = "count" =>
                 Cardinality(Popped') = Cardinality(Popped) + 1
           /\ cpc[c] = "count" /\ l # "count" =>
                 Cardinality(Popped') = Cardinality(Popped) - 1
           /\ cpc[c] # "count" /\ l # "count" => Popped' = Popped
<1>1. cpc'[c] = l /\ \A d \in Consumers : d # c => cpc'[d] = cpc[d]
  BY DEF TypeOK, Move
<1>2. CASE cpc[c] # "count" /\ l = "count"
  <2>1. Popped' = Popped \cup {c} /\ c \notin Popped
    BY <1>1, <1>2 DEF Popped, InFlight
  <2>2. QED
    BY <1>2, <2>1, FiniteGroups, FS_AddElement
<1>3. CASE cpc[c] = "count" /\ l # "count"
  <2>1. Popped' = Popped \ {c} /\ c \in Popped
    BY <1>1, <1>3 DEF Popped, InFlight
  <2>2. QED
    BY <1>3, <2>1, FiniteGroups, FS_RemoveElement
<1>4. CASE cpc[c] # "count" /\ l # "count"
  BY <1>1, <1>4 DEF Popped, InFlight
<1>5. CASE cpc[c] = "count" /\ l = "count"
  BY <1>5
<1>6. QED
  BY <1>2, <1>3, <1>4, <1>5

\* The entry an Add pushes is new to the queue.
LEMMA PushedEntry ==
    ASSUME IndInv, NEW a \in Adders, AddPush(a)
    PROVE  EntryOf(a) \in Entries /\ EntryOf(a).url = UrlOfAdd(a) /\ EntryOf(a) \notin pq
<1>1. a \in Pushing /\ raw[a] \in RawUrls /\ stamp[a] \in Nat
  BY DEF AddPush, IndInv, SeenInv, TypeOK, Pushing, InFlight
<1>2. Canonicalize[raw[a]] \in Urls /\ PriorityOf[raw[a]] \in 0..3
  BY <1>1, FrontierAssumption
<1>3. EntryOf(a).url = UrlOfAdd(a) /\ EntryOf(a) \in Entries
  BY <1>1, <1>2 DEF EntryOf, UrlOfAdd, Entries
<1>4. QED
  BY <1>1, <1>3 DEF IndInv, SeenInv

\* Every step keeps the types.
LEMMA TypeNext == ASSUME IndInv, [Next]_vars PROVE TypeOK'
<1> USE DEF IndInv, TypeOK, closing, adding, taking
<1>1. ASSUME NEW rule \in Rules, AddRule(rule) PROVE TypeOK'
  <2>1. rules' \in Seq(Rules) /\ Len(rules') = Len(rules) + 1 /\ Len(rules) < MaxRules
    BY <1>1 DEF AddRule
  <2>2. Len(rules) \in Nat /\ MaxRules \in Nat
    BY FrontierAssumption
  <2>3. QED
    BY <1>1, <2>1, <2>2 DEF AddRule
<1>2. ASSUME NEW a \in Adders, NEW u \in RawUrls, AddCall(a, u) PROVE TypeOK'
  BY <1>2 DEF AddCall
<1> DEFINE AddTypes(p, r, s) ==
             /\ p \in [Adders -> {"idle", "filter", "lookup", "mark", "push",
                                  "count", "notify"}]
             /\ r \in [Adders -> RawUrls \cup {NoUrl}]
             /\ s \in [Adders -> Nat]
<1>R. ASSUME NEW a \in Adders, Return(a) PROVE AddTypes(apc', raw', stamp')
  BY <1>R DEF Return
<1>3. ASSUME NEW a \in Adders, AddFilter(a) PROVE TypeOK'
  <2>1. AddTypes(apc', raw', stamp')
    BY <1>3, <1>R DEF AddFilter
  <2>2. QED
    BY <1>3, <2>1 DEF AddFilter
<1>4. ASSUME NEW a \in Adders, AddLookup(a) PROVE TypeOK'
  <2>1. AddTypes(apc', raw', stamp')
    BY <1>4, <1>R DEF AddLookup
  <2>2. QED
    BY <1>4, <2>1 DEF AddLookup
<1>5. ASSUME NEW a \in Adders, AddMark(a) PROVE TypeOK'
  <2>1. Canonicalize[raw[a]] \in Urls
    BY <1>5, FrontierAssumption DEF AddMark, SeenInv
  <2>2. AddTypes(apc', raw', stamp')
    BY <1>5, <1>R DEF AddMark
  <2>3. seen' \subseteq Urls /\ clock' \in Nat
    BY <1>5, <2>1 DEF AddMark
  <2>4. QED
    BY <1>5, <2>2, <2>3 DEF AddMark
<1>6. ASSUME NEW a \in Adders, AddPush(a) PROVE TypeOK'
  BY <1>6, PushedEntry DEF AddPush
<1>7. ASSUME NEW a \in Adders, AddCount(a) PROVE TypeOK'
  BY <1>7 DEF AddCount
<1>8. ASSUME NEW a \in Adders, AddNotify(a) PROVE TypeOK'
  BY <1>8 DEF AddNotify, Return
<1>9. ASSUME NEW c \in Consumers, NextPop(c) PROVE TypeOK'
  <2>1. PICK e \in pq : /\ pq' = pq \ {e} /\ hand' = [hand EXCEPT ![c] = e]
                        /\ delivered' = delivered \cup {e.url}
    BY <1>9 DEF NextPop
  <2>2. e \in Entries /\ e.url \in Urls
    BY <2>1 DEF Entries
  <2>3. QED
    BY <1>9, <2>1, <2>2 DEF NextPop, Move
<1>10. ASSUME NEW c \in Consumers,
              NextCall(c) \/ NextEmpty(c) \/ NextNotified(c) \/ NextCancelled(c)
              \/ NextRecheck(c) \/ NextCount(c) \/ NextReturn(c)
       PROVE  TypeOK'
  <2>1. PICK l \in {"idle", "check", "pop", "wait", "delay"} : Move(c, l)
    BY <1>10 DEF NextCall, NextEmpty, NextNotified, NextCancelled, NextRecheck,
                 NextCount, NextReturn
  <2>2. hand' = hand \/ hand' = [hand EXCEPT ![c] = NoEntry]
    BY <1>10 DEF NextCall, NextEmpty, NextNotified, NextCancelled, NextRecheck,
                 NextCount, NextReturn
  <2>3. notify' \in BOOLEAN
    BY <1>10, Zenon DEF NextCall, NextEmpty, NextNotified, NextCancelled, NextRecheck,
                 NextCount, NextReturn
  <2>4. size' \in Int
    BY <1>10 DEF NextCall, NextEmpty, NextNotified, NextCancelled, NextRecheck,
                 NextCount, NextReturn
  <2>5. /\ UNCHANGED <<closed, closePc, rules, seen, pq, clock>>
        /\ UNCHANGED <<apc, raw, stamp, todo, delivered>>
    BY <1>10 DEF NextCall, NextEmpty, NextNotified, NextCancelled, NextRecheck,
                 NextCount, NextReturn
  <2>6. QED
    BY <2>1, <2>2, <2>3, <2>4, <2>5 DEF Move
<1>11. CASE CloseStore \/ CloseNotify
  BY <1>11 DEF CloseStore, CloseNotify
<1>12. CASE UNCHANGED vars
  BY <1>12 DEF vars
<1>13. QED
  BY <1>1, <1>2, <1>3, <1>4, <1>5, <1>6, <1>7, <1>8, <1>9, <1>10, <1>11, <1>12
  DEF Next, AddStep, NextStep

\* Every step keeps what is known of the URLs seen, queued and delivered.
LEMMA SeenNext == ASSUME IndInv, [Next]_vars PROVE SeenInv' /\ IsFiniteSet(pq')
<1> USE DEF IndInv, TypeOK, closing, adding, taking, UrlOfAdd, Pushing, InFlight
<1>1. ASSUME UNCHANGED <<seen, pq, apc, raw, delivered>> PROVE SeenInv' /\ IsFiniteSet(pq')
  BY <1>1 DEF SeenInv
<1>2. ASSUME NEW a \in Adders, UNCHANGED <<seen, pq, delivered>>,
             \A b \in Adders \ {a} : apc'[b] = apc[b] /\ raw'[b] = raw[b],
             apc'[a] # "push", apc'[a] # "idle" => raw'[a] \in RawUrls
      PROVE  SeenInv' /\ IsFiniteSet(pq')
  <2>1. \A b \in Pushing' : b \in Pushing /\ UrlOfAdd(b)' = UrlOfAdd(b)
    BY <1>2
  <2>2. \A b \in Adders : apc'[b] # "idle" => raw'[b] \in RawUrls
    BY <1>2 DEF SeenInv
  <2>3. IsFiniteSet(pq')
    BY <1>2
  <2> HIDE DEF Pushing, UrlOfAdd
  <2>4. QED
    BY <1>2, <2>1, <2>2, <2>3 DEF SeenInv
<1>3. ASSUME NEW a \in Adders, NEW u \in RawUrls, AddCall(a, u)
      PROVE  SeenInv' /\ IsFiniteSet(pq')
  BY <1>1, <1>2, <1>3 DEF AddCall
<1>4. ASSUME NEW a \in Adders, AddFilter(a) \/ AddLookup(a) \/ AddCount(a) \/ AddNotify(a)
      PROVE  SeenInv' /\ IsFiniteSet(pq')
  <2>1. raw[a] \in RawUrls
    BY <1>4 DEF AddFilter, AddLookup, AddCount, AddNotify, SeenInv
  <2>2. QED
    BY <1>2, <1>4, <2>1 DEF AddFilter, AddLookup, AddCount, AddNotify, Return
<1>5. ASSUME NEW a \in Adders, AddMark(a) PROVE SeenInv' /\ IsFiniteSet(pq')
  <2>1. CASE Canonicalize[raw[a]] \in seen
    BY <1>2, <1>5, <2>1 DEF AddMark, Return
  <2>2. CASE Canonicalize[raw[a]] \notin seen
    <3>1. /\ seen' = seen \cup {UrlOfAdd(a)} /\ apc' = [apc EXCEPT ![a] = "push"]
          /\ UNCHANGED <<pq, raw, delivered>>
      BY <1>5, <2>2 DEF AddMark
    <3>2. raw[a] \in RawUrls
      BY <1>5 DEF AddMark, SeenInv
    <3>3. \A b \in Pushing : UrlOfAdd(b) # UrlOfAdd(a)
      BY <2>2 DEF SeenInv
    <3>4. QED
      BY <2>2, <3>1, <3>2, <3>3 DEF SeenInv
  <2>3. QED
    BY <2>1, <2>2
<1>6. ASSUME NEW a \in Adders, AddPush(a) PROVE SeenInv' /\ IsFiniteSet(pq')
  <2>1. /\ pq' = pq \cup {EntryOf(a)} /\ apc' = [apc EXCEPT ![a] = "count"]
        /\ UNCHANGED <<seen, raw, delivered>> /\ a \in Pushing
    BY <1>6 DEF AddPush
  <2>2. EntryOf(a).url = UrlOfAdd(a)
    BY <1>6, PushedEntry
  <2>3. Pushing' = Pushing \ {a}
    BY <2>1
  <2>4. IsFiniteSet(pq')
    BY <2>1, FS_AddElement
  <2>5. QED
    BY <2>1, <2>2, <2>3, <2>4 DEF SeenInv
<1>7. ASSUME NEW c \in Consumers, NextPop(c) PROVE SeenInv' /\ IsFiniteSet(pq')
  <2>1. PICK e \in pq : pq' = pq \ {e} /\ delivered' = delivered \cup {e.url}
    BY <1>7 DEF NextPop
  <2>2. UNCHANGED <<seen, apc, raw>>
    BY <1>7 DEF NextPop
  <2>3. IsFiniteSet(pq')
    BY <2>1, FS_RemoveElement
  <2>4. QED
    BY <2>1, <2>2, <2>3 DEF SeenInv
<1>8. QED
  BY <1>1, <1>3, <1>4, <1>5, <1>6, <1>7
  DEF Next, AddStep, NextStep, AddRule, NextCall, NextEmpty, NextNotified, NextCancelled,
      NextRecheck, NextCount, NextReturn, CloseStore, CloseNotify, vars

\* Every step keeps the size's account.
LEMMA SizeNext == ASSUME IndInv, [Next]_vars PROVE SizeAccounting'
<1> DEFINE Account == size = Cardinality(pq) - Cardinality(Pushed) + Cardinality(Popped)
<1>0. /\ TypeOK /\ IsFiniteSet(pq) /\ Account /\ size \in Int /\ Cardinality(pq) \in Nat
      /\ (Account' => SizeAccounting')
  BY FS_CardinalityType DEF IndInv, TypeOK, SizeAccounting, Pushed, Popped
<1> USE DEF closing, adding, taking
<1>1. ASSUME UNCHANGED <<size, pq, apc, cpc>> PROVE Account'
  BY <1>0, <1>1 DEF Pushed, Popped, InFlight
<1>2. ASSUME NEW a \in Adders, NEW l, apc' = [apc EXCEPT ![a] = l],
             apc[a] # "count", l # "count", UNCHANGED <<size, pq, cpc>>
      PROVE  Account'
  <2>1. Pushed' = Pushed
    BY <1>0, <1>2, PushedMoves
  <2>2. Popped' = Popped
    BY <1>2 DEF Popped, InFlight
  <2>3. QED
    BY <1>0, <1>2, <2>1, <2>2
<1>3. ASSUME NEW a \in Adders, NEW u \in RawUrls, AddCall(a, u) PROVE Account'
  BY <1>1, <1>2, <1>3 DEF AddCall
<1>4. ASSUME NEW a \in Adders, AddFilter(a) \/ AddLookup(a) \/ AddMark(a) \/ AddNotify(a)
      PROVE  Account'
  BY <1>2, <1>4 DEF AddFilter, AddLookup, AddMark, AddNotify, Return
<1>5. ASSUME NEW a \in Adders, AddPush(a) PROVE Account'
  <2>1. Cardinality(pq') = Cardinality(pq) + 1
    BY <1>0, <1>5, PushedEntry, FS_AddElement DEF AddPush
  <2>2. Cardinality(Pushed') = Cardinality(Pushed) + 1
    BY <1>0, <1>5, PushedMoves DEF AddPush
  <2>3. Popped' = Popped /\ size' = size
    BY <1>5 DEF AddPush, Popped, InFlight
  <2>4. QED
    BY <1>0, <2>1, <2>2, <2>3, FiniteGroups
<1>6. ASSUME NEW a \in Adders, AddCount(a) PROVE Account'
  <2>1. Cardinality(Pushed') = Cardinality(Pushed) - 1
    <3>1. apc[a] = "count" /\ apc' = [apc EXCEPT ![a] = "notify"] /\ "notify" # "count"
      BY <1>6 DEF AddCount
    <3>2. QED
      BY <1>0, <3>1, PushedMoves
  <2>2. Popped' = Popped /\ pq' = pq /\ size' = size + 1
    BY <1>6 DEF AddCount, Popped, InFlight
  <2>3. QED
    BY <1>0, <2>1, <2>2, FiniteGroups
<1>7. ASSUME NEW c \in Consumers, NextPop(c) PROVE Account'
  <2>1. PICK e \in pq : pq' = pq \ {e}
    BY <1>7 DEF NextPop
  <2>2. Cardinality(pq') = Cardinality(pq) - 1
    BY <1>0, <2>1, FS_RemoveElement
  <2>3. Cardinality(Popped') = Cardinality(Popped) + 1
    BY <1>0, <1>7, PoppedMoves DEF NextPop
  <2>4. Pushed' = Pushed /\ size' = size
    BY <1>7 DEF NextPop, Pushed, InFlight
  <2>5. QED
    BY <1>0, <2>2, <2>3, <2>4, FiniteGroups
<1>8. ASSUME NEW c \in Consumers, NextCount(c) PROVE Account'
  <2>1. Cardinality(Popped') = Cardinality(Popped) - 1
    BY <1>0, <1>8, PoppedMoves DEF NextCount
  <2>2. Pushed' = Pushed /\ pq' = pq /\ size' = size - 1
    BY <1>8 DEF NextCount, Pushed, InFlight
  <2>3. QED
    BY <1>0, <2>1, <2>2, FiniteGroups
<1>9. ASSUME NEW c \in Consumers,
             NextCall(c) \/ NextEmpty(c) \/ NextNotified(c) \/ NextCancelled(c)
             \/ NextRecheck(c) \/ NextReturn(c)
      PROVE  Account'
  <2>1. /\ cpc[c] # "count" /\ UNCHANGED <<size, pq, apc>>
        /\ \E l \in {"idle", "check", "pop", "wait"} : Move(c, l)
    BY <1>9 DEF NextCall, NextEmpty, NextNotified, NextCancelled, NextRecheck, NextReturn
  <2>2. Popped' = Popped
    BY <1>0, <2>1, PoppedMoves
  <2>3. Pushed' = Pushed
    BY <2>1 DEF Pushed, InFlight
  <2>4. QED
    BY <1>0, <2>1, <2>2, <2>3
<1>10. Account'
  BY <1>1, <1>3, <1>4, <1>5, <1>6, <1>7, <1>8, <1>9
  DEF Next, AddStep, NextStep, AddRule, CloseStore, CloseNotify, vars
<1>11. QED
  BY <1>0, <1>10

\* Every step leaves somebody who knows of the backlog: a consumer that takes
\* the token is awake, and one that goes to sleep found the queue empty.
LEMMA BacklogNext == ASSUME IndInv, [Next]_vars PROVE BacklogInv'
<1> USE DEF closing, adding, taking
<1>0. BacklogInv /\ TypeOK
  BY DEF IndInv
<1>1. ASSUME UNCHANGED <<pq, apc, cpc>>, notify => notify' PROVE BacklogInv'
  BY <1>0, <1>1, Zenon DEF BacklogInv
<1>2. ASSUME NEW a \in Adders, UNCHANGED <<pq, notify, cpc>>,
             apc[a] \notin {"count", "notify"},
             \A b \in Adders \ {a} : apc'[b] = apc[b]
      PROVE  BacklogInv'
  <2>1. ASSUME NEW b \in Adders, apc[b] \in {"count", "notify"}
        PROVE  apc'[b] \in {"count", "notify"}
    BY <1>2, <2>1
  <2>2. QED
    BY <1>0, <1>2, <2>1, Zenon DEF BacklogInv
<1>3. ASSUME NEW a \in Adders, NEW u \in RawUrls, AddCall(a, u) PROVE BacklogInv'
  <2>1. UNCHANGED <<pq, notify, cpc>> /\ apc[a] \notin {"count", "notify"}
    BY <1>3 DEF AddCall
  <2>2. \A b \in Adders \ {a} : apc'[b] = apc[b]
    BY <1>0, <1>3 DEF AddCall, TypeOK
  <2>3. QED
    BY <1>2, <2>1, <2>2
<1>4. ASSUME NEW a \in Adders, AddFilter(a) \/ AddLookup(a) \/ AddMark(a) PROVE BacklogInv'
  <2>1. UNCHANGED <<pq, notify, cpc>> /\ apc[a] \notin {"count", "notify"}
    BY <1>4 DEF AddFilter, AddLookup, AddMark
  <2>2. \A b \in Adders \ {a} : apc'[b] = apc[b]
    BY <1>0, <1>4 DEF AddFilter, AddLookup, AddMark, Return, TypeOK
  <2>3. QED
    BY <1>2, <2>1, <2>2
<1>5. ASSUME NEW a \in Adders, AddPush(a) \/ AddCount(a) PROVE BacklogInv'
  <2>1. apc'[a] \in {"count", "notify"}
    BY <1>0, <1>5 DEF AddPush, AddCount, TypeOK
  <2>2. QED
    BY <2>1, Zenon DEF BacklogInv
<1>6. ASSUME NEW a \in Adders, AddNotify(a) PROVE BacklogInv'
  BY <1>6, Zenon DEF AddNotify, BacklogInv
<1>7. ASSUME NEW c \in Consumers, NextEmpty(c) PROVE BacklogInv'
  BY <1>7, Zenon DEF NextEmpty, BacklogInv
<1>8. ASSUME NEW c \in Consumers,
             NextCall(c) \/ NextPop(c) \/ NextNotified(c) \/ NextCancelled(c)
             \/ NextRecheck(c) \/ NextCount(c) \/ NextReturn(c)
      PROVE  BacklogInv'
  <2>1. \E l \in {"idle", "check", "pop", "count", "delay"} : Move(c, l)
    BY <1>8 DEF NextCall, NextPop, NextNotified, NextCancelled, NextRecheck, NextCount,
                NextReturn
  <2>2. cpc'[c] # "wait"
    BY <1>0, <2>1 DEF Move, TypeOK
  <2>3. QED
    BY <2>2, Zenon DEF BacklogInv
<1>9. CASE CloseStore \/ (\E rule \in Rules : AddRule(rule)) \/ UNCHANGED vars
  <2>1. UNCHANGED <<pq, apc, cpc, notify>>
    BY <1>9 DEF CloseStore, AddRule, vars
  <2>2. QED
    BY <1>1, <2>1
<1>10. CASE CloseNotify
  BY <1>10, Zenon DEF CloseNotify, BacklogInv
<1>11. QED
  BY <1>3, <1>4, <1>5, <1>6, <1>7, <1>8, <1>9, <1>10 DEF Next, AddStep, NextStep

\* IndInv is an invariant.
LEMMA IndInvariant == Spec => []IndInv
<1>1. IndInv /\ [Next]_vars => IndInv'
  BY TypeNext, SeenNext, SizeNext, BacklogNext DEF IndInv
<1>2. QED
  BY <1>1, IndInvInit, PTL DEF Spec

\* For any goroutines, URLs and rules, Size() is off by exactly the calls
\* between their two steps (memory.go's Add and Next), and the one-token notify
\* channel never leaves all consumers asleep on a backlog.
THEOREM FrontierCorrect == Spec => []FrontierInv
<1>1. IndInv => NoSleepingBacklog
  <2> SUFFICES ASSUME BacklogInv, \A c \in Consumers : cpc[c] = "wait",
                      \A a \in Adders : apc[a] = "idle"
               PROVE  pq = {} \/ notify
    BY Zenon DEF IndInv, NoSleepingBacklog
  <2>1. \A a \in Adders : apc[a] \notin {"count", "notify"}
    OBVIOUS
  <2>2. QED
    BY <2>1, Zenon DEF BacklogInv
<1>2. IndInv => FrontierInv
  BY <1>1 DEF IndInv, FrontierInv
<1>3. QED
  BY <1>2, IndInvariant, PTL

-----------------------------------------------------------------------------
(* Refinement *)

\* Add's push admits a URL never scheduled before, Next's pop delivers the
\* smallest pending entry, and no other step moves an entry.
LEMMA StepRefines ==
    ASSUME IndInv, [Next]_vars
    PROVE  [F!FrontierNext]_<<pq, delivered>>
<1> USE DEF closing, adding, taking
<1>1. ASSUME NEW a \in Adders, AddPush(a) PROVE F!FrontierNext
  <2>1. EntryOf(a).url = UrlOfAdd(a) /\ EntryOf(a) \notin pq
    BY <1>1, PushedEntry
  <2>2. a \in Pushing
    BY <1>1 DEF AddPush, Pushing, InFlight
  <2>3. EntryOf(a).url \notin {e.url : e \in pq} \cup delivered
    BY <2>1, <2>2 DEF IndInv, SeenInv
  <2>4. pq' = pq \cup {EntryOf(a)} /\ delivered' = delivered
    BY <1>1 DEF AddPush
  <2>5. F!Admit(EntryOf(a)) /\ EntryOf(a) \in pq' \ pq
    BY <2>1, <2>3, <2>4 DEF F!Admit, F!UrlsOf
  <2>6. QED
    BY <2>5 DEF F!FrontierNext
<1>2. ASSUME NEW c \in Consumers, NextPop(c) PROVE F!FrontierNext
  BY <1>2 DEF NextPop, F!FrontierNext, F!Deliver
<1>3. ASSUME ~\E a \in Adders : AddPush(a), ~\E c \in Consumers : NextPop(c)
      PROVE  UNCHANGED <<pq, delivered>>
  BY <1>3 DEF Next, AddStep, NextStep, AddRule, AddCall, AddFilter, AddLookup, AddMark,
              AddCount, AddNotify, NextCall, NextEmpty, NextNotified, NextCancelled,
              NextRecheck, NextCount, NextReturn, CloseStore, CloseNotify, vars
<1>4. QED
  BY <1>1, <1>2, <1>3

\* The in-memory frontier implements the abstract one: however Adds of spellings
\* of one URL race, it is scheduled once, and consumers take entries in the
\* order of priority and discovery (MarkSeen's re-check, the heap's Less).
THEOREM FrontierRefines == Spec => ImplementsFrontier
<1>1. Init => F!FrontierInit
  BY DEF Init, F!FrontierInit
<1>2. QED
  BY <1>1, StepRefines, IndInvariant, PTL DEF Spec, ImplementsFrontier, F!FrontierSpec

=============================================================================

--------------------------- MODULE MemoryFrontier ---------------------------
(***************************************************************************)
(* The in-memory frontier (pkg/frontier/memory.go) with its deduplicator,  *)
(* filter and priority queue: goroutines that Add, goroutines that call    *)
(* Next, one Close.  Steps are split at every lock, atomic and channel     *)
(* operation.  The politeness delay of Next is time only and is a step     *)
(* that ends here; module CrawlDelay has its clock.                        *)
(*                                                                         *)
(* A raw URL is a model value; Canonicalize maps spellings of one URL to   *)
(* the same canonical value.  Each raw URL is added at most once, which    *)
(* bounds the Add calls.  DiscoveredAt is a logical clock.                 *)
(***************************************************************************)
EXTENDS Integers, Sequences, FiniteSets

CONSTANTS
    Adders, Consumers,
    RawUrls, Urls,
    Canonicalize,   \* raw URL -> canonical URL
    PriorityOf,     \* raw URL -> the Priority its caller gives it
    Rules,          \* filter rules [match : SUBSET Urls, allow : BOOLEAN]
    MaxRules,       \* bound on the rules added
    NoUrl, NoEntry

ASSUME FrontierAssumption ==
    /\ IsFiniteSet(Adders) /\ IsFiniteSet(Consumers)
    /\ Canonicalize \in [RawUrls -> Urls]
    /\ PriorityOf \in [RawUrls -> 0..3]
    /\ Rules \subseteq [match : SUBSET Urls, allow : BOOLEAN]
    /\ MaxRules \in Nat
    /\ NoUrl \notin RawUrls

Entries == [url : Urls, priority : 0..3, at : Nat]

ASSUME NoEntryAssumption == NoEntry \notin Entries

VARIABLES
    closed, rules, seen,
    pq,              \* the heap, as a set of entries
    size,            \* the atomic counter behind Size()
    notify,          \* a token in the notify channel (capacity 1)
    clock,
    apc, raw, stamp, \* an Add call: position, URL, DiscoveredAt
    cpc, hand,       \* a Next call: position, entry popped
    closePc,
    todo,            \* raw URLs not added yet (bounds the Add calls)
    delivered        \* history: canonical URLs popped for a consumer

vars == <<closed, rules, seen, pq, size, notify, clock, apc, raw, stamp,
          cpc, hand, closePc, todo, delivered>>

adding == <<apc, raw, stamp, todo, clock>>
taking == <<cpc, hand, delivered>>
closing == <<closed, closePc>>

\* priorityQueue.Less
Less(e, f) == \/ e.priority < f.priority
              \/ e.priority = f.priority /\ e.at < f.at

\* Filter.IsAllowed: the first matching rule decides, no match allows.
IsAllowed(url) ==
    LET matching == {i \in 1..Len(rules) : url \in rules[i].match}
    IN  \A i \in matching : (\A j \in matching : i <= j) => rules[i].allow

\* Add stores the canonical URL in the entry.
EntryOf(a) == [url |-> Canonicalize[raw[a]], priority |-> PriorityOf[raw[a]],
               at |-> stamp[a]]

TypeOK ==
    /\ closed \in BOOLEAN /\ notify \in BOOLEAN
    /\ rules \in Seq(Rules) /\ Len(rules) <= MaxRules
    /\ seen \subseteq Urls
    /\ pq \subseteq Entries
    /\ size \in Int /\ clock \in Nat
    /\ apc \in [Adders -> {"idle", "filter", "lookup", "mark", "push", "count",
                           "notify"}]
    /\ raw \in [Adders -> RawUrls \cup {NoUrl}]
    /\ stamp \in [Adders -> Nat]
    /\ cpc \in [Consumers -> {"idle", "check", "pop", "wait", "count",
                              "delay"}]
    /\ hand \in [Consumers -> Entries \cup {NoEntry}]
    /\ closePc \in {"idle", "notify", "returned"}
    /\ todo \subseteq RawUrls
    /\ delivered \subseteq Urls

\* NewMemoryFrontier.
Init ==
    /\ closed = FALSE /\ notify = FALSE
    /\ rules = <<>> /\ seen = {} /\ pq = {} /\ size = 0 /\ clock = 0
    /\ apc = [a \in Adders |-> "idle"]
    /\ raw = [a \in Adders |-> NoUrl]
    /\ stamp = [a \in Adders |-> 0]
    /\ cpc = [c \in Consumers |-> "idle"]
    /\ hand = [c \in Consumers |-> NoEntry]
    /\ closePc = "idle"
    /\ todo = RawUrls
    /\ delivered = {}

-----------------------------------------------------------------------------
(* Filter rules, appended at any time *)

AddRule(rule) ==
    /\ Len(rules) < MaxRules
    /\ rules' = Append(rules, rule)
    /\ UNCHANGED <<closing, seen, pq, size, notify, adding, taking>>

-----------------------------------------------------------------------------
(* Add *)

Return(a) == /\ apc' = [apc EXCEPT ![a] = "idle"]
             /\ raw' = [raw EXCEPT ![a] = NoUrl]
             /\ stamp' = [stamp EXCEPT ![a] = 0]

\* Calls with a nil entry or empty URL return at once and are left out.
AddCall(a, u) ==
    /\ apc[a] = "idle" /\ u \in todo
    /\ todo' = todo \ {u}
    /\ IF closed THEN UNCHANGED <<apc, raw>>
                 ELSE /\ apc' = [apc EXCEPT ![a] = "filter"]
                      /\ raw' = [raw EXCEPT ![a] = u]
    /\ UNCHANGED <<closing, rules, seen, pq, size, notify, stamp, clock, taking>>

AddFilter(a) ==
    /\ apc[a] = "filter"
    /\ IF IsAllowed(Canonicalize[raw[a]])
       THEN apc' = [apc EXCEPT ![a] = "lookup"] /\ UNCHANGED <<raw, stamp>>
       ELSE Return(a)
    /\ UNCHANGED <<closing, rules, seen, pq, size, notify, todo, clock, taking>>

\* MarkSeen: the test under the read lock ...
AddLookup(a) ==
    /\ apc[a] = "lookup"
    /\ IF Canonicalize[raw[a]] \notin seen
       THEN apc' = [apc EXCEPT ![a] = "mark"] /\ UNCHANGED <<raw, stamp>>
       ELSE Return(a)
    /\ UNCHANGED <<closing, rules, seen, pq, size, notify, todo, clock, taking>>

\* Fault: no re-check under the write lock.
AddMarkUnchecked(a) ==
    /\ apc[a] = "mark"
    /\ seen' = seen \cup {Canonicalize[raw[a]]}
    /\ apc' = [apc EXCEPT ![a] = "push"]
    /\ stamp' = [stamp EXCEPT ![a] = clock]
    /\ clock' = clock + 1
    /\ UNCHANGED <<closing, rules, pq, size, notify, raw, todo, taking>>

\* ... and the re-check and insert under the write lock; DiscoveredAt is set.
AddMark(a) ==
    /\ apc[a] = "mark"
    /\ \/ /\ Canonicalize[raw[a]] \notin seen
          /\ seen' = seen \cup {Canonicalize[raw[a]]}
          /\ apc' = [apc EXCEPT ![a] = "push"]
          /\ stamp' = [stamp EXCEPT ![a] = clock]
          /\ clock' = clock + 1
          /\ UNCHANGED raw
       \/ /\ Canonicalize[raw[a]] \in seen
          /\ Return(a)
          /\ UNCHANGED <<seen, clock>>
    /\ UNCHANGED <<closing, rules, pq, size, notify, todo, taking>>

AddPush(a) ==
    /\ apc[a] = "push"
    /\ pq' = pq \cup {EntryOf(a)}
    /\ apc' = [apc EXCEPT ![a] = "count"]
    /\ UNCHANGED <<closing, rules, seen, size, notify, raw, stamp, todo, clock,
                   taking>>

AddCount(a) ==
    /\ apc[a] = "count"
    /\ size' = size + 1
    /\ apc' = [apc EXCEPT ![a] = "notify"]
    /\ UNCHANGED <<closing, rules, seen, pq, notify, raw, stamp, todo, clock,
                   taking>>

\* Fault: waiting consumers are not notified.
AddNotifyNone(a) ==
    /\ apc[a] = "notify"
    /\ Return(a)
    /\ UNCHANGED <<closing, rules, seen, pq, size, notify, todo, clock, taking>>

\* The non-blocking send: a token that is already there is enough.
AddNotify(a) ==
    /\ apc[a] = "notify"
    /\ notify' = TRUE
    /\ Return(a)
    /\ UNCHANGED <<closing, rules, seen, pq, size, todo, clock, taking>>

-----------------------------------------------------------------------------
(* Next *)

Move(c, l) == cpc' = [cpc EXCEPT ![c] = l]

NextCall(c) ==
    /\ cpc[c] = "idle" /\ ~closed
    /\ Move(c, "pop")
    /\ UNCHANGED <<closing, rules, seen, pq, size, notify, adding, hand,
                   delivered>>

NextPop(c) ==
    /\ cpc[c] = "pop"
    /\ \E e \in pq :
          /\ \A f \in pq : ~Less(f, e)
          /\ pq' = pq \ {e}
          /\ hand' = [hand EXCEPT ![c] = e]
          /\ delivered' = delivered \cup {e.url}
    /\ Move(c, "count")
    /\ UNCHANGED <<closing, rules, seen, size, notify, adding>>

NextEmpty(c) ==
    /\ cpc[c] = "pop"
    /\ pq = {}
    /\ Move(c, "wait")
    /\ UNCHANGED <<closing, rules, seen, pq, size, notify, adding, hand,
                   delivered>>

NextNotified(c) ==
    /\ cpc[c] = "wait"
    /\ notify
    /\ notify' = FALSE
    /\ Move(c, "check")
    /\ UNCHANGED <<closing, rules, seen, pq, size, adding, hand, delivered>>

\* The caller's context is cancelled while Next waits.
NextCancelled(c) ==
    /\ cpc[c] = "wait"
    /\ Move(c, "idle")
    /\ UNCHANGED <<closing, rules, seen, pq, size, notify, adding, hand,
                   delivered>>

\* Back at the top of the loop.
NextRecheck(c) ==
    /\ cpc[c] = "check"
    /\ Move(c, IF closed THEN "idle" ELSE "pop")
    /\ UNCHANGED <<closing, rules, seen, pq, size, notify, adding, hand,
                   delivered>>

\* Fault: size is not decremented.
NextCountNone(c) ==
    /\ cpc[c] = "count"
    /\ Move(c, "delay")
    /\ UNCHANGED <<closing, rules, seen, pq, size, notify, adding, hand,
                   delivered>>

NextCount(c) ==
    /\ cpc[c] = "count"
    /\ size' = size - 1
    /\ Move(c, "delay")
    /\ UNCHANGED <<closing, rules, seen, pq, notify, adding, hand, delivered>>

NextReturn(c) ==
    /\ cpc[c] = "delay"
    /\ hand' = [hand EXCEPT ![c] = NoEntry]
    /\ Move(c, "idle")
    /\ UNCHANGED <<closing, rules, seen, pq, size, notify, adding, delivered>>

-----------------------------------------------------------------------------
(* Close *)

CloseStore ==
    /\ closePc = "idle"
    /\ closed' = TRUE
    /\ closePc' = "notify"
    /\ UNCHANGED <<rules, seen, pq, size, notify, adding, taking>>

CloseNotify ==
    /\ closePc = "notify"
    /\ notify' = TRUE
    /\ closePc' = "returned"
    /\ UNCHANGED <<closed, rules, seen, pq, size, adding, taking>>

-----------------------------------------------------------------------------
AddStep(a) == AddFilter(a) \/ AddLookup(a) \/ AddMark(a) \/ AddPush(a)
              \/ AddCount(a) \/ AddNotify(a)

NextStep(c) == NextPop(c) \/ NextEmpty(c) \/ NextNotified(c) \/ NextRecheck(c)
               \/ NextCount(c) \/ NextReturn(c)

Next ==
    \/ \E rule \in Rules : AddRule(rule)
    \/ \E a \in Adders : AddStep(a) \/ \E u \in RawUrls : AddCall(a, u)
    \/ \E c \in Consumers : NextCall(c) \/ NextStep(c) \/ NextCancelled(c)
    \/ CloseStore \/ CloseNotify

Spec == Init /\ [][Next]_vars

\* Calls in progress go on; nobody is obliged to call, cancel or close.
FairSpec == /\ Spec
            /\ \A a \in Adders : WF_vars(AddStep(a))
            /\ \A c \in Consumers : WF_vars(NextStep(c))
            /\ WF_vars(CloseNotify)

\* Consumers are loops: each calls Next again when the last call returned.
LoopSpec == FairSpec /\ \A c \in Consumers : WF_vars(NextCall(c))

-----------------------------------------------------------------------------
(* Properties *)

InFlight(S, f, l) == {p \in S : f[p] = l}

\* Size() is the queue's length but for the Adds that have pushed and not yet
\* counted, and the Nexts that have popped and not yet uncounted: it is exact
\* whenever no call is between its two steps.
SizeAccounting ==
    size = Cardinality(pq) - Cardinality(InFlight(Adders, apc, "count"))
                           + Cardinality(InFlight(Consumers, cpc, "count"))

\* The one-token notify channel never lets every consumer sleep on a backlog:
\* if all of them wait and every Add has finished, queued entries imply a
\* token.
NoSleepingBacklog ==
    (\A c \in Consumers : cpc[c] = "wait") /\ (\A a \in Adders : apc[a] = "idle")
        => pq = {} \/ notify

\* The size counter accounts for every entry and no backlog is slept on,
\* whichever steps of Adds, Nexts and Close interleave.
FrontierInv == TypeOK /\ SizeAccounting /\ NoSleepingBacklog

\* Refinement: racing Adds of spellings of one URL schedule it once, and
\* consumers take entries in the order of priority and discovery.
F == INSTANCE Frontier WITH UrlOf <- LAMBDA e : e.url, pending <- pq

\* The in-memory frontier implements the abstract one.
ImplementsFrontier == F!FrontierSpec

\* Consumers in a loop empty the queue, unless the frontier is closed.
BacklogServed == pq # {} ~> pq = {} \/ closed

=============================================================================

---------------------------- MODULE BrowserPool ----------------------------
(***************************************************************************)
(* The Chrome pool (pkg/browser/pool.go, browser.go) and its use by        *)
(* Renderer.Render: a semaphore of MaxBrowsers slots, a LIFO idle list     *)
(* under a mutex, browsers retired after MaxTabs tabs, and the health loop *)
(* that inspects the idle list without taking browsers off it.             *)
(*                                                                         *)
(* A browser is a model value; launching one takes a fresh value, so the   *)
(* set Browsers bounds the launches (one that finds none left fails, as a  *)
(* launch always may).                                                     *)
(***************************************************************************)
EXTENDS Integers, Sequences, FiniteSets, SequencesExt

CONSTANTS
    Users,         \* goroutines that render
    Browsers, NoBrowser,
    MaxBrowsers,   \* Config.MaxBrowsers
    MaxTabs,       \* Config.MaxTabsPerBrowser
    MaxChecks      \* bound on the health checks; 0 turns the loop off

ASSUME PoolAssumption ==
    /\ MaxBrowsers \in Nat \ {0} /\ MaxTabs \in Nat \ {0} /\ MaxChecks \in Nat
    /\ IsFiniteSet(Browsers) /\ Cardinality(Browsers) >= MaxBrowsers
    /\ NoBrowser \notin Browsers

VARIABLES
    idle,            \* Pool.browsers
    launched,        \* browsers ever launched
    closedB, tabs,   \* Browser.closed and Browser.tabsUsed
    slots,           \* semaphore permits taken
    upc, held,       \* a user's position and the browser it was given
    poolClosed, allocDone,
    hpc, live, healthy, dead, needed, checks   \* the health loop

vars == <<idle, launched, closedB, tabs, slots, upc, held, poolClosed,
          allocDone, hpc, live, healthy, dead, needed, checks>>

users == <<upc, held, slots>>
health == <<hpc, live, healthy, dead, needed, checks>>

Exhausted(b) == tabs[b] >= MaxTabs
Live == {b \in launched : ~closedB[b]}

\* The elements of a list that are in S, in their order, as a recursive
\* function (SelectSeq, about which the provers know nothing).
Sift(s, S) ==
    LET kept[i \in 0..Len(s)] ==
            IF i = 0 THEN <<>>
            ELSE IF s[i] \in S THEN Append(kept[i - 1], s[i]) ELSE kept[i - 1]
    IN  kept[Len(s)]

TypeOK ==
    /\ idle \in Seq(Browsers)
    /\ launched \subseteq Browsers
    /\ closedB \in [Browsers -> BOOLEAN]
    /\ tabs \in [Browsers -> Nat]
    /\ slots \in 0..MaxBrowsers
    /\ upc \in [Users -> {"out", "acquire", "pick", "tab", "use", "release"}]
    /\ held \in [Users -> Browsers \cup {NoBrowser}]
    /\ poolClosed \in BOOLEAN /\ allocDone \in BOOLEAN
    /\ hpc \in {"idle", "ping", "merge", "spawn"}
    /\ live \in Seq(Browsers) /\ healthy \in Seq(Browsers)
    /\ dead \in Seq(Browsers)
    /\ needed \in Nat /\ checks \in 0..MaxChecks

\* NewPool pre-warms MaxBrowsers browsers.
Init ==
    /\ launched = CHOOSE S \in SUBSET Browsers : Cardinality(S) = MaxBrowsers
    /\ idle = SetToSeq(launched)
    /\ closedB = [b \in Browsers |-> FALSE]
    /\ tabs = [b \in Browsers |-> 0]
    /\ slots = 0
    /\ upc = [u \in Users |-> "out"]
    /\ held = [u \in Users |-> NoBrowser]
    /\ poolClosed = FALSE /\ allocDone = FALSE
    /\ hpc = "idle"
    /\ live = <<>> /\ healthy = <<>> /\ dead = <<>> /\ needed = 0 /\ checks = 0

\* newBrowser: a fresh process, unless the allocator context is cancelled.
Launch(b) == /\ ~allocDone
             /\ launched # Browsers
             /\ b = CHOOSE x \in Browsers : x \notin launched
             /\ launched' = launched \cup {b}

Goto(u, l) == upc' = [upc EXCEPT ![u] = l]

-----------------------------------------------------------------------------
(* Acquire, the use of a tab in Render, and the release closure *)

AcquireCall(u) ==
    /\ upc[u] = "out"
    /\ Goto(u, "acquire")
    /\ UNCHANGED <<idle, launched, closedB, tabs, slots, held, poolClosed,
                   allocDone, health>>

AcquireSlot(u) ==
    /\ upc[u] = "acquire"
    /\ slots < MaxBrowsers
    /\ slots' = slots + 1
    /\ Goto(u, "pick")
    /\ UNCHANGED <<idle, launched, closedB, tabs, held, poolClosed, allocDone,
                   health>>

\* The render's timeout ends the wait for a slot.
AcquireTimeout(u) ==
    /\ upc[u] = "acquire"
    /\ Goto(u, "out")
    /\ UNCHANGED <<idle, launched, closedB, tabs, slots, held, poolClosed,
                   allocDone, health>>

\* Fault: the browser stays on the idle list.
PickPeek(u) ==
    /\ upc[u] = "pick" /\ idle # <<>>
    /\ held' = [held EXCEPT ![u] = Last(idle)]
    /\ Goto(u, "tab")
    /\ UNCHANGED <<idle, launched, closedB, tabs, slots, poolClosed, allocDone,
                   health>>

Pick(u) ==
    /\ upc[u] = "pick" /\ idle # <<>>
    /\ held' = [held EXCEPT ![u] = Last(idle)]
    /\ idle' = Front(idle)
    /\ Goto(u, "tab")
    /\ UNCHANGED <<launched, closedB, tabs, slots, poolClosed, allocDone, health>>

PickLaunch(u) ==
    /\ upc[u] = "pick" /\ idle = <<>>
    /\ \E b \in Browsers : Launch(b) /\ held' = [held EXCEPT ![u] = b]
    /\ Goto(u, "tab")
    /\ UNCHANGED <<idle, closedB, tabs, slots, poolClosed, allocDone, health>>

PickFail(u) ==
    /\ upc[u] = "pick" /\ idle = <<>>
    /\ slots' = slots - 1
    /\ Goto(u, "out")
    /\ UNCHANGED <<idle, launched, closedB, tabs, held, poolClosed, allocDone,
                   health>>

\* NewTab: an error on a closed browser, otherwise one more tab.
NewTab(u) ==
    /\ upc[u] = "tab"
    /\ IF closedB[held[u]]
       THEN Goto(u, "release") /\ UNCHANGED tabs
       ELSE /\ Goto(u, "use")
            /\ tabs' = [tabs EXCEPT ![held[u]] = @ + 1]
    /\ UNCHANGED <<idle, launched, closedB, slots, held, poolClosed, allocDone,
                   health>>

\* chromedp.Run ends: the page is rendered, fails, or times out.
UseEnds(u) ==
    /\ upc[u] = "use"
    /\ Goto(u, "release")
    /\ UNCHANGED <<idle, launched, closedB, tabs, slots, held, poolClosed,
                   allocDone, health>>

\* release of a worn-out or closed browser: a replacement, if it starts.
Retire(u) ==
    /\ upc[u] = "release"
    /\ Exhausted(held[u]) \/ closedB[held[u]]
    /\ closedB' = [closedB EXCEPT ![held[u]] = TRUE]
    /\ \/ \E b \in Browsers : Launch(b) /\ idle' = Append(idle, b)
       \/ UNCHANGED <<idle, launched>>
    /\ slots' = slots - 1
    /\ held' = [held EXCEPT ![u] = NoBrowser]
    /\ Goto(u, "out")
    /\ UNCHANGED <<tabs, poolClosed, allocDone, health>>

PutBack(u) ==
    /\ upc[u] = "release"
    /\ ~Exhausted(held[u]) /\ ~closedB[held[u]]
    /\ idle' = Append(idle, held[u])
    /\ slots' = slots - 1
    /\ held' = [held EXCEPT ![u] = NoBrowser]
    /\ Goto(u, "out")
    /\ UNCHANGED <<launched, closedB, tabs, poolClosed, allocDone, health>>

-----------------------------------------------------------------------------
(* healthLoop and checkHealth *)

\* The idle list is sorted into live and dead under the lock, and not changed.
CheckSnapshot ==
    /\ hpc = "idle" /\ ~poolClosed
    /\ checks < MaxChecks
    /\ checks' = checks + 1
    /\ live' = Sift(idle, {b \in Browsers : ~closedB[b] /\ ~Exhausted(b)})
    /\ dead' = Sift(idle, {b \in Browsers : closedB[b] \/ Exhausted(b)})
    /\ healthy' = <<>>
    /\ hpc' = "ping"
    /\ UNCHANGED <<idle, launched, closedB, tabs, users, poolClosed, allocDone,
                   needed>>

\* Ping, outside the lock: it fails on a closed browser and may fail on any.
CheckPing ==
    /\ hpc = "ping" /\ live # <<>>
    /\ live' = Tail(live)
    /\ \/ /\ healthy' = Append(healthy, Head(live))
          /\ ~closedB[Head(live)] /\ ~allocDone
          /\ UNCHANGED dead
       \/ /\ dead' = Append(dead, Head(live))
          /\ UNCHANGED healthy
    /\ UNCHANGED <<idle, launched, closedB, tabs, users, poolClosed, allocDone,
                   hpc, needed, checks>>

CheckCloseDead ==
    /\ hpc = "ping" /\ live = <<>>
    /\ closedB' = [b \in Browsers |-> closedB[b] \/ Contains(dead, b)]
    /\ hpc' = "merge"
    /\ UNCHANGED <<idle, launched, tabs, users, poolClosed, allocDone, live,
                   healthy, dead, needed, checks>>

\* p.browsers = append(healthy, p.browsers...)
CheckMerge ==
    /\ hpc = "merge"
    /\ idle' = healthy \o idle
    /\ needed' = Len(dead)
    /\ healthy' = <<>> /\ dead' = <<>>
    /\ hpc' = "spawn"
    /\ UNCHANGED <<launched, closedB, tabs, users, poolClosed, allocDone, live,
                   checks>>

CheckSpawn ==
    /\ hpc = "spawn" /\ needed > 0
    /\ needed' = needed - 1
    /\ \/ \E b \in Browsers : Launch(b) /\ idle' = Append(idle, b)
       \/ UNCHANGED <<idle, launched>>
    /\ UNCHANGED <<closedB, tabs, users, poolClosed, allocDone, hpc, live,
                   healthy, dead, checks>>

CheckEnd ==
    /\ hpc = "spawn" /\ needed = 0
    /\ hpc' = "idle"
    /\ UNCHANGED <<idle, launched, closedB, tabs, users, poolClosed, allocDone,
                   live, healthy, dead, needed, checks>>

-----------------------------------------------------------------------------
(* Close *)

CloseStart ==
    /\ ~poolClosed
    /\ poolClosed' = TRUE
    /\ UNCHANGED <<idle, launched, closedB, tabs, users, allocDone, health>>

\* closeAll and allocCxl.
CloseAll ==
    /\ poolClosed /\ ~allocDone
    /\ closedB' = [b \in Browsers |-> closedB[b] \/ Contains(idle, b)]
    /\ idle' = <<>>
    /\ allocDone' = TRUE
    /\ UNCHANGED <<launched, tabs, users, poolClosed, health>>

-----------------------------------------------------------------------------
UserStep(u) ==
    \/ Pick(u) \/ PickLaunch(u) \/ PickFail(u) \/ NewTab(u) \/ UseEnds(u)
    \/ Retire(u) \/ PutBack(u)

HealthStep == CheckPing \/ CheckCloseDead \/ CheckMerge \/ CheckSpawn \/ CheckEnd

Next ==
    \/ \E u \in Users : AcquireCall(u) \/ AcquireSlot(u) \/ AcquireTimeout(u)
                        \/ UserStep(u)
    \/ CheckSnapshot \/ HealthStep
    \/ CloseStart \/ CloseAll

Spec == Init /\ [][Next]_vars

-----------------------------------------------------------------------------
(* Properties *)

\* A slot is taken exactly by the users between their Acquire and their
\* release, failed launches and replacements included: the pool never runs
\* out of slots by itself.
SlotsAccounted ==
    slots = Cardinality({u \in Users : upc[u] \notin {"out", "acquire"}})

\* As long as no health check has run, a browser has one owner: no two users
\* hold it and a held one is not idle, through retirement, replacement and
\* Close.  (A health check adds the healthy browsers to a list they may still
\* be on, or have left for a user.)
ExclusiveOwner ==
    checks = 0 =>
        /\ \A u, v \in Users : held[u] # NoBrowser /\ held[u] = held[v] => u = v
        /\ \A u \in Users : ~Contains(idle, held[u])
        /\ \A i, j \in 1..Len(idle) : idle[i] = idle[j] => i = j

\* pool.go:13 "Pool manages a bounded set of Chrome browser instances ...
\* limiting the number of live browsers": so it is, until a health check
\* starts replacements of browsers that are in use.
BoundedLive == checks = 0 => Cardinality(Live) <= MaxBrowsers

\* Every slot taken is held by a user, with the health loop running too; and
\* until that first runs, each browser has one owner and no more than
\* MaxBrowsers are live.
PoolInv == TypeOK /\ SlotsAccounted /\ ExclusiveOwner /\ BoundedLive

=============================================================================

------------------------------- MODULE Robots -------------------------------
(***************************************************************************)
(* The robots.txt middleware (pkg/middleware/robots.go): a cache of rules  *)
(* per domain under one RWMutex.  getOrFetch looks the domain up under the *)
(* read lock, again under the write lock, and keeps the write lock, for    *)
(* every domain, while robots.txt is fetched.                              *)
(*                                                                         *)
(* A site is what it would answer now: rules that allow the request (4xx   *)
(* counts as such), rules that allow it with a Crawl-delay ("slow") or     *)
(* deny it; "down" (5xx); "failing" (a network error, or a status that     *)
(* robotstxt.FromStatusAndBytes rejects).  Parsing is external.            *)
(***************************************************************************)
EXTENDS Integers, FiniteSets

CONSTANTS
    Requests, Domains,
    NoDomain,        \* a URL that does not parse or has no host
    Nobody,          \* the write lock is free
    CacheExpiry,
    MaxTime          \* bound on the clock

RobotsAssumption ==
    /\ CacheExpiry \in Nat \ {0} /\ MaxTime \in Nat
    /\ NoDomain \notin Domains /\ Nobody \notin Requests

VARIABLES
    writer,  \* the request that holds the write lock
    cache,   \* Robots.cache: rules and fetchedAt, of some domains
    now,
    req,     \* a request: its position, domain, and the rules it was given
    site,
    last,    \* history: when a site last allowed, and last denied; -1 is never
    told     \* history: the domains OnCrawlDelay was called for

vars == <<writer, cache, now, req, site, last, told>>

Allowing == {"allow", "slow"}
Rules == Allowing \cup {"deny"}
Sites == Rules \cup {"down", "failing"}
Times == 0..MaxTime
Positions == {"idle", "fast", "slow", "fetch", "test", "next", "refused"}
Idle == [pc |-> "idle", host |-> NoDomain, rules |-> "failing", at |-> 0]

TypeOK ==
    /\ writer \in Requests \cup {Nobody}
    /\ DOMAIN cache \subseteq Domains
    /\ \A d \in DOMAIN cache : cache[d] \in [group : Rules, fetchedAt : Times]
    /\ now \in Times
    /\ req \in [Requests -> [pc : Positions, host : Domains \cup {NoDomain},
                             rules : Sites, at : Times]]
    /\ site \in [Domains -> Sites]
    /\ last \in [Domains -> [allow : Times \cup {-1}, deny : Times \cup {-1}]]
    /\ told \subseteq Domains

Init ==
    /\ writer = Nobody /\ cache = <<>> /\ now = 0
    /\ req = [r \in Requests |-> Idle]
    /\ site = [d \in Domains |-> "allow"]
    /\ last = [d \in Domains |-> [allow |-> 0, deny |-> -1]]
    /\ told = {}

-----------------------------------------------------------------------------
(* ProcessRequest and getOrFetch *)

\* A request moves on, with rules that it got now.
Goto(r, l) == req' = [req EXCEPT ![r].pc = l]
Give(r, group, l) ==
    req' = [req EXCEPT ![r] = [@ EXCEPT !.pc = l, !.rules = group, !.at = now]]

\* A URL without a host is passed on unchecked.
Call(r, d) ==
    /\ req[r] = Idle
    /\ req' = [req EXCEPT ![r].host = d, ![r].pc = IF d = NoDomain THEN "next" ELSE "fast"]
    /\ UNCHANGED <<writer, cache, now, site, last, told>>

Fresh(d) == d \in DOMAIN cache /\ now - cache[d].fetchedAt < CacheExpiry
Hit(r) == Fresh(req[r].host) /\ Give(r, cache[req[r].host].group, "test")

\* The read lock, which a fetch under way holds up.
FastPath(r) ==
    /\ req[r].pc = "fast" /\ writer = Nobody
    /\ Hit(r) \/ (~Fresh(req[r].host) /\ Goto(r, "slow"))
    /\ UNCHANGED <<writer, cache, now, site, last, told>>

\* Fault: the cache is not looked at again under the write lock.
SlowPathUnchecked(r) ==
    /\ req[r].pc = "slow" /\ writer = Nobody
    /\ Goto(r, "fetch") /\ writer' = r
    /\ UNCHANGED <<cache, now, site, last, told>>

\* The write lock: look again, and fetch with the lock held.
SlowPath(r) ==
    /\ req[r].pc = "slow" /\ writer = Nobody
    /\ \/ Hit(r) /\ UNCHANGED writer
       \/ ~Fresh(req[r].host) /\ Goto(r, "fetch") /\ writer' = r
    /\ UNCHANGED <<cache, now, site, last, told>>

Store(d, group) ==
    cache' = [e \in DOMAIN cache \cup {d} |->
                 IF e = d THEN [group |-> group, fetchedAt |-> now] ELSE cache[e]]

\* Rules are stored; 5xx denies everything to this request only.
Keep(r, d) == IF site[d] = "down" THEN UNCHANGED cache ELSE Store(d, site[d])

\* OnCrawlDelay is called and the entry stored before the lock is released.
FetchAnswered(r) ==
    LET d == req[r].host IN
    /\ req[r].pc = "fetch" /\ site[d] # "failing"
    /\ told' = IF site[d] = "slow" THEN told \cup {d} ELSE told
    /\ Keep(r, d) /\ Give(r, site[d], "test")
    /\ writer' = Nobody /\ UNCHANGED <<now, site, last>>

\* An error, of the site or of the request's own context: fail open.
FetchFails(r) ==
    /\ req[r].pc = "fetch" /\ Give(r, "failing", "next")
    /\ writer' = Nobody /\ UNCHANGED <<cache, now, site, last, told>>

\* entry.group.Test(path)
Test(r) ==
    /\ req[r].pc = "test"
    /\ Goto(r, IF req[r].rules \in Allowing THEN "next" ELSE "refused")
    /\ UNCHANGED <<writer, cache, now, site, last, told>>

\* next returns, or ErrDisallowed is; X-Robots-Tag only marks the response.
Return(r) ==
    /\ req[r].pc \in {"next", "refused"} /\ req' = [req EXCEPT ![r] = Idle]
    /\ UNCHANGED <<writer, cache, now, site, last, told>>

-----------------------------------------------------------------------------
(* The sites and time: a site may answer otherwise at any moment. *)

Environment(d, s, t) ==
    /\ site' = [site EXCEPT ![d] = s] /\ now' = t
    /\ last' = [e \in Domains |->
           [allow |-> IF site'[e] \in Allowing THEN t ELSE last[e].allow,
            deny |-> IF site'[e] = "deny" THEN t ELSE last[e].deny]]
    /\ UNCHANGED <<writer, cache, req, told>>

SiteChanges(d) == \E s \in Sites \ {site[d]} : Environment(d, s, now)
Tick == now < MaxTime /\ \E d \in Domains : Environment(d, site[d], now + 1)

Next ==
    \/ Tick
    \/ \E d \in Domains : SiteChanges(d)
    \/ \E r \in Requests :
          \/ \E d \in Domains \cup {NoDomain} : Call(r, d)
          \/ FastPath(r) \/ SlowPath(r) \/ FetchAnswered(r) \/ FetchFails(r)
          \/ Test(r) \/ Return(r)

Spec == Init /\ [][Next]_vars

-----------------------------------------------------------------------------
(* Properties *)

Within(t, r) == t >= 0 /\ req[r].at - t < CacheExpiry

\* A request is forwarded on rules that the site had within CacheExpiry of the
\* check, or because its own fetch failed; its host's Crawl-delay was reported.
ForwardedByRules ==
    \A r \in Requests : req[r].pc = "next" /\ req[r].host # NoDomain =>
        \/ req[r].rules = "failing"
        \/ /\ Within(last[req[r].host].allow, r)
           /\ req[r].rules = "slow" => req[r].host \in told

\* A request is refused on rules that the site had within CacheExpiry, or
\* because the request itself found the site unavailable: an outage is never
\* held against later requests.
RefusedByRules ==
    \A r \in Requests : req[r].pc = "refused" =>
        req[r].rules = "down" \/ Within(last[req[r].host].deny, r)

\* Requests are forwarded and refused on rules no older than CacheExpiry,
\* whatever the site does and however requests interleave; the write lock is
\* held exactly by the request that fetches.
RobotsInv ==
    /\ TypeOK /\ ForwardedByRules /\ RefusedByRules
    /\ \A r \in Requests : req[r].pc = "fetch" <=> writer = r

\* Requests that find an entry missing or expired together fetch it once: an
\* entry is replaced only after it expired.
FetchedOnce ==
    [][\A d \in DOMAIN cache : cache'[d] # cache[d] =>
           now - cache[d].fetchedAt >= CacheExpiry]_vars

=============================================================================

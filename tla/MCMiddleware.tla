---------------------------- MODULE MCMiddleware ----------------------------
(***************************************************************************)
(* The middlewares that keep state between requests or across attempts,    *)
(* for TLC: RateLimit, Cache, ProxyRotation, Robots, Auth and Retry.  A    *)
(* request meets them one after the other and they share no state, so each *)
(* is checked by itself: part says which of them a behaviour is about, and *)
(* the others stay in their initial states.                                *)
(***************************************************************************)
EXTENDS RateLimit, TLC

CONSTANTS
    d1, d2,
    Fetchers, Keys, Bypass, MaxEntries, DefaultTTL, MaxAges, NoMaxAge,
    NoResponse, MaxTime,
    N, MaxFailures, IndexLimit,
    Hosts, Nobody, CacheExpiry,
    Lifetimes, Buffer, MaxLatency,
    MaxRetries, InitialBackoff, MaxBackoff, Multiplier, JitterPercent,
    Second, Half, RetryAfters, NoHeader

\* One domain with an override and one without.
MCOverrides == [d \in {d2} |-> 2]

VARIABLES part, now,
          lru, entries, rpc, want, reply, missed,
          mode, index, failures, qpc, base, i, pool, chosen,
          writer, robotsCache, req, site, last, told,
          mu, token, answer, hpc, header,
          tpc, attempt, delay, cancelled, result, log

\* Seconds that fit a duration, negative ones, and ones that wrap around, a date
\* to come, and a value that is no time at all.
MCRetryAfters ==
    {[form |-> "seconds", n |-> 2], [form |-> "seconds", n |-> -1],
     [form |-> "seconds", n |-> 5],
     [form |-> "date", n |-> 7], [form |-> "other", n |-> 0]}

C == INSTANCE Cache WITH Requests <- Fetchers, asked <- want
X == INSTANCE ProxyRotation
B == INSTANCE Robots WITH Requests <- Fetchers, Domains <- Hosts, cache <- robotsCache
A == INSTANCE Auth WITH Requests <- Fetchers
T == INSTANCE Retry

ASSUME /\ C!CacheAssumption /\ X!ProxyAssumption /\ B!RobotsAssumption
       /\ A!AuthAssumption /\ T!RetryAssumption

cache == <<lru, entries, rpc, want, reply, missed>>
proxy == <<mode, index, failures, qpc, base, i, pool, chosen>>
robots == <<writer, robotsCache, req, site, last, told>>
auth == <<mu, token, answer, hpc, header>>
retry == <<tpc, attempt, delay, cancelled, result, log>>

MiddlewareInit ==
    /\ part \in {"rate", "cache", "proxy", "robots", "auth", "retry"}
    /\ Init /\ C!Init /\ X!Init /\ B!Init /\ A!Init /\ T!Init
    /\ part # "proxy" => mode = "random"

\* now is the clock of the cache, of robots.txt and of the tokens.
MiddlewareNext ==
    /\ UNCHANGED part
    /\ \/ part = "rate" /\ Next /\ UNCHANGED <<now, cache, proxy, robots, auth, retry>>
       \/ part = "cache" /\ C!Next /\ UNCHANGED <<vars, proxy, robots, auth, retry>>
       \/ part = "proxy" /\ X!Next /\ UNCHANGED <<now, vars, cache, robots, auth, retry>>
       \/ part = "robots" /\ B!Next /\ UNCHANGED <<vars, cache, proxy, auth, retry>>
       \/ part = "auth" /\ A!Next /\ UNCHANGED <<vars, cache, proxy, robots, retry>>
       \/ part = "retry" /\ T!Next /\ UNCHANGED <<now, vars, cache, proxy, robots, auth>>
       \/ part = "retry" /\ tpc = "done" /\ UNCHANGED <<now, vars, cache, proxy, robots, auth, retry>>

MiddlewareSpec ==
    MiddlewareInit /\ [][MiddlewareNext]_<<part, now, vars, cache, proxy, robots, auth, retry>>

\* The cache's list and map agree within MaxEntries, however requests look up,
\* evict and store between each other's steps; no response is served past its
\* lifetime; and only the least recently used entry leaves a full cache.
CacheOK == []C!CacheInv /\ C!EvictsLeastRecent

\* A proxy's counter passes MaxFailures only by the requests under way, and an
\* unhealthy proxy that no request is committed to stays unhealthy.
ProxyOK == []X!ProxyInv /\ X!OutStaysOut

\* Requests are forwarded and refused on robots.txt rules that the site had
\* within CacheExpiry, or on their own failed fetch; an entry is fetched again
\* only when it expired, however many requests miss it together.
RobotsOK == []B!RobotsInv /\ B!FetchedOnce

\* A cached OAuth2 token is good when it is used, and fetched by one request.
AuthInv == A!AuthInv

\* Retries wait as they were asked to and return the last attempt's result.
RetryInv == T!RetryInv

\* The requests of each middleware are interchangeable.
Symmetry == Permutations(Requests) \cup Permutations(Fetchers)

=============================================================================

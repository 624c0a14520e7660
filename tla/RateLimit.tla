----------------------------- MODULE RateLimit -----------------------------
(***************************************************************************)
(* The rate limiting middleware (pkg/middleware/ratelimit.go): a global    *)
(* token bucket, and one bucket per domain that getDomainLimiter creates   *)
(* on first use with double-checked locking, while SetDomainRate may       *)
(* create it or change its rate.  A request waits for a global token, then *)
(* looks its domain's limiter up, then waits on the limiter it was given.  *)
(*                                                                         *)
(* rate.Limiter (golang.org/x/time/rate) is external: a bucket of at most  *)
(* BurstSize tokens that starts full and gains its rate at every tick; a   *)
(* Wait takes one token, or returns an error when its context is done.     *)
(* Each limiter is an object of its own: a limiter that was looked up goes *)
(* on limiting whoever holds it, in the map or not.                        *)
(***************************************************************************)
EXTENDS Integers, Sequences, FiniteSets

CONSTANTS
    Requests, Domains,
    NoDomain,          \* extractHost of a URL without a host
    GlobalRPS, DefaultDomainRPS, BurstSize,
    Overrides,         \* cfg.DomainOverrides, a function on some domains
    Rates,             \* rates that SetDomainRate is called with
    MaxSets            \* bound on the calls of SetDomainRate

ASSUME RateLimitAssumption ==
    /\ GlobalRPS \in Nat \ {0} /\ DefaultDomainRPS \in Nat \ {0}
    /\ BurstSize \in Nat \ {0} /\ MaxSets \in Nat
    /\ DOMAIN Overrides \subseteq Domains /\ NoDomain \notin Domains
    /\ \A d \in DOMAIN Overrides : Overrides[d] \in Nat \ {0}
    /\ Rates \subseteq Nat \ {0}

VARIABLES
    tokens,          \* the global limiter's
    limiters,        \* every domain limiter ever made
    domainLimiters,  \* the map: an index of limiters, 0 for no entry
    lpc, dom, held,  \* a request's position, its domain and its limiter
    sets,
    asked,           \* history: the rate last asked for, of each domain
    credit           \* history: what an ideal bucket of that rate would hold

vars == <<tokens, limiters, domainLimiters, lpc, dom, held, sets, asked, credit>>

Waits == {"global", "fast", "slow", "domain"}

TypeOK ==
    /\ tokens \in 0..BurstSize
    /\ limiters \in Seq([rate : Nat, tokens : 0..BurstSize])
    /\ domainLimiters \in [Domains -> 0..Len(limiters)]
    /\ lpc \in [Requests -> Waits \cup {"idle", "next"}]
    /\ dom \in [Requests -> Domains \cup {NoDomain}]
    /\ held \in [Requests -> 0..Len(limiters)]
    /\ sets \in 0..MaxSets
    /\ asked \in [Domains -> Nat]
    /\ credit \in [Domains -> Int]

\* The override of a domain, or the default.
RateFor(d) == IF d \in DOMAIN Overrides THEN Overrides[d] ELSE DefaultDomainRPS

Init ==
    /\ tokens = BurstSize
    /\ limiters = <<>>
    /\ domainLimiters = [d \in Domains |-> 0]
    /\ lpc = [r \in Requests |-> "idle"]
    /\ dom = [r \in Requests |-> NoDomain]
    /\ held = [r \in Requests |-> 0]
    /\ sets = 0
    /\ asked = [d \in Domains |->
                   IF d \in DOMAIN Overrides THEN Overrides[d] ELSE DefaultDomainRPS]
    /\ credit = [d \in Domains |-> BurstSize]

Goto(r, l) == lpc' = [lpc EXCEPT ![r] = l]

-----------------------------------------------------------------------------
(* ProcessRequest *)

Call(r, d) ==
    /\ lpc[r] = "idle"
    /\ dom' = [dom EXCEPT ![r] = d]
    /\ Goto(r, "global")
    /\ UNCHANGED <<tokens, limiters, domainLimiters, held, sets, asked, credit>>

\* rl.globalLimiter.Wait; a URL without a host is not limited any further.
WaitGlobal(r) ==
    /\ lpc[r] = "global" /\ tokens > 0
    /\ tokens' = tokens - 1
    /\ Goto(r, IF dom[r] = NoDomain THEN "next" ELSE "fast")
    /\ UNCHANGED <<limiters, domainLimiters, dom, held, sets, asked, credit>>

\* getDomainLimiter, the read lock: found, or on to the write lock.
FastPath(r) ==
    LET l == domainLimiters[dom[r]] IN
    /\ lpc[r] = "fast"
    /\ Goto(r, IF l = 0 THEN "slow" ELSE "domain")
    /\ held' = [held EXCEPT ![r] = l]
    /\ UNCHANGED <<tokens, limiters, domainLimiters, dom, sets, asked, credit>>

\* A new limiter becomes the one of its domain.
NewLimiter(d, rps) ==
    /\ limiters' = Append(limiters, [rate |-> rps, tokens |-> BurstSize])
    /\ domainLimiters' = [domainLimiters EXCEPT ![d] = Len(limiters) + 1]

\* Fault: the map is not looked at again under the write lock.
SlowPathUnchecked(r) ==
    /\ lpc[r] = "slow"
    /\ NewLimiter(dom[r], RateFor(dom[r]))
    /\ held' = [held EXCEPT ![r] = Len(limiters) + 1]
    /\ Goto(r, "domain")
    /\ UNCHANGED <<tokens, dom, sets, asked, credit>>

\* getDomainLimiter, the write lock: look again, create.
SlowPath(r) ==
    /\ lpc[r] = "slow"
    /\ IF domainLimiters[dom[r]] # 0
       THEN UNCHANGED <<limiters, domainLimiters>>
       ELSE NewLimiter(dom[r], RateFor(dom[r]))
    /\ held' = [held EXCEPT ![r] = domainLimiters'[dom[r]]]
    /\ Goto(r, "domain")
    /\ UNCHANGED <<tokens, dom, sets, asked, credit>>

\* limiter.Wait, on the limiter that was looked up.
WaitDomain(r) ==
    /\ lpc[r] = "domain" /\ limiters[held[r]].tokens > 0
    /\ limiters' = [limiters EXCEPT ![held[r]].tokens = @ - 1]
    /\ credit' = [credit EXCEPT ![dom[r]] = @ - 1]
    /\ Goto(r, "next")
    /\ UNCHANGED <<tokens, domainLimiters, dom, held, sets, asked>>

Return(r) ==
    /\ Goto(r, "idle")
    /\ dom' = [dom EXCEPT ![r] = NoDomain]
    /\ held' = [held EXCEPT ![r] = 0]
    /\ UNCHANGED <<tokens, limiters, domainLimiters, sets, asked, credit>>

\* A Wait whose context is done; a global token already taken stays taken.
WaitFails(r) == lpc[r] \in {"global", "domain"} /\ Return(r)

NextReturns(r) == lpc[r] = "next" /\ Return(r)

-----------------------------------------------------------------------------
(* SetDomainRate, and time *)

SetCall(d, rps) ==
    /\ sets < MaxSets /\ sets' = sets + 1
    /\ asked' = [asked EXCEPT ![d] = rps]
    /\ UNCHANGED <<tokens, lpc, dom, held, credit>>

SetDomainRate(d, rps) ==
    /\ SetCall(d, rps)
    /\ IF domainLimiters[d] # 0
       THEN /\ limiters' = [limiters EXCEPT ![domainLimiters[d]].rate = rps]
            /\ UNCHANGED domainLimiters
       ELSE NewLimiter(d, rps)

Refill(n, rate) == IF n + rate > BurstSize THEN BurstSize ELSE n + rate

Tick ==
    /\ tokens' = Refill(tokens, GlobalRPS)
    /\ limiters' = [l \in DOMAIN limiters |->
           [limiters[l] EXCEPT !.tokens = Refill(@, limiters[l].rate)]]
    /\ credit' = [d \in Domains |-> Refill(credit[d], asked[d])]
    /\ UNCHANGED <<domainLimiters, lpc, dom, held, sets, asked>>

Advance(r) == FastPath(r) \/ SlowPath(r) \/ NextReturns(r)

Next ==
    \/ Tick
    \/ \E r \in Requests :
          \/ \E d \in Domains \cup {NoDomain} : Call(r, d)
          \/ WaitGlobal(r) \/ WaitDomain(r) \/ WaitFails(r) \/ Advance(r)
    \/ \E d \in Domains, rps \in Rates : SetDomainRate(d, rps)

Spec == Init /\ [][Next]_vars

-----------------------------------------------------------------------------
(* Properties *)

\* The requests sent to a domain never exceed what one bucket of the rate
\* asked for allows (BurstSize at once, the rate per tick), however first
\* requests and SetDomainRate race to create the domain's limiter.
DomainRateHolds == \A d \in Domains : credit[d] >= 0

\* A change of a domain's rate reaches every request that has not passed the
\* limiter yet: the limiter a request waits on is the domain's only one and
\* has the rate last asked for.
LastRateWins ==
    \A r \in Requests : lpc[r] = "domain" =>
        /\ held[r] = domainLimiters[dom[r]]
        /\ limiters[held[r]].rate = asked[dom[r]]

\* The limits hold with one limiter per domain, at the rate last set, however
\* creations and changes race.
RateLimitInv == TypeOK /\ DomainRateHolds /\ LastRateWins

=============================================================================

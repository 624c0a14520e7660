-------------------------- MODULE MiddlewareProofs --------------------------
(***************************************************************************)
(* Proofs about middlewares that keep state between requests or attempts:  *)
(* rate limiting (RateLimit), for any number of requests, domains and      *)
(* calls of SetDomainRate and any rates; OAuth2 tokens (Auth), for any     *)
(* number of requests, lifetimes and a buffer of any length; retries       *)
(* (Retry), for any limits, backoff, jitter and values of Retry-After;     *)
(* robots.txt (Robots), for any requests, hosts, expiry and site answers;  *)
(* proxies (ProxyRotation), for any requests and proxies; and the response *)
(* cache (Cache), for any requests, keys, capacity and expiry.             *)
(***************************************************************************)
EXTENDS MCMiddleware, FiniteSetTheorems, SequenceTheorems, WellFoundedInduction, TLAPS

-----------------------------------------------------------------------------
(* RateLimit: the inductive invariant *)

Limiter == [rate : Nat, tokens : 0..BurstSize]

\* A request that is past the global limiter has a domain, and waits on the
\* limiter that is in the map.
RequestInv ==
    /\ \A r \in Requests : lpc[r] \in {"fast", "slow", "domain"} => dom[r] \in Domains
    /\ \A r \in Requests : lpc[r] = "domain" =>
          held[r] = domainLimiters[dom[r]] /\ held[r] # 0

\* Domains have limiters of their own.
OwnLimiter ==
    \A d, e \in Domains :
        domainLimiters[d] # 0 /\ domainLimiters[d] = domainLimiters[e] => d = e

\* A limiter has the rate asked for and no more tokens than the ideal bucket;
\* a domain without one has sent nothing and is to start at its configured
\* rate.
LimiterInv ==
    \A d \in Domains :
        IF domainLimiters[d] = 0
        THEN asked[d] = RateFor(d) /\ credit[d] = BurstSize
        ELSE /\ limiters[domainLimiters[d]].rate = asked[d]
             /\ limiters[domainLimiters[d]].tokens <= credit[d]

RateInd == TypeOK /\ RequestInv /\ OwnLimiter /\ LimiterInv

\* The configured rate of a domain is positive.
LEMMA RateForType ==
    ASSUME NEW d \in Domains
    PROVE  RateFor(d) \in Nat \ {0}
  BY RateLimitAssumption DEF RateFor

\* The limiters are a sequence of records.
LEMMA LimiterTypes ==
    ASSUME TypeOK
    PROVE  /\ limiters \in Seq(Limiter) /\ Len(limiters) \in Nat
           /\ \A l \in 1..Len(limiters) :
                 /\ limiters[l] \in Limiter
                 /\ limiters[l].rate \in Nat /\ limiters[l].tokens \in 0..BurstSize
           /\ DOMAIN limiters = 1..Len(limiters)
<1>1. limiters \in Seq(Limiter)
  BY DEF TypeOK, Limiter
<1>2. \A l \in 1..Len(limiters) : limiters[l] \in Limiter
  BY <1>1, ElementOfSeq
<1>3. QED
  BY <1>1, <1>2, LenProperties DEF Limiter

\* An entry of the map is the index of a limiter.
LEMMA MapIndex ==
    ASSUME TypeOK, NEW d \in Domains, domainLimiters[d] # 0
    PROVE  domainLimiters[d] \in 1..Len(limiters)
<1>1. Len(limiters) \in Nat
  BY LimiterTypes
<1>2. domainLimiters[d] \in 0..Len(limiters)
  BY DEF TypeOK
<1>3. QED
  BY <1>1, <1>2

\* What is asked of the limiters implies what the middleware promises.
LEMMA RateIndImplies == RateInd => RateLimitInv
<1> SUFFICES ASSUME RateInd PROVE RateLimitInv
  OBVIOUS
<1>1. DomainRateHolds
  <2>1. SUFFICES ASSUME NEW d \in Domains PROVE credit[d] >= 0
    BY DEF DomainRateHolds
  <2>2. CASE domainLimiters[d] = 0
    BY <2>2, RateLimitAssumption DEF RateInd, LimiterInv
  <2>3. CASE domainLimiters[d] # 0
    <3>1. domainLimiters[d] \in 1..Len(limiters)
      BY <2>3, MapIndex DEF RateInd
    <3>2. /\ limiters[domainLimiters[d]].tokens \in 0..BurstSize
          /\ limiters[domainLimiters[d]].tokens <= credit[d] /\ credit[d] \in Int
      BY <2>3, <3>1, LimiterTypes DEF RateInd, LimiterInv, TypeOK
    <3>3. QED
      BY <3>2, RateLimitAssumption
  <2>4. QED
    BY <2>2, <2>3
<1>2. LastRateWins
  BY DEF LastRateWins, RateInd, RequestInv, LimiterInv
<1>3. QED
  BY <1>1, <1>2 DEF RateLimitInv, RateInd

\* No limiter exists at first.
LEMMA RateInit == Init => RateInd
<1> SUFFICES ASSUME Init PROVE RateInd
  OBVIOUS
<1>1. limiters \in Seq(Limiter) /\ Len(limiters) = 0
  BY DEF Init
<1>2. asked \in [Domains -> Nat] /\ credit \in [Domains -> Int]
  BY RateLimitAssumption DEF Init
<1>3. TypeOK
  BY <1>1, <1>2, RateLimitAssumption DEF Init, TypeOK, Waits, Limiter
<1>4. RequestInv /\ OwnLimiter
  BY DEF Init, RequestInv, OwnLimiter
<1>5. LimiterInv
  BY DEF Init, LimiterInv, RateFor
<1>6. QED
  BY <1>3, <1>4, <1>5 DEF RateInd

\* Steps of a request that leave the limiters alone.
LEMMA RequestStep ==
    ASSUME RateInd, NEW r \in Requests,
           \/ \E d \in Domains \cup {NoDomain} : Call(r, d)
           \/ WaitGlobal(r) \/ FastPath(r) \/ WaitFails(r) \/ NextReturns(r)
    PROVE  RateInd'
<1> USE DEF RateInd
<1>1. UNCHANGED <<limiters, domainLimiters, sets, asked, credit>>
  BY DEF Call, WaitGlobal, FastPath, WaitFails, NextReturns, Return
<1>2. TypeOK' /\ RequestInv'
  <2>1. CASE \E d \in Domains \cup {NoDomain} : Call(r, d)
    BY <2>1, <1>1 DEF Call, Goto, TypeOK, RequestInv, Waits
  <2>2. CASE WaitGlobal(r)
    <3>1. tokens' \in 0..BurstSize
      BY <2>2, RateLimitAssumption DEF WaitGlobal, TypeOK
    <3>2. /\ lpc' = [lpc EXCEPT ![r] = IF dom[r] = NoDomain THEN "next" ELSE "fast"]
          /\ UNCHANGED <<dom, held>>
      BY <2>2 DEF WaitGlobal, Goto
    <3>3. TypeOK'
      BY <1>1, <3>1, <3>2 DEF TypeOK, Waits
    <3>4. RequestInv'
      BY <1>1, <3>2 DEF RequestInv, TypeOK
    <3>5. QED
      BY <3>3, <3>4
  <2>3. CASE FastPath(r)
    <3>1. dom[r] \in Domains /\ domainLimiters[dom[r]] \in 0..Len(limiters)
      BY <2>3 DEF FastPath, RequestInv, TypeOK
    <3>2. /\ held' = [held EXCEPT ![r] = domainLimiters[dom[r]]]
          /\ lpc' = [lpc EXCEPT ![r] = IF domainLimiters[dom[r]] = 0
                                       THEN "slow" ELSE "domain"]
          /\ UNCHANGED <<tokens, dom>>
      BY <2>3 DEF FastPath, Goto
    <3>3. TypeOK'
      BY <1>1, <3>1, <3>2 DEF TypeOK, Waits
    <3>4. RequestInv'
      BY <1>1, <3>1, <3>2 DEF RequestInv, TypeOK
    <3>5. QED
      BY <3>3, <3>4
  <2>4. CASE WaitFails(r) \/ NextReturns(r)
    <3>1. 0 \in 0..Len(limiters)
      BY LimiterTypes
    <3>2. /\ lpc' = [lpc EXCEPT ![r] = "idle"] /\ dom' = [dom EXCEPT ![r] = NoDomain]
          /\ held' = [held EXCEPT ![r] = 0] /\ UNCHANGED tokens
      BY <2>4 DEF WaitFails, NextReturns, Return, Goto
    <3>3. TypeOK'
      BY <1>1, <3>1, <3>2 DEF TypeOK, Waits
    <3>4. RequestInv'
      BY <1>1, <3>2 DEF RequestInv, TypeOK
    <3>5. QED
      BY <3>3, <3>4
  <2>5. QED
    BY <2>1, <2>2, <2>3, <2>4
<1>3. OwnLimiter' /\ LimiterInv'
  BY <1>1 DEF OwnLimiter, LimiterInv, RateFor
<1>4. QED
  BY <1>2, <1>3

\* A new limiter becomes the one of a domain that had none: of the same rate
\* as is asked for after the step, and full as the ideal bucket is.
LEMMA NewLimiterStep ==
    ASSUME RateInd, NEW d \in Domains, NEW rps \in Nat, NewLimiter(d, rps),
           domainLimiters[d] = 0, asked' = [asked EXCEPT ![d] = rps],
           UNCHANGED credit
    PROVE  /\ limiters' \in Seq(Limiter) /\ Len(limiters') = Len(limiters) + 1
           /\ domainLimiters' \in [Domains -> 0..Len(limiters')]
           /\ asked' \in [Domains -> Nat]
           /\ OwnLimiter' /\ LimiterInv'
           /\ domainLimiters'[d] = Len(limiters) + 1
           /\ \A e \in Domains : e # d => domainLimiters'[e] = domainLimiters[e]
<1> USE DEF RateInd
<1> DEFINE n == [rate |-> rps, tokens |-> BurstSize]
<1>1. n \in Limiter
  BY RateLimitAssumption DEF Limiter
<1>2. /\ limiters' = Append(limiters, n)
      /\ domainLimiters' = [domainLimiters EXCEPT ![d] = Len(limiters) + 1]
  BY DEF NewLimiter
<1>3. /\ limiters' \in Seq(Limiter) /\ Len(limiters') = Len(limiters) + 1
      /\ limiters'[Len(limiters) + 1] = n
      /\ \A l \in 1..Len(limiters) : limiters'[l] = limiters[l]
  BY <1>1, <1>2, LimiterTypes, AppendProperties
<1>4. /\ Len(limiters) \in Nat
      /\ domainLimiters \in [Domains -> 0..Len(limiters)]
      /\ asked \in [Domains -> Nat] /\ credit \in [Domains -> Int]
  BY LimiterTypes DEF TypeOK
<1>5. /\ domainLimiters' \in [Domains -> 0..Len(limiters')]
      /\ asked' \in [Domains -> Nat]
      /\ domainLimiters'[d] = Len(limiters) + 1 /\ asked'[d] = rps
      /\ \A e \in Domains : e # d =>
            domainLimiters'[e] = domainLimiters[e] /\ asked'[e] = asked[e]
  <2>1. 0..Len(limiters) \subseteq 0..Len(limiters') /\ Len(limiters) + 1 \in 0..Len(limiters')
    BY <1>3, <1>4
  <2>2. /\ domainLimiters'[d] = Len(limiters) + 1 /\ asked'[d] = rps
        /\ \A e \in Domains : e # d =>
              domainLimiters'[e] = domainLimiters[e] /\ asked'[e] = asked[e]
    BY <1>2, <1>4
  <2>3. domainLimiters' \in [Domains -> 0..Len(limiters')]
    BY <1>2, <1>4, <2>1, <2>2
  <2>4. asked' \in [Domains -> Nat]
    BY <1>4
  <2>5. QED
    BY <2>2, <2>3, <2>4
<1>6. OwnLimiter'
  <2>1. \A e \in Domains : domainLimiters[e] # Len(limiters) + 1
    BY <1>4
  <2>2. \A e, f \in Domains :
           domainLimiters[e] # 0 /\ domainLimiters[e] = domainLimiters[f] => e = f
    BY DEF OwnLimiter
  <2>3. \A e, f \in Domains :
           domainLimiters'[e] # 0 /\ domainLimiters'[e] = domainLimiters'[f] => e = f
    BY <1>5, <2>1, <2>2
  <2>4. QED
    BY <2>3 DEF OwnLimiter
<1>7. LimiterInv'
  <2>1. SUFFICES ASSUME NEW e \in Domains
                 PROVE  IF domainLimiters'[e] = 0
                        THEN asked'[e] = RateFor(e) /\ credit'[e] = BurstSize
                        ELSE /\ limiters'[domainLimiters'[e]].rate = asked'[e]
                             /\ limiters'[domainLimiters'[e]].tokens <= credit'[e]
    BY Zenon DEF LimiterInv
  <2>2. CASE e = d
    <3>1. credit'[d] = BurstSize
      BY DEF LimiterInv
    <3>2. QED
      BY <1>3, <1>4, <1>5, <2>2, <3>1, RateLimitAssumption
  <2>3. CASE e # d
    <3>1. CASE domainLimiters[e] = 0
      BY <1>5, <2>3, <3>1 DEF LimiterInv
    <3>2. CASE domainLimiters[e] # 0
      <4>1. domainLimiters[e] \in 1..Len(limiters)
        BY <1>4, <3>2
      <4>2. limiters'[domainLimiters'[e]] = limiters[domainLimiters[e]]
        BY <1>3, <1>5, <2>3, <4>1
      <4>3. QED
        BY <1>5, <2>3, <3>2, <4>2 DEF LimiterInv
    <3>3. QED
      BY <3>1, <3>2
  <2>4. QED
    BY <2>2, <2>3
<1>8. QED
  BY <1>3, <1>5, <1>6, <1>7

\* The write lock: the limiter that is there, or a new one.
LEMMA SlowPathStep ==
    ASSUME RateInd, NEW r \in Requests, SlowPath(r)
    PROVE  RateInd'
<1> USE DEF RateInd
<1>1. /\ lpc[r] = "slow" /\ lpc' = [lpc EXCEPT ![r] = "domain"]
      /\ held' = [held EXCEPT ![r] = domainLimiters'[dom[r]]]
      /\ UNCHANGED <<tokens, dom, sets, asked, credit>>
      /\ dom[r] \in Domains
  BY DEF SlowPath, Goto, RequestInv
<1>2. CASE domainLimiters[dom[r]] # 0
  <2>1. UNCHANGED <<limiters, domainLimiters>>
    BY <1>2 DEF SlowPath
  <2>2. TypeOK'
    BY <1>1, <2>1 DEF TypeOK, Waits
  <2>3. RequestInv'
    BY <1>1, <1>2, <2>1 DEF RequestInv, TypeOK
  <2>4. OwnLimiter' /\ LimiterInv'
    BY <1>1, <2>1 DEF OwnLimiter, LimiterInv, RateFor
  <2>5. QED
    BY <2>2, <2>3, <2>4
<1>3. CASE domainLimiters[dom[r]] = 0
  <2>1. NewLimiter(dom[r], RateFor(dom[r]))
    BY <1>3 DEF SlowPath
  <2>2. RateFor(dom[r]) \in Nat /\ asked' = [asked EXCEPT ![dom[r]] = RateFor(dom[r])]
    BY <1>1, <1>3, RateForType DEF LimiterInv, TypeOK
  <2>3. /\ limiters' \in Seq(Limiter) /\ Len(limiters') = Len(limiters) + 1
        /\ domainLimiters' \in [Domains -> 0..Len(limiters')]
        /\ OwnLimiter' /\ LimiterInv'
        /\ domainLimiters'[dom[r]] = Len(limiters) + 1
        /\ \A e \in Domains : e # dom[r] => domainLimiters'[e] = domainLimiters[e]
    BY <1>1, <1>3, <2>1, <2>2, NewLimiterStep
  <2>4. Len(limiters) \in Nat
    BY LimiterTypes
  <2>5. TypeOK'
    <3>1. held' \in [Requests -> 0..Len(limiters')]
      BY <1>1, <2>3, <2>4 DEF TypeOK
    <3>2. lpc' \in [Requests -> Waits \cup {"idle", "next"}]
      BY <1>1 DEF TypeOK, Waits
    <3>3. QED
      BY <1>1, <2>3, <3>1, <3>2 DEF TypeOK, Limiter
  <2>6. RequestInv'
    <3>1. \A q \in Requests : q # r /\ lpc'[q] = "domain" =>
             held'[q] = domainLimiters'[dom'[q]] /\ held'[q] # 0
      BY <1>1, <1>3, <2>3 DEF RequestInv, TypeOK
    <3>2. held'[r] = domainLimiters'[dom'[r]] /\ held'[r] # 0
      BY <1>1, <2>3, <2>4 DEF TypeOK
    <3>3. \A q \in Requests : lpc'[q] \in {"fast", "slow", "domain"} => dom'[q] \in Domains
      BY <1>1 DEF RequestInv, TypeOK
    <3>4. QED
      BY <3>1, <3>2, <3>3 DEF RequestInv
  <2>7. QED
    BY <2>3, <2>5, <2>6
<1>4. QED
  BY <1>2, <1>3

\* A token is taken from the limiter in the map, and from the ideal bucket.
LEMMA WaitDomainStep ==
    ASSUME RateInd, NEW r \in Requests, WaitDomain(r)
    PROVE  RateInd'
<1> USE DEF RateInd
<1> DEFINE h == held[r]
           t == [limiters[h] EXCEPT !.tokens = @ - 1]
<1>1. /\ lpc[r] = "domain" /\ lpc' = [lpc EXCEPT ![r] = "next"]
      /\ limiters[h].tokens > 0 /\ limiters' = [limiters EXCEPT ![h] = t]
      /\ credit' = [credit EXCEPT ![dom[r]] = @ - 1]
      /\ UNCHANGED <<tokens, domainLimiters, dom, held, sets, asked>>
  BY DEF WaitDomain, Goto
<1>2. /\ dom[r] \in Domains /\ h = domainLimiters[dom[r]] /\ h # 0
  BY <1>1 DEF RequestInv
<1>3. h \in 1..Len(limiters) /\ limiters[h] \in Limiter
  <2>1. h \in 1..Len(limiters)
    BY <1>2, MapIndex
  <2>2. QED
    BY <2>1, LimiterTypes
<1>4. t \in Limiter /\ t.rate = limiters[h].rate /\ t.tokens = limiters[h].tokens - 1
  <2>1. limiters[h].tokens \in 1..BurstSize /\ limiters[h].rate \in Nat
    BY <1>1, <1>3, RateLimitAssumption DEF Limiter
  <2>2. limiters[h].tokens - 1 \in 0..BurstSize
    BY <2>1, RateLimitAssumption
  <2>3. t = [rate |-> limiters[h].rate, tokens |-> limiters[h].tokens - 1]
    BY <1>3 DEF Limiter
  <2>4. QED
    BY <2>1, <2>2, <2>3 DEF Limiter
<1> HIDE DEF t
<1>5. /\ limiters' \in Seq(Limiter) /\ Len(limiters') = Len(limiters)
      /\ \A l \in 1..Len(limiters) : limiters'[l] = IF l = h THEN t ELSE limiters[l]
  BY <1>1, <1>3, <1>4, LimiterTypes, ExceptSeq
<1>6. TypeOK'
  <2>1. credit' \in [Domains -> Int]
    BY <1>1, <1>2 DEF TypeOK
  <2>2. lpc' \in [Requests -> Waits \cup {"idle", "next"}]
    BY <1>1 DEF TypeOK, Waits
  <2>3. QED
    BY <1>1, <1>5, <2>1, <2>2 DEF TypeOK, Limiter
<1>7. RequestInv'
  BY <1>1 DEF RequestInv, TypeOK
<1>8. OwnLimiter'
  BY <1>1 DEF OwnLimiter
<1>9. LimiterInv'
  <2>1. SUFFICES ASSUME NEW e \in Domains
                 PROVE  IF domainLimiters'[e] = 0
                        THEN asked'[e] = RateFor(e) /\ credit'[e] = BurstSize
                        ELSE /\ limiters'[domainLimiters'[e]].rate = asked'[e]
                             /\ limiters'[domainLimiters'[e]].tokens <= credit'[e]
    BY Zenon DEF LimiterInv
  <2>2. CASE e = dom[r]
    <3>1. /\ limiters'[domainLimiters'[e]] = t /\ domainLimiters'[e] # 0
          /\ credit'[e] = credit[e] - 1 /\ asked'[e] = asked[e]
      BY <1>1, <1>2, <1>3, <1>5, <2>2 DEF TypeOK
    <3>2. /\ limiters[h].rate = asked[e] /\ limiters[h].tokens <= credit[e]
          /\ limiters[h].tokens \in Int /\ credit[e] \in Int
      BY <1>2, <1>3, <2>2, RateLimitAssumption DEF LimiterInv, TypeOK, Limiter
    <3>3. QED
      BY <1>4, <3>1, <3>2
  <2>3. CASE e # dom[r]
    <3>1. /\ domainLimiters'[e] = domainLimiters[e] /\ credit'[e] = credit[e]
          /\ asked'[e] = asked[e]
      BY <1>1, <2>3 DEF TypeOK
    <3>2. CASE domainLimiters[e] = 0
      BY <3>1, <3>2 DEF LimiterInv
    <3>3. CASE domainLimiters[e] # 0
      <4>1. domainLimiters[e] \in 1..Len(limiters) /\ domainLimiters[e] # h
        BY <1>2, <2>3, <3>3, LimiterTypes DEF OwnLimiter, TypeOK
      <4>2. limiters'[domainLimiters'[e]] = limiters[domainLimiters[e]]
        BY <1>5, <3>1, <4>1
      <4>3. QED
        BY <3>1, <3>3, <4>2 DEF LimiterInv
    <3>4. QED
      BY <3>2, <3>3
  <2>4. QED
    BY <2>2, <2>3
<1>10. QED
  BY <1>6, <1>7, <1>8, <1>9

\* SetDomainRate changes the rate of the limiter that everybody uses, or makes
\* it.
LEMMA SetDomainRateStep ==
    ASSUME RateInd, NEW d \in Domains, NEW rps \in Rates, SetDomainRate(d, rps)
    PROVE  RateInd'
<1> USE DEF RateInd
<1>1. /\ sets < MaxSets /\ sets' = sets + 1 /\ rps \in Nat
      /\ asked' = [asked EXCEPT ![d] = rps]
      /\ UNCHANGED <<tokens, lpc, dom, held, credit>>
  BY RateLimitAssumption DEF SetDomainRate, SetCall
<1>2. sets' \in 0..MaxSets
  BY <1>1, RateLimitAssumption DEF TypeOK
<1>3. CASE domainLimiters[d] # 0
  <2> DEFINE l == domainLimiters[d]
             t == [limiters[l] EXCEPT !.rate = rps]
  <2>1. limiters' = [limiters EXCEPT ![l] = t] /\ UNCHANGED domainLimiters
    BY <1>3 DEF SetDomainRate
  <2>2. l \in 1..Len(limiters) /\ limiters[l] \in Limiter
    BY <1>3, LimiterTypes DEF TypeOK
  <2>3. t \in Limiter /\ t.rate = rps /\ t.tokens = limiters[l].tokens
    BY <1>1, <2>2 DEF Limiter
  <2> HIDE DEF t
  <2>4. /\ limiters' \in Seq(Limiter) /\ Len(limiters') = Len(limiters)
        /\ \A k \in 1..Len(limiters) : limiters'[k] = IF k = l THEN t ELSE limiters[k]
    BY <2>1, <2>2, <2>3, LimiterTypes, ExceptSeq
  <2>5. TypeOK'
    <3>1. asked' \in [Domains -> Nat]
      BY <1>1 DEF TypeOK
    <3>2. QED
      BY <1>1, <1>2, <2>1, <2>4, <3>1 DEF TypeOK, Limiter
  <2>6. RequestInv' /\ OwnLimiter'
    BY <1>1, <2>1 DEF RequestInv, OwnLimiter
  <2>7. LimiterInv'
    <3>1. SUFFICES ASSUME NEW e \in Domains
                   PROVE  IF domainLimiters'[e] = 0
                          THEN asked'[e] = RateFor(e) /\ credit'[e] = BurstSize
                          ELSE /\ limiters'[domainLimiters'[e]].rate = asked'[e]
                               /\ limiters'[domainLimiters'[e]].tokens <= credit'[e]
      BY Zenon DEF LimiterInv
    <3>2. CASE e = d
      <4>1. /\ limiters'[domainLimiters'[e]] = t /\ domainLimiters'[e] # 0
            /\ credit'[e] = credit[e] /\ asked'[e] = rps
        BY <1>1, <1>3, <2>1, <2>2, <2>4, <3>2 DEF TypeOK
      <4>2. limiters[l].tokens <= credit[e]
        BY <1>3, <3>2 DEF LimiterInv
      <4>3. QED
        BY <2>3, <4>1, <4>2
    <3>3. CASE e # d
      <4>1. /\ domainLimiters'[e] = domainLimiters[e] /\ credit'[e] = credit[e]
            /\ asked'[e] = asked[e]
        BY <1>1, <2>1, <3>3 DEF TypeOK
      <4>2. CASE domainLimiters[e] = 0
        BY <4>1, <4>2 DEF LimiterInv
      <4>3. CASE domainLimiters[e] # 0
        <5>1. domainLimiters[e] \in 1..Len(limiters) /\ domainLimiters[e] # l
          BY <3>3, <4>3, LimiterTypes DEF OwnLimiter, TypeOK
        <5>2. limiters'[domainLimiters'[e]] = limiters[domainLimiters[e]]
          BY <2>4, <4>1, <5>1
        <5>3. QED
          BY <4>1, <4>3, <5>2 DEF LimiterInv
      <4>4. QED
        BY <4>2, <4>3
    <3>4. QED
      BY <3>2, <3>3
  <2>8. QED
    BY <2>5, <2>6, <2>7
<1>4. CASE domainLimiters[d] = 0
  <2>1. NewLimiter(d, rps)
    BY <1>4 DEF SetDomainRate
  <2>2. /\ limiters' \in Seq(Limiter) /\ Len(limiters') = Len(limiters) + 1
        /\ domainLimiters' \in [Domains -> 0..Len(limiters')]
        /\ asked' \in [Domains -> Nat] /\ OwnLimiter' /\ LimiterInv'
        /\ \A e \in Domains : e # d => domainLimiters'[e] = domainLimiters[e]
    BY <1>1, <1>4, <2>1, NewLimiterStep
  <2>3. held' \in [Requests -> 0..Len(limiters')]
    BY <1>1, <2>2, LimiterTypes DEF TypeOK
  <2>4. TypeOK'
    BY <1>1, <1>2, <2>2, <2>3 DEF TypeOK, Limiter
  <2>5. RequestInv'
    BY <1>1, <1>4, <2>2 DEF RequestInv
  <2>6. QED
    BY <2>2, <2>4, <2>5
<1>5. QED
  BY <1>3, <1>4

\* A refill keeps the order of two buckets.
LEMMA RefillMonotonic ==
    ASSUME NEW n \in Int, NEW m \in Int, NEW rate \in Nat, n <= m
    PROVE  Refill(n, rate) <= Refill(m, rate)
  BY RateLimitAssumption DEF Refill

\* Time passes for every limiter and for the ideal buckets alike.
LEMMA TickStep ==
    ASSUME RateInd, Tick
    PROVE  RateInd'
<1> USE DEF RateInd
<1>1. UNCHANGED <<domainLimiters, lpc, dom, held, sets, asked>>
  BY DEF Tick
<1>2. \A l \in 1..Len(limiters) :
         /\ limiters'[l].rate = limiters[l].rate
         /\ limiters'[l].tokens = Refill(limiters[l].tokens, limiters[l].rate)
         /\ limiters'[l] \in Limiter
  <2>1. SUFFICES ASSUME NEW l \in 1..Len(limiters)
                 PROVE  /\ limiters'[l].rate = limiters[l].rate
                        /\ limiters'[l].tokens = Refill(limiters[l].tokens, limiters[l].rate)
                        /\ limiters'[l] \in Limiter
    OBVIOUS
  <2>2. /\ limiters[l] \in Limiter /\ limiters[l].rate \in Nat
        /\ limiters[l].tokens \in 0..BurstSize /\ l \in DOMAIN limiters
    BY LimiterTypes
  <2>3. Refill(limiters[l].tokens, limiters[l].rate) \in 0..BurstSize
    BY <2>2, RateLimitAssumption DEF Refill
  <2>4. limiters'[l] = [limiters[l] EXCEPT !.tokens = Refill(@, limiters[l].rate)]
    BY <2>2 DEF Tick
  <2>5. QED
    BY <2>2, <2>3, <2>4 DEF Limiter
<1>3. limiters' \in Seq(Limiter) /\ Len(limiters') = Len(limiters)
  <2>1. Len(limiters) \in Nat /\ DOMAIN limiters = 1..Len(limiters)
    BY LimiterTypes
  <2>2. limiters' = [l \in 1..Len(limiters) |-> limiters'[l]]
    BY <2>1 DEF Tick
  <2>3. limiters' \in [1..Len(limiters) -> Limiter]
    BY <1>2, <2>2
  <2>4. QED
    BY <2>1, <2>3
<1>4. credit' \in [Domains -> Int] /\ tokens' \in 0..BurstSize
  BY RateLimitAssumption DEF Tick, TypeOK, Refill
<1>5. TypeOK'
  BY <1>1, <1>3, <1>4 DEF TypeOK, Limiter
<1>6. RequestInv' /\ OwnLimiter'
  BY <1>1 DEF RequestInv, OwnLimiter
<1>7. LimiterInv'
  <2>1. SUFFICES ASSUME NEW d \in Domains
                 PROVE  IF domainLimiters'[d] = 0
                        THEN asked'[d] = RateFor(d) /\ credit'[d] = BurstSize
                        ELSE /\ limiters'[domainLimiters'[d]].rate = asked'[d]
                             /\ limiters'[domainLimiters'[d]].tokens <= credit'[d]
    BY Zenon DEF LimiterInv
  <2>2. /\ credit'[d] = Refill(credit[d], asked[d])
        /\ credit[d] \in Int /\ asked[d] \in Nat
    BY DEF Tick, TypeOK
  <2>3. CASE domainLimiters[d] = 0
    <3>1. asked[d] = RateFor(d) /\ credit[d] = BurstSize
      BY <2>3 DEF LimiterInv
    <3>2. QED
      BY <1>1, <2>2, <2>3, <3>1, RateLimitAssumption DEF Refill
  <2>4. CASE domainLimiters[d] # 0
    <3> DEFINE l == domainLimiters[d]
    <3>1. l \in 1..Len(limiters) /\ limiters[l].tokens \in Int
      <4>1. l \in 1..Len(limiters)
        BY <2>4, MapIndex
      <4>2. QED
        BY <4>1, LimiterTypes, RateLimitAssumption
    <3>2. limiters[l].rate = asked[d] /\ limiters[l].tokens <= credit[d]
      BY <2>4 DEF LimiterInv
    <3>3. Refill(limiters[l].tokens, asked[d]) <= Refill(credit[d], asked[d])
      BY <2>2, <3>1, <3>2, RefillMonotonic
    <3>4. domainLimiters'[d] = l /\ asked'[d] = asked[d] /\ l # 0
      BY <1>1, <2>4
    <3>5. /\ limiters'[l].rate = asked[d]
          /\ limiters'[l].tokens = Refill(limiters[l].tokens, asked[d])
      BY <1>2, <3>1, <3>2
    <3> HIDE DEF l
    <3>6. QED
      BY <2>2, <3>3, <3>4, <3>5
  <2>5. QED
    BY <2>3, <2>4
<1>8. QED
  BY <1>5, <1>6, <1>7

\* However first requests, changes of a rate and the passing of time
\* interleave, the requests of a domain stay within one bucket of the rate last
\* asked for, and every request waits on that bucket.
THEOREM RateLimitCorrect == Spec => []RateLimitInv
<1>1. RateInd /\ [Next]_vars => RateInd'
  <2> SUFFICES ASSUME RateInd, [Next]_vars PROVE RateInd'
    OBVIOUS
  <2>1. CASE UNCHANGED vars
    <3>1. /\ UNCHANGED <<tokens, limiters, domainLimiters, lpc, dom>>
          /\ UNCHANGED <<held, sets, asked, credit>>
      BY <2>1 DEF vars
    <3>2. TypeOK' /\ RequestInv' /\ OwnLimiter'
      BY <3>1 DEF RateInd, TypeOK, RequestInv, OwnLimiter
    <3>3. LimiterInv'
      BY <3>1 DEF RateInd, LimiterInv, RateFor
    <3>4. QED
      BY <3>2, <3>3 DEF RateInd
  <2>2. ASSUME NEW r \in Requests,
               \/ \E d \in Domains \cup {NoDomain} : Call(r, d)
               \/ WaitGlobal(r) \/ WaitDomain(r) \/ WaitFails(r) \/ Advance(r)
        PROVE  RateInd'
    BY <2>2, RequestStep, SlowPathStep, WaitDomainStep DEF Advance
  <2>3. QED
    BY <2>1, <2>2, TickStep, SetDomainRateStep DEF Next
<1>2. QED
  BY <1>1, RateInit, RateIndImplies, PTL DEF Spec

-----------------------------------------------------------------------------
(* Auth: the inductive invariant *)

\* An answer is on its way only to the holder of the mutex, and is no older
\* than the latency; so the expiry kept with a token is late by no more.
TokenInv ==
    /\ answer # A!NoToken => /\ mu # Nobody
                             /\ now - answer.issued <= MaxLatency
    /\ token # A!NoToken /\ token.lifetime > 0 =>
          /\ token.expiry > 0
          /\ token.expiry <= token.issued + token.lifetime + MaxLatency

AuthInd == A!AuthInv /\ TokenInv

\* A token is a record of numbers.
LEMMA TokenTypes ==
    ASSUME A!AuthAssumption, NEW t \in A!Tokens
    PROVE  /\ t.issued \in 0..MaxTime /\ t.issued \in Int
           /\ t.lifetime \in Lifetimes /\ t.lifetime \in Nat /\ t.expiry \in Nat
           /\ t # A!NoToken
<1>1. t.issued \in 0..MaxTime /\ t.lifetime \in Lifetimes /\ t.expiry \in Nat
  BY DEF A!Tokens
<1>2. MaxTime \in Nat /\ Lifetimes \subseteq Nat
  BY DEF A!AuthAssumption
<1>3. A!NoToken.issued = -1
  BY DEF A!NoToken
<1>4. t.issued # -1 /\ t.issued \in Int
  BY <1>1, <1>2
<1>5. t # A!NoToken
  BY <1>3, <1>4
<1>6. QED
  BY <1>1, <1>2, <1>4, <1>5

\* Nothing is cached at first and nobody asks.
LEMMA AuthInit ==
    ASSUME A!AuthAssumption, A!Init
    PROVE  AuthInd
<1>1. A!NotSent \in [token : A!Tokens \cup {A!NoToken}, at : 0..MaxTime, fetched : BOOLEAN]
  BY DEF A!NotSent, A!AuthAssumption
<1>2. A!TypeOK
  BY <1>1 DEF A!Init, A!TypeOK, A!AuthAssumption
<1>3. A!CachedTokenGood /\ A!OneFetch /\ TokenInv
  BY DEF A!Init, A!CachedTokenGood, A!OneFetch, TokenInv, A!AuthAssumption
<1>4. QED
  BY <1>2, <1>3 DEF AuthInd, A!AuthInv

\* A request is called and returns.
LEMMA AuthCallStep ==
    ASSUME A!AuthAssumption, AuthInd, NEW r \in Fetchers, A!Call(r) \/ A!Return(r)
    PROVE  AuthInd'
<1> USE DEF AuthInd, A!AuthInv
<1>1. /\ UNCHANGED <<mu, token, answer, now>> /\ hpc[r] # "fetch"
      /\ \E l \in {"idle", "lock"} : hpc' = [hpc EXCEPT ![r] = l]
      /\ header' = header \/ header' = [header EXCEPT ![r] = A!NotSent]
  BY DEF A!Call, A!Return
<1>2. A!NotSent \in [token : A!Tokens \cup {A!NoToken}, at : 0..MaxTime, fetched : BOOLEAN]
  BY DEF A!NotSent, A!AuthAssumption
<1>3. A!TypeOK'
  BY <1>1, <1>2 DEF A!TypeOK
<1>4. A!CachedTokenGood'
  BY <1>1 DEF A!CachedTokenGood, A!TypeOK
<1>5. A!OneFetch' /\ TokenInv'
  BY <1>1 DEF A!OneFetch, TokenInv, A!TypeOK, A!expired
<1>6. QED
  BY <1>3, <1>4, <1>5

\* A request finds the cached token good, or takes the mutex to fetch one.
LEMMA AuthLockStep ==
    ASSUME A!AuthAssumption, AuthInd, NEW r \in Fetchers, A!Lock(r)
    PROVE  AuthInd'
<1> USE DEF AuthInd, A!AuthInv
<1>1. hpc[r] = "lock" /\ mu = Nobody /\ UNCHANGED <<token, answer, now>>
  BY DEF A!Lock
<1>2. CASE token # A!NoToken /\ ~A!expired(token) /\ A!Send(r, token, FALSE) /\ UNCHANGED mu
  <2> DEFINE h == [token |-> token, at |-> now, fetched |-> FALSE]
  <2>1. header' = [header EXCEPT ![r] = h] /\ hpc' = [hpc EXCEPT ![r] = "next"]
    BY <1>2 DEF A!Send
  <2>2. A!TypeOK'
    <3>1. h \in [token : A!Tokens \cup {A!NoToken}, at : 0..MaxTime, fetched : BOOLEAN]
      BY DEF A!TypeOK
    <3>2. QED
      BY <1>1, <1>2, <2>1, <3>1 DEF A!TypeOK
  <2>3. token.lifetime > 0 => now <= token.issued + token.lifetime
    <3>1. token \in A!Tokens
      BY <1>2 DEF A!TypeOK
    <3>2. token.expiry # 0 => now + Buffer <= token.expiry
      BY <1>2, <3>1, TokenTypes DEF A!expired, A!TypeOK, A!AuthAssumption
    <3>3. now \in Int /\ MaxLatency \in Int /\ Buffer \in Int /\ MaxLatency <= Buffer
      BY DEF A!TypeOK, A!AuthAssumption
    <3>4. QED
      BY <1>2, <3>1, <3>2, <3>3, TokenTypes DEF TokenInv
  <2>4. A!CachedTokenGood'
    <3>1. SUFFICES ASSUME NEW q \in Fetchers, hpc'[q] = "next", ~header'[q].fetched,
                          header'[q].token.lifetime > 0
                   PROVE  header'[q].at <= header'[q].token.issued + header'[q].token.lifetime
      BY DEF A!CachedTokenGood
    <3>2. CASE q = r
      <4>1. header'[q] = h
        BY <2>1, <3>2 DEF A!TypeOK
      <4>2. QED
        BY <2>3, <3>1, <4>1
    <3>3. CASE q # r
      <4>1. header'[q] = header[q] /\ hpc'[q] = hpc[q]
        BY <2>1, <3>3 DEF A!TypeOK
      <4>2. QED
        BY <3>1, <4>1 DEF A!CachedTokenGood
    <3>4. QED
      BY <3>2, <3>3
  <2>5. A!OneFetch' /\ TokenInv'
    BY <1>1, <1>2, <2>1 DEF A!OneFetch, TokenInv, A!TypeOK, A!expired
  <2>6. QED
    BY <2>2, <2>4, <2>5
<1>3. CASE /\ token = A!NoToken \/ A!expired(token)
           /\ mu' = r /\ hpc' = [hpc EXCEPT ![r] = "fetch"] /\ UNCHANGED header
  <2>1. A!TypeOK'
    BY <1>1, <1>3 DEF A!TypeOK
  <2>2. A!CachedTokenGood'
    BY <1>3 DEF A!CachedTokenGood, A!TypeOK
  <2>3. A!OneFetch'
    BY <1>1, <1>3 DEF A!OneFetch, A!TypeOK, A!expired, A!AuthAssumption
  <2>4. TokenInv'
    BY <1>1, <1>3 DEF TokenInv
  <2>5. QED
    BY <2>1, <2>2, <2>3, <2>4
<1>4. QED
  BY <1>2, <1>3 DEF A!Lock

\* The endpoint issues a token.
LEMMA AuthIssueStep ==
    ASSUME A!AuthAssumption, AuthInd, NEW r \in Fetchers, NEW l \in Lifetimes, A!Issue(r, l)
    PROVE  AuthInd'
<1> USE DEF AuthInd, A!AuthInv
<1> DEFINE t == [issued |-> now, lifetime |-> l, expiry |-> 0]
<1>1. /\ hpc[r] = "fetch" /\ answer' = t /\ UNCHANGED <<mu, token, hpc, header, now>>
  BY DEF A!Issue
<1>2. t \in A!Tokens /\ t.issued = now
  BY DEF A!Tokens, A!TypeOK, A!AuthAssumption
<1>3. A!TypeOK'
  BY <1>1, <1>2 DEF A!TypeOK
<1>4. A!CachedTokenGood' /\ A!OneFetch'
  BY <1>1 DEF A!CachedTokenGood, A!OneFetch, A!expired
<1>5. TokenInv'
  <2>1. mu # Nobody
    BY <1>1 DEF A!OneFetch, A!AuthAssumption
  <2>2. now - t.issued <= MaxLatency
    BY <1>2 DEF A!TypeOK, A!AuthAssumption
  <2>3. QED
    BY <1>1, <2>1, <2>2 DEF TokenInv
<1>6. QED
  BY <1>3, <1>4, <1>5

\* The answer becomes the cached token, its expiry counted from now.
LEMMA AuthDoneStep ==
    ASSUME A!AuthAssumption, AuthInd, NEW r \in Fetchers, A!FetchDone(r)
    PROVE  AuthInd'
<1> USE DEF AuthInd, A!AuthInv
<1> DEFINE t == [answer EXCEPT !.expiry = IF answer.lifetime > 0
                                          THEN now + answer.lifetime ELSE 0]
           h == [token |-> t, at |-> now, fetched |-> TRUE]
<1>1. /\ hpc[r] = "fetch" /\ answer # A!NoToken /\ token' = t
      /\ header' = [header EXCEPT ![r] = h] /\ hpc' = [hpc EXCEPT ![r] = "next"]
      /\ mu' = Nobody /\ answer' = A!NoToken /\ UNCHANGED now
  BY DEF A!FetchDone, A!Send
<1>2. answer \in A!Tokens /\ now \in Nat
  BY <1>1 DEF A!TypeOK, A!AuthAssumption
<1>3. /\ t \in A!Tokens /\ t.issued = answer.issued /\ t.lifetime = answer.lifetime
      /\ t.expiry = IF answer.lifetime > 0 THEN now + answer.lifetime ELSE 0
  <2>1. (IF answer.lifetime > 0 THEN now + answer.lifetime ELSE 0) \in Nat
    BY <1>2, TokenTypes
  <2>2. QED
    BY <1>2, <2>1 DEF A!Tokens
<1> HIDE DEF t
<1>4. A!TypeOK'
  <2>1. h \in [token : A!Tokens \cup {A!NoToken}, at : 0..MaxTime, fetched : BOOLEAN]
    BY <1>3 DEF A!TypeOK
  <2>2. QED
    BY <1>1, <1>3, <2>1 DEF A!TypeOK
<1>5. A!CachedTokenGood'
  <2>1. header'[r].fetched
    BY <1>1 DEF A!TypeOK
  <2>2. \A q \in Fetchers : q # r => header'[q] = header[q] /\ hpc'[q] = hpc[q]
    BY <1>1 DEF A!TypeOK
  <2>3. QED
    BY <2>1, <2>2 DEF A!CachedTokenGood
<1>6. A!OneFetch'
  <2>1. \A q \in Fetchers : hpc'[q] # "fetch"
    BY <1>1 DEF A!OneFetch, A!TypeOK
  <2>2. QED
    BY <1>1, <2>1 DEF A!OneFetch, A!AuthAssumption
<1>7. TokenInv'
  <2>1. now - answer.issued <= MaxLatency /\ MaxLatency \in Int
    BY <1>1 DEF TokenInv, A!AuthAssumption
  <2>2. t.lifetime > 0 => t.expiry > 0 /\ t.expiry <= t.issued + t.lifetime + MaxLatency
    BY <1>2, <1>3, <2>1, TokenTypes
  <2>3. QED
    BY <1>1, <2>2 DEF TokenInv
<1>8. QED
  BY <1>4, <1>5, <1>6, <1>7

\* A fetch that failed leaves the cached token as it was.
LEMMA AuthFailStep ==
    ASSUME A!AuthAssumption, AuthInd, NEW r \in Fetchers, A!FetchFails(r)
    PROVE  AuthInd'
<1> USE DEF AuthInd, A!AuthInv
<1>1. /\ hpc[r] = "fetch" /\ hpc' = [hpc EXCEPT ![r] = "idle"]
      /\ mu' = Nobody /\ answer' = A!NoToken /\ UNCHANGED <<token, header, now>>
  BY DEF A!FetchFails
<1>2. A!TypeOK'
  BY <1>1 DEF A!TypeOK
<1>3. A!CachedTokenGood' /\ TokenInv'
  BY <1>1 DEF A!CachedTokenGood, A!TypeOK, TokenInv
<1>4. A!OneFetch'
  BY <1>1 DEF A!OneFetch, A!TypeOK, A!AuthAssumption
<1>5. QED
  BY <1>2, <1>3, <1>4

\* Time passes, no further than an answer may take: what is expired stays so.
LEMMA AuthTickStep ==
    ASSUME A!AuthAssumption, AuthInd, A!Tick
    PROVE  AuthInd'
<1> USE DEF AuthInd, A!AuthInv
<1>1. /\ now < MaxTime /\ now' = now + 1 /\ now \in Int /\ MaxTime \in Nat
      /\ answer = A!NoToken \/ now - answer.issued < MaxLatency
      /\ UNCHANGED <<mu, token, answer, hpc, header>>
  BY DEF A!Tick, A!TypeOK, A!AuthAssumption
<1>2. A!TypeOK'
  BY <1>1 DEF A!TypeOK
<1>3. A!CachedTokenGood'
  BY <1>1 DEF A!CachedTokenGood
<1>4. A!OneFetch'
  <2>1. mu # Nobody /\ token # A!NoToken => A!expired(token)'
    <3>1. SUFFICES ASSUME mu # Nobody, token # A!NoToken
                   PROVE  token'.expiry # 0 /\ now' + Buffer > token'.expiry
      BY DEF A!expired
    <3>2. token.expiry # 0 /\ now + Buffer > token.expiry /\ token \in A!Tokens
      BY <3>1 DEF A!OneFetch, A!expired, A!TypeOK
    <3>3. QED
      BY <1>1, <3>2, TokenTypes DEF A!AuthAssumption
  <2>2. QED
    BY <1>1, <2>1 DEF A!OneFetch
<1>5. TokenInv'
  <2>1. ASSUME answer # A!NoToken
        PROVE  now' - answer'.issued <= MaxLatency
    <3>1. answer \in A!Tokens
      BY <2>1 DEF A!TypeOK
    <3>2. QED
      BY <1>1, <2>1, <3>1, TokenTypes DEF A!AuthAssumption
  <2>2. QED
    BY <1>1, <2>1 DEF TokenInv
<1>6. QED
  BY <1>2, <1>3, <1>4, <1>5

\* Concurrent requests share one token: fetched by one request at a time, only
\* when the cached one is missing or about to expire, and good at the endpoint
\* when it is taken from the cache, if the buffer covers the latency.
THEOREM AuthCorrect ==
    ASSUME A!AuthAssumption
    PROVE  A!Spec => []AuthInv
<1>1. A!Init => AuthInd
  BY AuthInit
<1>2. AuthInd /\ [A!Next]_A!vars => AuthInd'
  <2> SUFFICES ASSUME AuthInd, [A!Next]_A!vars PROVE AuthInd'
    OBVIOUS
  <2>1. CASE UNCHANGED A!vars
    <3>1. UNCHANGED <<mu, token, answer, hpc, header, now>>
      BY <2>1 DEF A!vars
    <3>2. A!TypeOK' /\ TokenInv'
      BY <3>1 DEF AuthInd, A!AuthInv, A!TypeOK, TokenInv
    <3>3. A!CachedTokenGood' /\ A!OneFetch'
      BY <3>1 DEF AuthInd, A!AuthInv, A!CachedTokenGood, A!OneFetch, A!expired
    <3>4. QED
      BY <3>2, <3>3 DEF AuthInd, A!AuthInv
  <2>2. CASE A!Next
    BY <2>2, AuthCallStep, AuthLockStep, AuthIssueStep, AuthDoneStep, AuthFailStep,
       AuthTickStep DEF A!Next
  <2>3. QED
    BY <2>1, <2>2
<1>3. AuthInd => AuthInv
  BY DEF AuthInd, AuthInv
<1>4. QED
  BY <1>1, <1>2, <1>3, PTL DEF A!Spec

-----------------------------------------------------------------------------
(* Retry: the delays that calculateDelay may compute *)

\* Induction on the natural numbers, in the form of a set that is closed under
\* successor: a set without all of them would have a least missing one.
LEMMA SetInduction ==
    ASSUME NEW S, 0 \in S, \A n \in Nat : n \in S => n + 1 \in S
    PROVE  Nat \subseteq S
<1> DEFINE Missing == Nat \ S
           Less == OpToRel(<, Nat)
<1>1. SUFFICES ASSUME Missing # {} PROVE FALSE
  OBVIOUS
<1>2. IsWellFoundedOn(Less, Nat)
  BY NatLessThanWellFounded DEF OpToRel
<1>3. Missing \subseteq Nat
  OBVIOUS
<1>4. \A m, n \in Nat : m < n => <<m, n>> \in Less
  BY DEF OpToRel
<1> HIDE DEF Missing, Less
<1>5. PICK x \in Missing : \A y \in Missing : ~(<<y, x>> \in Less)
  BY <1>1, <1>2, <1>3, WFMin
<1>6. x \in Nat /\ x # 0 /\ x \notin S
  BY DEF Missing
<1>7. x - 1 \in Nat /\ x - 1 < x /\ (x - 1) + 1 = x
  BY <1>6
<1>8. x - 1 \in S
  BY <1>4, <1>5, <1>6, <1>7 DEF Missing
<1>9. QED
  BY <1>6, <1>7, <1>8

\* The powers of a positive multiplier exist and are positive.
LEMMA PowerType ==
    ASSUME MaxRetries \in Nat, Multiplier \in Nat \ {0}
    PROVE  \A k \in 0..MaxRetries : T!Power[k] \in Nat \ {0}
<1> DEFINE Pos == Nat \ {0}
           Obeys(f, n) == f[0] = 1 /\ \A k \in 1..n : f[k] = Multiplier * f[k - 1]
           Upto(n) == \E f \in [0..n -> Pos] : Obeys(f, n)
           Good == {n \in Nat : Upto(n)}
           Rec(f) == f = [k \in 0..MaxRetries |-> IF k = 0 THEN 1 ELSE Multiplier * f[k - 1]]
           Typed == {n \in Nat : n <= MaxRetries => T!Power[n] \in Pos}
<1>1. \A x \in Pos : Multiplier * x \in Pos
  OBVIOUS
<1>2. 0 \in Good
  <2> DEFINE f == [k \in 0..0 |-> 1]
  <2>1. f \in [0..0 -> Pos] /\ f[0] = 1
    OBVIOUS
  <2> HIDE DEF f
  <2>2. Obeys(f, 0)
    BY <2>1
  <2>3. QED
    BY <2>1, <2>2
<1>3. ASSUME NEW n \in Nat, n \in Good PROVE n + 1 \in Good
  <2>1. PICK f \in [0..n -> Pos] : Obeys(f, n)
    BY <1>3
  <2> DEFINE g == [k \in 0..(n + 1) |-> IF k = n + 1 THEN Multiplier * f[n] ELSE f[k]]
  <2>2. f[n] \in Pos /\ Multiplier * f[n] \in Pos
    BY <1>1
  <2>3. g \in [0..(n + 1) -> Pos]
    BY <2>2
  <2>4. g[0] = 1 /\ g[n + 1] = Multiplier * f[n] /\ \A k \in 0..n : g[k] = f[k]
    BY <2>1
  <2> HIDE DEF g
  <2>5. ASSUME NEW k \in 1..n PROVE g[k] = Multiplier * g[k - 1]
    <3>1. g[k] = f[k] /\ g[k - 1] = f[k - 1] /\ f[k] = Multiplier * f[k - 1]
      BY <2>1, <2>4
    <3>2. QED
      BY <3>1
  <2>6. g[n + 1] = Multiplier * g[(n + 1) - 1]
    BY <2>4
  <2>7. \A k \in 1..(n + 1) : k \in 1..n \/ k = n + 1
    OBVIOUS
  <2>8. Obeys(g, n + 1)
    BY <2>4, <2>5, <2>6, <2>7
  <2>9. Upto(n + 1)
    BY <2>3, <2>8
  <2> HIDE DEF Upto
  <2>10. QED
    BY <2>9
<1>4. PICK f \in [0..MaxRetries -> Pos] : Obeys(f, MaxRetries)
  <2> HIDE DEF Good, Obeys
  <2>1. Nat \subseteq Good
    BY <1>2, <1>3, SetInduction
  <2>2. QED
    BY <2>1 DEF Good
<1>5. Rec(f)
  <2> DEFINE h == [k \in 0..MaxRetries |-> IF k = 0 THEN 1 ELSE Multiplier * f[k - 1]]
  <2>1. \A k \in 0..MaxRetries : k = 0 \/ k \in 1..MaxRetries
    OBVIOUS
  <2>2. \A k \in 0..MaxRetries : f[k] = h[k]
    BY <1>4, <2>1
  <2> HIDE DEF h
  <2>3. f = h
    <3>1. DOMAIN f = 0..MaxRetries /\ h = [k \in 0..MaxRetries |-> h[k]]
      BY DEF h
    <3>2. QED
      BY <2>2, <3>1
  <2>4. QED
    BY <2>3 DEF h
<1>6. Rec(T!Power)
  BY <1>5 DEF T!Power
<1>7. \A k \in 0..MaxRetries : T!Power[k] = IF k = 0 THEN 1 ELSE Multiplier * T!Power[k - 1]
  <2> DEFINE h == [j \in 0..MaxRetries |-> IF j = 0 THEN 1 ELSE Multiplier * T!Power[j - 1]]
  <2> SUFFICES ASSUME NEW k \in 0..MaxRetries
               PROVE  T!Power[k] = IF k = 0 THEN 1 ELSE Multiplier * T!Power[k - 1]
    BY Zenon
  <2>1. h[k] = IF k = 0 THEN 1 ELSE Multiplier * T!Power[k - 1]
    BY Zenon
  <2>2. T!Power = h
    BY <1>6, Zenon
  <2>3. QED
    BY <2>1, <2>2, Zenon
<1>8. 0 \in Typed
  BY <1>7
<1>9. ASSUME NEW n \in Nat, n \in Typed PROVE n + 1 \in Typed
  <2>1. SUFFICES ASSUME n + 1 <= MaxRetries PROVE T!Power[n + 1] \in Pos
    OBVIOUS
  <2>2. n + 1 \in 0..MaxRetries /\ n + 1 # 0 /\ (n + 1) - 1 = n /\ T!Power[n] \in Pos
    BY <1>9, <2>1
  <2>3. T!Power[n + 1] = Multiplier * T!Power[n]
    BY <1>7, <2>2
  <2>4. QED
    BY <1>1, <2>2, <2>3
<1>10. Nat \subseteq Typed
  <2> HIDE DEF Typed
  <2>1. QED
    BY <1>8, <1>9, SetInduction
<1>11. QED
  BY <1>10

\* A duration that fits its width is itself.
LEMMA WrapFits ==
    ASSUME T!RetryAssumption, NEW a \in (-Half)..(Half - 1)
    PROVE  T!Wrap(a) = a
<1>1. Half \in Nat \ {0} /\ a \in Int
  BY DEF T!RetryAssumption
<1>2. a + Half \in Nat /\ a + Half < 2 * Half /\ 2 * Half \in Nat \ {0}
  BY <1>1
<1>3. \A x \in Nat : \A m \in Nat \ {0} : x < m => x % m = x
  OBVIOUS
<1>4. (a + Half) % (2 * Half) = a + Half
  BY <1>2, <1>3
<1>5. QED
  BY <1>1, <1>4 DEF T!Wrap

\* What was asked for, and what parseRetryAfter makes of it.
LEMMA ParseOk ==
    ASSUME T!RetryAssumption, NEW v \in RetryAfters,
           NEW a, a = IF v.form = "seconds" THEN v.n * Second
                      ELSE IF v.form = "date" THEN v.n ELSE 0
    PROVE  /\ a \in Int /\ T!parseRetryAfter(v) \in Int
           /\ a \in 1..(Half - 1) => T!parseRetryAfter(v) = a
           /\ a \in (-Half)..0 => T!parseRetryAfter(v) <= 0
<1>1. /\ v.form \in {"seconds", "date", "other"} /\ v.n \in Int
      /\ Second \in Nat \ {0} /\ Half \in Nat \ {0}
  BY DEF T!RetryAssumption
<1>2. CASE v.form = "seconds"
  <2>1. a = v.n * Second /\ T!parseRetryAfter(v) = T!Wrap(a)
    BY <1>2 DEF T!parseRetryAfter
  <2>2. a \in Int
    BY <1>1, <2>1
  <2>3. T!Wrap(a) \in Int
    <3>1. \A x \in Int : \A m \in Nat \ {0} : x % m \in Int
      OBVIOUS
    <3>2. a + Half \in Int /\ 2 * Half \in Nat \ {0}
      BY <1>1, <2>2
    <3>3. (a + Half) % (2 * Half) \in Int
      BY <3>1, <3>2
    <3>4. QED
      BY <1>1, <3>3 DEF T!Wrap
  <2>4. a \in (-Half)..(Half - 1) => T!Wrap(a) = a
    BY WrapFits
  <2>5. a \in 1..(Half - 1) \/ a \in (-Half)..0 => a \in (-Half)..(Half - 1)
    BY <1>1
  <2>6. QED
    BY <2>1, <2>2, <2>3, <2>4, <2>5
<1>3. CASE v.form = "date"
  <2>1. a = v.n /\ T!parseRetryAfter(v) = IF a > 0 THEN a ELSE 0
    BY <1>3 DEF T!parseRetryAfter
  <2>2. QED
    BY <1>1, <2>1
<1>4. CASE v.form = "other"
  <2>1. a = 0 /\ T!parseRetryAfter(v) = 0
    BY <1>4 DEF T!parseRetryAfter
  <2>2. QED
    BY <1>1, <2>1
<1>5. QED
  BY <1>1, <1>2, <1>3, <1>4

\* The backoff is between the first and the largest, and so is its jitter
\* around them.
LEMMA BackoffOk ==
    ASSUME T!RetryAssumption, NEW n \in 1..MaxRetries, NEW d,
           LET b == T!Backoff(n)
               j == (b * JitterPercent) \div 100
           IN  d \in (b - j)..(b + j)
    PROVE  /\ d \in Int
           /\ d * 100 >= T!Capped(InitialBackoff) * (100 - JitterPercent)
           /\ d * 100 <= MaxBackoff * (100 + JitterPercent)
<1> DEFINE p == T!Power[n - 1]
           c == T!Capped(InitialBackoff)
           b == T!Backoff(n)
           k == b * JitterPercent
           j == k \div 100
<1>1. /\ MaxRetries \in Nat \ {0} /\ InitialBackoff \in Nat \ {0} /\ MaxBackoff \in Nat \ {0}
      /\ Multiplier \in Nat \ {0} /\ JitterPercent \in 0..99
  BY DEF T!RetryAssumption
<1>2. p \in Nat \ {0}
  <2>1. n - 1 \in 0..MaxRetries
    BY <1>1
  <2>2. QED
    BY <1>1, <2>1, PowerType
<1> HIDE DEF p
<1>3. InitialBackoff * p \in Nat /\ InitialBackoff * p >= InitialBackoff
  BY <1>1, <1>2
<1>4. b = T!Capped(InitialBackoff * p)
  BY DEF T!Backoff, p
<1>5. b \in Nat /\ c \in Nat /\ c <= b /\ b <= MaxBackoff
  BY <1>1, <1>3, <1>4 DEF T!Capped
<1> HIDE DEF b, c
<1>6. k \in Nat
  BY <1>1, <1>5
<1>7. d \in (b - j)..(b + j)
  BY DEF b
<1> HIDE DEF k
<1>8. j \in Nat /\ j * 100 <= k
  BY <1>6
<1> HIDE DEF j
<1>9. d \in Int /\ d >= b - j /\ d <= b + j
  BY <1>5, <1>7, <1>8
<1>10. d * 100 >= b * 100 - k /\ d * 100 <= b * 100 + k
  BY <1>5, <1>6, <1>8, <1>9
<1>11. /\ b * 100 - k = b * (100 - JitterPercent)
       /\ b * 100 + k = b * (100 + JitterPercent)
  BY <1>1, <1>5 DEF k
<1>12. \A x, y, z \in Nat : x <= y => x * z <= y * z
  OBVIOUS
<1>13. /\ c * (100 - JitterPercent) <= b * (100 - JitterPercent)
       /\ b * (100 + JitterPercent) <= MaxBackoff * (100 + JitterPercent)
  <2>1. 100 - JitterPercent \in Nat /\ 100 + JitterPercent \in Nat
    BY <1>1
  <2>2. QED
    BY <1>1, <1>5, <1>12, <2>1
<1>14. /\ c * (100 - JitterPercent) \in Int /\ b * (100 - JitterPercent) \in Int
       /\ MaxBackoff * (100 + JitterPercent) \in Int /\ b * (100 + JitterPercent) \in Int
  BY <1>1, <1>5
<1>15. QED
  BY <1>9, <1>10, <1>11, <1>13, <1>14 DEF c

\* The wait d that follows a response is the one asked for, or the backoff's.
WaitOk(resp, d) ==
    /\ T!Asked(resp) \in 1..(Half - 1) => d = T!Asked(resp)
    /\ T!Asked(resp) \in (-Half)..0 =>
          /\ d * 100 >= T!Capped(InitialBackoff) * (100 - JitterPercent)
          /\ d * 100 <= MaxBackoff * (100 + JitterPercent)

\* calculateDelay keeps to it, for every response, attempt and jitter.
LEMMA DelayOk ==
    ASSUME T!RetryAssumption, NEW n \in 1..MaxRetries,
           NEW resp \in T!Responses \cup {NoResponse}, NEW d \in T!calculateDelay(n, resp)
    PROVE  d \in Int /\ WaitOk(resp, d)
<1> DEFINE a == T!Asked(resp)
           v == resp.header
           HasHeader == resp # NoResponse /\ v # NoHeader
<1>1. HasHeader =>
         /\ v \in RetryAfters
         /\ a = IF v.form = "seconds" THEN v.n * Second
                ELSE IF v.form = "date" THEN v.n ELSE 0
  BY DEF T!Responses, T!Asked
<1>2. ~HasHeader => a = 0
  BY DEF T!Asked
<1>3. HasHeader => /\ a \in Int /\ T!parseRetryAfter(v) \in Int
                   /\ a \in 1..(Half - 1) => T!parseRetryAfter(v) = a
                   /\ a \in (-Half)..0 => T!parseRetryAfter(v) <= 0
  BY <1>1, ParseOk
<1> HIDE DEF a
<1>4. CASE HasHeader /\ T!parseRetryAfter(v) > 0
  <2>1. d = T!parseRetryAfter(v)
    BY <1>4 DEF T!calculateDelay
  <2>2. d \in Int /\ d > 0 /\ a \in Int
    BY <1>3, <1>4, <2>1
  <2>3. a \in 1..(Half - 1) => d = a
    BY <1>3, <1>4, <2>1
  <2>4. a \notin (-Half)..0
    BY <1>3, <1>4, <2>1, <2>2
  <2>5. QED
    BY <2>2, <2>3, <2>4 DEF WaitOk, a
<1>5. CASE ~(HasHeader /\ T!parseRetryAfter(v) > 0)
  <2>1. /\ d \in Int
        /\ d * 100 >= T!Capped(InitialBackoff) * (100 - JitterPercent)
        /\ d * 100 <= MaxBackoff * (100 + JitterPercent)
    <3>1. LET b == T!Backoff(n)
              j == (b * JitterPercent) \div 100
          IN  d \in (b - j)..(b + j)
      BY <1>5 DEF T!calculateDelay
    <3>2. QED
      BY <3>1, BackoffOk
  <2>2. Half \in Nat
    BY DEF T!RetryAssumption
  <2>3. a \notin 1..(Half - 1)
    BY <1>2, <1>3, <1>5, <2>2
  <2>4. QED
    BY <2>1, <2>3 DEF WaitOk, a
<1>6. QED
  BY <1>4, <1>5

-----------------------------------------------------------------------------
(* Retry: the inductive invariant *)

LogEntry == [out : T!Outcomes, waited : Int]

\* Until it returns, the request has logged one failure per attempt, and the
\* delay it is to log next is right for the last of them.
LoopInv ==
    tpc # "done" =>
        /\ Len(log) = attempt
        /\ \A k \in 1..Len(log) : ~T!Succeeded(log[k].out)
        /\ attempt > 0 => WaitOk(log[attempt].out.resp, delay)
        /\ tpc = "sleep" => attempt > 0

RetryInd == T!RetryInv /\ log \in Seq(LogEntry) /\ LoopInv

\* An attempt ends.
LEMMA RetryAttempt ==
    ASSUME T!RetryAssumption, RetryInd, NEW out \in T!Outcomes, T!Attempt(out)
    PROVE  RetryInd'
<1> DEFINE n == Len(log)
           e == [out |-> out, waited |-> delay]
<1>1. /\ tpc = "call" /\ log' = Append(log, e) /\ UNCHANGED cancelled
      /\ n = attempt /\ log \in Seq(LogEntry) /\ delay \in Int /\ attempt \in 0..MaxRetries
      /\ MaxRetries \in Nat
  BY DEF T!Attempt, RetryInd, LoopInv, T!RetryInv, T!TypeOK, T!RetryAssumption
<1>2. e \in LogEntry /\ e.out = out /\ e.waited = delay
  BY <1>1 DEF LogEntry
<1>3. /\ log' \in Seq(LogEntry) /\ Len(log') = n + 1 /\ log'[n + 1] = e
      /\ \A k \in 1..n : log'[k] = log[k]
  BY <1>1, <1>2, AppendProperties
<1>4. n \in Nat
  BY <1>1
<1> HIDE DEF n, e
<1>5. out.resp \in T!Responses \cup {NoResponse}
  BY DEF T!Outcomes
<1>6. T!WaitsAsAsked'
  <2> SUFFICES ASSUME NEW k \in 2..(n + 1)
               PROVE  WaitOk(log'[k - 1].out.resp, log'[k].waited)
    BY <1>3 DEF T!WaitsAsAsked, WaitOk
  <2>1. k - 1 \in 1..n /\ log'[k - 1] = log[k - 1]
    BY <1>3, <1>4
  <2>2. CASE k = n + 1
    <3>1. attempt > 0 /\ k - 1 = attempt
      BY <1>1, <1>4, <2>1, <2>2
    <3>2. WaitOk(log[attempt].out.resp, delay)
      BY <1>1, <3>1 DEF RetryInd, LoopInv
    <3>3. QED
      BY <1>2, <1>3, <2>1, <2>2, <3>1, <3>2
  <2>3. CASE k \in 2..n
    <3>1. WaitOk(log[k - 1].out.resp, log[k].waited)
      BY <2>3 DEF RetryInd, T!RetryInv, T!WaitsAsAsked, WaitOk, n
    <3>2. log'[k] = log[k]
      BY <1>3, <1>4, <2>3
    <3>3. QED
      BY <2>1, <3>1, <3>2
  <2>4. QED
    BY <1>4, <2>2, <2>3
<1>7. \A k \in 1..n : ~T!Succeeded(log'[k].out)
  BY <1>1, <1>3 DEF RetryInd, LoopInv, n
<1>8. \A k \in DOMAIN log' : log'[k] \in LogEntry
  BY <1>3
<1>9. tpc' \in {"sleep", "done"} /\ attempt' \in 0..MaxRetries
  BY <1>1 DEF T!Attempt, T!Returns
<1>10. /\ delay' \in Int
       /\ tpc' = "sleep" => /\ WaitOk(out.resp, delay') /\ attempt' = n + 1
                            /\ ~T!Succeeded(out)
  <2>1. CASE tpc' = "sleep"
    <3>1. /\ attempt < MaxRetries /\ attempt' = attempt + 1 /\ ~T!Succeeded(out)
          /\ delay' \in T!calculateDelay(attempt + 1, out.resp)
      BY <2>1 DEF T!Attempt, T!Returns
    <3>2. attempt + 1 \in 1..MaxRetries
      BY <1>1, <3>1
    <3>3. QED
      BY <1>1, <1>5, <3>1, <3>2, DelayOk
  <2>2. CASE tpc' # "sleep"
    BY <1>1, <2>2 DEF T!Attempt
  <2>3. QED
    BY <2>1, <2>2
<1>11. result' \in [resp : T!Responses \cup {NoResponse}, err : {"nil", "last", "ctx"}]
  BY <1>5 DEF T!Attempt, T!Returns, RetryInd, T!RetryInv, T!TypeOK
<1>12. T!TypeOK'
  <2>1. cancelled' \in BOOLEAN
    BY <1>1, Zenon DEF RetryInd, T!RetryInv, T!TypeOK
  <2>2. QED
    BY <1>8, <1>9, <1>10, <1>11, <2>1 DEF T!TypeOK, LogEntry
<1>13. T!ReturnsLast'
  <2>1. n + 1 <= MaxRetries + 1
    BY <1>1, <1>4
  <2>2. tpc' = "done" =>
           /\ result'.resp = out.resp
           /\ result'.err = "nil" => ~out.err
           /\ T!Succeeded(out) \/ n + 1 = MaxRetries + 1
           /\ result'.err # "ctx"
    BY <1>1, <1>4 DEF T!Attempt, T!Returns, T!Succeeded
  <2>3. T!Latest' = e
    BY <1>3 DEF T!Latest
  <2>4. \A k \in 1..((n + 1) - 1) : k \in 1..n
    BY <1>4
  <2>5. QED
    BY <1>2, <1>3, <1>7, <2>1, <2>2, <2>3, <2>4 DEF T!ReturnsLast
<1>14. LoopInv'
  <2> SUFFICES ASSUME tpc' # "done"
               PROVE  /\ Len(log') = attempt'
                      /\ \A k \in 1..Len(log') : ~T!Succeeded(log'[k].out)
                      /\ attempt' > 0 => WaitOk(log'[attempt'].out.resp, delay')
                      /\ tpc' = "sleep" => attempt' > 0
    BY DEF LoopInv, WaitOk
  <2>1. /\ attempt' = n + 1 /\ WaitOk(out.resp, delay') /\ ~T!Succeeded(out)
    BY <1>9, <1>10
  <2>2. \A k \in 1..(n + 1) : k \in 1..n \/ k = n + 1
    BY <1>4
  <2>3. QED
    BY <1>2, <1>3, <1>4, <1>7, <2>1, <2>2
<1>15. QED
  BY <1>3, <1>6, <1>12, <1>13, <1>14 DEF RetryInd, T!RetryInv

\* For any configuration of retry.go and any values of Retry-After, a request
\* waits between two attempts as the last response asked, if that fits a
\* duration, and within the backoff's bounds otherwise; it is tried at most
\* MaxRetries + 1 times, never after a success, and returns the last attempt's
\* response.
THEOREM RetryCorrect ==
    ASSUME T!RetryAssumption PROVE T!Spec => []RetryInv
<1>1. T!Init => RetryInd
  <2> SUFFICES ASSUME T!Init PROVE RetryInd
    OBVIOUS
  <2>1. log = <<>> /\ Len(log) = 0 /\ log \in Seq(LogEntry) /\ DOMAIN log = {}
    BY DEF T!Init
  <2>2. /\ tpc = "call" /\ attempt = 0 /\ delay = 0 /\ cancelled \in BOOLEAN /\ MaxRetries \in Nat
        /\ result = [resp |-> NoResponse, err |-> "nil"]
    BY DEF T!Init, T!RetryAssumption
  <2>3. T!TypeOK
    BY <2>1, <2>2 DEF T!TypeOK
  <2>4. T!WaitsAsAsked /\ T!ReturnsLast /\ LoopInv
    BY <2>1, <2>2 DEF T!WaitsAsAsked, T!ReturnsLast, LoopInv
  <2>5. QED
    BY <2>1, <2>3, <2>4 DEF RetryInd, T!RetryInv
<1>2. RetryInd /\ [T!Next]_T!vars => RetryInd'
  <2> SUFFICES ASSUME RetryInd, [T!Next]_T!vars PROVE RetryInd'
    OBVIOUS
  <2>1. CASE UNCHANGED T!vars
    BY <2>1 DEF T!vars, RetryInd, T!RetryInv, T!TypeOK, T!WaitsAsAsked, T!ReturnsLast, T!Latest,
                LoopInv, WaitOk
  <2>2. CASE T!Wake
    <3>1. tpc = "sleep" /\ tpc' = "call" /\ UNCHANGED <<attempt, delay, cancelled, result, log>>
      BY <2>2 DEF T!Wake
    <3>2. QED
      BY <3>1 DEF RetryInd, T!RetryInv, T!TypeOK, T!WaitsAsAsked, T!ReturnsLast, T!Latest,
                  LoopInv, WaitOk
  <2>3. CASE T!SleepCancelled
    <3>1. /\ tpc = "sleep" /\ cancelled /\ tpc' = "done"
          /\ result' = [resp |-> T!Latest.out.resp, err |-> "ctx"]
          /\ UNCHANGED <<attempt, delay, cancelled, log>>
      BY <2>3 DEF T!SleepCancelled, T!Returns
    <3>2. Len(log) = attempt /\ attempt > 0 /\ attempt \in Nat
      BY <3>1 DEF RetryInd, LoopInv, T!RetryInv, T!TypeOK
    <3>3. T!Latest \in LogEntry /\ T!Latest' = T!Latest
      BY <3>1, <3>2 DEF RetryInd, T!Latest
    <3>4. result'.resp = T!Latest.out.resp /\ result'.err = "ctx"
      BY <3>1
    <3>5. T!TypeOK'
      <4>1. T!Latest.out.resp \in T!Responses \cup {NoResponse}
        BY <3>3 DEF LogEntry, T!Outcomes
      <4>2. QED
        BY <3>1, <4>1 DEF RetryInd, T!RetryInv, T!TypeOK
    <3>6. T!WaitsAsAsked' /\ LoopInv'
      BY <3>1 DEF RetryInd, T!RetryInv, T!WaitsAsAsked, LoopInv
    <3>7. T!ReturnsLast'
      BY <3>1, <3>3, <3>4 DEF RetryInd, T!RetryInv, T!ReturnsLast
    <3>8. QED
      BY <3>1, <3>5, <3>6, <3>7 DEF RetryInd, T!RetryInv
  <2>4. CASE T!Cancel
    <3>1. /\ tpc # "done" /\ cancelled' = TRUE /\ UNCHANGED <<tpc, attempt, delay, result, log>>
      BY <2>4 DEF T!Cancel
    <3>2. QED
      BY <3>1 DEF RetryInd, T!RetryInv, T!TypeOK, T!WaitsAsAsked, T!ReturnsLast, T!Latest,
                  LoopInv, WaitOk
  <2>5. QED
    BY <2>1, <2>2, <2>3, <2>4, RetryAttempt DEF T!Next
<1>3. RetryInd => RetryInv
  BY DEF RetryInd, RetryInv
<1>4. QED
  BY <1>1, <1>2, <1>3, PTL DEF T!Spec

-----------------------------------------------------------------------------
(* Robots: the inductive invariant *)

RobotsRequests == [pc : B!Positions, host : Hosts \cup {NoDomain}, rules : B!Sites,
                   at : B!Times]

\* The site of a request's host allowed, or denied, within CacheExpiry of the
\* check.
Granted(q) ==
    /\ last[q.host].allow >= 0 /\ q.at - last[q.host].allow < CacheExpiry
    /\ q.rules = "slow" => q.host \in told
Denied(q) == last[q.host].deny >= 0 /\ q.at - last[q.host].deny < CacheExpiry

\* What is so of a request at every point of getOrFetch and after it: it
\* fetches only what is not fresh, and has grounds for the rules it was given.
RobotsRequest(q) ==
    /\ q \in RobotsRequests
    /\ q.pc \in {"fast", "slow", "fetch", "test", "refused"} => q.host \in Hosts
    /\ q.pc = "fetch" => ~B!Fresh(q.host)
    /\ q.pc = "test" => \/ q.rules \in B!Allowing /\ Granted(q)
                        \/ q.rules = "deny" /\ Denied(q)
                        \/ q.rules = "down"
    /\ q.pc = "next" /\ q.host # NoDomain => q.rules = "failing" \/ Granted(q)
    /\ q.pc = "refused" => q.rules = "down" \/ Denied(q)

\* An entry has rules that the site had when it was fetched, or later, and its
\* Crawl-delay was reported.
EntriesInv ==
    /\ DOMAIN robotsCache \subseteq Hosts
    /\ \A d \in DOMAIN robotsCache :
          /\ robotsCache[d] \in [group : B!Rules, fetchedAt : B!Times]
          /\ robotsCache[d].group \in B!Allowing => robotsCache[d].fetchedAt <= last[d].allow
          /\ robotsCache[d].group = "deny" => robotsCache[d].fetchedAt <= last[d].deny
          /\ robotsCache[d].group = "slow" => d \in told

\* The history is of the past, and of the present as the sites are now.
HistoryInv ==
    /\ now \in B!Times /\ site \in [Hosts -> B!Sites] /\ told \subseteq Hosts
    /\ last \in [Hosts -> [allow : B!Times \cup {-1}, deny : B!Times \cup {-1}]]
    /\ \A d \in Hosts : /\ last[d].allow <= now /\ last[d].deny <= now
                        /\ site[d] \in B!Allowing => last[d].allow = now
                        /\ site[d] = "deny" => last[d].deny = now

WriterInv ==
    /\ writer \in Fetchers \cup {Nobody}
    /\ \A r \in Fetchers : req[r].pc = "fetch" <=> writer = r

RobotsInd ==
    /\ EntriesInv /\ HistoryInv /\ WriterInv
    /\ req \in [Fetchers -> RobotsRequests]
    /\ \A r \in Fetchers : RobotsRequest(req[r])

\* The invariant gives what robots.go promises.
LEMMA RobotsIndImplies == RobotsInd => B!RobotsInv
<1> SUFFICES ASSUME RobotsInd PROVE B!RobotsInv
  OBVIOUS
<1>1. B!TypeOK
  BY DEF RobotsInd, EntriesInv, HistoryInv, WriterInv, RobotsRequests, B!TypeOK
<1>2. B!ForwardedByRules
  BY DEF RobotsInd, RobotsRequest, Granted, B!ForwardedByRules, B!Within
<1>3. B!RefusedByRules
  BY DEF RobotsInd, RobotsRequest, Denied, B!RefusedByRules, B!Within
<1>4. QED
  BY <1>1, <1>2, <1>3 DEF RobotsInd, WriterInv, B!RobotsInv

\* At first nothing is cached and no request has come.
LEMMA RobotsInit ==
    ASSUME B!RobotsAssumption
    PROVE  B!Init => RobotsInd
<1> SUFFICES ASSUME B!Init PROVE RobotsInd
  OBVIOUS
<1>1. now = 0 /\ 0 \in B!Times
  BY DEF B!Init, B!Times, B!RobotsAssumption
<1>2. B!Idle \in RobotsRequests /\ RobotsRequest(B!Idle)
  BY <1>1 DEF B!Idle, RobotsRequests, RobotsRequest, B!Positions, B!Sites, B!Rules, B!Allowing
<1>3. req \in [Fetchers -> RobotsRequests] /\ \A r \in Fetchers : RobotsRequest(req[r])
  BY <1>2 DEF B!Init
<1>4. EntriesInv
  BY DEF B!Init, EntriesInv
<1>5. HistoryInv
  BY <1>1 DEF B!Init, HistoryInv, B!Sites, B!Rules, B!Allowing
<1>6. WriterInv
  BY DEF B!Init, WriterInv, B!Idle, B!RobotsAssumption
<1>7. QED
  BY <1>3, <1>4, <1>5, <1>6 DEF RobotsInd

\* A step of one request that leaves the cache, the sites and the time alone
\* only has to account for the request itself.
LEMMA RobotsMove ==
    ASSUME RobotsInd, NEW r \in Fetchers, NEW q, RobotsRequest(q),
           req' = [req EXCEPT ![r] = q],
           UNCHANGED <<robotsCache, now, site, last, told>>,
           writer' \in Fetchers \cup {Nobody},
           q.pc = "fetch" <=> writer' = r,
           \A e \in Fetchers : e # r => (writer' = e <=> writer = e)
    PROVE  RobotsInd'
<1>1. /\ req \in [Fetchers -> RobotsRequests] /\ q \in RobotsRequests
      /\ \A e \in Fetchers : RobotsRequest(req[e])
  BY DEF RobotsInd, RobotsRequest
<1>2. /\ req' \in [Fetchers -> RobotsRequests] /\ req'[r] = q
      /\ \A e \in Fetchers : e # r => req'[e] = req[e]
  BY <1>1
<1>3. EntriesInv' /\ HistoryInv'
  BY DEF RobotsInd, EntriesInv, HistoryInv
<1>4. WriterInv'
  BY <1>2 DEF RobotsInd, WriterInv
<1>5. ASSUME NEW e \in Fetchers PROVE RobotsRequest(req[e])'
  <2> DEFINE x == req'[e]
  <2>1. RobotsRequest(x)
    BY <1>1, <1>2
  <2>2. QED
    BY <2>1 DEF RobotsRequest, Granted, Denied, B!Fresh
<1>6. QED
  BY <1>2, <1>3, <1>4, <1>5 DEF RobotsInd

\* A request that was given rules goes on with them, as of now.
GivenRobots(r, group, l) ==
    [pc |-> l, host |-> req[r].host, rules |-> group, at |-> now]

\* A request that moves on keeps its host and rules.
MovedRobots(r, l) ==
    [pc |-> l, host |-> req[r].host, rules |-> req[r].rules, at |-> req[r].at]

\* Goto and Give, as replacing one record.
LEMMA RobotsRecords ==
    ASSUME req \in [Fetchers -> RobotsRequests], NEW r \in Fetchers, NEW l, NEW group
    PROVE  /\ B!Goto(r, l) => req' = [req EXCEPT ![r] = MovedRobots(r, l)]
           /\ B!Give(r, group, l) => req' = [req EXCEPT ![r] = GivenRobots(r, group, l)]
<1>1. req[r] \in RobotsRequests
  OBVIOUS
<1>2. [req[r] EXCEPT !.pc = l] = MovedRobots(r, l)
  BY <1>1 DEF RobotsRequests, MovedRobots
<1>3. [req[r] EXCEPT !.pc = l, !.rules = group, !.at = now] = GivenRobots(r, group, l)
  <2> DEFINE x == [pc |-> l, host |-> req[r].host, rules |-> req[r].rules, at |-> req[r].at]
             y == [pc |-> l, host |-> req[r].host, rules |-> group, at |-> req[r].at]
  <2>1. [req[r] EXCEPT !.pc = l] = x
    BY <1>2 DEF MovedRobots
  <2>2. [x EXCEPT !.rules = group] = y
    OBVIOUS
  <2>3. [y EXCEPT !.at = now] = GivenRobots(r, group, l)
    BY DEF GivenRobots
  <2>4. QED
    BY <2>1, <2>2, <2>3
<1>4. ASSUME B!Goto(r, l) PROVE req' = [req EXCEPT ![r] = MovedRobots(r, l)]
  BY <1>2, <1>4 DEF B!Goto
<1>5. ASSUME B!Give(r, group, l) PROVE req' = [req EXCEPT ![r] = GivenRobots(r, group, l)]
  BY <1>3, <1>5 DEF B!Give
<1>6. QED
  BY <1>4, <1>5

\* Fresh rules are grounds for what a request does next.
LEMMA HitGrounds ==
    ASSUME B!RobotsAssumption, RobotsInd, NEW r \in Fetchers, req[r].host \in Hosts,
           B!Fresh(req[r].host)
    PROVE  RobotsRequest(GivenRobots(r, robotsCache[req[r].host].group, "test"))
<1> DEFINE d == req[r].host
           c == robotsCache[d]
           q == GivenRobots(r, c.group, "test")
<1>1. /\ d \in DOMAIN robotsCache /\ now - c.fetchedAt < CacheExpiry
      /\ c.group \in B!Rules /\ c.fetchedAt \in B!Times
      /\ c.group \in B!Allowing => c.fetchedAt <= last[d].allow
      /\ c.group = "deny" => c.fetchedAt <= last[d].deny
      /\ c.group = "slow" => d \in told
  BY DEF B!Fresh, RobotsInd, EntriesInv
<1>2. /\ now \in B!Times /\ CacheExpiry \in Nat
      /\ last[d].allow \in B!Times \cup {-1} /\ last[d].deny \in B!Times \cup {-1}
  BY DEF RobotsInd, HistoryInv, B!RobotsAssumption
<1>3. c.fetchedAt \in Nat /\ now \in Nat /\ last[d].allow \in Int /\ last[d].deny \in Int
  BY <1>1, <1>2 DEF B!Times, B!RobotsAssumption
<1>4. /\ q.pc = "test" /\ q.host = d /\ q.rules = c.group /\ q.at = now
      /\ q = [pc |-> "test", host |-> d, rules |-> c.group, at |-> now]
  BY DEF GivenRobots
<1>5. q \in RobotsRequests
  BY <1>1, <1>2, <1>4 DEF RobotsRequests, B!Positions, B!Sites
<1> HIDE DEF q, c, d
<1>6. d \in Hosts
  BY DEF d
<1>7. CASE c.group \in B!Allowing
  <2>1. last[d].allow >= 0 /\ now - last[d].allow < CacheExpiry
    BY <1>1, <1>2, <1>3, <1>7
  <2>2. Granted(q)
    BY <1>1, <1>4, <2>1 DEF Granted
  <2>3. QED
    BY <1>4, <1>5, <1>6, <1>7, <2>2 DEF RobotsRequest, q, c, d
<1>8. CASE c.group = "deny"
  <2>1. last[d].deny >= 0 /\ now - last[d].deny < CacheExpiry
    BY <1>1, <1>2, <1>3, <1>8
  <2>2. Denied(q)
    BY <1>4, <2>1 DEF Denied
  <2>3. QED
    BY <1>4, <1>5, <1>6, <1>8, <2>2 DEF RobotsRequest, q, c, d
<1>9. QED
  BY <1>1, <1>7, <1>8 DEF B!Rules

\* Steps of a request that leave the cache alone.
LEMMA RobotsRequestStep ==
    ASSUME B!RobotsAssumption, RobotsInd, NEW r \in Fetchers,
           \/ \E d \in Hosts \cup {NoDomain} : B!Call(r, d)
           \/ B!FastPath(r) \/ B!SlowPath(r) \/ B!FetchFails(r)
           \/ B!Test(r) \/ B!Return(r)
    PROVE  RobotsInd' /\ UNCHANGED robotsCache
<1>1. /\ req \in [Fetchers -> RobotsRequests] /\ req[r] \in RobotsRequests
      /\ RobotsRequest(req[r]) /\ Nobody \notin Fetchers
      /\ writer \in Fetchers \cup {Nobody}
      /\ \A e \in Fetchers : req[e].pc = "fetch" <=> writer = e
  BY DEF RobotsInd, WriterInv, B!RobotsAssumption
<1>2. now \in B!Times
  BY DEF RobotsInd, HistoryInv
<1>3. UNCHANGED <<robotsCache, now, site, last, told>>
  BY DEF B!Call, B!FastPath, B!SlowPath, B!FetchFails, B!Test, B!Return
<1>4. ASSUME NEW l \in B!Positions
      PROVE  /\ MovedRobots(r, l) \in RobotsRequests
             /\ MovedRobots(r, l).pc = l /\ MovedRobots(r, l).host = req[r].host
             /\ MovedRobots(r, l).rules = req[r].rules /\ MovedRobots(r, l).at = req[r].at
  BY <1>1 DEF MovedRobots, RobotsRequests
<1>5. CASE \E d \in Hosts \cup {NoDomain} : B!Call(r, d)
  <2>1. PICK d \in Hosts \cup {NoDomain} : B!Call(r, d)
    BY <1>5
  <2> DEFINE l == IF d = NoDomain THEN "next" ELSE "fast"
             q == [pc |-> l, host |-> d, rules |-> req[r].rules, at |-> req[r].at]
  <2>2. req[r] = B!Idle /\ UNCHANGED writer /\ req[r].pc = "idle"
    BY <2>1 DEF B!Call, B!Idle
  <2>3. [[req[r] EXCEPT !.host = d] EXCEPT !.pc = l] = q
    <3> DEFINE x == [pc |-> req[r].pc, host |-> d, rules |-> req[r].rules, at |-> req[r].at]
    <3>1. [req[r] EXCEPT !.host = d] = x
      BY <1>1 DEF RobotsRequests
    <3>2. [x EXCEPT !.pc = l] = q
      OBVIOUS
    <3>3. QED
      BY <3>1, <3>2
  <2>4. req' = [req EXCEPT ![r] = q]
    BY <1>1, <2>1, <2>3 DEF B!Call
  <2>5. q \in RobotsRequests /\ q.pc = l /\ q.host = d
    BY <1>1 DEF RobotsRequests, B!Positions
  <2> HIDE DEF q
  <2>6. RobotsRequest(q) /\ q.pc # "fetch"
    BY <2>5 DEF RobotsRequest
  <2>7. QED
    BY <1>1, <1>3, <2>2, <2>4, <2>6, RobotsMove
<1>6. CASE B!FastPath(r)
  <2>1. req[r].pc = "fast" /\ writer = Nobody /\ UNCHANGED writer /\ req[r].host \in Hosts
    BY <1>1, <1>6 DEF B!FastPath, RobotsRequest
  <2>2. CASE B!Hit(r)
    <3> DEFINE q == GivenRobots(r, robotsCache[req[r].host].group, "test")
    <3>1. req' = [req EXCEPT ![r] = q] /\ RobotsRequest(q) /\ q.pc = "test"
      BY <1>1, <2>1, <2>2, RobotsRecords, HitGrounds DEF B!Hit, GivenRobots
    <3> HIDE DEF q
    <3>2. QED
      BY <1>1, <1>3, <2>1, <3>1, RobotsMove
  <2>3. CASE B!Goto(r, "slow")
    <3> DEFINE q == MovedRobots(r, "slow")
    <3>1. req' = [req EXCEPT ![r] = q] /\ q \in RobotsRequests /\ q.pc = "slow"
          /\ q.host = req[r].host
      BY <1>1, <1>4, <2>3, RobotsRecords DEF B!Positions
    <3> HIDE DEF q
    <3>2. RobotsRequest(q)
      BY <2>1, <3>1 DEF RobotsRequest
    <3>3. QED
      BY <1>1, <1>3, <2>1, <3>1, <3>2, RobotsMove
  <2>4. QED
    BY <1>6, <2>2, <2>3 DEF B!FastPath
<1>7. CASE B!SlowPath(r)
  <2>1. req[r].pc = "slow" /\ writer = Nobody /\ req[r].host \in Hosts
    BY <1>1, <1>7 DEF B!SlowPath, RobotsRequest
  <2>2. CASE B!Hit(r) /\ UNCHANGED writer
    <3> DEFINE q == GivenRobots(r, robotsCache[req[r].host].group, "test")
    <3>1. req' = [req EXCEPT ![r] = q] /\ RobotsRequest(q) /\ q.pc = "test"
      BY <1>1, <2>1, <2>2, RobotsRecords, HitGrounds DEF B!Hit, GivenRobots
    <3> HIDE DEF q
    <3>2. QED
      BY <1>1, <1>3, <2>1, <2>2, <3>1, RobotsMove
  <2>3. CASE ~B!Fresh(req[r].host) /\ B!Goto(r, "fetch") /\ writer' = r
    <3> DEFINE q == MovedRobots(r, "fetch")
    <3>1. req' = [req EXCEPT ![r] = q] /\ q \in RobotsRequests /\ q.pc = "fetch"
          /\ q.host = req[r].host
      BY <1>1, <1>4, <2>3, RobotsRecords DEF B!Positions
    <3> HIDE DEF q
    <3>2. RobotsRequest(q)
      BY <2>1, <2>3, <3>1 DEF RobotsRequest
    <3>3. QED
      BY <1>1, <1>3, <2>1, <2>3, <3>1, <3>2, RobotsMove
  <2>4. QED
    BY <1>7, <2>2, <2>3 DEF B!SlowPath
<1>8. CASE B!FetchFails(r)
  <2> DEFINE q == GivenRobots(r, "failing", "next")
  <2>1. req[r].pc = "fetch" /\ writer = r /\ writer' = Nobody
    BY <1>1, <1>8 DEF B!FetchFails
  <2>2. req' = [req EXCEPT ![r] = q]
    BY <1>1, <1>8, RobotsRecords DEF B!FetchFails
  <2>3. q \in RobotsRequests /\ q.pc = "next" /\ q.rules = "failing"
    BY <1>1, <1>2 DEF GivenRobots, RobotsRequests, B!Positions, B!Sites
  <2> HIDE DEF q
  <2>4. RobotsRequest(q)
    BY <2>3 DEF RobotsRequest
  <2>5. QED
    BY <1>1, <1>3, <2>1, <2>2, <2>3, <2>4, RobotsMove
<1>9. CASE B!Test(r)
  <2> DEFINE l == IF req[r].rules \in B!Allowing THEN "next" ELSE "refused"
             q == MovedRobots(r, l)
  <2>1. req[r].pc = "test" /\ UNCHANGED writer /\ l \in B!Positions
    BY <1>9 DEF B!Test, B!Positions
  <2>2. req' = [req EXCEPT ![r] = q]
    BY <1>1, <1>9, RobotsRecords DEF B!Test
  <2>3. /\ q \in RobotsRequests /\ q.pc = l /\ q.host = req[r].host
        /\ q.rules = req[r].rules /\ q.at = req[r].at
    BY <1>4, <2>1
  <2> HIDE DEF q
  <2>4. Granted(q) = Granted(req[r]) /\ Denied(q) = Denied(req[r])
    BY <2>3 DEF Granted, Denied
  <2>5. RobotsRequest(q)
    BY <1>1, <2>1, <2>3, <2>4 DEF RobotsRequest, B!Allowing
  <2>6. QED
    BY <1>1, <1>3, <2>1, <2>2, <2>3, <2>5, RobotsMove
<1>10. CASE B!Return(r)
  <2>1. req[r].pc # "fetch" /\ UNCHANGED writer /\ req' = [req EXCEPT ![r] = B!Idle]
    BY <1>10 DEF B!Return
  <2>2. 0 \in B!Times
    BY DEF B!Times, B!RobotsAssumption
  <2>3. RobotsRequest(B!Idle) /\ B!Idle.pc = "idle"
    BY <2>2 DEF B!Idle, RobotsRequests, RobotsRequest, B!Positions, B!Sites, B!Rules, B!Allowing
  <2>4. QED
    BY <1>1, <1>3, <2>1, <2>3, RobotsMove
<1>11. QED
  BY <1>3, <1>5, <1>6, <1>7, <1>8, <1>9, <1>10

\* The times of the history are numbers.
LEMMA LastTypes ==
    ASSUME B!RobotsAssumption, HistoryInv
    PROVE  \A h \in Hosts : last[h].allow \in Int /\ last[h].deny \in Int
<1>1. B!Times \cup {-1} \subseteq Int
  BY DEF B!Times, B!RobotsAssumption
<1>2. QED
  BY <1>1 DEF HistoryInv

\* A request that does not move keeps its grounds: sites answer later and
\* later, and what was reported stays reported.
LEMMA RobotsKept ==
    ASSUME B!RobotsAssumption, HistoryInv, HistoryInv', NEW CONSTANT x, RobotsRequest(x),
           x.pc = "fetch" => ~B!Fresh(x.host)', told \subseteq told',
           \A h \in Hosts : last[h].allow <= last'[h].allow /\ last[h].deny <= last'[h].deny
    PROVE  RobotsRequest(x)'
<1>1. /\ x \in RobotsRequests /\ x.at \in Int /\ CacheExpiry \in Nat
      /\ x.host \in Hosts \/ x.host = NoDomain
  BY DEF RobotsRequest, RobotsRequests, B!Times, B!RobotsAssumption
<1>2. \A h \in Hosts : /\ last[h].allow \in Int /\ last'[h].allow \in Int
                        /\ last[h].deny \in Int /\ last'[h].deny \in Int
  <2>1. B!Times \cup {-1} \subseteq Int
    BY DEF B!Times, B!RobotsAssumption
  <2>2. last' \in [Hosts -> [allow : B!Times \cup {-1}, deny : B!Times \cup {-1}]]
    BY DEF HistoryInv, B!Times
  <2>3. QED
    BY <2>1, <2>2, LastTypes
<1>3. ASSUME x.host \in Hosts, Granted(x) PROVE Granted(x)'
  BY <1>1, <1>2, <1>3 DEF Granted
<1>4. ASSUME x.host \in Hosts, Denied(x) PROVE Denied(x)'
  BY <1>1, <1>2, <1>4 DEF Denied
<1>5. RobotsRequests' = RobotsRequests
  BY DEF RobotsRequests, B!Positions, B!Sites, B!Rules, B!Allowing, B!Times
<1>6. QED
  BY <1>1, <1>3, <1>4, <1>5 DEF RobotsRequest, B!Allowing

\* An answer: the entry is stored, unless the site is down, as of now; and what
\* was there before had expired.
LEMMA FetchAnsweredStep ==
    ASSUME B!RobotsAssumption, RobotsInd, NEW r \in Fetchers, B!FetchAnswered(r)
    PROVE  /\ RobotsInd'
           /\ \A e \in DOMAIN robotsCache : robotsCache'[e] # robotsCache[e] =>
                 now - robotsCache[e].fetchedAt >= CacheExpiry
<1> DEFINE d == req[r].host
           q == GivenRobots(r, site[d], "test")
<1>1. /\ req[r].pc = "fetch" /\ site[d] # "failing" /\ writer' = Nobody
      /\ told' = (IF site[d] = "slow" THEN told \cup {d} ELSE told)
      /\ B!Keep(r, d) /\ B!Give(r, site[d], "test") /\ UNCHANGED <<now, site, last>>
  BY DEF B!FetchAnswered
<1>2. /\ req \in [Fetchers -> RobotsRequests] /\ RobotsRequest(req[r])
      /\ \A e \in Fetchers : RobotsRequest(req[e]) /\ (req[e].pc = "fetch" <=> writer = e)
  BY DEF RobotsInd, WriterInv
<1>3. d \in Hosts /\ ~B!Fresh(d)
  BY <1>1, <1>2 DEF RobotsRequest
<1>4. /\ now \in B!Times /\ site \in [Hosts -> B!Sites] /\ told \subseteq Hosts
      /\ site[d] \in B!Sites /\ last[d].allow <= now /\ last[d].deny <= now
      /\ site[d] \in B!Allowing => last[d].allow = now
      /\ site[d] = "deny" => last[d].deny = now
  BY <1>3 DEF RobotsInd, HistoryInv
<1>5. /\ told' \subseteq Hosts /\ told \subseteq told'
      /\ site[d] = "slow" => d \in told'
  BY <1>1, <1>3, <1>4
<1>6. req' = [req EXCEPT ![r] = q]
  BY <1>1, <1>2, RobotsRecords
<1>7. /\ q \in RobotsRequests /\ q.pc = "test" /\ q.host = d /\ q.rules = site[d] /\ q.at = now
  BY <1>3, <1>4 DEF GivenRobots, RobotsRequests, B!Positions
<1> HIDE DEF q, d
<1>8. /\ req' \in [Fetchers -> RobotsRequests] /\ req'[r] = q
      /\ \A e \in Fetchers : e # r => req'[e] = req[e]
  BY <1>2, <1>6, <1>7
<1>9. WriterInv'
  BY <1>1, <1>2, <1>7, <1>8 DEF WriterInv, B!RobotsAssumption
<1>10. HistoryInv'
  BY <1>1, <1>5 DEF RobotsInd, HistoryInv
<1>11. now \in Nat /\ CacheExpiry \in Nat \ {0} /\ now - now = 0 /\ now >= 0
  BY <1>4 DEF B!Times, B!RobotsAssumption
<1>12. RobotsRequest(req[r])'
  <2>1. PICK z : z = q
    OBVIOUS
  <2>2. /\ z \in RobotsRequests /\ z.pc = "test" /\ z.host = d /\ z.rules = site[d]
        /\ z.at = now /\ z = req'[r]
    BY <1>7, <1>8, <2>1
  <2>4. CASE site[d] \in B!Allowing
    <3>1. z.at - last'[z.host].allow < CacheExpiry /\ last'[z.host].allow >= 0
      BY <1>1, <1>4, <1>11, <2>2, <2>4
    <3>2. Granted(z)'
      BY <1>5, <2>2, <3>1 DEF Granted
    <3>3. QED
      BY <1>3, <2>2, <2>4, <3>2 DEF RobotsRequest
  <2>5. CASE site[d] = "deny"
    <3>1. z.at - last'[z.host].deny < CacheExpiry /\ last'[z.host].deny >= 0
      BY <1>1, <1>4, <1>11, <2>2, <2>5
    <3>2. Denied(z)'
      BY <3>1 DEF Denied
    <3>3. QED
      BY <1>3, <2>2, <2>5, <3>2 DEF RobotsRequest
  <2>6. CASE site[d] = "down"
    BY <1>3, <2>2, <2>6 DEF RobotsRequest
  <2>7. QED
    BY <1>1, <1>4, <2>4, <2>5, <2>6 DEF B!Sites, B!Rules
<1>13. ASSUME NEW e \in Fetchers, e # r PROVE RobotsRequest(req[e])'
  <2>1. PICK z : z = req[e]
    OBVIOUS
  <2>2. z = req'[e] /\ RobotsRequest(z) /\ z.pc # "fetch"
    BY <1>1, <1>2, <1>8, <1>13, <2>1
  <2>3. \A h \in Hosts : last[h].allow <= last'[h].allow /\ last[h].deny <= last'[h].deny
    BY <1>1, LastTypes DEF RobotsInd
  <2>4. RobotsRequest(z)'
    BY <1>5, <1>10, <2>2, <2>3, RobotsKept DEF RobotsInd
  <2>5. QED
    BY <2>2, <2>4
<1>14. ASSUME NEW e \in Fetchers PROVE RobotsRequest(req[e])'
  BY <1>12, <1>13
<1>15. CASE site[d] = "down"
  <2>1. UNCHANGED robotsCache
    BY <1>1, <1>15 DEF B!Keep, d
  <2>2. EntriesInv'
    BY <1>1, <1>5, <2>1 DEF RobotsInd, EntriesInv
  <2>3. QED
    BY <1>8, <1>9, <1>10, <1>14, <2>1, <2>2 DEF RobotsInd
<1>16. CASE site[d] # "down"
  <2>1. robotsCache' = [e \in DOMAIN robotsCache \cup {d} |->
           IF e = d THEN [group |-> site[d], fetchedAt |-> now] ELSE robotsCache[e]]
    BY <1>1, <1>16 DEF B!Keep, B!Store, d
  <2>2. /\ DOMAIN robotsCache' = DOMAIN robotsCache \cup {d}
        /\ robotsCache'[d] = [group |-> site[d], fetchedAt |-> now]
        /\ \A e \in DOMAIN robotsCache : e # d => robotsCache'[e] = robotsCache[e]
    BY <2>1
  <2>3. site[d] \in B!Rules
    BY <1>1, <1>4, <1>16 DEF B!Sites, d
  <2>4. /\ robotsCache'[d] \in [group : B!Rules, fetchedAt : B!Times]
        /\ robotsCache'[d].group = site[d] /\ robotsCache'[d].fetchedAt = now
    BY <1>4, <2>2, <2>3
  <2>5. /\ robotsCache'[d].group \in B!Allowing => robotsCache'[d].fetchedAt <= last'[d].allow
        /\ robotsCache'[d].group = "deny" => robotsCache'[d].fetchedAt <= last'[d].deny
        /\ robotsCache'[d].group = "slow" => d \in told'
    BY <1>1, <1>4, <1>5, <1>11, <2>4
  <2>6. \A e \in DOMAIN robotsCache : e # d =>
           /\ robotsCache'[e] \in [group : B!Rules, fetchedAt : B!Times]
           /\ robotsCache'[e].group \in B!Allowing => robotsCache'[e].fetchedAt <= last'[e].allow
           /\ robotsCache'[e].group = "deny" => robotsCache'[e].fetchedAt <= last'[e].deny
           /\ robotsCache'[e].group = "slow" => e \in told'
    BY <1>1, <1>5, <2>2 DEF RobotsInd, EntriesInv
  <2>7. EntriesInv'
    <3>1. DOMAIN robotsCache' \subseteq Hosts
      BY <1>3, <2>2 DEF RobotsInd, EntriesInv
    <3>2. QED
      BY <2>2, <2>4, <2>5, <2>6, <3>1 DEF EntriesInv
  <2>8. ASSUME NEW e \in DOMAIN robotsCache, robotsCache'[e] # robotsCache[e]
        PROVE  now - robotsCache[e].fetchedAt >= CacheExpiry
    <3>1. e = d
      BY <2>2, <2>8
    <3>2. robotsCache[e].fetchedAt \in B!Times
      BY DEF RobotsInd, EntriesInv
    <3>3. robotsCache[e].fetchedAt \in Nat
      BY <3>2 DEF B!Times, B!RobotsAssumption
    <3>4. ~(now - robotsCache[e].fetchedAt < CacheExpiry)
      BY <1>3, <3>1 DEF B!Fresh
    <3>5. QED
      BY <1>11, <3>3, <3>4
  <2>9. QED
    BY <1>8, <1>9, <1>10, <1>14, <2>7, <2>8 DEF RobotsInd
<1>17. QED
  BY <1>15, <1>16

\* A site answers otherwise, or time passes: no entry becomes fresh again, and
\* the history only grows.
LEMMA EnvironmentStep ==
    ASSUME B!RobotsAssumption, RobotsInd, NEW d \in Hosts, NEW s \in B!Sites,
           NEW t \in B!Times, now <= t, B!Environment(d, s, t)
    PROVE  RobotsInd' /\ UNCHANGED robotsCache
<1>1. /\ site' = [site EXCEPT ![d] = s] /\ now' = t
      /\ last' = [e \in Hosts |->
            [allow |-> IF site'[e] \in B!Allowing THEN t ELSE last[e].allow,
             deny |-> IF site'[e] = "deny" THEN t ELSE last[e].deny]]
      /\ UNCHANGED <<writer, robotsCache, req, told>>
  BY DEF B!Environment
<1>2. HistoryInv /\ now \in Nat /\ t \in Nat
  BY DEF RobotsInd, HistoryInv, B!Times, B!RobotsAssumption
<1>3. ASSUME NEW e \in Hosts
      PROVE  /\ last'[e] \in [allow : B!Times \cup {-1}, deny : B!Times \cup {-1}]
             /\ last[e].allow <= last'[e].allow /\ last[e].deny <= last'[e].deny
             /\ last'[e].allow <= t /\ last'[e].deny <= t
             /\ site'[e] \in B!Allowing => last'[e].allow = t
             /\ site'[e] = "deny" => last'[e].deny = t
  <2>1. /\ last'[e].allow = (IF site'[e] \in B!Allowing THEN t ELSE last[e].allow)
        /\ last'[e].deny = (IF site'[e] = "deny" THEN t ELSE last[e].deny)
        /\ last'[e] = [allow |-> last'[e].allow, deny |-> last'[e].deny]
    BY <1>1
  <2>2. /\ last[e].allow \in B!Times \cup {-1} /\ last[e].deny \in B!Times \cup {-1}
        /\ last[e].allow <= now /\ last[e].deny <= now
    BY <1>2 DEF HistoryInv
  <2>3. last[e].allow \in Int /\ last[e].deny \in Int
    BY <1>2, LastTypes
  <2>4. last'[e].allow \in B!Times \cup {-1} /\ last'[e].deny \in B!Times \cup {-1}
    BY <2>1, <2>2
  <2>5. QED
    BY <1>2, <2>1, <2>2, <2>3, <2>4
<1>4. HistoryInv'
  <2>1. site' \in [Hosts -> B!Sites]
    BY <1>1, <1>2 DEF HistoryInv
  <2>2. last' \in [Hosts -> [allow : B!Times \cup {-1}, deny : B!Times \cup {-1}]]
    BY <1>1, <1>3
  <2>3. QED
    BY <1>1, <1>2, <1>3, <2>1, <2>2 DEF HistoryInv, B!Times
<1>5. EntriesInv'
  <2>1. ASSUME NEW e \in DOMAIN robotsCache
        PROVE  /\ robotsCache[e].group \in B!Allowing => robotsCache[e].fetchedAt <= last'[e].allow
               /\ robotsCache[e].group = "deny" => robotsCache[e].fetchedAt <= last'[e].deny
    <3>1. /\ e \in Hosts /\ robotsCache[e].fetchedAt \in B!Times
          /\ robotsCache[e].group \in B!Allowing => robotsCache[e].fetchedAt <= last[e].allow
          /\ robotsCache[e].group = "deny" => robotsCache[e].fetchedAt <= last[e].deny
      BY DEF RobotsInd, EntriesInv
    <3>2. robotsCache[e].fetchedAt \in Int
      BY <3>1 DEF B!Times, B!RobotsAssumption
    <3>3. /\ last[e].allow \in Int /\ last[e].deny \in Int
          /\ last'[e].allow \in Int /\ last'[e].deny \in Int
      <4>1. B!Times \cup {-1} \subseteq Int
        BY DEF B!Times, B!RobotsAssumption
      <4>2. last'[e].allow \in B!Times \cup {-1} /\ last'[e].deny \in B!Times \cup {-1}
        BY <1>3, <3>1
      <4>3. QED
        BY <1>2, <3>1, <4>1, <4>2, LastTypes
    <3>4. QED
      BY <1>3, <3>1, <3>2, <3>3
  <2>2. QED
    BY <1>1, <2>1 DEF RobotsInd, EntriesInv, B!Times, B!Rules, B!Allowing
<1>6. ASSUME NEW e \in Fetchers PROVE RobotsRequest(req[e])'
  <2>1. PICK z : z = req[e]
    OBVIOUS
  <2>2. z = req'[e] /\ RobotsRequest(z)
    BY <1>1, <2>1 DEF RobotsInd
  <2>3. z.pc = "fetch" => ~B!Fresh(z.host)'
    <3>1. SUFFICES ASSUME z.pc = "fetch", z.host \in DOMAIN robotsCache
                   PROVE  ~(t - robotsCache[z.host].fetchedAt < CacheExpiry)
      BY <1>1 DEF B!Fresh
    <3>2. ~(now - robotsCache[z.host].fetchedAt < CacheExpiry)
      BY <2>2, <3>1 DEF RobotsRequest, B!Fresh
    <3>3. robotsCache[z.host].fetchedAt \in B!Times
      BY <3>1 DEF RobotsInd, EntriesInv
    <3>4. robotsCache[z.host].fetchedAt \in Int /\ CacheExpiry \in Int
      BY <3>3 DEF B!Times, B!RobotsAssumption
    <3>5. QED
      BY <1>2, <3>2, <3>4
  <2>4. RobotsRequest(z)'
    BY <1>1, <1>2, <1>3, <1>4, <2>2, <2>3, RobotsKept
  <2>5. QED
    BY <2>2, <2>4
<1>7. QED
  BY <1>1, <1>4, <1>5, <1>6 DEF RobotsInd, WriterInv, RobotsRequests, B!Positions, B!Sites,
     B!Rules, B!Allowing, B!Times

\* For any requests, hosts, expiry and answers of the sites, in any order: a
\* request is forwarded or refused on rules that its site had within
\* CacheExpiry, or on its own failed fetch, and requests that miss an entry
\* together fetch it once.
THEOREM RobotsCorrect ==
    ASSUME B!RobotsAssumption
    PROVE  B!Spec => RobotsOK
<1> DEFINE Once == \A d \in DOMAIN robotsCache : robotsCache'[d] # robotsCache[d] =>
                      now - robotsCache[d].fetchedAt >= CacheExpiry
<1>1. RobotsInd /\ [B!Next]_B!vars => RobotsInd' /\ Once
  <2> SUFFICES ASSUME RobotsInd, [B!Next]_B!vars PROVE RobotsInd' /\ Once
    OBVIOUS
  <2>1. CASE UNCHANGED B!vars
    <3>1. UNCHANGED <<writer, robotsCache, now, req, site, last, told>>
      BY <2>1 DEF B!vars
    <3>2. EntriesInv' /\ HistoryInv' /\ WriterInv'
      BY <3>1 DEF RobotsInd, EntriesInv, HistoryInv, WriterInv
    <3>3. QED
      BY <3>1, <3>2 DEF RobotsInd, RobotsRequest, RobotsRequests, Granted, Denied, B!Fresh
  <2>2. now \in B!Times /\ now \in Nat /\ MaxTime \in Nat
    BY DEF RobotsInd, HistoryInv, B!Times, B!RobotsAssumption
  <2>3. CASE B!Tick
    <3>1. PICK d \in Hosts : B!Environment(d, site[d], now + 1)
      BY <2>3 DEF B!Tick
    <3>2. now + 1 \in B!Times /\ now <= now + 1 /\ site[d] \in B!Sites
      BY <2>2, <2>3 DEF B!Tick, B!Times, RobotsInd, HistoryInv
    <3>3. QED
      BY <3>1, <3>2, EnvironmentStep
  <2>4. ASSUME NEW d \in Hosts, B!SiteChanges(d) PROVE RobotsInd' /\ Once
    <3>1. PICK s \in B!Sites : B!Environment(d, s, now)
      BY <2>4 DEF B!SiteChanges
    <3>2. now <= now
      BY <2>2
    <3>3. QED
      BY <2>2, <3>1, <3>2, EnvironmentStep
  <2>5. ASSUME NEW r \in Fetchers,
               \/ \E d \in Hosts \cup {NoDomain} : B!Call(r, d)
               \/ B!FastPath(r) \/ B!SlowPath(r) \/ B!FetchAnswered(r) \/ B!FetchFails(r)
               \/ B!Test(r) \/ B!Return(r)
        PROVE  RobotsInd' /\ Once
    BY <2>5, RobotsRequestStep, FetchAnsweredStep
  <2>6. QED
    BY <2>1, <2>3, <2>4, <2>5 DEF B!Next
<1>2. QED
  BY <1>1, RobotsInit, RobotsIndImplies, PTL DEF B!Spec, RobotsOK, B!FetchedOnce

-----------------------------------------------------------------------------
(* ProxyRotation: the inductive invariant *)

\* A request that goes on has a proxy.
ChosenInv == \A r \in Requests : qpc[r] = "next" => chosen[r] \in X!Proxies

ProxyInd == X!ProxyInv /\ ChosenInv

\* Finite sets and their sizes are those of the library in the component too.
LEMMA SameSizes ==
    ASSUME NEW Q
    PROVE  /\ X!IsFiniteSet(Q) <=> IsFiniteSet(Q)
           /\ X!Cardinality(Q) = Cardinality(Q)
BY DEF X!IsFiniteSet, IsFiniteSet, X!Cardinality, Cardinality

\* Every proxy is healthy and no request has begun.
LEMMA ProxyStart == ASSUME X!ProxyAssumption, X!Init PROVE ProxyInd
<1>1. \A p \in X!Proxies : X!Committed(p) = {}
  BY DEF X!Init, X!Committed
<1>2. X!FailuresBounded
  <2>1. /\ X!Cardinality({}) = 0 /\ IsFiniteSet(Requests) /\ Cardinality(Requests) \in Nat
        /\ X!Cardinality(Requests) = Cardinality(Requests)
    BY SameSizes, FS_EmptySet, FS_CardinalityType DEF X!ProxyAssumption
  <2>2. \A p \in X!Proxies : failures[p] = 0
    BY DEF X!Init
  <2>3. 0 + 0 <= MaxFailures - 1 + X!Cardinality(Requests)
    BY <2>1 DEF X!ProxyAssumption
  <2>4. ASSUME NEW p \in X!Proxies
        PROVE  failures[p] + X!Cardinality(X!Committed(p))
                   <= MaxFailures - 1 + X!Cardinality(Requests)
    <3>1. failures[p] = 0 /\ X!Cardinality(X!Committed(p)) = 0
      BY <1>1, <2>1, <2>2
    <3>2. QED
      BY <2>3, <3>1
  <2>5. QED
    BY <2>4 DEF X!FailuresBounded
<1>3. X!TypeOK
  BY DEF X!Init, X!TypeOK, X!ProxyAssumption, X!Proxies, X!NoProxy
<1>4. ChosenInv
  BY DEF X!Init, ChosenInv
<1>5. QED
  BY <1>2, <1>3, <1>4 DEF ProxyInd, X!ProxyInv

\* A request that begins a pick, or has one refused, is committed to nothing.
LEMMA PickBegins ==
    ASSUME X!ProxyAssumption, X!TypeOK, NEW r \in Requests,
           X!StartRoundRobin(r) \/ X!StartRandom(r) \/ X!StartWeighted(r)
    PROVE  /\ X!TypeOK' /\ qpc'[r] = "scan" /\ pool'[r] = {}
           /\ UNCHANGED failures
           /\ \A q \in Requests \ {r} : qpc'[q] = qpc[q] /\ pool'[q] = pool[q]
           /\ chosen' = chosen
<1>1. PICK b \in X!Proxies : X!Start(r, b)
  <2>1. CASE X!StartRoundRobin(r)
    BY <2>1 DEF X!StartRoundRobin, X!ProxyAssumption, X!TypeOK, X!Proxies
  <2>2. CASE X!StartRandom(r)
    BY <2>2 DEF X!StartRandom
  <2>3. CASE X!StartWeighted(r)
    BY <2>3 DEF X!StartWeighted, X!ProxyAssumption, X!Proxies
  <2>4. QED
    BY <2>1, <2>2, <2>3
<1>2. index' \in 0 .. IndexLimit - 1
  BY DEF X!StartRoundRobin, X!StartRandom, X!StartWeighted, X!TypeOK, X!ProxyAssumption
<1>3. X!TypeOK'
  BY <1>1, <1>2 DEF X!Start, X!TypeOK, X!ProxyAssumption
<1>4. QED
  BY <1>1, <1>3 DEF X!Start, X!TypeOK

\* The proxy a scan looks at is one of the pool.
LEMMA AtProxy ==
    ASSUME X!ProxyAssumption, X!TypeOK, NEW r \in Requests
    PROVE  X!At(r) \in X!Proxies
BY DEF X!ProxyAssumption, X!TypeOK, X!At, X!Proxies

\* The steps of a scan change the position, the pool or the choice of one
\* request, and it commits itself only to a proxy it has just seen healthy.
LEMMA ScanStep ==
    ASSUME X!ProxyAssumption, ProxyInd, NEW r \in Requests,
           \/ X!ScanTake(r) \/ X!ScanSkip(r) \/ X!ScanEnd(r) \/ X!Collect(r) \/ X!Draw(r)
    PROVE  /\ X!TypeOK' /\ ChosenInv' /\ UNCHANGED failures
           /\ \A p \in X!Proxies :
                 X!Committed(p)' \subseteq X!Committed(p) \/ X!IsHealthy(p)
<1>1. CASE X!ScanTake(r)
  <2>1. X!TypeOK'
    BY <1>1, AtProxy DEF X!ScanTake, X!Take, ProxyInd, X!ProxyInv, X!TypeOK
  <2>2. ChosenInv'
    BY <1>1, AtProxy DEF X!ScanTake, X!Take, ProxyInd, X!ProxyInv, X!TypeOK, ChosenInv
  <2>3. ASSUME NEW p \in X!Proxies, ~X!IsHealthy(p)
        PROVE  X!Committed(p)' \subseteq X!Committed(p)
    BY <1>1, <2>3 DEF X!ScanTake, X!Take, ProxyInd, X!ProxyInv, X!TypeOK, X!Committed
  <2>4. QED
    BY <1>1, <2>1, <2>2, <2>3 DEF X!ScanTake
<1>2. CASE X!ScanSkip(r)
  <2>1. X!TypeOK'
    BY <1>2 DEF X!ScanSkip, X!LookOn, ProxyInd, X!ProxyInv, X!TypeOK, X!ProxyAssumption
  <2>2. QED
    BY <1>2, <2>1 DEF X!ScanSkip, ProxyInd, ChosenInv, X!Committed
<1>3. CASE X!ScanEnd(r) \/ (X!Draw(r) /\ X!Refuse(r))
  <2>1. UNCHANGED <<mode, index, failures, base, i, pool, chosen>>
        /\ qpc' = [qpc EXCEPT ![r] = "refused"]
    BY <1>3 DEF X!ScanEnd, X!Draw, X!Refuse
  <2>2. X!TypeOK' /\ ChosenInv'
    BY <2>1 DEF ProxyInd, X!ProxyInv, X!TypeOK, ChosenInv
  <2>3. QED
    BY <2>1, <2>2 DEF ProxyInd, X!ProxyInv, X!TypeOK, X!Committed
<1>4. CASE X!Collect(r)
  <2>1. X!TypeOK'
    BY <1>4 DEF X!Collect, X!LookOn, ProxyInd, X!ProxyInv, X!TypeOK, X!ProxyAssumption, X!Proxies
  <2>2. ChosenInv'
    BY <1>4 DEF X!Collect, ProxyInd, ChosenInv
  <2>3. ASSUME NEW p \in X!Proxies, ~X!IsHealthy(p)
        PROVE  X!Committed(p)' \subseteq X!Committed(p)
    BY <1>4, <2>3 DEF X!Collect, ProxyInd, X!ProxyInv, X!TypeOK, X!Committed
  <2>4. QED
    BY <1>4, <2>1, <2>2, <2>3 DEF X!Collect
<1>5. CASE X!Draw(r) /\ (\E p \in pool[r] : X!Take(r, p))
  <2>1. PICK p \in pool[r] : X!Take(r, p)
    BY <1>5
  <2>2. p \in X!Proxies /\ qpc[r] = "scan" /\ UNCHANGED <<mode, index, failures, base, i, pool>>
    BY <1>5 DEF X!Draw, ProxyInd, X!ProxyInv, X!TypeOK
  <2>3. X!TypeOK' /\ ChosenInv'
    BY <2>1, <2>2 DEF X!Take, ProxyInd, X!ProxyInv, X!TypeOK, ChosenInv
  <2>4. \A q \in X!Proxies : X!Committed(q)' \subseteq X!Committed(q)
    BY <2>1, <2>2 DEF X!Take, ProxyInd, X!ProxyInv, X!TypeOK, X!Committed
  <2>5. QED
    BY <2>2, <2>3, <2>4
<1>6. QED
  BY <1>1, <1>2, <1>3, <1>4, <1>5 DEF X!Draw

\* A result is recorded by a request that was committed to its proxy, and is so
\* no more.
LEMMA ResultStep ==
    ASSUME X!ProxyAssumption, ProxyInd, NEW r \in Requests,
           X!Fail(r) \/ X!Succeed(r) \/ X!Refused(r)
    PROVE  /\ X!TypeOK' /\ ChosenInv'
           /\ \A p \in X!Proxies :
                 /\ X!Committed(p)' \subseteq X!Committed(p) \ {r}
                 /\ \/ failures'[p] = failures[p]
                    \/ r \in X!Committed(p) /\ failures'[p] \in {0, failures[p] + 1}
<1>1. /\ X!Done(r)
      /\ \/ UNCHANGED failures
         \/ /\ qpc[r] = "next" /\ chosen[r] \in X!Proxies
            /\ \/ failures' = [failures EXCEPT ![chosen[r]] = @ + 1]
               \/ failures' = [failures EXCEPT ![chosen[r]] = 0]
  BY DEF X!Fail, X!Succeed, X!Refused, ProxyInd, ChosenInv
<1>2. X!TypeOK'
  <2>1. failures' \in [X!Proxies -> Nat]
    BY <1>1 DEF ProxyInd, X!ProxyInv, X!TypeOK
  <2>2. QED
    BY <1>1, <2>1 DEF X!Done, ProxyInd, X!ProxyInv, X!TypeOK
<1>3. ChosenInv'
  BY <1>1 DEF X!Done, ProxyInd, X!ProxyInv, X!TypeOK, ChosenInv
<1>4. ASSUME NEW p \in X!Proxies
      PROVE  X!Committed(p)' \subseteq X!Committed(p) \ {r}
  BY <1>1 DEF X!Done, ProxyInd, X!ProxyInv, X!TypeOK, X!Committed
<1>5. ASSUME NEW p \in X!Proxies
      PROVE  \/ failures'[p] = failures[p]
             \/ r \in X!Committed(p) /\ failures'[p] \in {0, failures[p] + 1}
  BY <1>1 DEF ProxyInd, X!ProxyInv, X!TypeOK, X!Committed
<1>6. QED
  BY <1>2, <1>3, <1>4, <1>5

\* What a step does to a proxy's counter and to the requests committed to it.
LEMMA ProxyStep ==
    ASSUME X!ProxyAssumption, ProxyInd, [X!Next]_X!vars
    PROVE  /\ X!TypeOK' /\ ChosenInv'
           /\ \A p \in X!Proxies :
                 \/ /\ failures'[p] = failures[p]
                    /\ X!Committed(p)' \subseteq X!Committed(p) \/ X!IsHealthy(p)
                 \/ \E r \in X!Committed(p) :
                       /\ failures'[p] \in {0, failures[p] + 1}
                       /\ X!Committed(p)' \subseteq X!Committed(p) \ {r}
<1>1. CASE UNCHANGED X!vars
  BY <1>1 DEF X!vars, ProxyInd, X!ProxyInv, X!TypeOK, ChosenInv, X!Committed
<1>2. ASSUME NEW r \in Requests,
             X!StartRoundRobin(r) \/ X!StartRandom(r) \/ X!StartWeighted(r)
      PROVE  /\ X!TypeOK' /\ ChosenInv' /\ UNCHANGED failures
             /\ \A p \in X!Proxies : X!Committed(p)' \subseteq X!Committed(p)
  BY <1>2, PickBegins DEF ProxyInd, X!ProxyInv, ChosenInv, X!Committed
<1>3. ASSUME NEW r \in Requests,
             \/ X!ScanTake(r) \/ X!ScanSkip(r) \/ X!ScanEnd(r) \/ X!Collect(r) \/ X!Draw(r)
      PROVE  /\ X!TypeOK' /\ ChosenInv' /\ UNCHANGED failures
             /\ \A p \in X!Proxies :
                   X!Committed(p)' \subseteq X!Committed(p) \/ X!IsHealthy(p)
  BY <1>3, ScanStep
<1>4. ASSUME NEW r \in Requests, X!Fail(r) \/ X!Succeed(r) \/ X!Refused(r)
      PROVE  /\ X!TypeOK' /\ ChosenInv'
             /\ \A p \in X!Proxies :
                   /\ X!Committed(p)' \subseteq X!Committed(p) \ {r}
                   /\ \/ failures'[p] = failures[p]
                      \/ r \in X!Committed(p) /\ failures'[p] \in {0, failures[p] + 1}
  BY <1>4, ResultStep
<1>5. QED
  BY <1>1, <1>2, <1>3, <1>4 DEF X!Next

\* The bound on the counters follows from the sizes of the committed sets.
LEMMA FailuresStep ==
    ASSUME X!ProxyAssumption, ProxyInd, [X!Next]_X!vars, NEW p \in X!Proxies
    PROVE  failures'[p] + Cardinality(X!Committed(p)')
               <= MaxFailures - 1 + Cardinality(Requests)
<1> DEFINE old == X!Committed(p)
<1>1. PICK new : new = X!Committed(p)'
  OBVIOUS
<1>2. old \subseteq Requests /\ new \subseteq Requests
  BY <1>1 DEF X!Committed
<1>3. /\ IsFiniteSet(old) /\ IsFiniteSet(new) /\ IsFiniteSet(Requests)
      /\ Cardinality(old) \in Nat /\ Cardinality(new) \in Nat /\ Cardinality(Requests) \in Nat
      /\ Cardinality(new) <= Cardinality(Requests)
  <2>1. IsFiniteSet(Requests)
    BY SameSizes DEF X!ProxyAssumption
  <2>2. IsFiniteSet(old) /\ IsFiniteSet(new) /\ Cardinality(new) <= Cardinality(Requests)
    BY <1>2, <2>1, FS_Subset
  <2>3. QED
    BY <2>1, <2>2, FS_CardinalityType
<1>4. failures[p] + Cardinality(old) <= MaxFailures - 1 + Cardinality(Requests)
  BY SameSizes DEF ProxyInd, X!ProxyInv, X!FailuresBounded
<1>5. failures[p] \in Nat /\ MaxFailures \in Nat \ {0}
  BY DEF ProxyInd, X!ProxyInv, X!TypeOK, X!ProxyAssumption
<1>6. CASE failures'[p] = failures[p] /\ X!IsHealthy(p)
  BY <1>1, <1>3, <1>5, <1>6 DEF X!IsHealthy
<1>7. CASE failures'[p] = failures[p] /\ new \subseteq old
  <2>1. Cardinality(new) <= Cardinality(old)
    BY <1>3, <1>7, FS_Subset
  <2>2. QED
    BY <1>1, <1>3, <1>4, <1>5, <1>7, <2>1
<1>8. ASSUME NEW r \in old, failures'[p] \in {0, failures[p] + 1}, new \subseteq old \ {r}
      PROVE  failures'[p] + Cardinality(new) <= MaxFailures - 1 + Cardinality(Requests)
  <2>1. Cardinality(old \ {r}) = Cardinality(old) - 1 /\ IsFiniteSet(old \ {r})
    BY <1>3, FS_RemoveElement
  <2>2. Cardinality(new) <= Cardinality(old) - 1
    BY <1>8, <2>1, FS_Subset
  <2>3. QED
    BY <1>3, <1>4, <1>5, <1>8, <2>2
<1>9. QED
  BY <1>1, <1>6, <1>7, <1>8, ProxyStep

\* ProxyOK (proxy.go:59): for any number of requests and proxies, any rotation
\* mode and any limit, a counter passes MaxFailures by no more than the requests
\* that saw the proxy healthy before, and a proxy that is out and that nobody is
\* on his way to gets no more requests.
THEOREM ProxyCorrect ==
    ASSUME X!ProxyAssumption PROVE X!Spec => ProxyOK
<1>1. X!Init => ProxyInd
  BY ProxyStart
<1>2. ProxyInd /\ [X!Next]_X!vars => ProxyInd'
  <2> SUFFICES ASSUME ProxyInd, [X!Next]_X!vars PROVE ProxyInd'
    OBVIOUS
  <2>1. X!FailuresBounded'
    <3>1. \A Q : X!Cardinality(Q) = Cardinality(Q)
      BY SameSizes
    <3>2. ASSUME NEW p \in X!Proxies
          PROVE  failures'[p] + X!Cardinality(X!Committed(p)')
                     <= MaxFailures - 1 + X!Cardinality(Requests)
      BY <3>1, FailuresStep
    <3>3. QED
      BY <3>2 DEF X!FailuresBounded, X!Proxies
  <2>2. QED
    BY <2>1, ProxyStep DEF ProxyInd, X!ProxyInv
<1>3. ProxyInd /\ [X!Next]_X!vars =>
          \A p \in X!Proxies : ~X!IsHealthy(p) /\ X!Committed(p) = {}
              => failures'[p] >= MaxFailures /\ X!Committed(p)' = {}
  <2> SUFFICES ASSUME ProxyInd, [X!Next]_X!vars, NEW p \in X!Proxies,
                      ~X!IsHealthy(p), X!Committed(p) = {}
               PROVE  failures'[p] >= MaxFailures /\ X!Committed(p)' = {}
    OBVIOUS
  <2>1. failures'[p] = failures[p] /\ X!Committed(p)' \subseteq X!Committed(p)
    BY ProxyStep
  <2>2. QED
    BY <2>1 DEF X!IsHealthy, ProxyInd, X!ProxyInv, X!TypeOK, X!ProxyAssumption
<1>4. ProxyInd => X!ProxyInv
  BY DEF ProxyInd
<1>5. QED
  BY <1>1, <1>2, <1>3, <1>4, PTL DEF X!Spec, ProxyOK, X!OutStaysOut

-----------------------------------------------------------------------------
(* Cache: lists without repetitions *)

Elems(s) == {s[n] : n \in 1 .. Len(s)}
Distinct(s) == \A m, n \in 1 .. Len(s) : s[m] = s[n] => m = n

\* x stands before y.
Ahead(s, x, y) == \E m, n \in 1 .. Len(s) : m < n /\ s[m] = x /\ s[n] = y

\* t is s without k: the others keep their order.
LessOne(t, s, k, S) ==
    /\ t \in Seq(S) /\ Len(t) = Len(s) - 1 /\ Len(s) \in Nat \ {0}
    /\ Distinct(t) /\ Elems(t) = Elems(s) \ {k}
    /\ \A x, y : Ahead(t, x, y) => Ahead(s, x, y)

\* u is t with k before it.
OneMore(u, t, k, S) ==
    /\ u \in Seq(S) /\ Len(u) = Len(t) + 1 /\ Len(t) \in Nat
    /\ Distinct(u) /\ Elems(u) = Elems(t) \cup {k}
    /\ \A x, y : Ahead(u, x, y) => Ahead(t, x, y) \/ (x = k /\ y \in Elems(t))

\* list.Remove: one element leaves, and the others keep their order.
LEMMA Removal ==
    ASSUME NEW S, NEW s \in Seq(S), Distinct(s), NEW k \in Elems(s),
           NEW t, t = C!RemoveAt(s, CHOOSE n \in 1 .. Len(s) : s[n] = k)
    PROVE  LessOne(t, s, k, S)
<1>1. PICK p \in 1 .. Len(s) : s[p] = k /\ p = CHOOSE n \in 1 .. Len(s) : s[n] = k
  BY DEF Elems
<1>2. PICK L \in Nat : L = Len(s)
  OBVIOUS
<1>3. L \in Nat /\ p \in 1 .. L /\ s[p] = k /\ \A n \in 1 .. L : s[n] \in S
  BY <1>1, <1>2
<1> DEFINE u == SubSeq(s, 1, p - 1)
           v == SubSeq(s, p + 1, L)
<1>4. t = u \o v
  BY <1>1, <1>2 DEF C!RemoveAt
<1>5. /\ u \in Seq(S) /\ Len(u) = p - 1
      /\ \A n \in 1 .. p - 1 : u[n] = s[n]
  <2>1. p - 1 \in Int /\ \A n \in 1 .. p - 1 : s[n] \in S
    BY <1>3
  <2>2. /\ u \in Seq(S) /\ Len(u) = IF 1 <= p - 1 THEN (p - 1) - 1 + 1 ELSE 0
        /\ \A n \in 1 .. (p - 1) - 1 + 1 : u[n] = s[1 + n - 1]
    BY <2>1, SubSeqProperties
  <2> HIDE DEF u
  <2>3. QED
    BY <1>3, <2>2
<1>6. /\ v \in Seq(S) /\ Len(v) = L - p
      /\ \A n \in 1 .. L - p : v[n] = s[p + n]
  <2>1. p + 1 \in Int /\ L \in Int /\ \A n \in p + 1 .. L : s[n] \in S
    BY <1>3
  <2>2. /\ v \in Seq(S) /\ Len(v) = IF p + 1 <= L THEN L - (p + 1) + 1 ELSE 0
        /\ \A n \in 1 .. L - (p + 1) + 1 : v[n] = s[(p + 1) + n - 1]
    BY <2>1, SubSeqProperties
  <2> HIDE DEF v
  <2>3. Len(v) = L - p
    BY <1>3, <2>2
  <2>4. ASSUME NEW n \in 1 .. L - p PROVE v[n] = s[p + n]
    <3>1. n \in 1 .. L - (p + 1) + 1 /\ (p + 1) + n - 1 = p + n
      BY <1>3
    <3>2. v[n] = s[(p + 1) + n - 1]
      BY <2>2, <3>1
    <3>3. QED
      BY <3>1, <3>2
  <2>5. QED
    BY <2>2, <2>3, <2>4
<1> HIDE DEF u, v
<1>7. /\ t \in Seq(S) /\ Len(t) = Len(u) + Len(v)
      /\ \A n \in 1 .. Len(u) + Len(v) : t[n] = IF n <= Len(u) THEN u[n] ELSE v[n - Len(u)]
  <2>1. /\ u \o v \in Seq(S) /\ Len(u \o v) = Len(u) + Len(v)
        /\ \A n \in 1 .. Len(u) + Len(v) :
              (u \o v)[n] = IF n <= Len(u) THEN u[n] ELSE v[n - Len(u)]
    <3>1. u \in Seq(S) /\ v \in Seq(S)
      BY <1>5, <1>6
    <3>2. QED
      BY <3>1, ConcatProperties
  <2>2. QED
    BY <1>4, <2>1
<1>8. Len(t) = L - 1 /\ L \in Nat /\ p \in 1 .. L
  <2>1. Len(u) = p - 1 /\ Len(v) = L - p /\ Len(t) = Len(u) + Len(v)
    BY <1>5, <1>6, <1>7
  <2>2. L \in Nat /\ p \in 1 .. L
    BY <1>3
  <2>3. QED
    BY <2>1, <2>2
<1>9. ASSUME NEW n \in 1 .. L - 1, n < p PROVE t[n] = s[n]
  BY <1>3, <1>5, <1>6, <1>7, <1>9
<1>10. ASSUME NEW n \in 1 .. L - 1, ~(n < p) PROVE t[n] = s[n + 1]
  <2>1. n - (p - 1) \in 1 .. L - p /\ p + (n - (p - 1)) = n + 1
    BY <1>3, <1>10
  <2>2. t[n] = v[n - (p - 1)]
    <3>1. Len(u) = p - 1 /\ Len(u) + Len(v) = L - 1
      BY <1>5, <1>7, <1>8
    <3>2. t[n] = IF n <= p - 1 THEN u[n] ELSE v[n - (p - 1)]
      BY <1>7, <3>1
    <3>3. ~(n <= p - 1)
      BY <1>8, <1>10
    <3>4. QED
      BY <3>2, <3>3
  <2>3. QED
    BY <1>6, <2>1, <2>2
<1>11. \A n \in 1 .. L - 1 : \E o \in 1 .. L :
           t[n] = s[o] /\ o # p /\ o = IF n < p THEN n ELSE n + 1
  <2> SUFFICES ASSUME NEW n \in 1 .. L - 1
               PROVE  \E o \in 1 .. L : t[n] = s[o] /\ o # p /\ o = IF n < p THEN n ELSE n + 1
    OBVIOUS
  <2>1. n \in 1 .. L /\ n + 1 \in 1 .. L
    BY <1>8
  <2>2. CASE n < p
    BY <1>8, <1>9, <2>1, <2>2
  <2>3. CASE ~(n < p)
    <3>1. n + 1 # p
      BY <1>8, <2>3
    <3>2. QED
      BY <1>10, <2>1, <2>3, <3>1
  <2>4. QED
    BY <2>2, <2>3
<1>12. Distinct(t)
  <2> SUFFICES ASSUME NEW m \in 1 .. L - 1, NEW n \in 1 .. L - 1, t[m] = t[n]
               PROVE  m = n
    BY <1>8 DEF Distinct
  <2>1. PICK o \in 1 .. L : t[m] = s[o] /\ o # p /\ o = IF m < p THEN m ELSE m + 1
    BY <1>11
  <2>2. PICK q \in 1 .. L : t[n] = s[q] /\ q # p /\ q = IF n < p THEN n ELSE n + 1
    BY <1>11
  <2>3. o = q
    BY <1>2, <2>1, <2>2 DEF Distinct
  <2>4. QED
    BY <1>3, <2>1, <2>2, <2>3
<1>13. Elems(t) = Elems(s) \ {k}
  <2>1. ASSUME NEW n \in 1 .. L - 1 PROVE t[n] \in Elems(s) \ {k}
    <3>1. PICK o \in 1 .. L : t[n] = s[o] /\ o # p
      BY <1>11
    <3>2. s[o] # s[p]
      BY <1>2, <1>3, <3>1 DEF Distinct
    <3>3. QED
      BY <1>2, <1>3, <3>1, <3>2 DEF Elems
  <2>2. ASSUME NEW n \in 1 .. L, s[n] # k PROVE s[n] \in Elems(t)
    <3>1. CASE n < p
      <4>1. n \in 1 .. L - 1
        BY <1>8, <3>1
      <4>2. t[n] = s[n]
        BY <1>9, <3>1, <4>1
      <4>3. QED
        BY <1>8, <4>1, <4>2 DEF Elems
    <3>2. CASE ~(n < p)
      <4>1. n - 1 \in 1 .. L - 1 /\ ~(n - 1 < p) /\ (n - 1) + 1 = n
        BY <1>3, <2>2, <3>2
      <4>2. t[n - 1] = s[n]
        BY <1>10, <4>1
      <4>3. QED
        BY <1>8, <4>1, <4>2 DEF Elems
    <3>3. QED
      BY <3>1, <3>2
  <2>3. Elems(t) \subseteq Elems(s) \ {k}
    BY <1>8, <2>1 DEF Elems
  <2>4. Elems(s) \ {k} \subseteq Elems(t)
    BY <1>2, <2>2 DEF Elems
  <2>5. QED
    BY <2>3, <2>4
<1>14. ASSUME NEW x, NEW y, Ahead(t, x, y) PROVE Ahead(s, x, y)
  <2>1. PICK m \in 1 .. L - 1, n \in 1 .. L - 1 : m < n /\ t[m] = x /\ t[n] = y
    BY <1>8, <1>14 DEF Ahead
  <2>2. PICK o \in 1 .. L : t[m] = s[o] /\ o = IF m < p THEN m ELSE m + 1
    BY <1>11
  <2>3. PICK q \in 1 .. L : t[n] = s[q] /\ q = IF n < p THEN n ELSE n + 1
    BY <1>11
  <2>4. o < q
    BY <1>3, <2>1, <2>2, <2>3
  <2>5. QED
    BY <1>2, <2>1, <2>2, <2>3, <2>4 DEF Ahead
<1>15. Len(s) \in Nat \ {0}
  BY <1>2, <1>3
<1>16. t \in Seq(S) /\ Len(t) = Len(s) - 1
  BY <1>2, <1>7, <1>8
<1>17. QED
  BY <1>12, <1>13, <1>14, <1>15, <1>16 DEF LessOne

\* list.PushFront, and the second half of MoveToFront.
LEMMA Fronted ==
    ASSUME NEW S, NEW t \in Seq(S), Distinct(t), NEW k \in S, k \notin Elems(t),
           NEW u, u = <<k>> \o t
    PROVE  OneMore(u, t, k, S)
<1>1. <<k>> \in Seq(S) /\ Len(<<k>>) = 1 /\ <<k>>[1] = k /\ Len(t) \in Nat
  OBVIOUS
<1>2. /\ u \in Seq(S) /\ Len(u) = 1 + Len(t)
      /\ \A n \in 1 .. 1 + Len(t) : u[n] = IF n <= 1 THEN <<k>>[n] ELSE t[n - 1]
  BY <1>1, ConcatProperties
<1>3. u[1] = k /\ \A n \in 2 .. Len(t) + 1 : n - 1 \in 1 .. Len(t) /\ u[n] = t[n - 1]
  BY <1>1, <1>2
<1>4. \A n \in 1 .. Len(t) : n + 1 \in 2 .. Len(t) + 1 /\ u[n + 1] = t[n]
  BY <1>1, <1>3
<1>5. Distinct(u)
  <2> SUFFICES ASSUME NEW m \in 1 .. Len(u), NEW n \in 1 .. Len(u), u[m] = u[n]
               PROVE  m = n
    BY DEF Distinct
  <2>1. CASE m = 1 \/ n = 1
    BY <1>1, <1>2, <1>3, <2>1 DEF Elems
  <2>2. CASE m # 1 /\ n # 1
    <3>1. m - 1 \in 1 .. Len(t) /\ n - 1 \in 1 .. Len(t) /\ t[m - 1] = t[n - 1]
      BY <1>1, <1>2, <1>3, <2>2
    <3>2. m - 1 = n - 1
      BY <3>1 DEF Distinct
    <3>3. QED
      BY <3>2
  <2>3. QED
    BY <2>1, <2>2
<1>6. Elems(u) = Elems(t) \cup {k}
  <2>1. Elems(u) \subseteq Elems(t) \cup {k}
    BY <1>1, <1>2, <1>3 DEF Elems
  <2>2. k \in Elems(u)
    BY <1>1, <1>2, <1>3 DEF Elems
  <2>3. Elems(t) \subseteq Elems(u)
    BY <1>1, <1>2, <1>4 DEF Elems
  <2>4. QED
    BY <2>1, <2>2, <2>3
<1>7. ASSUME NEW x, NEW y, Ahead(u, x, y)
      PROVE  Ahead(t, x, y) \/ (x = k /\ y \in Elems(t))
  <2>1. PICK m \in 1 .. Len(u), n \in 1 .. Len(u) : m < n /\ u[m] = x /\ u[n] = y
    BY <1>7 DEF Ahead
  <2>2. n - 1 \in 1 .. Len(t) /\ t[n - 1] = y
    BY <1>1, <1>2, <1>3, <2>1
  <2>3. CASE m = 1
    BY <1>3, <2>1, <2>2, <2>3 DEF Elems
  <2>4. CASE m # 1
    <3>1. m - 1 \in 1 .. Len(t) /\ t[m - 1] = x /\ m - 1 < n - 1
      BY <1>1, <1>2, <1>3, <2>1, <2>4
    <3>2. QED
      BY <2>2, <3>1 DEF Ahead
  <2>5. QED
    BY <2>3, <2>4
<1>8. QED
  BY <1>1, <1>2, <1>5, <1>6, <1>7 DEF OneMore

\* What is left when the back of the list is evicted, if it has to be.
LEMMA Kept ==
    ASSUME NEW S, NEW s \in Seq(S), Distinct(s), NEW b \in {Len(s), Len(s) - 1}, b \in Nat,
           NEW t, t = SubSeq(s, 1, b)
    PROVE  /\ t \in Seq(S) /\ Len(t) = b /\ Len(s) \in Nat /\ Distinct(t)
           /\ Elems(t) = IF b = Len(s) THEN Elems(s) ELSE Elems(s) \ {s[Len(s)]}
           /\ b # Len(s) => \A x \in Elems(t) : Ahead(s, x, s[Len(s)])
           /\ \A x, y : Ahead(t, x, y) => Ahead(s, x, y)
<1>1. Len(s) \in Nat /\ \A n \in 1 .. Len(s) : s[n] \in S
  OBVIOUS
<1>2. \A n \in 1 .. b : n \in 1 .. Len(s) /\ s[n] \in S
  BY <1>1
<1>3. /\ t \in Seq(S) /\ Len(t) = IF 1 <= b THEN b - 1 + 1 ELSE 0
      /\ \A n \in 1 .. b - 1 + 1 : t[n] = s[1 + n - 1]
  BY <1>1, <1>2, SubSeqProperties
<1>4. Len(t) = b /\ \A n \in 1 .. b : t[n] = s[n]
  BY <1>3
<1>5. Distinct(t)
  BY <1>2, <1>4 DEF Distinct
<1>6. ASSUME NEW x, NEW y, Ahead(t, x, y) PROVE Ahead(s, x, y)
  BY <1>2, <1>4, <1>6 DEF Ahead
<1>7. CASE b = Len(s)
  BY <1>1, <1>3, <1>4, <1>5, <1>6, <1>7 DEF Elems
<1>8. CASE b = Len(s) - 1
  <2>1. Len(s) \in 1 .. Len(s) /\ b # Len(s) /\ \A n \in 1 .. b : n < Len(s)
    BY <1>1, <1>8
  <2>2. Elems(t) = Elems(s) \ {s[Len(s)]}
    <3>1. Elems(t) \subseteq Elems(s) \ {s[Len(s)]}
      BY <1>2, <1>4, <2>1 DEF Elems, Distinct
    <3>2. ASSUME NEW n \in 1 .. Len(s), s[n] # s[Len(s)] PROVE s[n] \in Elems(t)
      <4>1. n \in 1 .. b
        BY <1>1, <1>8, <3>2
      <4>2. QED
        BY <1>4, <4>1 DEF Elems
    <3>3. QED
      BY <3>1, <3>2 DEF Elems
  <2>3. \A x \in Elems(t) : Ahead(s, x, s[Len(s)])
    BY <1>2, <1>4, <2>1 DEF Elems, Ahead
  <2>4. QED
    BY <1>1, <1>3, <1>4, <1>5, <1>6, <2>1, <2>2, <2>3
<1>9. QED
  BY <1>7, <1>8

-----------------------------------------------------------------------------
(* Cache: the inductive invariant *)

\* The list names every entry of the map once.
ListInv ==
    /\ lru \in Seq(Keys) /\ Distinct(lru) /\ Elems(lru) = DOMAIN entries
    /\ IsFiniteSet(DOMAIN entries) /\ Cardinality(DOMAIN entries) = Len(lru)
    /\ Len(lru) <= MaxEntries

\* The list is in the order of use: what stands before a key was used since it.
OrderInv == \A x, y \in Keys : Ahead(lru, x, y) => x \in missed[y]

\* What is stored may be, and it expires when its lifetime has passed.
Sound(e) == /\ C!Cacheable(e.resp) /\ e.stored <= now
            /\ e.expiry = e.stored + C!ResponseTTL(e.resp)
StoredInv == \A k \in DOMAIN entries : Sound(entries[k])

\* A request that called next got nothing from the cache, and one that is to
\* store a response has a key and a response that may be stored.
ReplyInv ==
    /\ \A r \in Fetchers : rpc[r] # "idle" => ~reply[r].hit
    /\ \A r \in Fetchers : rpc[r] = "set" =>
          want[r] \in Keys /\ reply[r].resp \in C!Responses /\ C!Cacheable(reply[r].resp)

CacheInd == C!TypeOK /\ C!HitsAreFresh /\ ListInv /\ OrderInv /\ StoredInv /\ ReplyInv

\* Sizes are those of the library in the component too, and so are the elements
\* of a list.
LEMMA SameCacheSizes ==
    ASSUME NEW Q
    PROVE  C!Cardinality(Q) = Cardinality(Q)
BY DEF C!IsFiniteSet, IsFiniteSet, C!Cardinality, Cardinality

LEMMA SameElems ==
    ASSUME NEW S, NEW s \in Seq(S)
    PROVE  C!ToSet(s) = Elems(s)
BY DEF C!ToSet, Elems

\* The parts of the invariant about the list, of the list after a step.
LEMMA NextList ==
    ASSUME NEW u, u = lru', NEW D, D = DOMAIN entries',
           u \in Seq(Keys), Distinct(u), Elems(u) = D,
           IsFiniteSet(D), Cardinality(D) = Len(u), Len(u) <= MaxEntries
    PROVE  ListInv'
<1>1. Distinct(lru)'
  BY Zenon DEF Distinct
<1>2. Elems(lru)' = D
  BY Zenon DEF Elems
<1>3. QED
  BY <1>1, <1>2 DEF ListInv

LEMMA NextOrder ==
    ASSUME NEW u, u = lru',
           \A x, y \in Keys : Ahead(u, x, y) => x \in missed'[y]
    PROVE  OrderInv'
BY Zenon DEF OrderInv, Ahead

\* The cache is empty and no request has begun.
LEMMA CacheStart == ASSUME C!CacheAssumption, C!Init PROVE CacheInd
<1>1. DOMAIN entries = {} /\ lru = <<>> /\ lru \in Seq(Keys) /\ Len(lru) = 0
  BY DEF C!Init
<1>2. C!TypeOK
  BY <1>1 DEF C!Init, C!TypeOK, C!Times, C!NoReply, C!CacheAssumption
<1>3. ListInv
  BY <1>1, FS_EmptySet DEF ListInv, Distinct, Elems, C!CacheAssumption
<1>4. OrderInv
  BY <1>1 DEF OrderInv, Ahead
<1>5. StoredInv /\ ReplyInv /\ C!HitsAreFresh
  BY <1>1 DEF C!Init, StoredInv, ReplyInv, C!HitsAreFresh, C!NoReply
<1>6. QED
  BY <1>2, <1>3, <1>4, <1>5 DEF CacheInd

\* A key that is used comes to the front, and is what the others wait behind.
LEMMA UseOrder ==
    ASSUME NEW s \in Seq(Keys), NEW k \in Keys, NEW t \in Seq(Keys), k \notin Elems(t),
           missed \in [Keys -> SUBSET Keys], C!Used(k),
           \A x, y \in Keys : Ahead(t, x, y) => x \in missed[y],
           NEW u, u = lru',
           \A x, y : Ahead(u, x, y) => Ahead(t, x, y) \/ (x = k /\ y \in Elems(t))
    PROVE  OrderInv'
<1> SUFFICES ASSUME NEW x \in Keys, NEW y \in Keys, Ahead(u, x, y)
             PROVE  x \in missed'[y]
  BY NextOrder
<1>1. missed'[y] = IF y = k THEN {} ELSE missed[y] \cup {k}
  BY DEF C!Used
<1>2. Ahead(t, x, y) => y \in Elems(t)
  BY DEF Ahead, Elems
<1>3. Ahead(t, x, y) \/ (x = k /\ y \in Elems(t))
  OBVIOUS
<1>4. y # k
  BY <1>2, <1>3
<1>5. CASE Ahead(t, x, y)
  BY <1>1, <1>4, <1>5
<1>6. CASE x = k
  BY <1>1, <1>4, <1>6
<1>7. QED
  BY <1>3, <1>5, <1>6

\* get on a hit, and set of a key that is in the cache.
LEMMA ToFront ==
    ASSUME CacheInd, NEW k \in DOMAIN entries, lru' = C!MoveToFront(k), C!Used(k),
           DOMAIN entries' = DOMAIN entries
    PROVE  ListInv' /\ OrderInv'
<1> DEFINE t == C!Others(k)
<1>1. /\ k \in Elems(lru) /\ k \in Keys /\ lru \in Seq(Keys) /\ Distinct(lru)
      /\ missed \in [Keys -> SUBSET Keys]
  BY DEF CacheInd, ListInv, C!TypeOK
<1>2. /\ t \in Seq(Keys) /\ Len(t) = Len(lru) - 1 /\ Len(lru) \in Nat \ {0}
      /\ Distinct(t) /\ Elems(t) = Elems(lru) \ {k}
      /\ \A x, y : Ahead(t, x, y) => Ahead(lru, x, y)
  <2>1. t = C!RemoveAt(lru, CHOOSE n \in 1 .. Len(lru) : lru[n] = k)
    BY DEF C!Others
  <2> HIDE DEF t
  <2>2. LessOne(t, lru, k, Keys)
    BY <1>1, <2>1, Removal
  <2>3. QED
    BY <2>2 DEF LessOne
<1>3. lru' = <<k>> \o t
  BY DEF C!MoveToFront
<1> HIDE DEF t
<1>4. PICK u : u = lru'
  OBVIOUS
<1>5. /\ u \in Seq(Keys) /\ Len(u) = Len(t) + 1
      /\ Distinct(u) /\ Elems(u) = Elems(t) \cup {k}
      /\ \A x, y : Ahead(u, x, y) => Ahead(t, x, y) \/ (x = k /\ y \in Elems(t))
  <2>1. u = <<k>> \o t
    BY <1>3, <1>4
  <2>2. t \in Seq(Keys) /\ Distinct(t) /\ k \in Keys /\ k \notin Elems(t)
    BY <1>1, <1>2
  <2>3. OneMore(u, t, k, Keys)
    BY <2>1, <2>2, Fronted
  <2>4. QED
    BY <2>3 DEF OneMore
<1>6. Len(u) = Len(lru) /\ Elems(u) = Elems(lru)
  BY <1>1, <1>2, <1>5
<1>7. ListInv'
  <2>1. PICK D : D = DOMAIN entries'
    OBVIOUS
  <2>2. Elems(u) = D /\ IsFiniteSet(D) /\ Cardinality(D) = Len(u) /\ Len(u) <= MaxEntries
    BY <1>6, <2>1 DEF CacheInd, ListInv
  <2>3. QED
    BY <1>4, <1>5, <2>1, <2>2, NextList
<1>8. \A x, y \in Keys : Ahead(t, x, y) => x \in missed[y]
  BY <1>2 DEF CacheInd, OrderInv
<1>9. OrderInv'
  BY <1>1, <1>2, <1>4, <1>5, <1>8, UseOrder
<1>10. QED
  BY <1>7, <1>9

\* get evicts an entry that has expired.
LEMMA Dropped ==
    ASSUME C!CacheAssumption, CacheInd, NEW k \in DOMAIN entries, lru' = C!Others(k),
           UNCHANGED missed,
           entries' = C!Without(entries, {k})
    PROVE  ListInv' /\ OrderInv'
<1>1. /\ k \in Elems(lru) /\ k \in Keys /\ lru \in Seq(Keys) /\ Distinct(lru)
  BY DEF CacheInd, ListInv, C!TypeOK
<1>2. PICK t : t = lru'
  OBVIOUS
<1>3. /\ t \in Seq(Keys) /\ Len(t) = Len(lru) - 1 /\ Len(lru) \in Nat \ {0}
      /\ Distinct(t) /\ Elems(t) = Elems(lru) \ {k}
      /\ \A x, y : Ahead(t, x, y) => Ahead(lru, x, y)
  <2>1. t = C!RemoveAt(lru, CHOOSE n \in 1 .. Len(lru) : lru[n] = k)
    BY <1>2 DEF C!Others
  <2>2. lru \in Seq(Keys) /\ Distinct(lru) /\ k \in Elems(lru)
    BY <1>1
  <2>3. LessOne(t, lru, k, Keys)
    BY <2>1, <2>2, Removal
  <2>4. QED
    BY <2>3 DEF LessOne
<1>4. PICK D : D = DOMAIN entries' /\ D = DOMAIN entries \ {k}
  BY DEF C!Without
<1>5. IsFiniteSet(D) /\ Cardinality(D) = Len(lru) - 1
  BY <1>4, FS_RemoveElement DEF CacheInd, ListInv
<1>6. Len(lru) - 1 <= MaxEntries
  <2>1. Len(lru) <= MaxEntries
    BY DEF CacheInd, ListInv
  <2>2. Len(lru) \in Nat /\ MaxEntries \in Nat
    BY <1>3 DEF C!CacheAssumption
  <2>3. QED
    BY <2>1, <2>2
<1>7. ListInv'
  <2>1. Elems(t) = D
    BY <1>3, <1>4 DEF CacheInd, ListInv
  <2>2. QED
    BY <1>2, <1>3, <1>4, <1>5, <1>6, <2>1, NextList
<1>8. OrderInv'
  <2>1. \A x, y \in Keys : Ahead(t, x, y) => x \in missed'[y]
    BY <1>3 DEF CacheInd, OrderInv
  <2>2. QED
    BY <1>2, <2>1, NextOrder
<1>9. QED
  BY <1>7, <1>8

\* set of a new key: of the entries, at most the last of a full list leaves.
LEMMA Inserted ==
    ASSUME C!CacheAssumption, CacheInd, NEW r \in Fetchers, C!SetInsert(r)
    PROVE  /\ ListInv' /\ OrderInv' /\ want[r] \in Keys
           /\ DOMAIN entries' \subseteq DOMAIN entries \cup {want[r]}
           /\ \A j \in DOMAIN entries' : entries'[j] = IF j = want[r] THEN C!Entry(r) ELSE entries[j]
           /\ \A k \in DOMAIN entries \ DOMAIN entries' :
                 /\ C!Cardinality(DOMAIN entries) = MaxEntries
                 /\ DOMAIN entries \ {k} \subseteq missed[k]
<1> DEFINE L == Len(lru)
           b == IF L >= MaxEntries THEN MaxEntries - 1 ELSE L
           t == SubSeq(lru, 1, b)
           D == DOMAIN entries
<1>1. /\ lru \in Seq(Keys) /\ Distinct(lru) /\ Elems(lru) = D
      /\ IsFiniteSet(D) /\ Cardinality(D) = L /\ L <= MaxEntries
      /\ L \in Nat /\ MaxEntries \in Nat \ {0}
      /\ missed \in [Keys -> SUBSET Keys]
  BY DEF CacheInd, ListInv, C!TypeOK, C!CacheAssumption
<1>2. PICK k : k = want[r]
  OBVIOUS
<1>3. /\ k \in Keys /\ k \notin D /\ rpc[r] = "set" /\ C!Used(k)
      /\ lru' = <<k>> \o t
      /\ entries' = [j \in C!ToSet(t) \cup {k} |-> IF j = k THEN C!Entry(r) ELSE entries[j]]
  <2>1. C!Cardinality(D) = L
    BY <1>1, SameCacheSizes
  <2>2. QED
    BY <1>2, <2>1 DEF C!SetInsert, CacheInd, ReplyInv
<1>4. b \in {L, L - 1} /\ b \in Nat /\ (b # L => L = MaxEntries) /\ b + 1 <= MaxEntries
  BY <1>1
<1> HIDE DEF b
<1>5. /\ t \in Seq(Keys) /\ Len(t) = b /\ Distinct(t)
      /\ Elems(t) = IF b = L THEN Elems(lru) ELSE Elems(lru) \ {lru[L]}
      /\ b # L => \A x \in Elems(t) : Ahead(lru, x, lru[L])
      /\ \A x, y : Ahead(t, x, y) => Ahead(lru, x, y)
  <2>1. lru \in Seq(Keys) /\ Distinct(lru) /\ b \in {Len(lru), Len(lru) - 1} /\ b \in Nat
    BY <1>1, <1>4
  <2> HIDE DEF L
  <2>2. t = SubSeq(lru, 1, b)
    OBVIOUS
  <2> HIDE DEF t
  <2>3. /\ t \in Seq(Keys) /\ Len(t) = b /\ Len(lru) \in Nat /\ Distinct(t)
        /\ Elems(t) = IF b = Len(lru) THEN Elems(lru) ELSE Elems(lru) \ {lru[Len(lru)]}
        /\ b # Len(lru) => \A x \in Elems(t) : Ahead(lru, x, lru[Len(lru)])
        /\ \A x, y : Ahead(t, x, y) => Ahead(lru, x, y)
    BY <2>1, <2>2, Kept
  <2>4. QED
    BY <2>3 DEF L
<1> HIDE DEF t
<1>6. PICK u : u = lru'
  OBVIOUS
<1>7. /\ u \in Seq(Keys) /\ Len(u) = b + 1
      /\ Distinct(u) /\ Elems(u) = Elems(t) \cup {k} /\ k \notin Elems(t)
      /\ \A x, y : Ahead(u, x, y) => Ahead(t, x, y) \/ (x = k /\ y \in Elems(t))
  <2>1. k \notin Elems(t)
    BY <1>1, <1>3, <1>5
  <2>2. u = <<k>> \o t /\ t \in Seq(Keys) /\ Distinct(t) /\ k \in Keys /\ Len(t) = b /\ b \in Nat
    BY <1>3, <1>4, <1>5, <1>6
  <2>3. /\ u \in Seq(Keys) /\ Len(u) = Len(t) + 1
        /\ Distinct(u) /\ Elems(u) = Elems(t) \cup {k}
        /\ \A x, y : Ahead(u, x, y) => Ahead(t, x, y) \/ (x = k /\ y \in Elems(t))
    <3>1. OneMore(u, t, k, Keys)
      BY <2>1, <2>2, Fronted
    <3>2. QED
      BY <3>1 DEF OneMore
  <2>4. QED
    BY <2>1, <2>2, <2>3
<1>8. OrderInv'
  <2>1. \A x, y \in Keys : Ahead(t, x, y) => x \in missed[y]
    BY <1>5 DEF CacheInd, OrderInv
  <2>2. QED
    BY <1>1, <1>3, <1>5, <1>6, <1>7, <2>1, UseOrder
<1>9. /\ DOMAIN entries' = Elems(t) \cup {k}
      /\ \A j \in DOMAIN entries' : entries'[j] = IF j = k THEN C!Entry(r) ELSE entries[j]
  BY <1>3, <1>5, SameElems
<1>10. b # L => lru[L] \in Elems(lru)
  BY <1>1, <1>4 DEF Elems
<1>11. IsFiniteSet(Elems(t)) /\ Cardinality(Elems(t)) = b
  <2>1. CASE b = L
    BY <1>1, <1>5, <2>1
  <2>2. CASE b # L
    <3>1. Elems(t) = D \ {lru[L]} /\ lru[L] \in D
      BY <1>1, <1>5, <1>10, <2>2
    <3>2. PICK e : e = lru[L]
      OBVIOUS
    <3>3. IsFiniteSet(D) /\ Cardinality(D) = L
      BY <1>1
    <3>4. IsFiniteSet(D \ {e}) /\ Cardinality(D \ {e}) = IF e \in D THEN Cardinality(D) - 1 ELSE Cardinality(D)
      BY <3>3, FS_RemoveElement
    <3>5. QED
      BY <1>4, <2>2, <3>1, <3>2, <3>3, <3>4
  <2>3. QED
    BY <2>1, <2>2
<1>12. IsFiniteSet(Elems(t) \cup {k}) /\ Cardinality(Elems(t) \cup {k}) = b + 1
  BY <1>7, <1>11, FS_AddElement
<1>13. ListInv'
  <2>1. PICK E : E = DOMAIN entries'
    OBVIOUS
  <2>2. Elems(u) = E /\ IsFiniteSet(E) /\ Cardinality(E) = Len(u) /\ Len(u) <= MaxEntries
    BY <1>4, <1>7, <1>9, <1>12, <2>1
  <2>3. QED
    BY <1>6, <1>7, <2>1, <2>2, NextList
<1>14. ASSUME NEW q \in D \ DOMAIN entries'
       PROVE  C!Cardinality(D) = MaxEntries /\ D \ {q} \subseteq missed[q]
  <2>1. b # L /\ q = lru[L] /\ Elems(t) = D \ {q}
    BY <1>1, <1>5, <1>9
  <2>2. C!Cardinality(D) = MaxEntries
    BY <1>1, <1>4, <2>1, SameCacheSizes
  <2>3. ASSUME NEW x \in D \ {q} PROVE x \in missed[q]
    <3>1. Ahead(lru, x, q) /\ x \in Keys /\ q \in Keys
      BY <1>5, <2>1 DEF CacheInd, C!TypeOK
    <3>2. QED
      BY <3>1 DEF CacheInd, OrderInv
  <2>4. QED
    BY <2>2, <2>3
<1>15. QED
  BY <1>1, <1>2, <1>3, <1>5, <1>8, <1>9, <1>13, <1>14

\* A response's lifetime, as HitsAreFresh says it.
Lifetime(resp) == IF resp.maxAge \in Nat \ {0} THEN resp.maxAge ELSE DefaultTTL

LEMMA LifetimeIs ==
    ASSUME C!CacheAssumption, NEW resp \in C!Responses
    PROVE  C!ResponseTTL(resp) = Lifetime(resp) /\ Lifetime(resp) \in Nat \ {0}
<1>1. PICK m : m = resp.maxAge
  OBVIOUS
<1>2. m \in Nat \/ m = NoMaxAge
  BY <1>1 DEF C!CacheAssumption, C!Responses
<1>3. CASE m \in Nat
  <2>1. m # NoMaxAge /\ (m > 0 <=> m \in Nat \ {0})
    BY <1>3 DEF C!CacheAssumption
  <2>2. QED
    BY <1>1, <2>1 DEF C!ResponseTTL, Lifetime, C!CacheAssumption
<1>4. CASE m = NoMaxAge
  <2>1. m \notin Nat
    BY <1>4 DEF C!CacheAssumption
  <2>2. QED
    BY <1>1, <1>4, <2>1 DEF C!ResponseTTL, Lifetime, C!CacheAssumption
<1>5. QED
  BY <1>2, <1>3, <1>4

\* The types of a request's variables.
RequestTypes ==
    /\ rpc \in [Fetchers -> {"idle", "next", "set"}]
    /\ want \in [Fetchers -> Keys \cup {Bypass}]
    /\ reply \in [Fetchers -> [hit : BOOLEAN, age : C!Times,
                               resp : C!Responses \cup {NoResponse}]]

\* The entries, with their types.
EntryInv ==
    /\ DOMAIN entries \subseteq Keys /\ StoredInv
    /\ \A k \in DOMAIN entries :
          entries[k] \in [resp : C!Responses, stored : C!Times, expiry : Nat \ {0}]

\* Nothing happens to the cache, and nothing is asked of it.
LEMMA ListStays ==
    ASSUME CacheInd, UNCHANGED <<lru, entries, missed>>
    PROVE  ListInv' /\ OrderInv'
<1>1. PICK u : u = lru' /\ u = lru
  OBVIOUS
<1>2. PICK D : D = DOMAIN entries' /\ D = DOMAIN entries
  OBVIOUS
<1>3. ListInv'
  BY <1>1, <1>2, NextList DEF CacheInd, ListInv
<1>4. OrderInv'
  BY <1>1, NextOrder DEF CacheInd, OrderInv
<1>5. QED
  BY <1>3, <1>4

\* Entries that stay are as good as they were, also when time passes.
LEMMA EntriesStay ==
    ASSUME C!CacheAssumption, CacheInd, now' = now \/ now' = now + 1,
           DOMAIN entries' \subseteq DOMAIN entries,
           \A k \in DOMAIN entries' : entries'[k] = entries[k]
    PROVE  EntryInv'
<1>1. DOMAIN entries' \subseteq Keys
  BY DEF CacheInd, C!TypeOK
<1>2. ASSUME NEW k \in DOMAIN entries'
      PROVE  /\ Sound(entries[k])'
             /\ entries'[k] \in [resp : C!Responses, stored : C!Times, expiry : Nat \ {0}]
  <2>1. Sound(entries[k]) /\ now \in Nat
        /\ entries[k] \in [resp : C!Responses, stored : C!Times, expiry : Nat \ {0}]
    BY DEF CacheInd, C!TypeOK, StoredInv, C!Times, C!CacheAssumption
  <2>2. entries[k].stored <= now'
    BY <2>1 DEF Sound, C!Times, C!CacheAssumption
  <2>3. QED
    BY <2>1, <2>2 DEF Sound, C!Cacheable, C!ResponseTTL
<1>3. StoredInv'
  BY <1>2 DEF StoredInv
<1>4. QED
  BY <1>1, <1>2, <1>3 DEF EntryInv

\* What is set now has its whole lifetime before it.
LEMMA EntrySet ==
    ASSUME C!CacheAssumption, CacheInd, NEW r \in Fetchers, rpc[r] = "set"
    PROVE  /\ Sound(C!Entry(r))
           /\ C!Entry(r) \in [resp : C!Responses, stored : C!Times, expiry : Nat \ {0}]
<1>1. /\ reply[r].resp \in C!Responses /\ C!Cacheable(reply[r].resp)
      /\ now \in C!Times /\ now \in Nat
  BY DEF CacheInd, ReplyInv, C!TypeOK, C!Times, C!CacheAssumption
<1>2. PICK n \in Nat \ {0} : n = C!ResponseTTL(reply[r].resp)
  BY <1>1, LifetimeIs
<1>3. C!ExpiryTime(n) = now + n /\ now + n \in Nat \ {0}
  BY <1>1, <1>2 DEF C!ExpiryTime
<1>4. C!Entry(r) = [resp |-> reply[r].resp, stored |-> now, expiry |-> now + n]
  BY <1>2, <1>3 DEF C!Entry
<1>5. QED
  BY <1>1, <1>2, <1>3, <1>4 DEF Sound

\* A key is set: its entry is sound, and the others are what they were.
LEMMA EntriesSet ==
    ASSUME C!CacheAssumption, CacheInd, NEW r \in Fetchers, rpc[r] = "set",
           NEW k \in Keys, now' = now,
           DOMAIN entries' \subseteq DOMAIN entries \cup {k},
           \A j \in DOMAIN entries' : entries'[j] = IF j = k THEN C!Entry(r) ELSE entries[j]
    PROVE  EntryInv'
<1>1. DOMAIN entries' \subseteq Keys
  BY DEF CacheInd, C!TypeOK
<1>2. ASSUME NEW j \in DOMAIN entries'
      PROVE  /\ Sound(entries'[j])
             /\ entries'[j] \in [resp : C!Responses, stored : C!Times, expiry : Nat \ {0}]
  <2>1. CASE j = k
    BY <2>1, EntrySet
  <2>2. CASE j # k
    <3>1. j \in DOMAIN entries /\ entries'[j] = entries[j]
      BY <2>2
    <3>2. QED
      BY <3>1 DEF CacheInd, C!TypeOK, StoredInv
  <2>3. QED
    BY <2>1, <2>2
<1>3. StoredInv'
  <2>1. ASSUME NEW j \in DOMAIN entries' PROVE Sound(entries[j])'
    BY <1>2 DEF Sound, C!Cacheable, C!ResponseTTL
  <2>2. QED
    BY <2>1 DEF StoredInv
<1>4. QED
  BY <1>1, <1>2, <1>3 DEF EntryInv

\* A request changes, the others stay: what is said of requests still holds if
\* it holds of this one.
LEMMA OneRequest ==
    ASSUME CacheInd, NEW r \in Fetchers,
           NEW c \in {"idle", "next", "set"}, rpc' = [rpc EXCEPT ![r] = c],
           NEW w \in Keys \cup {Bypass}, want' = [want EXCEPT ![r] = w],
           NEW e \in [hit : BOOLEAN, age : C!Times, resp : C!Responses \cup {NoResponse}],
           reply' = [reply EXCEPT ![r] = e],
           c # "idle" => ~e.hit,
           c = "set" => w \in Keys /\ e.resp \in C!Responses /\ C!Cacheable(e.resp),
           e.hit => e.resp.ok /\ ~e.resp.noStore /\ e.age <= Lifetime(e.resp)
    PROVE  RequestTypes' /\ ReplyInv' /\ C!HitsAreFresh'
<1>1. /\ rpc \in [Fetchers -> {"idle", "next", "set"}]
      /\ want \in [Fetchers -> Keys \cup {Bypass}]
      /\ reply \in [Fetchers -> [hit : BOOLEAN, age : C!Times,
                                 resp : C!Responses \cup {NoResponse}]]
  BY DEF CacheInd, C!TypeOK
<1>2. RequestTypes'
  BY <1>1 DEF RequestTypes
<1>3. ASSUME NEW q \in Fetchers
      PROVE  /\ rpc'[q] = IF q = r THEN c ELSE rpc[q]
             /\ want'[q] = IF q = r THEN w ELSE want[q]
             /\ reply'[q] = IF q = r THEN e ELSE reply[q]
  BY <1>1
<1>4. ReplyInv'
  BY <1>3 DEF CacheInd, ReplyInv, C!Cacheable
<1>5. C!HitsAreFresh'
  <2>1. ASSUME NEW q \in Fetchers, reply'[q].hit
        PROVE  /\ reply'[q].resp.ok /\ ~reply'[q].resp.noStore
               /\ reply'[q].age <= Lifetime(reply'[q].resp)
    <3>1. CASE q = r
      BY <1>3, <2>1, <3>1
    <3>2. CASE q # r
      BY <1>3, <2>1, <3>2 DEF CacheInd, C!HitsAreFresh, Lifetime
    <3>3. QED
      BY <3>1, <3>2
  <2>2. QED
    BY <2>1 DEF C!HitsAreFresh, Lifetime
<1>6. QED
  BY <1>2, <1>4, <1>5

LEMMA Parts ==
    ASSUME ListInv', OrderInv', EntryInv', RequestTypes', ReplyInv', C!HitsAreFresh',
           now' \in C!Times, missed' \in [Keys -> SUBSET Keys]
    PROVE  CacheInd'
BY DEF CacheInd, C!TypeOK, ListInv, EntryInv, RequestTypes, C!Times, C!Responses

LEMMA UseMissed ==
    ASSUME missed \in [Keys -> SUBSET Keys], NEW k \in Keys, C!Used(k)
    PROVE  missed' \in [Keys -> SUBSET Keys]
BY DEF C!Used

\* Return: the caller has its response, and the request is idle again.
LEMMA Returned ==
    ASSUME C!CacheAssumption, CacheInd, NEW r \in Fetchers, C!Return(r)
    PROVE  RequestTypes' /\ ReplyInv' /\ C!HitsAreFresh'
<1>1. PICK e : e = C!NoReply
  OBVIOUS
<1>2. ~e.hit /\ e \in [hit : BOOLEAN, age : C!Times, resp : C!Responses \cup {NoResponse}]
  BY <1>1 DEF C!NoReply, C!Times, C!CacheAssumption
<1>3. /\ rpc' = [rpc EXCEPT ![r] = "idle"] /\ want' = [want EXCEPT ![r] = Bypass]
      /\ reply' = [reply EXCEPT ![r] = e]
  BY <1>1 DEF C!Return
<1>4. QED
  BY <1>2, <1>3, OneRequest

\* A request calls next, for w, with nothing from the cache.
LEMMA Asked ==
    ASSUME C!CacheAssumption, CacheInd, NEW r \in Fetchers, NEW w \in Keys \cup {Bypass},
           rpc' = [rpc EXCEPT ![r] = "next"], want' = [want EXCEPT ![r] = w],
           reply' = [reply EXCEPT ![r] = C!NoReply]
    PROVE  RequestTypes' /\ ReplyInv' /\ C!HitsAreFresh'
<1>1. PICK e : e = C!NoReply
  OBVIOUS
<1>2. ~e.hit /\ e \in [hit : BOOLEAN, age : C!Times, resp : C!Responses \cup {NoResponse}]
  BY <1>1 DEF C!NoReply, C!Times, C!CacheAssumption
<1>3. reply' = [reply EXCEPT ![r] = e]
  BY <1>1
<1>4. QED
  BY <1>2, <1>3, OneRequest

\* A hit: the entry has not expired, so its response is fresh.
LEMMA HitReply ==
    ASSUME C!CacheAssumption, CacheInd, NEW r \in Fetchers, NEW k \in Keys, C!GetHit(r, k)
    PROVE  RequestTypes' /\ ReplyInv' /\ C!HitsAreFresh'
<1>1. PICK f : f = entries[k]
  OBVIOUS
<1>2. /\ f \in [resp : C!Responses, stored : C!Times, expiry : Nat \ {0}] /\ Sound(f)
      /\ now \in C!Times /\ want[r] \in Keys \cup {Bypass} /\ rpc[r] = "idle"
  BY <1>1 DEF C!GetHit, CacheInd, C!TypeOK, StoredInv
<1>3. PICK o : o = f.resp
  OBVIOUS
<1>4. PICK n \in Nat \ {0} : n = C!ResponseTTL(o) /\ n = Lifetime(o)
  BY <1>2, <1>3, LifetimeIs
<1>5. ~(now > f.expiry)
  BY <1>1, <1>2 DEF C!GetHit, C!Expired
<1>6. PICK a : a = now - f.stored
  OBVIOUS
<1>7. a \in C!Times /\ a <= n
  BY <1>2, <1>3, <1>4, <1>5, <1>6 DEF Sound, C!Times, C!CacheAssumption
<1>8. PICK e : e = [hit |-> TRUE, resp |-> o, age |-> a]
  OBVIOUS
<1>9. /\ e \in [hit : BOOLEAN, age : C!Times, resp : C!Responses \cup {NoResponse}]
      /\ e.resp.ok /\ ~e.resp.noStore /\ e.age <= Lifetime(e.resp)
  BY <1>2, <1>3, <1>4, <1>7, <1>8 DEF Sound, C!Cacheable
<1>10. reply' = [reply EXCEPT ![r] = e]
  BY <1>1, <1>3, <1>6, <1>8 DEF C!GetHit
<1>11. rpc' = [rpc EXCEPT ![r] = "idle"] /\ want' = [want EXCEPT ![r] = want[r]]
  BY <1>2 DEF C!GetHit, CacheInd, C!TypeOK
<1>12. QED
  BY <1>2, <1>9, <1>10, <1>11, OneRequest

\* next returns: the response is in the request's hands, to be stored or not.
LEMMA NextReply ==
    ASSUME C!CacheAssumption, CacheInd, NEW r \in Fetchers, NEW o \in C!Responses,
           C!NextReturns(r, o)
    PROVE  RequestTypes' /\ ReplyInv' /\ C!HitsAreFresh'
<1>1. CASE ~(want[r] # Bypass /\ C!Cacheable(o))
  BY <1>1, Returned DEF C!NextReturns
<1>2. CASE want[r] # Bypass /\ C!Cacheable(o)
  <2>1. PICK e : e = [reply[r] EXCEPT !.resp = o]
    OBVIOUS
  <2>2. /\ reply[r] \in [hit : BOOLEAN, age : C!Times, resp : C!Responses \cup {NoResponse}]
        /\ want[r] \in Keys /\ ~reply[r].hit
    BY <1>2 DEF C!NextReturns, CacheInd, C!TypeOK, ReplyInv
  <2>3. /\ e \in [hit : BOOLEAN, age : C!Times, resp : C!Responses \cup {NoResponse}]
        /\ ~e.hit /\ e.resp = o
    BY <2>1, <2>2
  <2>4. /\ rpc' = [rpc EXCEPT ![r] = "set"] /\ want' = [want EXCEPT ![r] = want[r]]
        /\ reply' = [reply EXCEPT ![r] = e]
    BY <1>2, <2>1 DEF C!NextReturns, CacheInd, C!TypeOK
  <2>5. QED
    BY <1>2, <2>2, <2>3, <2>4, OneRequest
<1>3. QED
  BY <1>1, <1>2

\* What a step that is not a tick leaves alone.
LEMMA SameTime ==
    ASSUME CacheInd, now' = now
    PROVE  now' \in C!Times
BY DEF CacheInd, C!TypeOK

\* The steps of get and set.
LEMMA LookUp ==
    ASSUME C!CacheAssumption, CacheInd, NEW r \in Fetchers, NEW k \in Keys,
           C!GetHit(r, k) \/ C!GetMiss(r, k) \/ C!GetExpired(r, k)
    PROVE  CacheInd'
<1>1. now' = now /\ now' \in C!Times /\ missed \in [Keys -> SUBSET Keys]
  BY DEF C!GetHit, C!GetMiss, C!GetExpired, C!Miss, CacheInd, C!TypeOK
<1>2. CASE C!GetHit(r, k)
  <2>1. ListInv' /\ OrderInv'
    BY <1>2, ToFront DEF C!GetHit
  <2>2. EntryInv'
    BY <1>2, EntriesStay DEF C!GetHit
  <2>3. missed' \in [Keys -> SUBSET Keys]
    BY <1>1, <1>2, UseMissed DEF C!GetHit
  <2>4. QED
    BY <1>1, <1>2, <2>1, <2>2, <2>3, HitReply, Parts
<1>3. CASE C!GetMiss(r, k)
  <2>1. ListInv' /\ OrderInv'
    BY <1>3, ListStays DEF C!GetMiss, C!Miss
  <2>2. EntryInv'
    BY <1>3, EntriesStay DEF C!GetMiss, C!Miss
  <2>3. RequestTypes' /\ ReplyInv' /\ C!HitsAreFresh'
    BY <1>3, Asked DEF C!GetMiss, C!Miss
  <2>4. QED
    BY <1>1, <1>3, <2>1, <2>2, <2>3, Parts DEF C!GetMiss, C!Miss
<1>4. CASE C!GetExpired(r, k)
  <2>1. ListInv' /\ OrderInv'
    BY <1>4, Dropped DEF C!GetExpired, C!Miss
  <2>2. EntryInv'
    BY <1>4, EntriesStay DEF C!GetExpired, C!Miss, C!Without
  <2>3. RequestTypes' /\ ReplyInv' /\ C!HitsAreFresh'
    BY <1>4, Asked DEF C!GetExpired, C!Miss
  <2>4. QED
    BY <1>1, <1>4, <2>1, <2>2, <2>3, Parts DEF C!GetExpired, C!Miss
<1>5. QED
  BY <1>2, <1>3, <1>4

LEMMA Store ==
    ASSUME C!CacheAssumption, CacheInd, NEW r \in Fetchers, C!SetUpdate(r) \/ C!SetInsert(r)
    PROVE  CacheInd'
<1>1. /\ now' = now /\ now' \in C!Times /\ missed \in [Keys -> SUBSET Keys]
      /\ rpc[r] = "set" /\ C!Return(r) /\ C!Used(want[r])
  BY DEF C!SetUpdate, C!SetInsert, CacheInd, C!TypeOK
<1>2. want[r] \in Keys
  BY <1>1 DEF CacheInd, ReplyInv
<1>3. RequestTypes' /\ ReplyInv' /\ C!HitsAreFresh'
  BY <1>1, Returned
<1>4. missed' \in [Keys -> SUBSET Keys]
  BY <1>1, <1>2, UseMissed
<1>5. CASE C!SetUpdate(r)
  <2>1. DOMAIN entries' = DOMAIN entries /\ want[r] \in DOMAIN entries
    BY <1>5 DEF C!SetUpdate
  <2>2. \A j \in DOMAIN entries' : entries'[j] = IF j = want[r] THEN C!Entry(r) ELSE entries[j]
    BY <1>5 DEF C!SetUpdate
  <2>3. EntryInv'
    BY <1>1, <1>2, <2>1, <2>2, EntriesSet
  <2>4. ListInv' /\ OrderInv'
    BY <1>5, <2>1, ToFront DEF C!SetUpdate
  <2>5. QED
    BY <1>1, <1>3, <1>4, <2>3, <2>4, Parts
<1>6. CASE C!SetInsert(r)
  <2>1. /\ ListInv' /\ OrderInv'
        /\ DOMAIN entries' \subseteq DOMAIN entries \cup {want[r]}
        /\ \A j \in DOMAIN entries' : entries'[j] = IF j = want[r] THEN C!Entry(r) ELSE entries[j]
    BY <1>6, Inserted
  <2>2. EntryInv'
    BY <1>1, <1>2, <2>1, EntriesSet
  <2>3. QED
    BY <1>1, <1>3, <1>4, <2>1, <2>2, Parts
<1>7. QED
  BY <1>5, <1>6

\* Every step keeps the invariant.
LEMMA CacheStep == ASSUME C!CacheAssumption, CacheInd, [C!Next]_C!vars PROVE CacheInd'
<1>1. missed \in [Keys -> SUBSET Keys] /\ now \in C!Times
  BY DEF CacheInd, C!TypeOK
<1>2. CASE C!Tick \/ UNCHANGED C!vars
  <2>1. UNCHANGED <<lru, entries, rpc, want, reply, missed>>
    BY <1>2 DEF C!Tick, C!vars
  <2>2. now' \in C!Times /\ (now' = now \/ now' = now + 1)
    BY <1>1, <1>2 DEF C!Tick, C!vars, C!Times, C!CacheAssumption
  <2>3. ListInv' /\ OrderInv'
    BY <2>1, ListStays
  <2>4. EntryInv'
    BY <2>1, <2>2, EntriesStay
  <2>5. RequestTypes'
    BY <2>1 DEF CacheInd, C!TypeOK, RequestTypes
  <2>6. ReplyInv' /\ C!HitsAreFresh'
    BY <2>1 DEF CacheInd, ReplyInv, C!HitsAreFresh, C!Cacheable, C!Responses
  <2>7. QED
    BY <1>1, <2>1, <2>2, <2>3, <2>4, <2>5, <2>6, Parts
<1>3. ASSUME NEW r \in Fetchers, C!Begin(r) \/ C!NextFails(r)
                 \/ \E o \in C!Responses : C!NextReturns(r, o)
      PROVE  CacheInd'
  <2>1. UNCHANGED <<lru, entries, now, missed>>
    BY <1>3 DEF C!Begin, C!NextFails, C!NextReturns
  <2>2. ListInv' /\ OrderInv' /\ EntryInv'
    BY <2>1, ListStays, EntriesStay
  <2>3. RequestTypes' /\ ReplyInv' /\ C!HitsAreFresh'
    <3>1. CASE C!Begin(r)
      BY <3>1, Asked DEF C!Begin
    <3>2. CASE C!NextFails(r)
      BY <3>2, Returned DEF C!NextFails
    <3>3. CASE \E o \in C!Responses : C!NextReturns(r, o)
      BY <3>3, NextReply
    <3>4. QED
      BY <1>3, <3>1, <3>2, <3>3
  <2>4. QED
    BY <1>1, <2>1, <2>2, <2>3, Parts
<1>4. QED
  BY <1>2, <1>3, LookUp, Store DEF C!Next

\* An entry leaves only when it has expired, or as the last of a full list.
LEMMA Evicts ==
    ASSUME C!CacheAssumption, CacheInd, [C!Next]_C!vars,
           NEW k \in DOMAIN entries \ DOMAIN entries'
    PROVE  C!Expired(k) \/ /\ C!Cardinality(DOMAIN entries) = MaxEntries
                           /\ DOMAIN entries \ {k} \subseteq missed[k]
<1>1. CASE C!Tick \/ UNCHANGED C!vars
  BY <1>1 DEF C!Tick, C!vars
<1>2. ASSUME NEW r \in Fetchers, C!Begin(r) \/ C!NextFails(r) \/ C!SetUpdate(r)
                 \/ \E o \in C!Responses : C!NextReturns(r, o)
      PROVE  FALSE
  BY <1>2 DEF C!Begin, C!NextFails, C!NextReturns, C!SetUpdate
<1>3. ASSUME NEW r \in Fetchers, NEW j \in Keys,
             C!GetHit(r, j) \/ C!GetMiss(r, j) \/ C!GetExpired(r, j)
      PROVE  C!Expired(k)
  BY <1>3 DEF C!GetHit, C!GetMiss, C!GetExpired, C!Without
<1>4. ASSUME NEW r \in Fetchers, C!SetInsert(r)
      PROVE  /\ C!Cardinality(DOMAIN entries) = MaxEntries
             /\ DOMAIN entries \ {k} \subseteq missed[k]
  BY <1>4, Inserted
<1>5. QED
  BY <1>1, <1>2, <1>3, <1>4 DEF C!Next

LEMMA CacheHolds == ASSUME CacheInd PROVE C!CacheInv
<1>1. lru \in Seq(Keys) /\ C!TypeOK /\ C!HitsAreFresh
  BY DEF CacheInd, ListInv
<1>2. C!ToSet(lru) = DOMAIN entries
  BY <1>1, SameElems DEF CacheInd, ListInv
<1>3. Len(lru) = C!Cardinality(DOMAIN entries) /\ Len(lru) <= MaxEntries
  BY SameCacheSizes DEF CacheInd, ListInv
<1>4. QED
  BY <1>1, <1>2, <1>3 DEF C!CacheInv, C!ListAndMapAgree

\* CacheOK: the list and the map of the response cache name the same entries,
\* at most MaxEntries of them, however requests look up, evict and store between
\* each other's get and set; what is answered from the cache may be cached and
\* is within its lifetime; and what leaves the cache has expired, or the cache
\* is full and every other entry was used since (Cache.get and Cache.set).
THEOREM CacheCorrect == ASSUME C!CacheAssumption PROVE C!Spec => CacheOK
<1>1. C!Init => CacheInd
  BY CacheStart
<1>2. CacheInd /\ [C!Next]_C!vars => CacheInd'
  BY CacheStep
<1>3. CacheInd => C!CacheInv
  BY CacheHolds
<1>4. CacheInd /\ [C!Next]_C!vars =>
          [\A k \in DOMAIN entries \ DOMAIN entries' :
              C!Expired(k) \/ /\ C!Cardinality(DOMAIN entries) = MaxEntries
                              /\ DOMAIN entries \ {k} \subseteq missed[k]]_C!vars
  BY Evicts
<1>5. QED
  BY <1>1, <1>2, <1>3, <1>4, PTL DEF C!Spec, CacheOK, C!EvictsLeastRecent

=============================================================================

-------------------------------- MODULE Auth --------------------------------
(***************************************************************************)
(* The OAuth2 mode of the authentication middleware                        *)
(* (pkg/middleware/auth.go): one cached token under a mutex that is held   *)
(* while a new token is fetched.  The other modes put a constant into the  *)
(* header and keep no state.                                               *)
(*                                                                         *)
(* The token endpoint is external: it issues a token that is good for the  *)
(* given lifetime from that moment on (0: for ever), and the answer takes  *)
(* up to MaxLatency ticks; the middleware counts the lifetime from the     *)
(* moment it has decoded the answer.                                       *)
(***************************************************************************)
EXTENDS Integers, FiniteSets

CONSTANTS
    Requests,
    Nobody,      \* the mutex is free
    Lifetimes,   \* expires_in of issued tokens
    Buffer,      \* the ten seconds of expired()
    MaxLatency, MaxTime

AuthAssumption ==
    /\ Lifetimes \subseteq Nat /\ Buffer \in Nat /\ MaxTime \in Nat
    /\ MaxLatency \in 0..Buffer /\ Nobody \notin Requests

VARIABLES
    mu,      \* the request that holds the mutex
    token,   \* Auth.token
    answer,  \* the token that is on its way to the holder of the mutex
    hpc,     \* a request's position
    header,  \* the token in its header, when put there, and whether just fetched
    now

vars == <<mu, token, answer, hpc, header, now>>

\* issued and lifetime are the endpoint's, expiry the middleware's (0: none).
Tokens == [issued : 0..MaxTime, lifetime : Lifetimes, expiry : Nat]
NoToken == [issued |-> -1, lifetime |-> 0, expiry |-> 0]
NotSent == [token |-> NoToken, at |-> 0, fetched |-> FALSE]

TypeOK ==
    /\ mu \in Requests \cup {Nobody}
    /\ token \in Tokens \cup {NoToken} /\ answer \in Tokens \cup {NoToken}
    /\ hpc \in [Requests -> {"idle", "lock", "fetch", "next"}]
    /\ header \in [Requests -> [token : Tokens \cup {NoToken}, at : 0..MaxTime,
                                fetched : BOOLEAN]]
    /\ now \in 0..MaxTime

Init ==
    /\ mu = Nobody /\ token = NoToken /\ answer = NoToken /\ now = 0
    /\ hpc = [r \in Requests |-> "idle"]
    /\ header = [r \in Requests |-> NotSent]

Call(r) ==
    /\ hpc[r] = "idle" /\ hpc' = [hpc EXCEPT ![r] = "lock"]
    /\ UNCHANGED <<mu, token, answer, header, now>>

\* Fault: no buffer.
expiredLate(t) == t.expiry # 0 /\ now > t.expiry

expired(t) == t.expiry # 0 /\ now + Buffer > t.expiry

\* The header is built and the request passed on.
Send(r, t, fetched) ==
    /\ header' = [header EXCEPT ![r] = [token |-> t, at |-> now, fetched |-> fetched]]
    /\ hpc' = [hpc EXCEPT ![r] = "next"]

\* oauth2Header: the cached token, or a request for a new one, mutex held.
Lock(r) ==
    /\ hpc[r] = "lock" /\ mu = Nobody
    /\ \/ /\ token # NoToken /\ ~expired(token)
          /\ Send(r, token, FALSE) /\ UNCHANGED mu
       \/ /\ token = NoToken \/ expired(token)
          /\ mu' = r /\ hpc' = [hpc EXCEPT ![r] = "fetch"] /\ UNCHANGED header
    /\ UNCHANGED <<token, answer, now>>

\* The endpoint issues a token.
Issue(r, l) ==
    /\ hpc[r] = "fetch" /\ answer = NoToken
    /\ answer' = [issued |-> now, lifetime |-> l, expiry |-> 0]
    /\ UNCHANGED <<mu, token, hpc, header, now>>

\* The answer is decoded and becomes the cached token.
FetchDone(r) ==
    LET t == [answer EXCEPT !.expiry = IF answer.lifetime > 0 THEN now + answer.lifetime ELSE 0] IN
    /\ hpc[r] = "fetch" /\ answer # NoToken
    /\ token' = t /\ Send(r, t, TRUE)
    /\ mu' = Nobody /\ answer' = NoToken /\ UNCHANGED now

\* Any error of fetchToken, before or after the endpoint issued a token: the
\* request fails, the cached token stays.
FetchFails(r) ==
    /\ hpc[r] = "fetch"
    /\ hpc' = [hpc EXCEPT ![r] = "idle"]
    /\ mu' = Nobody /\ answer' = NoToken /\ UNCHANGED <<token, header, now>>

Return(r) ==
    /\ hpc[r] = "next" /\ hpc' = [hpc EXCEPT ![r] = "idle"]
    /\ header' = [header EXCEPT ![r] = NotSent]
    /\ UNCHANGED <<mu, token, answer, now>>

\* No answer takes longer than MaxLatency.
Tick ==
    /\ now < MaxTime /\ now' = now + 1
    /\ answer = NoToken \/ now - answer.issued < MaxLatency
    /\ UNCHANGED <<mu, token, answer, hpc, header>>

Next ==
    \/ Tick
    \/ \E r \in Requests :
          \/ Call(r) \/ Lock(r) \/ FetchDone(r) \/ FetchFails(r) \/ Return(r)
          \/ \E l \in Lifetimes : Issue(r, l)

Spec == Init /\ [][Next]_vars

-----------------------------------------------------------------------------
(* Properties *)

\* A token that is taken from the cache is still good at the endpoint that
\* issued it, although the middleware counts its lifetime from too late a
\* moment: the buffer makes up for the latency.
CachedTokenGood ==
    \A r \in Requests : LET h == header[r] IN
        hpc[r] = "next" /\ ~h.fetched /\ h.token.lifetime > 0 =>
            h.at <= h.token.issued + h.token.lifetime

\* The token endpoint is asked by one request at a time, and only when the
\* cached token is missing or about to expire: requests that wait for the
\* mutex use what the one before them fetched, and a failed fetch leaves the
\* cached token to be judged again.
OneFetch ==
    /\ \A r \in Requests : hpc[r] = "fetch" <=> mu = r
    /\ mu # Nobody => token = NoToken \/ expired(token)

\* Concurrent requests share one token, fetched once and good when used.
AuthInv == TypeOK /\ CachedTokenGood /\ OneFetch

=============================================================================

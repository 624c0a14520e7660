------------------------------- MODULE Cache -------------------------------
(***************************************************************************)
(* The response cache of the middleware chain (pkg/middleware/cache.go):   *)
(* an LRU list and a map of entries with an expiry time, under one mutex   *)
(* that is NOT held while the next handler runs.  get and set are one step *)
(* each; between them other requests for the same URL look it up, fetch it *)
(* and store it.                                                           *)
(*                                                                         *)
(* A response is what the cache tells apart of it: its status, no-store,   *)
(* and max-age (NoMaxAge when the directive is missing or unparseable).    *)
(* Time is a clock that may tick between any two steps.                    *)
(***************************************************************************)
EXTENDS Integers, Sequences, FiniteSets, SequencesExt

CONSTANTS
    Requests,            \* goroutines that call ProcessRequest
    Keys,                \* the keys of cacheable requests, method and URL
    Bypass,              \* a request whose method is not cacheable
    MaxEntries, DefaultTTL,
    MaxAges,             \* values of max-age that the origin sends
    NoMaxAge, NoResponse,
    MaxTime              \* bound on the clock

CacheAssumption ==
    /\ MaxEntries \in Nat \ {0} /\ DefaultTTL \in Nat \ {0}
    /\ MaxAges \subseteq Nat /\ NoMaxAge \notin Nat
    /\ MaxTime \in Nat /\ Bypass \notin Keys

VARIABLES
    lru,      \* keys of Cache.lru, the most recently used first
    entries,  \* Cache.entries
    now,
    rpc,      \* a request's position
    asked,    \* what it asks for
    reply,    \* the response in its hands, and whether from the cache
    missed    \* history: the keys used since a key was last used

vars == <<lru, entries, now, rpc, asked, reply, missed>>

Responses == [ok : BOOLEAN, noStore : BOOLEAN, maxAge : MaxAges \cup {NoMaxAge}]
NoReply == [hit |-> FALSE, age |-> 0, resp |-> NoResponse]
Times == 0..MaxTime

TypeOK ==
    /\ lru \in Seq(Keys)
    /\ DOMAIN entries \subseteq Keys
    /\ \A k \in DOMAIN entries :
           entries[k] \in [resp : Responses, stored : Times, expiry : Nat \ {0}]
    /\ now \in Times
    /\ rpc \in [Requests -> {"idle", "next", "set"}]
    /\ asked \in [Requests -> Keys \cup {Bypass}]
    /\ reply \in [Requests -> [hit : BOOLEAN, age : Times,
                               resp : Responses \cup {NoResponse}]]
    /\ missed \in [Keys -> SUBSET Keys]

Init ==
    /\ lru = <<>> /\ entries = <<>>
    /\ now = 0
    /\ rpc = [r \in Requests |-> "idle"]
    /\ asked = [r \in Requests |-> Bypass]
    /\ reply = [r \in Requests |-> NoReply]
    /\ missed = [k \in Keys |-> {}]

-----------------------------------------------------------------------------
(* The LRU list and the map *)

\* list.Remove of k's element; a key has one.
Others(k) == RemoveAt(lru, CHOOSE n \in 1 .. Len(lru) : lru[n] = k)
MoveToFront(k) == <<k>> \o Others(k)

\* evict(elem): the element leaves the list and the map.
Without(f, S) == [k \in DOMAIN f \ S |-> f[k]]

\* expiryTime: 0 stands for the zero time, no expiry.
ExpiryTime(ttl) == IF ttl <= 0 THEN 0 ELSE now + ttl

\* !entry.expiry.IsZero() && time.Now().After(entry.expiry)
Expired(k) == entries[k].expiry # 0 /\ now > entries[k].expiry

\* responseTTL: "n > 0" is required of a max-age directive.
ResponseTTL(resp) ==
    IF resp.maxAge # NoMaxAge /\ resp.maxAge > 0 THEN resp.maxAge ELSE DefaultTTL

\* c.statuses[resp.StatusCode] && !hasNoStore(resp)
Cacheable(resp) == resp.ok /\ ~resp.noStore

Used(k) == missed' = [j \in Keys |-> IF j = k THEN {} ELSE missed[j] \cup {k}]

-----------------------------------------------------------------------------
(* ProcessRequest *)

\* A method that is not cacheable: next is called without a look-up.
Begin(r) ==
    /\ rpc[r] = "idle"
    /\ asked' = [asked EXCEPT ![r] = Bypass]
    /\ reply' = [reply EXCEPT ![r] = NoReply]
    /\ rpc' = [rpc EXCEPT ![r] = "next"]
    /\ UNCHANGED <<lru, entries, now, missed>>

\* Fault: a hit leaves the list as it is.
GetHitStill(r, k) ==
    /\ rpc[r] = "idle" /\ k \in DOMAIN entries /\ ~Expired(k)
    /\ Used(k)
    /\ reply' = [reply EXCEPT ![r] = [hit |-> TRUE, resp |-> entries[k].resp,
                                      age |-> now - entries[k].stored]]
    /\ UNCHANGED <<lru, entries, now, rpc, asked>>

\* get on a hit.
GetHit(r, k) ==
    /\ rpc[r] = "idle" /\ k \in DOMAIN entries /\ ~Expired(k)
    /\ lru' = MoveToFront(k) /\ Used(k)
    /\ reply' = [reply EXCEPT ![r] = [hit |-> TRUE, resp |-> entries[k].resp,
                                      age |-> now - entries[k].stored]]
    /\ UNCHANGED <<entries, now, rpc, asked>>

Miss(r, k) == /\ rpc' = [rpc EXCEPT ![r] = "next"]
              /\ asked' = [asked EXCEPT ![r] = k]
              /\ reply' = [reply EXCEPT ![r] = NoReply]
              /\ UNCHANGED <<now, missed>>

GetMiss(r, k) ==
    /\ rpc[r] = "idle" /\ k \notin DOMAIN entries
    /\ Miss(r, k)
    /\ UNCHANGED <<lru, entries>>

\* get evicts an entry it finds expired.
GetExpired(r, k) ==
    /\ rpc[r] = "idle" /\ k \in DOMAIN entries /\ Expired(k)
    /\ entries' = Without(entries, {k})
    /\ lru' = Others(k)
    /\ Miss(r, k)

\* The response goes to the caller; the model forgets it.
Return(r) == /\ rpc' = [rpc EXCEPT ![r] = "idle"]
             /\ asked' = [asked EXCEPT ![r] = Bypass]
             /\ reply' = [reply EXCEPT ![r] = NoReply]

\* next returns a response; it is stored only if it may be.
NextReturns(r, resp) ==
    /\ rpc[r] = "next"
    /\ IF asked[r] # Bypass /\ Cacheable(resp)
       THEN /\ rpc' = [rpc EXCEPT ![r] = "set"]
            /\ reply' = [reply EXCEPT ![r].resp = resp]
            /\ UNCHANGED asked
       ELSE Return(r)
    /\ UNCHANGED <<lru, entries, now, missed>>

\* next returns an error or no response.
NextFails(r) ==
    /\ rpc[r] = "next"
    /\ Return(r)
    /\ UNCHANGED <<lru, entries, now, missed>>

Entry(r) == [resp |-> reply[r].resp, stored |-> now,
             expiry |-> ExpiryTime(ResponseTTL(reply[r].resp))]

\* set, when another request stored the key meanwhile: replace its response.
SetUpdate(r) ==
    LET k == asked[r] IN
    /\ rpc[r] = "set" /\ k \in DOMAIN entries
    /\ lru' = MoveToFront(k) /\ Used(k)
    /\ entries' = [entries EXCEPT ![k] = Entry(r)]
    /\ Return(r)
    /\ UNCHANGED now

\* set of a new key: evict from the back until there is room, then insert.
SetInsert(r) ==
    LET k == asked[r]
        n == Cardinality(DOMAIN entries)
        keep == SubSeq(lru, 1, IF n >= MaxEntries THEN MaxEntries - 1 ELSE n) IN
    /\ rpc[r] = "set" /\ k \notin DOMAIN entries
    /\ lru' = <<k>> \o keep /\ Used(k)
    /\ entries' = [j \in ToSet(keep) \cup {k} |->
                      IF j = k THEN Entry(r) ELSE entries[j]]
    /\ Return(r)
    /\ UNCHANGED now

Tick == /\ now < MaxTime /\ now' = now + 1
        /\ UNCHANGED <<lru, entries, rpc, asked, reply, missed>>

Next ==
    \/ Tick
    \/ \E r \in Requests :
          \/ Begin(r) \/ NextFails(r) \/ SetUpdate(r) \/ SetInsert(r)
          \/ \E k \in Keys : GetHit(r, k) \/ GetMiss(r, k) \/ GetExpired(r, k)
          \/ \E resp \in Responses : NextReturns(r, resp)

Spec == Init /\ [][Next]_vars

-----------------------------------------------------------------------------
(* Properties *)

\* The list and the map name the same entries, each once, and at most
\* MaxEntries of them, whichever requests looked up, evicted and stored
\* between each other's look-up and store.
ListAndMapAgree ==
    /\ ToSet(lru) = DOMAIN entries
    /\ Len(lru) = Cardinality(DOMAIN entries)
    /\ Len(lru) <= MaxEntries

\* No request is answered from the cache with a response that may not be
\* cached, or that has been stored for longer than the lifetime it declared
\* (DefaultTTL for one that declared none or zero).
HitsAreFresh ==
    \A r \in Requests : reply[r].hit =>
        LET resp == reply[r].resp IN
        /\ resp.ok /\ ~resp.noStore
        /\ reply[r].age <=
               IF resp.maxAge \in Nat \ {0} THEN resp.maxAge ELSE DefaultTTL

\* The cache's list and map agree within their bound, and whatever it answers
\* with may be cached and is fresh.
CacheInv == TypeOK /\ ListAndMapAgree /\ HitsAreFresh

\* cache.go:16 "When full, the least recently used entry is evicted": an entry
\* that has not expired leaves the cache only when it is full and every other
\* entry was used after it.
EvictsLeastRecent ==
    [][\A k \in DOMAIN entries \ DOMAIN entries' :
           Expired(k) \/ /\ Cardinality(DOMAIN entries) = MaxEntries
                         /\ DOMAIN entries \ {k} \subseteq missed[k]]_vars

=============================================================================

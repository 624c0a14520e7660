-------------------------- MODULE MCSharedFrontier --------------------------
(***************************************************************************)
(* Three parts of the frontier package, for TLC: the Redis queue that      *)
(* processes share (RedisFrontier), the politeness delay of the in-memory  *)
(* frontier's Next (CrawlDelay) and the canonical form of a URL            *)
(* (Canonical).  They share no state: part says which of them a behaviour  *)
(* is about, and the others stay in their initial state.                   *)
(***************************************************************************)
EXTENDS RedisFrontier, TLC

CONSTANTS Consumers, Domains, NoDomain, Delay, DelayTime

VARIABLES part, spelled, clock, domainLast, pc, dom, wakeAt, ctxDone, lastOut, prevOut

D == INSTANCE CrawlDelay WITH now <- clock, MaxTime <- DelayTime

C == INSTANCE Canonical

ASSUME D!DelayAssumption

\* Spellings of URLs that differ in their authority, their path or their query.
Letters == {"/", "a", "~", "%7E", "%2F", "%20", " ", "%"}
Authorities ==
    [scheme : {"http", "https"}, upper : BOOLEAN, port : {"", "80", "443"},
     path : {<<"/", "a">>}, query : {<<>>, <<<<1, 1>>>>}, frag : {FALSE}]
Paths ==
    [scheme : {"http"}, upper : {FALSE}, port : {""},
     path : {<<>>, <<"/">>, <<"/", "/">>, <<"/", "a", "/", "/">>} \cup {"/"} \X Letters \X Letters,
     query : {<<>>}, frag : {FALSE}]
Queries ==
    [scheme : {"http"}, upper : {FALSE}, port : {""}, path : {<<"/", "a">>},
     query : UNION {[1 .. n -> (0 .. 1) \X (0 .. 1)] : n \in 0 .. 2}, frag : BOOLEAN]
Page == [scheme |-> "http", upper |-> FALSE, port |-> "", path |-> <<"/", "a">>,
         query |-> <<>>, frag |-> FALSE]

delay == <<clock, domainLast, pc, dom, wakeAt, ctxDone, lastOut, prevOut>>

SharedInit ==
    /\ part \in {"redis", "delay", "canonical"} /\ Init /\ D!Init
    /\ spelled \in IF part = "canonical"
                    THEN UNION {Authorities \X Authorities, Paths \X Paths, Queries \X Queries}
                    ELSE {<<Page, Page>>}

SharedNext ==
    \/ part = "redis" /\ Next /\ UNCHANGED <<part, spelled, delay>>
    \/ part = "delay" /\ D!Next /\ UNCHANGED <<part, spelled, vars>>

SharedSpec == SharedInit /\ [][SharedNext]_<<part, spelled, vars, delay>>

\* Entries leave the shared set by priority and age, and as long as no reply of
\* Redis was lost the counters of all processes add up to its size.
RedisOK == [](TypeOK /\ CountersMatchSet) /\ BestFirst

\* At most two requests of a domain leave a single consumer's Next in any
\* window of CrawlDelay.
TwoPerWindow == []D!TypeOK /\ D!TwoPerWindow

\* Canonicalize is idempotent, tells resources apart and brings the spellings
\* of one together.
CanonicalInv == C!CanonicalForms(spelled[1], spelled[2])

\* Processes, URLs and domains are interchangeable.
Symmetry == Permutations(Nodes) \cup Permutations(Urls) \cup Permutations(Domains)

=============================================================================

--------------------------- MODULE RedisFrontier ---------------------------
(***************************************************************************)
(* The Redis-backed frontier (pkg/frontier/redis.go), as several processes *)
(* share it: one sorted set in Redis (external, its commands atomic), and  *)
(* in every process a size counter and a closed flag.                      *)
(*                                                                         *)
(* A member of the set is the whole JSON payload, so an entry is the       *)
(* record of what distinguishes payloads: the canonical URL, the priority  *)
(* and the discovery time.  Members that do not decode are not modelled:   *)
(* no Add of this code writes one.                                         *)
(***************************************************************************)
EXTENDS Integers, FiniteSets, Functions

CONSTANTS
    Nodes,        \* processes with a RedisFrontier
    Urls,         \* canonical URLs
    Priorities,   \* \subseteq 0..3
    Band,         \* the factor of the priority in a score (1e13)
    MaxTime,      \* bound on the clock: below Band until the year 2286
    MaxAdds,      \* bound on the Add calls
    NoEntry,
    Faults        \* "lost": a command is executed and its reply lost

Entries == [url : Urls, prio : Priorities, at : 0..MaxTime]

ASSUME RedisAssumption ==
    /\ MaxTime \in Nat /\ Band \in Nat /\ MaxTime < Band
    /\ MaxAdds \in Nat /\ Priorities \subseteq 0..3
    /\ IsFiniteSet(Nodes) /\ Faults \subseteq {"lost"}
    /\ NoEntry \notin Entries

VARIABLES
    now,
    zset,           \* the members of key
    size, closed,   \* the counters and flags of the processes
    base,           \* history: the ZCARD a process started from
    up,             \* has the process called NewRedisFrontier
    apc,            \* an Add call: "idle" or, after ZADD, "count"
    npc, popped,    \* a Next call: "idle", "pop" or "count", its entry
    adds,           \* Add calls so far
    lost            \* history: has a reply been lost

vars == <<now, zset, size, closed, base, up, apc, npc, popped, adds, lost>>

TypeOK ==
    /\ now \in 0..MaxTime /\ adds \in 0..MaxAdds
    /\ zset \subseteq Entries /\ lost \in BOOLEAN
    /\ size \in [Nodes -> -MaxAdds..MaxAdds] /\ base \in [Nodes -> 0..MaxAdds]
    /\ closed \in [Nodes -> BOOLEAN] /\ up \in [Nodes -> BOOLEAN]
    /\ apc \in [Nodes -> {"idle", "count"}]
    /\ npc \in [Nodes -> {"idle", "pop", "count"}]
    /\ popped \in [Nodes -> Entries \cup {NoEntry}]

Init ==
    /\ now = 0 /\ zset = {} /\ adds = 0 /\ lost = FALSE
    /\ size = [n \in Nodes |-> 0] /\ base = [n \in Nodes |-> 0]
    /\ closed = [n \in Nodes |-> FALSE] /\ up = [n \in Nodes |-> FALSE]
    /\ apc = [n \in Nodes |-> "idle"] /\ npc = [n \in Nodes |-> "idle"]
    /\ popped = [n \in Nodes |-> NoEntry]

Tick ==
    /\ now < MaxTime
    /\ now' = now + 1
    /\ UNCHANGED <<zset, size, closed, base, up, apc, npc, popped, adds, lost>>

\* NewRedisFrontier: the counter starts from ZCARD.
NewRedisFrontier(n) ==
    /\ ~up[n]
    /\ up' = [up EXCEPT ![n] = TRUE]
    /\ size' = [size EXCEPT ![n] = Cardinality(zset)]
    /\ base' = [base EXCEPT ![n] = Cardinality(zset)]
    /\ UNCHANGED <<now, zset, closed, apc, npc, popped, adds, lost>>

\* Add up to ZADD NX: a zero DiscoveredAt becomes the present time, an entry
\* offered again keeps the one it has.
AddSend(n, e) ==
    /\ up[n] /\ apc[n] = "idle" /\ ~closed[n]
    /\ adds < MaxAdds /\ adds' = adds + 1
    /\ e.at <= now
    /\ zset' = zset \cup {e}
    /\ apc' = [apc EXCEPT ![n] = IF e \in zset THEN "idle" ELSE "count"]
    /\ UNCHANGED <<now, size, closed, base, up, npc, popped, lost>>

\* ZADD is executed but its reply does not arrive: Add returns the error.
AddLost(n, e) ==
    /\ "lost" \in Faults /\ lost' = TRUE
    /\ up[n] /\ apc[n] = "idle" /\ ~closed[n]
    /\ adds < MaxAdds /\ adds' = adds + 1
    /\ e.at <= now
    /\ zset' = zset \cup {e}
    /\ UNCHANGED <<now, size, closed, base, up, apc, npc, popped>>

AddCount(n) ==
    /\ apc[n] = "count"
    /\ size' = [size EXCEPT ![n] = @ + 1]
    /\ apc' = [apc EXCEPT ![n] = "idle"]
    /\ UNCHANGED <<now, zset, closed, base, up, npc, popped, adds, lost>>

NextCall(n) ==
    /\ up[n] /\ npc[n] = "idle" /\ ~closed[n]
    /\ npc' = [npc EXCEPT ![n] = "pop"]
    /\ UNCHANGED <<now, zset, size, closed, base, up, apc, popped, adds, lost>>

\* Fault: higher priority numbers come first.
ScoreForInverted(e) == e.at - e.prio * Band

ScoreFor(e) == e.prio * Band + e.at

\* The members BZPOPMIN may take: the least score, ties in either order.
Least == {e \in zset : \A f \in zset : ScoreFor(e) <= ScoreFor(f)}

\* BZPOPMIN answers.
NextPop(n) ==
    /\ npc[n] = "pop"
    /\ \E e \in Least : /\ zset' = zset \ {e}
                        /\ popped' = [popped EXCEPT ![n] = e]
    /\ npc' = [npc EXCEPT ![n] = "count"]
    /\ UNCHANGED <<now, size, closed, base, up, apc, adds, lost>>

\* BZPOPMIN is executed while the call's context ends or the connection is
\* closed: Next returns an error and the popped entry is gone.
NextLost(n) ==
    /\ "lost" \in Faults /\ lost' = TRUE
    /\ npc[n] = "pop"
    /\ \E e \in Least : zset' = zset \ {e}
    /\ npc' = [npc EXCEPT ![n] = "idle"]
    /\ UNCHANGED <<now, size, closed, base, up, apc, popped, adds>>

\* The context is done, the server timed out the pop and closed is set, or
\* the client is already closed.
NextFail(n) ==
    /\ npc[n] = "pop"
    /\ npc' = [npc EXCEPT ![n] = "idle"]
    /\ UNCHANGED <<now, zset, size, closed, base, up, apc, popped, adds, lost>>

NextCount(n) ==
    /\ npc[n] = "count"
    /\ size' = [size EXCEPT ![n] = @ - 1]
    /\ popped' = [popped EXCEPT ![n] = NoEntry]
    /\ npc' = [npc EXCEPT ![n] = "idle"]
    /\ UNCHANGED <<now, zset, closed, base, up, apc, adds, lost>>

Close(n) ==
    /\ up[n] /\ ~closed[n]
    /\ closed' = [closed EXCEPT ![n] = TRUE]
    /\ UNCHANGED <<now, zset, size, base, up, apc, npc, popped, adds, lost>>

Next ==
    \/ Tick
    \/ \E n \in Nodes :
          \/ NewRedisFrontier(n) \/ AddCount(n) \/ NextCall(n) \/ NextPop(n)
          \/ NextLost(n) \/ NextFail(n) \/ NextCount(n) \/ Close(n)
          \/ \E e \in Entries : AddSend(n, e) \/ AddLost(n, e)

Spec == Init /\ [][Next]_vars

-----------------------------------------------------------------------------
(* Properties *)

Counting(pc) == {n \in Nodes : pc[n] = "count"}

Before(e, f) == e.prio < f.prio \/ (e.prio = f.prio /\ e.at < f.at)

\* Changes of the counters since their processes started.
LocalChanges == SumFunction([n \in Nodes |-> size[n] - base[n]])

\* As long as every reply has arrived, the counters of all processes together
\* have moved by exactly what went into the set and came out of it, calls in
\* progress included: no process counts another's entry or its own twice.
CountersMatchSet ==
    ~lost => Cardinality(zset) = LocalChanges + Cardinality(Counting(apc))
                                              - Cardinality(Counting(npc))

\* Entries come out by priority and then by age, whichever process takes
\* them: what a Next call just popped precedes everything it left behind.
BestFirst ==
    [][\A n \in Nodes : npc[n] = "pop" /\ npc'[n] = "count" =>
          \A f \in zset' : ~Before(f, popped'[n])]_vars

=============================================================================

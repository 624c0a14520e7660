----------------------------- MODULE CrawlDelay -----------------------------
(***************************************************************************)
(* The politeness delay of MemoryFrontier.Next (enforceCrawlDelay in       *)
(* pkg/frontier/memory.go) on a discrete clock.  A call records its time   *)
(* as the domain's last request, and sleeps for what is left of the delay  *)
(* since the time recorded before.  URLs without a host are not delayed    *)
(* and are left out.                                                       *)
(***************************************************************************)
EXTENDS Integers, FiniteSets

CONSTANTS Consumers, Domains, NoDomain,
          Delay,     \* Config.CrawlDelay
          MaxTime    \* bound on the clock

DelayAssumption ==
    Delay \in Nat /\ MaxTime \in Nat /\ NoDomain \notin Domains

VARIABLES
    now,
    domainLast,   \* time of the last call for the domain; -1: no entry
    pc, dom,      \* is a consumer asleep, and for which domain
    wakeAt,       \* when its timer fires
    ctxDone,      \* the consumers' context is cancelled
    lastOut,      \* history: when the domain's last request was let out,
    prevOut       \* and the one before; -1: none

vars == <<now, domainLast, pc, dom, wakeAt, ctxDone, lastOut, prevOut>>

Times == -1..MaxTime

TypeOK ==
    /\ now \in 0..MaxTime
    /\ domainLast \in [Domains -> Times]
    /\ pc \in [Consumers -> {"idle", "sleep"}]
    /\ dom \in [Consumers -> Domains \cup {NoDomain}]
    /\ wakeAt \in [Consumers -> 0..MaxTime + Delay]
    /\ ctxDone \in BOOLEAN
    /\ lastOut \in [Domains -> Times] /\ prevOut \in [Domains -> Times]

Init ==
    /\ now = 0
    /\ domainLast = [d \in Domains |-> -1]
    /\ pc = [c \in Consumers |-> "idle"]
    /\ dom = [c \in Consumers |-> NoDomain]
    /\ wakeAt = [c \in Consumers |-> 0]
    /\ ctxDone = FALSE
    /\ lastOut = [d \in Domains |-> -1]
    /\ prevOut = [d \in Domains |-> -1]

\* A request for d is let out now.
LetOut(d) == /\ lastOut' = [lastOut EXCEPT ![d] = now]
             /\ prevOut' = [prevOut EXCEPT ![d] = lastOut[d]]

\* The delay since the previous call has passed, or there was none.
Elapsed(d) == domainLast[d] = -1 \/ now - domainLast[d] >= Delay

PassAtOnce(c, d) ==
    /\ pc[c] = "idle" /\ Elapsed(d)
    /\ domainLast' = [domainLast EXCEPT ![d] = now]
    /\ LetOut(d)
    /\ UNCHANGED <<now, pc, dom, wakeAt, ctxDone>>

\* Fault: the call sleeps for the time elapsed, not for what is left of it.
SleepElapsed(c, d) ==
    /\ pc[c] = "idle" /\ ~Elapsed(d)
    /\ domainLast' = [domainLast EXCEPT ![d] = now]
    /\ pc' = [pc EXCEPT ![c] = "sleep"]
    /\ dom' = [dom EXCEPT ![c] = d]
    /\ wakeAt' = [wakeAt EXCEPT ![c] = now + (now - domainLast[d])]
    /\ UNCHANGED <<now, ctxDone, lastOut, prevOut>>

Sleep(c, d) ==
    /\ pc[c] = "idle" /\ ~Elapsed(d)
    /\ domainLast' = [domainLast EXCEPT ![d] = now]
    /\ pc' = [pc EXCEPT ![c] = "sleep"]
    /\ dom' = [dom EXCEPT ![c] = d]
    /\ wakeAt' = [wakeAt EXCEPT ![c] = now + (Delay - (now - domainLast[d]))]
    /\ UNCHANGED <<now, ctxDone, lastOut, prevOut>>

\* time.After fires, or the context is done: the request is let out.
Wake(c) ==
    /\ pc[c] = "sleep"
    /\ now >= wakeAt[c] \/ ctxDone
    /\ LetOut(dom[c])
    /\ pc' = [pc EXCEPT ![c] = "idle"]
    /\ dom' = [dom EXCEPT ![c] = NoDomain]
    /\ wakeAt' = [wakeAt EXCEPT ![c] = 0]
    /\ UNCHANGED <<now, domainLast, ctxDone>>

CancelContext ==
    /\ ~ctxDone
    /\ ctxDone' = TRUE
    /\ UNCHANGED <<now, domainLast, pc, dom, wakeAt, lastOut, prevOut>>

Tick == /\ now < MaxTime
        /\ now' = now + 1
        /\ UNCHANGED <<domainLast, pc, dom, wakeAt, ctxDone, lastOut, prevOut>>

Next == \/ Tick \/ CancelContext
        \/ \E c \in Consumers : \/ Wake(c)
                                \/ \E d \in Domains : PassAtOnce(c, d) \/ Sleep(c, d)

Spec == Init /\ [][Next]_vars

-----------------------------------------------------------------------------
(* Properties *)

\* What the code does guarantee to a single consumer: at most two requests of
\* a domain in any window of CrawlDelay, because the recorded time is at most
\* one request behind.
TwoPerWindow ==
    [][~ctxDone => \A d \in Domains :
          lastOut'[d] # lastOut[d] \/ prevOut'[d] # prevOut[d] =>
              prevOut[d] = -1 \/ now - prevOut[d] >= Delay]_vars

=============================================================================

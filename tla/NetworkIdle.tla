---------------------------- MODULE NetworkIdle ----------------------------
(***************************************************************************)
(* waitNetworkIdle (pkg/browser/wait.go): a listener that Chrome's network *)
(* events call counts requests, and the caller polls until the count is    *)
(* zero and the last request was sent a quiet period ago, or a deadline    *)
(* passes.  The events are external: those of requests sent before events  *)
(* are enabled are missing, but their end is reported, and a redirected    *)
(* request is sent anew and ends once.                                     *)
(*                                                                         *)
(* One tick of the clock is one poll period.  lastActive is read and       *)
(* written without a lock; what time.Since uses of it is one word, so the  *)
(* poll reads the old or the new one.  A count that falls below zero is    *)
(* set to zero by the same event: a poll in between goes on as at any      *)
(* other count.                                                            *)
(***************************************************************************)
EXTENDS Integers, FiniteSets

CONSTANTS
    Requests,
    Quiet, MaxWait,   \* the quiet period and the longest wait
    MaxRedirects,     \* bound on the redirects
    MaxClock          \* bound on the clock

IdleAssumption ==
    /\ IsFiniteSet(Requests) /\ Quiet \in Nat \ {0} /\ MaxRedirects \in Nat
    /\ MaxWait \in Nat \ {0} /\ MaxClock \in Nat

VARIABLES
    now,
    net,                  \* a request's state; "old" if sent before Enable
    inFlight, lastActive,
    stamping,             \* the listener has counted a request, not yet set lastActive
    ppc, deadline, ctxDone,
    redirects,
    oldEnded,             \* history: ends of requests that were not counted
    quietSince            \* history: when the network last fell quiet

vars == <<now, net, inFlight, lastActive, stamping, ppc, deadline, ctxDone, redirects,
          oldEnded, quietSince>>

listener == <<inFlight, lastActive, stamping, redirects, oldEnded>>
network == <<net, quietSince>>

UnderWay == {r \in Requests : net[r] \in {"old", "going"}}
Ended == {"idle", "timedOut", "cancelled", "failed"}

Init ==
    /\ now = 0
    /\ net \in [Requests -> {"new", "old"}]
    /\ inFlight = 0 /\ lastActive = 0 /\ stamping = FALSE
    /\ ppc = "enable" /\ deadline = 0 /\ ctxDone = FALSE
    /\ redirects = 0 /\ oldEnded = 0
    /\ quietSince = 0

\* network.Enable, then the deadline.
Enable ==
    /\ ppc = "enable"
    /\ \/ ppc' = "poll" /\ deadline' = now + MaxWait
       \/ ppc' = "failed" /\ UNCHANGED deadline
    /\ UNCHANGED <<now, ctxDone, network, listener>>

\* EventRequestWillBeSent: of a new request, or of one that is redirected.
Send(r) ==
    /\ ~stamping
    /\ \/ net[r] = "new" /\ UNCHANGED redirects
       \/ /\ net[r] = "going" /\ redirects < MaxRedirects
          /\ redirects' = redirects + 1
    /\ IF ppc = "enable"
       THEN net' = [net EXCEPT ![r] = "old"] /\ UNCHANGED <<inFlight, stamping>>
       ELSE /\ net' = [net EXCEPT ![r] = "going"]
            /\ inFlight' = inFlight + 1 /\ stamping' = TRUE
    /\ UNCHANGED <<now, lastActive, ppc, deadline, ctxDone, oldEnded, quietSince>>

Stamp ==
    /\ stamping
    /\ stamping' = FALSE /\ lastActive' = now
    /\ UNCHANGED <<now, ppc, deadline, ctxDone, inFlight, redirects, oldEnded, network>>

\* EventLoadingFinished or EventLoadingFailed.
End(r) ==
    /\ ~stamping
    /\ r \in UnderWay
    /\ net' = [net EXCEPT ![r] = "done"]
    /\ quietSince' = IF UnderWay = {r} THEN now ELSE quietSince
    /\ IF ppc = "enable" THEN UNCHANGED <<inFlight, oldEnded>>
       ELSE /\ inFlight' = IF inFlight > 0 THEN inFlight - 1 ELSE 0
            /\ oldEnded' = IF net[r] = "old" THEN oldEnded + 1 ELSE oldEnded
    /\ UNCHANGED <<now, lastActive, stamping, ppc, deadline, ctxDone, redirects>>

Cancel == ~ctxDone /\ ctxDone' = TRUE
          /\ UNCHANGED <<now, ppc, deadline, network, listener>>

\* Fault: no Timeout means no deadline.
PollDeadlineNever == FALSE /\ ppc' = "timedOut"

PollDeadline == now > deadline /\ ppc' = "timedOut"

\* The loop's body up to the load of the count, and after it.
Poll ==
    /\ ppc = "poll"
    /\ \/ ctxDone /\ ppc' = "cancelled"
       \/ ~ctxDone /\ PollDeadline
       \/ ~ctxDone /\ now <= deadline /\ inFlight = 0 /\ ppc' = "zero"
       \/ ~ctxDone /\ now <= deadline /\ inFlight # 0 /\ ppc' = "asleep"
    /\ UNCHANGED <<now, deadline, ctxDone, network, listener>>

PollSince ==
    /\ ppc = "zero"
    /\ ppc' = IF now - lastActive >= Quiet THEN "idle" ELSE "asleep"
    /\ UNCHANGED <<now, deadline, ctxDone, network, listener>>

\* Time passes, and a poll period ends; none fits between the loads of the
\* count and of lastActive.  (The bound leaves room for the wait.)
Tick ==
    /\ ppc # "zero" /\ (now < MaxClock \/ ppc = "asleep")
    /\ ppc = "enable" => now + MaxWait + 1 < MaxClock
    /\ now' = IF now < MaxClock THEN now + 1 ELSE now
    /\ ppc' = IF ppc = "asleep" THEN "poll" ELSE ppc
    /\ UNCHANGED <<deadline, ctxDone, network, listener>>

WaitStep == Enable \/ Poll \/ PollSince

\* What the listener counts after the return is left out.
Next ==
    /\ ppc \notin Ended
    /\ \/ WaitStep \/ Stamp \/ Tick \/ Cancel
       \/ \E r \in Requests : Send(r) \/ End(r)

Spec == Init /\ [][Next]_vars

\* The caller runs and time passes; requests need never end.
FairSpec ==
    Spec /\ WF_vars(WaitStep) /\ WF_vars(ppc \notin Ended /\ Tick)

-----------------------------------------------------------------------------
(* Properties *)

TypeOK ==
    /\ net \in [Requests -> {"new", "old", "going", "done"}]
    /\ inFlight \in Nat /\ lastActive \in 0 .. now /\ quietSince \in 0 .. now
    /\ ppc \in Ended \cup {"enable", "poll", "zero", "asleep"}

\* The count is never below the number of requests the listener saw sent and
\* not yet end, but for the ends of those it did not see sent; a wait that
\* ends early does so for one of these.
CountCovers ==
    inFlight + oldEnded >= Cardinality({r \in Requests : net[r] = "going"})

\* The wait ends although redirects leave the count too high for good.
Returns == ppc = "poll" ~> ppc \in Ended

\* Both, and the types.
IdleOK == [](TypeOK /\ CountCovers) /\ Returns

\* wait.go:19 "WaitNetworkIdle waits until there have been no in-flight network
\* requests for at least QuietPeriod", also where every request was seen sent.
QuietBeforeReturn ==
    [][(ppc = "zero" /\ ppc' = "idle" /\ oldEnded = 0 /\ UnderWay = {})
          => now - quietSince >= Quiet]_vars

=============================================================================

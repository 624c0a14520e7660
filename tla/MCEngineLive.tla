---------------------------- MODULE MCEngineLive ----------------------------
(***************************************************************************)
(* Liveness of the engine for TLC: that its calls and workers end (Engine) *)
(* if fetches do, and that a fetch which renders a page and waits for its  *)
(* network to fall quiet does end (NetworkIdle).  The wait shares no state *)
(* with the engine: part says which of them a behaviour is about, and the  *)
(* other one stays in its initial state.                                   *)
(***************************************************************************)
EXTENDS MCEngine

CONSTANTS PageRequests, Quiet, MaxWait, MaxRedirects, MaxClock

VARIABLES part, now, net, inFlight, lastActive, stamping, ppc, deadline, ctxDone,
          redirects, oldEnded, quietSince

N == INSTANCE NetworkIdle WITH Requests <- PageRequests

ASSUME N!IdleAssumption

idle == <<now, net, inFlight, lastActive, stamping, ppc, deadline, ctxDone, redirects,
          oldEnded, quietSince>>

LiveInit == part \in {"engine", "idle"} /\ Init /\ N!Init

LiveNext ==
    \/ part = "engine" /\ Next /\ UNCHANGED <<part, idle>>
    \/ part = "idle" /\ N!Next /\ UNCHANGED <<part, vars>>

LiveSpec ==
    /\ LiveInit /\ [][LiveNext]_<<part, vars, idle>>
    /\ Fairness
    /\ WF_idle(part = "idle" /\ N!WaitStep)
    /\ WF_idle(part = "idle" /\ ppc \notin N!Ended /\ N!Tick)

\* The count of requests covers those under way but for ends of requests it
\* did not see sent, and the wait ends although redirects leave it too high.
IdleOK == N!IdleOK

=============================================================================

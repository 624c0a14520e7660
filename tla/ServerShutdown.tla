--------------------------- MODULE ServerShutdown ---------------------------
(***************************************************************************)
(* Start and Stop of the gRPC server (pkg/server/server.go).  Start may be *)
(* ended through its context, which makes it call Stop itself, or by Stop  *)
(* calls of other goroutines, before, while and after it sets the server   *)
(* up: s.grpc and s.health are plain fields.                               *)
(*                                                                         *)
(* grpc.Server is external: GracefulStop refuses new RPCs and returns when *)
(* the running ones have ended, Stop cancels those and returns at once,    *)
(* Serve returns once either has finished, immediately if it was called    *)
(* after them.  An RPC ends when it likes: a stream may never do so.       *)
(***************************************************************************)
EXTENDS Integers, FiniteSets

CONSTANTS
    Rpcs,
    Stoppers,   \* goroutines that call Stop
    Starter     \* the goroutine of Start, which calls it when ctx is done

ShutdownAssumption == Starter \notin Stoppers

VARIABLES
    begin,    \* Start's position
    ctxDone,
    grpc,     \* s.grpc: "nil", or the state of the grpc.Server
    health,   \* s.health: "nil", or the status it reports
    stop,     \* a Stop call: its position, then how it ended
    drain,    \* the goroutine it starts: "none", "called", "waiting", "closed"
    rpc       \* "none", "running", "ended" or "killed"

vars == <<begin, ctxDone, grpc, health, stop, drain, rpc>>

Stops == Stoppers \cup {Starter}
Ended == {"lost", "graceful", "forced"}

TypeOK ==
    /\ begin \in {"idle", "listening", "created", "checked", "ready", "select",
                  "stopping", "returned"}
    /\ ctxDone \in BOOLEAN
    /\ grpc \in {"nil", "new", "serving", "draining", "stopped"}
    /\ health \in {"nil", "SERVING", "NOT_SERVING"}
    /\ stop \in [Stops -> {"idle", "drain", "panic"} \cup Ended]
    /\ drain \in [Stops -> {"none", "called", "waiting", "closed"}]
    /\ rpc \in [Rpcs -> {"none", "running", "ended", "killed"}]

Init ==
    /\ begin = "idle" /\ ctxDone = FALSE /\ grpc = "nil" /\ health = "nil"
    /\ stop = [s \in Stops |-> "idle"]
    /\ drain = [s \in Stops |-> "none"]
    /\ rpc = [r \in Rpcs |-> "none"]

Panicked == \E s \in Stops : stop[s] = "panic"

-----------------------------------------------------------------------------
(* Start *)

StartTo(from, to) ==
    begin = from /\ begin' = to /\ UNCHANGED <<ctxDone, stop, drain, rpc>>

\* net.Listen, which may fail.
Listen == UNCHANGED <<grpc, health>> /\
    (StartTo("idle", "listening") \/ StartTo("idle", "returned"))

Create == StartTo("listening", "created") /\ grpc' = "new" /\ UNCHANGED health

\* health.NewServer; until a status is set the service is unknown to it.
CreateHealth ==
    StartTo("created", "checked") /\ health' = "NOT_SERVING" /\ UNCHANGED grpc

SetServing == StartTo("checked", "ready") /\ health' = "SERVING" /\ UNCHANGED grpc

\* Serve does nothing on a server that is being stopped.
Serve ==
    /\ StartTo("ready", "select")
    /\ grpc' = IF grpc = "new" THEN "serving" ELSE grpc
    /\ UNCHANGED health

ServeReturns == StartTo("select", "returned") /\ grpc = "stopped" /\ UNCHANGED <<grpc, health>>
StartCancelled == StartTo("select", "stopping") /\ ctxDone /\ UNCHANGED <<grpc, health>>
StopReturned ==
    StartTo("stopping", "returned") /\ stop[Starter] \in Ended /\ UNCHANGED <<grpc, health>>

Cancel ==
    /\ ~ctxDone /\ ctxDone' = TRUE
    /\ UNCHANGED <<begin, grpc, health, stop, drain, rpc>>

-----------------------------------------------------------------------------
(* Stop *)

\* Without s.grpc Stop returns, without s.health it dereferences nil.
StopCall(s) ==
    /\ stop[s] = "idle" /\ (s = Starter => begin = "stopping")
    /\ stop' = [stop EXCEPT ![s] =
           IF grpc = "nil" THEN "lost" ELSE IF health = "nil" THEN "panic" ELSE "drain"]
    /\ \/ stop'[s] = "drain" /\ health' = "NOT_SERVING" /\ drain' = [drain EXCEPT ![s] = "called"]
       \/ stop'[s] # "drain" /\ UNCHANGED <<health, drain>>
    /\ UNCHANGED <<begin, ctxDone, grpc, rpc>>

\* Fault: the server is stopped hard at once.
GracefulStopKills(s) ==
    /\ drain[s] = "called" /\ drain' = [drain EXCEPT ![s] = "waiting"]
    /\ grpc' = "stopped"
    /\ rpc' = [r \in Rpcs |-> IF rpc[r] = "running" THEN "killed" ELSE rpc[r]]
    /\ UNCHANGED <<begin, ctxDone, health, stop>>

GracefulStop(s) ==
    /\ drain[s] = "called" /\ drain' = [drain EXCEPT ![s] = "waiting"]
    /\ grpc' = IF grpc = "stopped" THEN grpc ELSE "draining"
    /\ UNCHANGED <<begin, ctxDone, health, stop, rpc>>

\* GracefulStop returns and done is closed.
Drained(s) ==
    /\ drain[s] = "waiting" /\ drain' = [drain EXCEPT ![s] = "closed"]
    /\ \A r \in Rpcs : rpc[r] # "running"
    /\ grpc' = "stopped"
    /\ UNCHANGED <<begin, ctxDone, health, stop, rpc>>

StopEnds(s, how) == stop[s] = "drain" /\ stop' = [stop EXCEPT ![s] = how]

StopDone(s) ==
    /\ drain[s] = "closed" /\ StopEnds(s, "graceful")
    /\ UNCHANGED <<begin, ctxDone, grpc, health, drain, rpc>>

\* DrainTimeout has passed: grpc.Stop.
StopTimeout(s) ==
    /\ StopEnds(s, "forced")
    /\ grpc' = "stopped"
    /\ rpc' = [r \in Rpcs |-> IF rpc[r] = "running" THEN "killed" ELSE rpc[r]]
    /\ UNCHANGED <<begin, ctxDone, health, drain>>

-----------------------------------------------------------------------------
(* Clients *)

RpcStart(r) ==
    /\ grpc = "serving" /\ rpc[r] = "none" /\ rpc' = [rpc EXCEPT ![r] = "running"]
    /\ UNCHANGED <<begin, ctxDone, grpc, health, stop, drain>>

RpcEnd(r) ==
    /\ rpc[r] = "running" /\ rpc' = [rpc EXCEPT ![r] = "ended"]
    /\ UNCHANGED <<begin, ctxDone, grpc, health, stop, drain>>

StartStep ==
    \/ Create \/ CreateHealth \/ SetServing \/ Serve
    \/ ServeReturns \/ StartCancelled \/ StopReturned

StopStep(s) == GracefulStop(s) \/ Drained(s) \/ StopDone(s) \/ StopTimeout(s)

Next ==
    /\ ~Panicked
    /\ \/ Listen \/ StartStep \/ Cancel
       \/ \E s \in Stops : StopCall(s) \/ StopStep(s)
       \/ \E r \in Rpcs : RpcStart(r) \/ RpcEnd(r)

Spec == Init /\ [][Next]_vars

\* Goroutines run and the timer fires.  An RPC need not end, and nobody has to
\* call anything.
Fairness ==
    /\ WF_vars(~Panicked /\ StartStep)
    /\ WF_vars(~Panicked /\ StopCall(Starter))
    /\ \A s \in Stops : WF_vars(~Panicked /\ StopStep(s))

-----------------------------------------------------------------------------
(* Properties *)

Forced == \E s \in Stops : stop[s] = "forced"

\* An RPC is cut off only by a Stop that waited for DrainTimeout; a Stop that
\* reports a graceful end has left no RPC running; and once a Stop that found
\* the server has returned, or Start has returned after it served, the server
\* takes no more RPCs.
ShutdownInv ==
    /\ (\E r \in Rpcs : rpc[r] = "killed") => Forced
    /\ (\E s \in Stops : stop[s] \in {"graceful", "forced"}) =>
           grpc = "stopped" /\ \A r \in Rpcs : rpc[r] # "running"
    /\ begin = "returned" => grpc \in {"nil", "stopped"}

\* A Stop returns although streams never end, two Stops overlap, or the server
\* is not serving yet; and then Start, which was serving, returns as well.
StopReturns ==
    /\ \A s \in Stops : stop[s] = "drain" ~> (Panicked \/ stop[s] \in Ended)
    /\ (begin = "select" /\ (ctxDone \/ grpc = "stopped")) ~> (Panicked \/ begin = "returned")

=============================================================================

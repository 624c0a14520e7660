------------------------------ MODULE MCServer ------------------------------
(***************************************************************************)
(* What the clients of a crawler server depend on, for TLC: the life cycle *)
(* of crawlers over gRPC (CrawlerService), the stream of progress events   *)
(* (ProgressTracker), and the start and shutdown of the server itself      *)
(* (ServerShutdown).  They share no state, so a behaviour is one of the    *)
(* part that part names, with the others idle.                             *)
(***************************************************************************)
EXTENDS CrawlerService

CONSTANTS Updaters, Loop, Clients, Cap, MaxUpdates, Stoppers, Starter, Streams

VARIABLES part, current, clients, chan, open, spc, event, todo, cpc, shown,
          panicked,
          begin, ctxDone, grpc, health, stop, drain, rpc

P == INSTANCE ProgressTracker
S == INSTANCE ServerShutdown WITH Rpcs <- Streams

ASSUME P!ProgressAssumption /\ S!ShutdownAssumption

progress == <<current, clients, chan, open, spc, event, todo, cpc, shown,
              panicked>>
shutdown == <<begin, ctxDone, grpc, health, stop, drain, rpc>>

ServerInit ==
    part \in {"service", "progress", "shutdown"} /\ Init /\ P!Init /\ S!Init

ServerNext ==
    \/ part = "service" /\ Next /\ UNCHANGED <<part, progress, shutdown>>
    \/ part = "progress" /\ P!Next /\ UNCHANGED <<part, vars, shutdown>>
    \/ part = "shutdown" /\ S!Next /\ UNCHANGED <<part, vars, progress>>

\* The broadcast loop ticks until it is cancelled, a broadcast that was begun
\* goes on, and a handler that is connected keeps writing.  RPCs, updates, new
\* clients, disconnections and the cancellation need never happen.
ServerSpec ==
    /\ ServerInit /\ [][ServerNext]_<<part, vars, progress, shutdown>>
    /\ WF_progress(part = "progress" /\ P!Tick(Loop))
    /\ \A s \in Updaters \cup {Loop} :
          WF_progress(part = "progress" /\ P!SenderStep(s))
    /\ \A c \in Clients : WF_progress(part = "progress" /\ P!ClientStep(c))
    /\ S!Fairness

\* A handler that ends while broadcasts are under way never makes one of them
\* send on its closed channel, which would crash the process.
ProgressInv == P!ProgressInv

\* Slow clients lose events and overtaken ones come late, but a client that
\* stays connected is left with the current snapshot once updates stop.
LatestShown == P!LatestShown

\* An RPC is cut off only by a Stop that waited for DrainTimeout, and a server
\* that was stopped takes no more; Stop and Start return although streams never
\* end and Stops overlap each other and Start.
ShutdownOK == [](S!TypeOK /\ S!ShutdownInv) /\ S!StopReturns

=============================================================================

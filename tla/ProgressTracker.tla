-------------------------- MODULE ProgressTracker --------------------------
(***************************************************************************)
(* The progress tracker and its server-sent-event handlers                 *)
(* (pkg/observability/progress.go).  Update stores a snapshot under the    *)
(* write lock and broadcasts it after the unlock; RunBroadcastLoop reads   *)
(* the snapshot and broadcasts it, also in two steps.  A broadcast holds   *)
(* the read lock and sends to one client after the other without blocking. *)
(* A handler subscribes, writes the current snapshot and then what its     *)
(* channel delivers; when its request ends it takes the channel off the    *)
(* map under the write lock and closes it after the unlock.                *)
(*                                                                         *)
(* A snapshot is numbered by the Update that stored it.  A client is one   *)
(* HTTP request with one channel.                                          *)
(***************************************************************************)
EXTENDS Naturals, Sequences, FiniteSets

CONSTANTS
    Updaters, Loop,  \* the callers of Update, and RunBroadcastLoop
    Clients,
    Cap,             \* capacity of a client's channel, 8 in the code
    MaxUpdates       \* bound on the updates

ProgressAssumption ==
    /\ Cap \in Nat \ {0} /\ MaxUpdates \in Nat
    /\ Loop \notin Updaters

Senders == Updaters \cup {Loop}
Events == 0..MaxUpdates

VARIABLES
    current,   \* ProgressTracker.current
    clients,   \* ProgressTracker.clients
    chan,      \* the events buffered for a client
    open,      \* channels that are not closed
    spc,       \* a sender's position
    event,     \* the event it broadcasts
    todo,      \* the clients its broadcast has still to serve
    cpc,       \* a handler's position
    shown,     \* the event it wrote last
    panicked   \* a send on a closed channel

vars == <<current, clients, chan, open, spc, event, todo, cpc, shown, panicked>>

senders == <<spc, event, todo>>

TypeOK ==
    /\ current \in Events
    /\ clients \subseteq Clients /\ open \subseteq Clients
    /\ chan \in [Clients -> Seq(Events)]
    /\ \A c \in Clients : Len(chan[c]) <= Cap
    /\ spc \in [Senders -> {"idle", "ready", "sending", "ended"}]
    /\ event \in [Senders -> Events]
    /\ todo \in [Senders -> SUBSET Clients]
    /\ cpc \in [Clients -> {"new", "first", "stream", "closing", "gone"}]
    /\ shown \in [Clients -> Events]
    /\ panicked \in BOOLEAN

Init ==
    /\ current = 0
    /\ clients = {} /\ open = {}
    /\ chan = [c \in Clients |-> <<>>]
    /\ spc = [s \in Senders |-> "idle"]
    /\ event = [s \in Senders |-> 0]
    /\ todo = [s \in Senders |-> {}]
    /\ cpc = [c \in Clients |-> "new"]
    /\ shown = [c \in Clients |-> 0]
    /\ panicked = FALSE

\* The write lock is free: no broadcast holds the read lock.
NoReader == \A s \in Senders : spc[s] # "sending"

-----------------------------------------------------------------------------
(* Update, RunBroadcastLoop and broadcast *)

Ready(s, e) == /\ spc[s] = "idle"
               /\ spc' = [spc EXCEPT ![s] = "ready"]
               /\ event' = [event EXCEPT ![s] = e]
               /\ UNCHANGED <<clients, chan, open, todo, cpc, shown, panicked>>

Update(s) ==
    /\ NoReader /\ current < MaxUpdates
    /\ current' = current + 1
    /\ Ready(s, current + 1)

\* Fault: the loop runs on, but only for events it has not sent before.
TickNewOnly(s) ==
    /\ event[s] # current
    /\ Ready(s, current)
    /\ UNCHANGED current

\* t.Current() at a tick of the loop.
Tick(s) == Ready(s, current) /\ UNCHANGED current

\* The context of the loop is cancelled.
LoopEnds(s) == /\ spc[s] = "idle"
               /\ spc' = [spc EXCEPT ![s] = "ended"]
               /\ UNCHANGED <<current, clients, chan, open, event, todo, cpc,
                              shown, panicked>>

\* broadcast takes the read lock and ranges over the clients of that time.
Lock(s) ==
    /\ spc[s] = "ready"
    /\ spc' = [spc EXCEPT ![s] = "sending"]
    /\ todo' = [todo EXCEPT ![s] = clients]
    /\ UNCHANGED <<current, clients, chan, open, event, cpc, shown, panicked>>

\* A send that would block is dropped; one on a closed channel panics.
Send(s, c) ==
    /\ spc[s] = "sending" /\ c \in todo[s]
    /\ todo' = [todo EXCEPT ![s] = @ \ {c}]
    /\ chan' = [chan EXCEPT ![c] =
                    IF c \in open /\ Len(@) < Cap THEN Append(@, event[s]) ELSE @]
    /\ panicked' = (panicked \/ c \notin open)
    /\ UNCHANGED <<current, clients, open, spc, event, cpc, shown>>

Unlock(s) ==
    /\ spc[s] = "sending" /\ todo[s] = {}
    /\ spc' = [spc EXCEPT ![s] = "idle"]
    /\ UNCHANGED <<current, clients, chan, open, event, todo, cpc, shown, panicked>>

-----------------------------------------------------------------------------
(* SSEHandler *)

\* subscribe
Subscribe(c) ==
    /\ cpc[c] = "new" /\ NoReader
    /\ clients' = clients \cup {c} /\ open' = open \cup {c}
    /\ cpc' = [cpc EXCEPT ![c] = "first"]
    /\ UNCHANGED <<current, chan, senders, shown, panicked>>

Show(c, e) == shown' = [shown EXCEPT ![c] = e]

\* "Send current state immediately."
First(c) ==
    /\ cpc[c] = "first"
    /\ Show(c, current)
    /\ cpc' = [cpc EXCEPT ![c] = "stream"]
    /\ UNCHANGED <<current, clients, chan, open, senders, panicked>>

Receive(c) ==
    /\ cpc[c] = "stream" /\ chan[c] # <<>>
    /\ Show(c, Head(chan[c]))
    /\ chan' = [chan EXCEPT ![c] = Tail(@)]
    /\ UNCHANGED <<current, clients, open, senders, cpc, panicked>>

\* Fault: the channel is closed before it is taken off the map.
UnsubscribeClosed(c) ==
    /\ cpc[c] = "stream"
    /\ open' = open \ {c}
    /\ cpc' = [cpc EXCEPT ![c] = "closing"]
    /\ UNCHANGED <<current, clients, chan, senders, shown, panicked>>

\* unsubscribe, when the request's context is done: delete, then close.
Unsubscribe(c) ==
    /\ cpc[c] = "stream" /\ NoReader
    /\ clients' = clients \ {c}
    /\ cpc' = [cpc EXCEPT ![c] = "closing"]
    /\ UNCHANGED <<current, chan, open, senders, shown, panicked>>

Close(c) ==
    /\ cpc[c] = "closing"
    /\ open' = open \ {c}
    /\ cpc' = [cpc EXCEPT ![c] = "gone"]
    /\ UNCHANGED <<current, clients, chan, senders, shown, panicked>>

SenderStep(s) == Lock(s) \/ Unlock(s) \/ \E c \in Clients : Send(s, c)
ClientStep(c) == First(c) \/ Receive(c)

Next ==
    \/ \E s \in Updaters : Update(s)
    \/ Tick(Loop) \/ LoopEnds(Loop)
    \/ \E s \in Senders : SenderStep(s)
    \/ \E c \in Clients : Subscribe(c) \/ ClientStep(c)
                          \/ Unsubscribe(c) \/ Close(c)

Spec == Init /\ [][Next]_vars

-----------------------------------------------------------------------------
(* Properties *)

\* A handler that ends while broadcasts are under way never makes one of them
\* send on its closed channel, which would crash the process.
NoSendOnClosed == ~panicked

\* The tracker's state is well-typed, buffers within their capacity, and no
\* broadcast has sent on a closed channel.
ProgressInv == TypeOK /\ NoSendOnClosed

\* A client sees old events after new ones and loses events when it is slow,
\* but once the updates stop, and as long as the loop runs, every client that
\* stays connected is left with the current snapshot: the loop sends it again
\* after whatever was dropped or overtaken.
LatestShown ==
    \A c \in Clients :
        <>[](spc[Loop] # "ended" /\ cpc[c] = "stream" => shown[c] = current)

=============================================================================

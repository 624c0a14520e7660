----------------------------- MODULE HTTPClient -----------------------------
(***************************************************************************)
(* Do of the HTTP client (pkg/client/client.go) with the shared pool of    *)
(* buffers that bodies are read into (pkg/client/pool.go).                 *)
(*                                                                         *)
(* Memory is a set of arrays: one for every buffer and one for every slice *)
(* that a call of Do makes for its caller.  A byte is named after the call *)
(* it was received for, and a body is Size of them.  net/http and          *)
(* sync.Pool are external: a request fails, is redirected or is answered,  *)
(* a body breaks off anywhere, and Get returns a buffer that was put and   *)
(* not yet taken, or a new one.                                            *)
(***************************************************************************)
EXTENDS Integers, Sequences, FiniteSets

CONSTANTS
    Calls,          \* calls of Do
    Buffers, NoArray,
    Size,           \* bytes of a body
    MaxRedirects    \* ClientConfig.MaxRedirects

ClientAssumption ==
    /\ Cardinality(Buffers) >= Cardinality(Calls) /\ Buffers \cap Calls = {}
    /\ NoArray \notin Buffers \cup Calls
    /\ Size \in Nat /\ MaxRedirects \in Nat

Arrays == Buffers \cup Calls

VARIABLES
    dpc,            \* a call of Do: "idle", "sent", "read", "ok" or "failed"
    via,            \* the requests it has sent
    buf,            \* the buffer it reads into
    body,           \* Response.Body
    mem,            \* what the arrays hold
    pooled,         \* the buffers in bufPool
    totalRequests

vars == <<dpc, via, buf, body, mem, pooled, totalRequests>>

InUse == {buf[c] : c \in Calls} \ {NoArray}

TypeOK ==
    /\ dpc \in [Calls -> {"idle", "sent", "read", "ok", "failed"}]
    /\ via \in [Calls -> Nat] /\ totalRequests \in Nat
    /\ buf \in [Calls -> Buffers \cup {NoArray}]
    /\ body \in [Calls -> Arrays \cup {NoArray}]
    /\ mem \in [Arrays -> Seq(Calls)] /\ pooled \subseteq Buffers

Init ==
    /\ dpc = [c \in Calls |-> "idle"] /\ via = [c \in Calls |-> 0]
    /\ buf = [c \in Calls |-> NoArray] /\ body = [c \in Calls |-> NoArray]
    /\ mem = [a \in Arrays |-> <<>>] /\ pooled = {} /\ totalRequests = 0

\* The request is counted and handed to http.Client.
Send(c) ==
    /\ dpc[c] = "idle"
    /\ dpc' = [dpc EXCEPT ![c] = "sent"] /\ via' = [via EXCEPT ![c] = 1]
    /\ totalRequests' = totalRequests + 1
    /\ UNCHANGED <<buf, body, mem, pooled>>

\* CheckRedirect
Redirect(c) ==
    /\ dpc[c] = "sent"
    /\ IF via[c] >= MaxRedirects
       THEN dpc' = [dpc EXCEPT ![c] = "failed"] /\ UNCHANGED via
       ELSE via' = [via EXCEPT ![c] = @ + 1] /\ UNCHANGED dpc
    /\ UNCHANGED <<buf, body, mem, pooled, totalRequests>>

Fail(c) ==
    /\ dpc[c] = "sent" /\ dpc' = [dpc EXCEPT ![c] = "failed"]
    /\ UNCHANGED <<via, buf, body, mem, pooled, totalRequests>>

\* acquireBuf: one of the pool or a new one, reset.
Answer(c, b) ==
    /\ dpc[c] = "sent" /\ dpc' = [dpc EXCEPT ![c] = "read"]
    /\ b \in Buffers \ InUse
    /\ pooled' = pooled \ {b}
    /\ buf' = [buf EXCEPT ![c] = b] /\ mem' = [mem EXCEPT ![b] = <<>>]
    /\ UNCHANGED <<via, body, totalRequests>>

\* A step of io.Copy
Read(c) ==
    /\ dpc[c] = "read" /\ Len(mem[buf[c]]) < Size
    /\ mem' = [mem EXCEPT ![buf[c]] = Append(@, c)]
    /\ UNCHANGED <<dpc, via, buf, body, pooled, totalRequests>>

\* releaseBuf, which lets go of a buffer that has grown too large.
releaseBuf(c) ==
    /\ buf' = [buf EXCEPT ![c] = NoArray]
    /\ pooled' \in {pooled, pooled \cup {buf[c]}}

\* Fault: the caller is given the buffer's own bytes.
CopyOutAlias(c) ==
    /\ body' = [body EXCEPT ![c] = buf[c]]
    /\ UNCHANGED mem

\* The caller is given a slice of its own.
CopyOut(c) ==
    /\ body' = [body EXCEPT ![c] = c]
    /\ mem' = [mem EXCEPT ![c] = mem[buf[c]]]

Return(c) ==
    /\ dpc[c] = "read"
    /\ \/ /\ Len(mem[buf[c]]) = Size /\ CopyOut(c)
          /\ dpc' = [dpc EXCEPT ![c] = "ok"]
       \/ /\ dpc' = [dpc EXCEPT ![c] = "failed"]       \* the body broke off
          /\ UNCHANGED <<body, mem>>
    /\ releaseBuf(c)
    /\ UNCHANGED <<via, totalRequests>>

Next ==
    \E c \in Calls :
        \/ Send(c) \/ Redirect(c) \/ Fail(c) \/ Read(c) \/ Return(c)
        \/ \E b \in Buffers : Answer(c, b)

Spec == Init /\ [][Next]_vars

-----------------------------------------------------------------------------
(* Properties *)

\* The body a caller was given stays what was received for it while other
\* calls reuse the buffer it was read into; no two calls read into one buffer,
\* and none that is in the pool; and a call sends at most MaxRedirects
\* requests, or one.
BodiesOwned ==
    /\ \A c \in Calls : dpc[c] = "ok" => mem[body[c]] = [i \in 1 .. Size |-> c]
    /\ \A c, d \in Calls : buf[c] # NoArray /\ buf[c] = buf[d] => c = d
    /\ InUse \cap pooled = {}
    /\ \A c \in Calls : via[c] <= 1 \/ via[c] <= MaxRedirects

\* The client's state is well-typed and its callers own their bodies.
ClientInv == TypeOK /\ BodiesOwned

=============================================================================

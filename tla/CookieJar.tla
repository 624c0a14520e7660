----------------------------- MODULE CookieJar -----------------------------
(***************************************************************************)
(* The cookie jar (pkg/cookie/jar.go): the jar of net/http that requests   *)
(* are served from, and the list of entries that is written to a file and  *)
(* read back, perhaps by another process.                                  *)
(*                                                                         *)
(* All cookies are of one host and path, so that the name is the identity; *)
(* a value is the number of the SetCookies call.  The jar of net/http and  *)
(* the file system are external.  A cookie whose expiry is the present     *)
(* moment has expired for net/http and not yet for the list.  Max-Age is   *)
(* known to net/http and not recorded: only the names in Aged come with it *)
(* and the properties are about the others.                                *)
(***************************************************************************)
EXTENDS Integers, Sequences, FiniteSets, Functions

CONSTANTS
    Names, Aged,
    Savers,       \* goroutines that call Save; another one calls Load
    MaxTime,      \* bound on the clock; expiries come before it
    MaxSets       \* bound on the calls of SetCookies

JarAssumption ==
    /\ Aged \subseteq Names /\ IsFiniteSet(Savers)
    /\ MaxTime \in Nat \ {0} /\ MaxSets \in Nat

Session == 0                                  \* Expires is the zero time
Cookies == [name : Names, val : 1 .. MaxSets, exp : 0 .. MaxTime - 1]

\* What the file holds: nothing, a list that parses, or what does not parse
\* (an empty file included).
Absent == [kind |-> "absent", list |-> <<>>, served |-> {}]
Broken == [kind |-> "broken", list |-> <<>>, served |-> {}]
Written(snap) == [kind |-> "list", list |-> snap.list, served |-> snap.served]

VARIABLES
    now,
    inner,     \* jar.inner: a set of cookies
    entries,   \* jar.entries
    file,
    spc, snap, \* a Save and the entries it writes
    lpc, data, \* a Load and the entries it read
    sets

vars == <<now, inner, entries, file, spc, snap, lpc, data, sets>>
calls == <<spc, snap, lpc, data>>

Alive(c) == c.exp = Session \/ c.exp > now             \* for net/http
Active(e) == ~(e.exp # Session /\ e.exp < now)         \* for the list

Served == {c \in inner : Alive(c)}
PlainOnly(S) == {c \in S : c.name \notin Aged}

\* SetCookies of net/http: one that has expired removes its namesake.
InnerSet(jar, c) ==
    {d \in jar : d.name # c.name} \cup (IF Alive(c) THEN {c} ELSE {})

\* What is recorded of a cookie: its expiry, and no Max-Age.
cookieToEntry(n, exp) == [name |-> n, val |-> sets + 1, exp |-> exp]

\* The entries of a list that are in S, in their order, as a recursive function
\* (SelectSeq, about which the provers know nothing).
Sift(list, S) ==
    LET kept[i \in 0 .. Len(list)] ==
            IF i = 0 THEN <<>>
            ELSE IF list[i] \in S THEN Append(kept[i - 1], list[i]) ELSE kept[i - 1]
    IN  kept[Len(list)]

removeCookieEntry(list, n) == Sift(list, {d \in Cookies : d.name # n})
ActiveOf(list) == Sift(list, {e \in Cookies : Active(e)})

\* Fault: the entry of the same name stays.
trackCookiesAppend(list, e) == Append(list, e)

trackCookies(list, e) == Append(removeCookieEntry(list, e.name), e)

TypeOK ==
    /\ inner \subseteq Cookies /\ entries \in Seq(Cookies)
    /\ file.kind \in {"absent", "broken", "list"}
    /\ spc \in [Savers -> {"idle", "open", "write"}] /\ lpc \in {"idle", "apply"}

Init ==
    /\ now = 0 /\ inner = {} /\ entries = <<>> /\ file = Absent
    /\ spc = [s \in Savers |-> "idle"] /\ snap = [s \in Savers |-> Absent]
    /\ lpc = "idle" /\ data = Absent
    /\ sets = 0

\* A Set-Cookie with an expiry, past or to come, or none; Max-Age overrides it
\* in net/http: here it makes the cookie one to delete.
SetCookies(n, exp, maxAge) ==
    LET c == cookieToEntry(n, exp) IN
    /\ sets < MaxSets /\ sets' = sets + 1
    /\ maxAge => n \in Aged
    /\ inner' = IF maxAge THEN {d \in inner : d.name # n} ELSE InnerSet(inner, c)
    /\ entries' = trackCookies(entries, c)
    /\ UNCHANGED <<now, file, calls>>

Clear ==
    /\ inner' = {} /\ entries' = <<>>
    /\ UNCHANGED <<now, file, calls, sets>>

-----------------------------------------------------------------------------
(* Save: the active entries under the read lock, then os.WriteFile, which  *)
(* truncates the file when it opens it.                                    *)

SaveSnapshot(s) ==
    /\ spc[s] = "idle" /\ spc' = [spc EXCEPT ![s] = "open"]
    /\ snap' = [snap EXCEPT ![s] =
          [kind |-> "list", list |-> ActiveOf(entries), served |-> Served]]
    /\ UNCHANGED <<now, inner, entries, file, lpc, data, sets>>

SaveOpen(s) ==
    /\ spc[s] = "open"
    /\ \/ /\ spc' = [spc EXCEPT ![s] = "write"] /\ file' = Broken
          /\ UNCHANGED snap
       \/ /\ spc' = [spc EXCEPT ![s] = "idle"]     \* no directory or no file
          /\ snap' = [snap EXCEPT ![s] = Absent] /\ UNCHANGED file
    /\ UNCHANGED <<now, inner, entries, lpc, data, sets>>

\* Another Save may have written since this one truncated: what is longer than
\* the new list sticks out behind it.  The write may also fail in part.
SaveWrite(s) ==
    /\ spc[s] = "write" /\ spc' = [spc EXCEPT ![s] = "idle"]
    /\ file' \in {Written(snap[s]), Broken}
    /\ snap' = [snap EXCEPT ![s] = Absent]
    /\ UNCHANGED <<now, inner, entries, lpc, data, sets>>

-----------------------------------------------------------------------------
(* Load: reads the file without the lock.  One that is missing or does not *)
(* parse ends it and leaves the jar as it is.                              *)

\* A new jar of net/http, given the entries one by one.
Refilled(list) ==
    LET jar[i \in 0 .. Len(list)] == IF i = 0 THEN {} ELSE InnerSet(jar[i - 1], list[i])
    IN  jar[Len(list)]

LoadRead ==
    /\ lpc = "idle" /\ file.kind = "list"
    /\ lpc' = "apply" /\ data' = file
    /\ UNCHANGED <<now, inner, entries, file, spc, snap, sets>>

LoadApply ==
    LET list == ActiveOf(data.list) IN
    /\ lpc = "apply" /\ lpc' = "idle" /\ data' = Absent
    /\ inner' = Refilled(list)
    /\ entries' = list
    /\ UNCHANGED <<now, file, spc, snap, sets>>

\* The process dies, in whatever a Save had done to the file, and a new one
\* starts with an empty jar.
Restart ==
    /\ inner' = {} /\ entries' = <<>>
    /\ spc' = [s \in Savers |-> "idle"] /\ snap' = [s \in Savers |-> Absent]
    /\ lpc' = "idle" /\ data' = Absent
    /\ UNCHANGED <<now, file, sets>>

Tick ==
    /\ now < MaxTime /\ now' = now + 1
    /\ UNCHANGED <<inner, entries, file, calls, sets>>

Next ==
    \/ \E n \in Names, e \in 0 .. MaxTime - 1, a \in BOOLEAN : SetCookies(n, e, a)
    \/ Clear \/ LoadRead \/ LoadApply \/ Restart \/ Tick
    \/ \E s \in Savers : SaveSnapshot(s) \/ SaveOpen(s) \/ SaveWrite(s)

Spec == Init /\ [][Next]_vars

-----------------------------------------------------------------------------
(* Properties *)

\* The two stores do not drift apart: the entries that have not expired are
\* the cookies net/http serves, through replacements, deletions by expiry,
\* Clear and Load.
StoresAgree == PlainOnly({c \in Range(entries) : Alive(c)}) = PlainOnly(Served)

\* A Load brings back what was served when the file was saved, but for what
\* has expired since, whatever Saves raced for the file and wherever the
\* process died.
LoadRestores ==
    [][LoadApply =>
          PlainOnly(Served') = PlainOnly({c \in data.served : Alive(c)})]_vars

\* Both, and the types.
CookiesOK == [](TypeOK /\ StoresAgree) /\ LoadRestores

=============================================================================

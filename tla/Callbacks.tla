----------------------------- MODULE Callbacks -----------------------------
(***************************************************************************)
(* The callback lists of the engine (pkg/crawler/engine.go): OnRequest and *)
(* its siblings append under cbMu, and the fire functions hold the read    *)
(* lock while the callbacks run.  One list stands for the four, which are  *)
(* under the same lock; a callback is named after the goroutine that       *)
(* registers it.  Callbacks return and register nothing themselves (one    *)
(* that did would wait for the read lock of its own caller).               *)
(*                                                                         *)
(* sync.RWMutex is external: a Lock that waits for readers keeps new ones  *)
(* out, and other writers wait behind it.                                  *)
(***************************************************************************)
EXTENDS Integers, Sequences, FiniteSets

CONSTANTS
    Firers,      \* worker goroutines
    Registrars,  \* goroutines that call OnX
    Nobody

CallbacksAssumption == Nobody \notin Registrars

VARIABLES
    readers,  \* the workers that hold the read lock
    pending,  \* the registrar in Lock, or Nobody
    cbs,      \* the list
    gpc,      \* a registrar: "out", "lock", "locked" or "returned"
    fire,     \* a worker: the number of callbacks it has run, -1 between fires
    due       \* history: the callbacks a fire has to run

vars == <<readers, pending, cbs, gpc, fire, due>>

TypeOK ==
    /\ readers \subseteq Firers /\ pending \in Registrars \cup {Nobody}
    /\ cbs \in Seq(Registrars)
    /\ gpc \in [Registrars -> {"out", "lock", "locked", "returned"}]
    /\ fire \in [Firers -> Int] /\ due \in [Firers -> SUBSET Registrars]

Init ==
    /\ readers = {} /\ pending = Nobody /\ cbs = <<>>
    /\ gpc = [g \in Registrars |-> "out"]
    /\ fire = [w \in Firers |-> -1] /\ due = [w \in Firers |-> {}]

Returned == {g \in Registrars : gpc[g] = "returned"}

-----------------------------------------------------------------------------
(* OnX *)

RegisterCall(g) ==
    /\ gpc[g] = "out" /\ gpc' = [gpc EXCEPT ![g] = "lock"]
    /\ UNCHANGED <<readers, pending, cbs, fire, due>>

\* Lock announces itself, and from then on waits for readers only.
RegisterLock(g) ==
    /\ gpc[g] = "lock" /\ pending = Nobody
    /\ pending' = g /\ gpc' = [gpc EXCEPT ![g] = "locked"]
    /\ UNCHANGED <<readers, cbs, fire, due>>

\* Fault: the callback takes the place of those registered before.
RegisterAppendReplace(g) ==
    /\ gpc[g] = "locked" /\ readers = {}
    /\ cbs' = <<g>>
    /\ pending' = Nobody /\ gpc' = [gpc EXCEPT ![g] = "returned"]
    /\ UNCHANGED <<readers, fire, due>>

\* The lock is held: append and unlock.
RegisterAppend(g) ==
    /\ gpc[g] = "locked" /\ readers = {}
    /\ cbs' = Append(cbs, g)
    /\ pending' = Nobody /\ gpc' = [gpc EXCEPT ![g] = "returned"]
    /\ UNCHANGED <<readers, fire, due>>

-----------------------------------------------------------------------------
(* The fire functions *)

FireLock(w) ==
    /\ fire[w] = -1 /\ pending = Nobody
    /\ readers' = readers \cup {w} /\ fire' = [fire EXCEPT ![w] = 0]
    /\ due' = [due EXCEPT ![w] = Returned]
    /\ UNCHANGED <<pending, cbs, gpc>>

FireCallback(w) ==
    /\ w \in readers /\ fire[w] < Len(cbs)
    /\ due' = [due EXCEPT ![w] = @ \ {cbs[fire[w] + 1]}]
    /\ fire' = [fire EXCEPT ![w] = @ + 1]
    /\ UNCHANGED <<readers, pending, cbs, gpc>>

FireUnlock(w) ==
    /\ w \in readers /\ fire[w] = Len(cbs)
    /\ readers' = readers \ {w} /\ fire' = [fire EXCEPT ![w] = -1]
    /\ UNCHANGED <<pending, cbs, gpc, due>>

FireStep(w) == FireCallback(w) \/ FireUnlock(w)
RegisterStep(g) == RegisterLock(g) \/ RegisterAppend(g)

Next ==
    \/ \E g \in Registrars : RegisterCall(g) \/ RegisterStep(g)
    \/ \E w \in Firers : FireLock(w) \/ FireStep(w)

Spec == Init /\ [][Next]_vars

\* Goroutines run and callbacks return; the mutex hands itself to the writers
\* that wait for it, and nobody has to register or to fire.
Fairness ==
    /\ \A g \in Registrars : SF_vars(RegisterLock(g)) /\ WF_vars(RegisterAppend(g))
    /\ \A w \in Firers : WF_vars(FireStep(w))

-----------------------------------------------------------------------------
(* Properties *)

\* Between fires, no callback is left out that was registered when the last
\* one began.
FiresAll == \A w \in Firers : fire[w] = -1 => due[w] = {}

\* A registration returns while workers keep firing callbacks, and no fire
\* goes on for ever.
CallbacksProgress ==
    /\ \A g \in Registrars : gpc[g] = "lock" ~> gpc[g] = "returned"
    /\ \A w \in Firers : []<>(w \notin readers)

=============================================================================

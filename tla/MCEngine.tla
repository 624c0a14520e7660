------------------------------ MODULE MCEngine ------------------------------
(* Instances of the engine for TLC. *)
EXTENDS Engine, TLC

CONSTANTS r1, r2, r3, d1, d2

\* Two URLs of one host and one of another.
MCRequests == {r1, r2, r3}
MCDomainOf == [r \in MCRequests |-> IF r = r3 THEN d2 ELSE d1]

\* Two URLs of one host, for the liveness run.
MCTwoRequests == {r1, r2}
MCOneDomain == [r \in MCTwoRequests |-> d1]

Symmetry == Permutations(Workers) \cup Permutations({r1, r2})

=============================================================================

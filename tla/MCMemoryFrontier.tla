-------------------------- MODULE MCMemoryFrontier --------------------------
(* Instances of the in-memory frontier for TLC. *)
EXTENDS MemoryFrontier, TLC

CONSTANTS v1, v2, w1, url1, url2

\* v1 and v2 are two spellings of one URL, with different priorities.
MCCanonicalize == v1 :> url1 @@ v2 :> url1 @@ w1 :> url2
MCPriorityOf == v1 :> 2 @@ v2 :> 1 @@ w1 :> 1

\* A host may be denied while its URL is being added.
MCRules == {[match |-> {url2}, allow |-> FALSE]}

=============================================================================

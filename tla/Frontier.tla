------------------------------ MODULE Frontier ------------------------------
(***************************************************************************)
(* What a crawl frontier promises (pkg/frontier/frontier.go): every URL is *)
(* scheduled at most once, and each delivery is a pending entry of the     *)
(* smallest (priority, discovery time).                                    *)
(***************************************************************************)
CONSTANTS UrlOf(_), Less(_, _)

VARIABLES pending,    \* entries scheduled and not yet delivered
          delivered   \* URLs handed to a consumer

UrlsOf(S) == {UrlOf(e) : e \in S}

FrontierInit == pending = {} /\ delivered = {}

Admit(e) ==
    /\ UrlOf(e) \notin UrlsOf(pending) \cup delivered
    /\ pending' = pending \cup {e}
    /\ UNCHANGED delivered

Deliver(e) ==
    /\ e \in pending
    /\ \A f \in pending : ~Less(f, e)
    /\ pending' = pending \ {e}
    /\ delivered' = delivered \cup {UrlOf(e)}

FrontierNext == \/ \E e \in pending' \ pending : Admit(e)
                \/ \E e \in pending : Deliver(e)

FrontierSpec == FrontierInit /\ [][FrontierNext]_<<pending, delivered>>

=============================================================================

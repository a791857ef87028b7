---- MODULE MCEventQuery ----
(* Instances of EventQuery for TLC. *)
EXTENDS EventQuery

CONSTANTS e1, e2, e3, u, v

\* Two hours of one project; e2 shares its hour with e1.
MCEvent == {e1, e2, e3}
MCPart == (e1 :> 1) @@ (e2 :> 1) @@ (e3 :> 2)
MCProject == (1 :> 1) @@ (2 :> 1)
MCTs == (e1 :> 2) @@ (e2 :> 3) @@ (e3 :> 5)
MCUser == (e1 :> u) @@ (e2 :> v) @@ (e3 :> NoUser)
MCArrivals == <<e1, e2, e3>>

Ask(min, max, only, limit) ==
    [project |-> 1, min |-> min, max |-> max, only |-> only, limit |-> limit]

\* From the newest row of a segment on; up to the oldest; one issue, with room
\* for one event.
MCQueries == {Ask(3, 0, {}, 4), Ask(0, 2, {}, 4), Ask(0, 0, {e2, e3}, 1)}
====

---- MODULE Cluster ----
(***************************************************************************)
(* internal/cluster and the proxying of internal/api: each node builds a   *)
(* consistent-hash ring from its own view of the membership, and a request *)
(* for a project is proxied, node by node, to the owner in the view of the *)
(* node it is at.  Views may differ and change while a request is under    *)
(* way, and nothing limits the hops.  Every node on the way authenticates  *)
(* the request against the shared sessions and tokens.                     *)
(***************************************************************************)
EXTENDS Access, FiniteSets

CONSTANTS
    Node,    \* the nodes of the cluster
    Size,    \* hash values are 0..Size-1 (2^32 in the code)
    Hash,    \* the hashes of each node's virtual nodes
    KeyHash, \* hashes of the keys requests are for
    NoNode,  \* no owner
    Perm,    \* the permission the route of the requests declares
    MinView,      \* bound: members a node knows at least at first
    MaxRefreshes, \* bound: rebuilds of a ring
    MaxCrashes    \* bound: crashes of a node

\* Two virtual nodes of different nodes do not share a hash.
ASSUME ClusterAssumption ==
    /\ Size \in Nat /\ KeyHash \subseteq 0..Size - 1 /\ NoNode \notin Node
    /\ Hash \in [Node -> (SUBSET (0..Size - 1)) \ {{}}]
    /\ \A m, n \in Node : m # n => Hash[m] \cap Hash[n] = {}
    /\ MinView \in Nat /\ MaxRefreshes \in Nat /\ MaxCrashes \in Nat

VARIABLES
    ring,      \* m.ring of each node, as its set of nodes
    meta,      \* m.meta of each node
    rebuilt,   \* nodes whose refreshRing has set the ring and not yet the metadata
    up,        \* nodes that run
    refreshes, crashes, \* rebuilds and crashes so far
    pc,        \* where the request is in dispatch, or how it ended
    key,       \* its key's hash
    at,        \* the node it is at
    visited,   \* the nodes that proxied it
    owner,     \* the owner the node it is at looked up
    cred,      \* the session or token it carries
    steady,    \* the cluster had converged when it arrived, and no view differs since
    late       \* its credential was no longer valid when this node got it

viewVars == <<ring, meta, rebuilt, up, refreshes, crashes>>
requestVars == <<pc, key, at, visited, owner>>
authVars == <<cred, late>>
vars == <<viewVars, requestVars, authVars, steady, rows>>

----------------------------------------------------------------------------
(* The ring.                                                                 *)

Entries(view) == {e \in (0..Size - 1) \X view : e[1] \in Hash[e[2]]}

First(S) == CHOOSE e \in S : \A f \in S : e[1] <= f[1]

\* The node of the first entry at or after the key, around the ring.
OwnerFor(view, h) ==
    LET after == {e \in Entries(view) : e[1] >= h}
    IN  IF Entries(view) = {} THEN NoNode
        ELSE IF after = {} THEN First(Entries(view))[2] ELSE First(after)[2]

----------------------------------------------------------------------------
TypeOK ==
    /\ ring \in [Node -> SUBSET Node] /\ meta \in [Node -> SUBSET Node]
    /\ rebuilt \subseteq Node /\ up \subseteq Node /\ refreshes \in Nat /\ crashes \in Nat
    /\ pc \in {"none", "auth", "lookup", "address", "served", "denied", "failed"}
    /\ key \in KeyHash /\ at \in Node /\ visited \subseteq Node
    /\ owner \in Node \cup {NoNode} /\ steady \in BOOLEAN

AuthTypeOK == AccessTypeOK /\ cred \in Cred /\ late \in BOOLEAN

\* ml.Members() of node n, those whose metadata it has: gossip brings other
\* nodes in any order and takes them for gone, the node itself is among them.
Members(n) == {S \in SUBSET Node : n \in S}

Init ==
    /\ ring \in [Node -> SUBSET Node]
    /\ \A n \in Node : ring[n] \in Members(n) /\ Cardinality(ring[n]) >= MinView
    /\ meta = ring /\ rebuilt = {} /\ up = Node /\ refreshes = 0 /\ crashes = 0
    /\ pc = "none" /\ key \in KeyHash /\ at \in Node /\ visited = {} /\ owner = NoNode
    /\ steady = FALSE
    /\ AccessInit /\ cred \in Cred /\ late = FALSE

\* Mutant: a node leaves itself out of its ring.
RefreshRingOthers(n) ==
    /\ n \in up \ rebuilt /\ refreshes < MaxRefreshes
    /\ \E S \in Members(n) : ring' = [ring EXCEPT ![n] = S \ {n}]
    /\ rebuilt' = rebuilt \cup {n} /\ refreshes' = refreshes + 1
    /\ steady' = FALSE
    /\ UNCHANGED <<meta, up, crashes, requestVars, authVars, rows>>

\* Mutant: the addresses are emptied before they are collected again.
RefreshRingEmpties(n) ==
    /\ n \in up \ rebuilt /\ refreshes < MaxRefreshes
    /\ \E S \in Members(n) : ring' = [ring EXCEPT ![n] = S]
    /\ meta' = [meta EXCEPT ![n] = {}]
    /\ rebuilt' = rebuilt \cup {n} /\ refreshes' = refreshes + 1
    /\ steady' = (steady /\ ring' = ring)
    /\ UNCHANGED <<up, crashes, requestVars, authVars, rows>>

\* refreshRing, at every tick of refreshLoop: SetNodes, then the
\* metadata, under separate locks.
RefreshRing(n) ==
    /\ n \in up \ rebuilt /\ refreshes < MaxRefreshes
    /\ \E S \in Members(n) : ring' = [ring EXCEPT ![n] = S]
    /\ rebuilt' = rebuilt \cup {n} /\ refreshes' = refreshes + 1
    /\ steady' = (steady /\ ring' = ring)
    /\ UNCHANGED <<meta, up, crashes, requestVars, authVars, rows>>

RefreshMeta(n) ==
    /\ n \in rebuilt
    /\ meta' = [meta EXCEPT ![n] = ring[n]]
    /\ rebuilt' = rebuilt \ {n}
    /\ steady' = (steady /\ meta' = meta)
    /\ UNCHANGED <<ring, up, refreshes, crashes, requestVars, authVars, rows>>

UnderWay == pc \in {"auth", "lookup", "address"}

\* A crash takes a request the node is serving with it.
Crash(n) ==
    /\ n \in up /\ crashes < MaxCrashes
    /\ crashes' = crashes + 1
    /\ up' = up \ {n} /\ rebuilt' = rebuilt \ {n}
    /\ pc' = IF UnderWay /\ at = n THEN "failed" ELSE pc
    /\ steady' = FALSE
    /\ UNCHANGED <<ring, meta, refreshes, key, at, visited, owner, authVars, rows>>

\* Join: a ring of the node itself, until gossip brings the others.
Start(n) ==
    /\ n \in Node \ up
    /\ up' = up \cup {n}
    /\ ring' = [ring EXCEPT ![n] = {n}] /\ meta' = [meta EXCEPT ![n] = {n}]
    /\ steady' = FALSE
    /\ UNCHANGED <<rebuilt, refreshes, crashes, requestVars, authVars, rows>>

----------------------------------------------------------------------------
(* A request.                                                                *)

\* Every node that runs has the same ring, of the nodes that run.
Converged == rebuilt = {} /\ \A n \in up : ring[n] = up

\* A client sends a request with a credential it was given.
Arrive(n) ==
    /\ ~UnderWay /\ n \in up
    /\ key' \in KeyHash /\ cred' \in Issued
    /\ pc' = "auth" /\ at' = n /\ visited' = {} /\ owner' = NoNode
    /\ steady' = Converged /\ late' = ~Found(cred')
    /\ UNCHANGED <<viewVars, rows>>

\* Mutant: a proxied request is trusted.
AuthenticateFirst ==
    /\ pc = "auth"
    /\ pc' = IF visited # {} \/ (Found(cred) /\ CanProject(cred, Perm)) THEN "lookup" ELSE "denied"
    /\ UNCHANGED <<viewVars, key, at, visited, owner, authVars, steady, rows>>

\* dispatch up to the lookup of the owner: authenticate, Can and CanProject.
Authenticate ==
    /\ pc = "auth"
    /\ pc' = IF Found(cred) /\ CanProject(cred, Perm) THEN "lookup" ELSE "denied"
    /\ UNCHANGED <<viewVars, key, at, visited, owner, authVars, steady, rows>>

\* OwnerAddr, first half: no owner, or this node, is served here.
LookupOwner ==
    /\ pc = "lookup"
    /\ owner' = OwnerFor(ring[at], key)
    /\ pc' = IF owner' \in {NoNode, at} THEN "served" ELSE "address"
    /\ UNCHANGED <<viewVars, key, at, visited, authVars, steady, rows>>

\* Second half: an owner whose address is not known is served here too; else
\* the request goes to the owner, where dispatch starts over.
OwnerAddr ==
    /\ pc = "address"
    /\ \/ owner \notin meta[at] /\ pc' = "served" /\ UNCHANGED <<at, visited, late>>
       \/ /\ owner \in meta[at] /\ owner \notin up
          /\ pc' = "failed" /\ UNCHANGED <<at, visited, late>>
       \/ /\ owner \in meta[at] /\ owner \in up
          /\ pc' = "auth" /\ at' = owner /\ visited' = visited \cup {at}
          /\ late' = ~Found(cred)
    /\ UNCHANGED <<viewVars, key, owner, cred, steady, rows>>

Serve == Authenticate \/ LookupOwner \/ OwnerAddr

Membership == \E n \in Node :
    RefreshRing(n) \/ RefreshMeta(n) \/ Crash(n) \/ Start(n)

\* Logins, logouts, token requests and expiry, on any node.
ChangeAccess == AccessNext /\ UNCHANGED <<viewVars, requestVars, authVars, steady>>

Next == Membership \/ ChangeAccess \/ Serve \/ \E n \in Node : Arrive(n)

Spec == Init /\ [][Next]_vars

(* A node that has a request goes on with it.  Views need not settle.        *)
LiveSpec == Spec /\ WF_vars(Serve)

----------------------------------------------------------------------------
\* proxy has no hop limit, yet a request never comes back to a node that
\* proxied it, whatever the nodes' views and however they change on the way.
NoLoop == UnderWay \/ pc = "served" => at \notin visited

\* So every request is answered.
Answered == pc = "auth" ~> ~UnderWay

\* "every node computes identical ownership from the same gossip-converged
\* membership list" (SetNodes): in a converged cluster any node's request is
\* served by the owner, also while rings and addresses are being rebuilt from the
\* same members.
OwnerServes ==
    pc = "served" /\ steady => at = OwnerFor(up, key)

\* "the owning node re-authenticates and re-authorizes independently" (proxy):
\* a node serves no request that reached it after the session or token was
\* revoked or ran out, although a node before it had accepted it; and the user's
\* role and the token's own restriction both allow what is served.
ServedAllowed ==
    pc = "served" =>
        /\ ~late
        /\ Perm \in RolePermissions[rows[cred].user]
        /\ rows[cred].permissions # {} => Perm \in rows[cred].permissions
        /\ OrgOf[rows[cred].user] = ProjectOrg
====

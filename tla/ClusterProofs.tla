---- MODULE ClusterProofs ----
(***************************************************************************)
(* A proxied request never returns to a node, for any nodes, hashes and    *)
(* views, because every hop brings it closer to its key: a node is in its  *)
(* own ring, so an owner that is another node has a virtual node nearer,   *)
(* clockwise, than all of its own.                                         *)
(***************************************************************************)
EXTENDS Cluster, WellFoundedInduction, TLAPS

\* Leaves are tried with SMT, then with Zenon.
USE SMTT(30), Zenon

\* How far hash p is after the key's hash h, around the ring.
Clockwise(p, h) == IF p >= h THEN p - h ELSE (p + Size) - h

Closer(m, n, h) ==
    \E p \in Hash[m] : \A q \in Hash[n] : Clockwise(p, h) < Clockwise(q, h)

\* The inductive invariant: the node a request is at, and the owner it is about
\* to go to, are closer to the key than the nodes before.
RouteInv ==
    /\ TypeOK
    /\ \A n \in Node : n \in ring[n]
    /\ pc \in {"auth", "lookup", "address", "served"} => \A v \in visited : Closer(at, v, key)
    /\ pc = "address" => owner \in Node /\ Closer(owner, at, key)

\* Until a view changes, the views of a converged cluster stay the ring and the
\* metadata of the nodes that run, also between the two halves of refreshRing, and
\* an owner looked up in one is the owner in all of them.
SteadyInv ==
    /\ RouteInv
    /\ \A n \in up \ rebuilt : meta[n] = ring[n]
    /\ UnderWay => at \in up
    /\ steady => \A n \in up : ring[n] = up /\ meta[n] = up
    /\ steady /\ pc = "address" => owner = OwnerFor(up, key)
    /\ OwnerServes

\* Revocation and expiry are for good, so a credential that had ended when the
\* request came is still ended when the node looks it up.
AuthInv ==
    /\ AuthTypeOK
    /\ pc # "none" => rows[cred] # NoRow
    /\ pc = "auth" /\ late => ~rows[cred].valid
    /\ pc \in {"lookup", "address", "served"} => ~late /\ CanProject(cred, Perm)

\* Around the ring, the distance to a key is a total order.
LEMMA CloserTransitive ==
    ASSUME NEW a \in Node, NEW b \in Node, NEW c \in Node, NEW h \in KeyHash,
           Closer(a, b, h), Closer(b, c, h)
    PROVE  Closer(a, c, h)
<1>1. PICK p \in Hash[a] : \A q \in Hash[b] : Clockwise(p, h) < Clockwise(q, h)
  BY Zenon DEF Closer
<1>2. PICK q \in Hash[b] : \A r \in Hash[c] : Clockwise(q, h) < Clockwise(r, h)
  BY Zenon DEF Closer
<1>3. \A m \in Node : \A x \in Hash[m] : Clockwise(x, h) \in Int
  BY ClusterAssumption DEF Clockwise
<1>4. \A r \in Hash[c] : Clockwise(p, h) < Clockwise(r, h)
  <2> SUFFICES ASSUME NEW r \in Hash[c] PROVE Clockwise(p, h) < Clockwise(r, h)
    BY Zenon
  <2>1. Clockwise(p, h) < Clockwise(q, h) /\ Clockwise(q, h) < Clockwise(r, h)
    BY <1>1, <1>2, Zenon
  <2>2. Clockwise(p, h) \in Int /\ Clockwise(q, h) \in Int /\ Clockwise(r, h) \in Int
    BY <1>3, Zenon
  <2> QED BY <2>1, <2>2
<1> QED BY <1>4, Zenon DEF Closer

\* No node is closer than itself.
LEMMA CloserIrreflexive ==
    ASSUME NEW a \in Node, NEW h \in KeyHash
    PROVE  ~Closer(a, a, h)
<1>1. \A p \in Hash[a] : Clockwise(p, h) \in Int
  BY ClusterAssumption DEF Clockwise
<1>2. \A p \in Hash[a] : ~(Clockwise(p, h) < Clockwise(p, h))
  BY <1>1
<1> QED BY <1>2, Zenon DEF Closer

\* First takes an entry with the least hash.
LEMMA FirstIsLeast ==
    ASSUME NEW view \in SUBSET Node, NEW S \in SUBSET Entries(view), S # {}
    PROVE  First(S) \in S /\ \A f \in S : First(S)[1] <= f[1]
<1>1. \A e \in S : e[1] \in Nat
  BY ClusterAssumption DEF Entries
<1> DEFINE H == {e[1] : e \in S}
<1>2. H \subseteq Nat /\ H # {}
  BY <1>1, Zenon
<1>3. PICK m \in H : \A x \in Nat : <<x, m>> \in OpToRel(<, Nat) => x \notin H
  BY <1>2, NatLessThanWellFounded, WFMin, Zenon
<1>4. PICK e \in S : e[1] = m
  BY <1>3, Zenon
<1>5. \A f \in S : e[1] <= f[1]
  <2> SUFFICES ASSUME NEW f \in S, ~(e[1] <= f[1]) PROVE FALSE
    BY Zenon
  <2>1. f[1] \in Nat /\ m \in Nat /\ f[1] < m
    BY <1>1, <1>2, <1>4
  <2>2. <<f[1], m>> \in OpToRel(<, Nat)
    BY <2>1, Zenon DEF OpToRel
  <2>3. f[1] \in H
    BY Zenon
  <2> QED BY <1>3, <2>1, <2>2, <2>3, Zenon
<1> QED BY <1>5, Zenon DEF First

\* An owner other than the node itself is closer than the node.
LEMMA OwnerCloser ==
    ASSUME NEW view \in SUBSET Node, NEW n \in view, NEW h \in KeyHash,
           OwnerFor(view, h) # n
    PROVE  OwnerFor(view, h) \in view /\ Closer(OwnerFor(view, h), n, h)
<1> DEFINE E == Entries(view)
           after == {e \in E : e[1] >= h}
<1>0. Hash[n] \in SUBSET (0..Size - 1) /\ Hash[n] # {}
  BY ClusterAssumption, Zenon
<1>1. PICK x \in Hash[n] : x \in 0..Size - 1
  BY <1>0, Zenon
<1>2. <<x, n>> \in E
  BY <1>1, Zenon DEF Entries
<1>3. \A e \in E : /\ e[1] \in 0..Size - 1 /\ e[2] \in view /\ e[1] \in Hash[e[2]]
                   /\ e[2] \in Node
  BY Zenon DEF Entries
<1>4. \A q \in Hash[n] : q \in 0..Size - 1 /\ <<q, n>> \in E
  BY ClusterAssumption, Zenon DEF Entries
<1>5. h \in 0..Size - 1 /\ Size \in Nat
  BY ClusterAssumption, Zenon
<1>6. CASE after = {}
  <2> DEFINE o == First(E)
  <2>1. o \in E /\ \A f \in E : o[1] <= f[1]
    BY <1>2, FirstIsLeast, Zenon
  <2>2. OwnerFor(view, h) = o[2]
    BY <1>2, <1>6, Zenon DEF OwnerFor
  <2> HIDE DEF o
  <2>3. ASSUME NEW q \in Hash[n] PROVE Clockwise(o[1], h) < Clockwise(q, h)
    <3>1. q # o[1]
      BY <1>3, <2>1, <2>2, ClusterAssumption, Zenon
    <3>2. q \in Nat /\ o[1] <= q
      <4>1. <<q, n>>[1] = q /\ <<q, n>> \in E /\ q \in 0..Size - 1
        BY <1>4, Zenon
      <4>2. o[1] <= <<q, n>>[1]
        BY <2>1, <4>1, Zenon
      <4> QED BY <4>1, <4>2
    <3>3. \A e \in E : e[1] \in Nat /\ e[1] < h
      BY <1>3, <1>5, <1>6
    <3>4. o[1] < h /\ q < h /\ o[1] \in Nat
      <4>1. <<q, n>>[1] = q /\ <<q, n>> \in E
        BY <1>4, Zenon
      <4>2. <<q, n>>[1] < h
        BY <3>3, <4>1, Zenon
      <4> QED BY <2>1, <3>3, <4>1, <4>2, Zenon
    <3> QED BY <3>1, <3>2, <3>4, <1>5 DEF Clockwise
  <2> QED BY <1>3, <2>1, <2>2, <2>3, Zenon DEF Closer
<1>7. CASE after # {}
  <2> DEFINE o == First(after)
  <2>1. o \in after /\ \A f \in after : o[1] <= f[1]
    BY <1>7, FirstIsLeast, Zenon
  <2>2. OwnerFor(view, h) = o[2]
    BY <1>2, <1>7, Zenon DEF OwnerFor
  <2> HIDE DEF o
  <2>3. ASSUME NEW q \in Hash[n] PROVE Clockwise(o[1], h) < Clockwise(q, h)
    <3>1. q # o[1]
      BY <1>3, <2>1, <2>2, ClusterAssumption, Zenon
    <3>2. o[1] \in 0..Size - 1 /\ o[1] >= h /\ q \in 0..Size - 1
      BY <1>3, <1>4, <2>1, Zenon
    <3>3. q >= h => o[1] <= q
      <4>1. <<q, n>>[1] = q /\ <<q, n>> \in E
        BY <1>4, Zenon
      <4> QED BY <4>1, <2>1, Zenon
    <3> QED BY <3>1, <3>2, <3>3, <1>5 DEF Clockwise
  <2> QED BY <1>3, <2>1, <2>2, <2>3, Zenon DEF Closer
<1> QED BY <1>6, <1>7, Zenon

\* What the steps of the membership leave of the invariant: rings keep their node.
LEMMA MembershipStep ==
    ASSUME RouteInv, Membership
    PROVE  RouteInv'
<1>1. PICK n \in Node : RefreshRing(n) \/ RefreshMeta(n) \/ Crash(n) \/ Start(n)
  BY Zenon DEF Membership
<1>2. /\ key' = key /\ at' = at /\ visited' = visited /\ owner' = owner
      /\ steady' \in BOOLEAN /\ (pc' = pc \/ pc' = "failed")
  BY <1>1, Zenon DEF RefreshRing, RefreshMeta, Crash, Start, requestVars
<1>3. ring' \in [Node -> SUBSET Node] /\ \A m \in Node : m \in ring'[m]
  <2>1. CASE RefreshRing(n)
    <3>1. PICK S \in Members(n) : ring' = [ring EXCEPT ![n] = S]
      BY <2>1, Zenon DEF RefreshRing
    <3> QED BY <3>1, Zenon DEF Members, RouteInv, TypeOK
  <2>2. CASE RefreshMeta(n)
    BY <2>2, Zenon DEF RefreshMeta, RouteInv, TypeOK
  <2>3. CASE Crash(n)
    BY <2>3, Zenon DEF Crash, RouteInv, TypeOK
  <2>4. CASE Start(n)
    BY <2>4, Zenon DEF Start, RouteInv, TypeOK
  <2> QED BY <1>1, <2>1, <2>2, <2>3, <2>4, Zenon
<1>4. /\ meta' \in [Node -> SUBSET Node] /\ rebuilt' \subseteq Node /\ up' \subseteq Node
      /\ refreshes' \in Nat /\ crashes' \in Nat
  BY <1>1 DEF RefreshRing, RefreshMeta, Crash, Start, RouteInv, TypeOK
<1>5. TypeOK'
  BY <1>2, <1>3, <1>4, Zenon DEF RouteInv, TypeOK
<1> QED BY <1>2, <1>3, <1>5, Zenon DEF RouteInv

\* A new request has visited no node.
LEMMA ArriveStep ==
    ASSUME RouteInv, NEW n \in Node, Arrive(n)
    PROVE  RouteInv'
BY ClusterAssumption, Zenon DEF RouteInv, TypeOK, Arrive, viewVars, Converged

\* Authenticating leaves the request where it is.
LEMMA AuthenticateStep ==
    ASSUME RouteInv, Authenticate \/ ChangeAccess
    PROVE  RouteInv'
<1>1. /\ UNCHANGED <<viewVars, key, at, visited, owner, steady>>
      /\ pc' = pc \/ (pc' \in {"lookup", "denied"} /\ pc = "auth")
  BY Zenon DEF Authenticate, ChangeAccess, requestVars
<1> QED BY <1>1, Zenon DEF RouteInv, TypeOK, viewVars

\* The lookup finds this node or a closer one.
LEMMA LookupOwnerStep ==
    ASSUME RouteInv, LookupOwner
    PROVE  RouteInv'
<1>1. /\ ring[at] \in SUBSET Node /\ at \in ring[at] /\ at \in Node /\ key \in KeyHash
      /\ owner' = OwnerFor(ring[at], key)
      /\ pc' = IF owner' \in {NoNode, at} THEN "served" ELSE "address"
      /\ \A v \in visited : Closer(at, v, key)
  BY Zenon DEF RouteInv, TypeOK, LookupOwner
<1>2. owner' # at => owner' \in Node /\ Closer(owner', at, key)
  BY <1>1, OwnerCloser, Zenon
<1>3. owner' \in Node \cup {NoNode}
  BY <1>1, <1>2, Zenon
<1>4. TypeOK' /\ \A n \in Node : n \in ring'[n]
  BY <1>1, <1>3, Zenon DEF RouteInv, TypeOK, LookupOwner, viewVars
<1> QED BY <1>1, <1>2, <1>4, Zenon DEF RouteInv, LookupOwner

\* A hop goes to the closer node.
LEMMA OwnerAddrStep ==
    ASSUME RouteInv, OwnerAddr
    PROVE  RouteInv'
<1>1. /\ at \in Node /\ key \in KeyHash /\ owner \in Node /\ visited \subseteq Node
      /\ Closer(owner, at, key) /\ \A v \in visited : Closer(at, v, key)
  BY Zenon DEF RouteInv, TypeOK, OwnerAddr
<1>2. \A v \in visited \cup {at} : Closer(owner, v, key)
  BY <1>1, CloserTransitive, Zenon
<1>3. TypeOK' /\ \A n \in Node : n \in ring'[n]
  BY <1>1, Zenon DEF RouteInv, TypeOK, OwnerAddr, viewVars
<1>4. pc' \in {"auth", "served", "failed"} /\ key' = key
  BY Zenon DEF OwnerAddr
<1>5. pc' \in {"auth", "served"} => \A v \in visited' : Closer(at', v, key)
  BY <1>1, <1>2, Zenon DEF OwnerAddr
<1> QED BY <1>3, <1>4, <1>5, Zenon DEF RouteInv

\* Every step keeps the route of the request.
LEMMA RouteInvariance == Spec => []RouteInv
<1>1. Init => RouteInv
  <2> SUFFICES ASSUME Init PROVE RouteInv
    BY Zenon
  <2>1. TypeOK
    BY Zenon DEF Init, TypeOK
  <2>2. \A n \in Node : n \in ring[n]
    BY Zenon DEF Init, Members
  <2>3. pc = "none"
    BY Zenon DEF Init
  <2> QED BY <2>1, <2>2, <2>3, Zenon DEF RouteInv
<1>2. RouteInv /\ [Next]_vars => RouteInv'
  <2> SUFFICES ASSUME RouteInv, [Next]_vars PROVE RouteInv'
    BY Zenon
  <2>1. CASE UNCHANGED vars
    BY <2>1, Zenon DEF vars, viewVars, requestVars, RouteInv, TypeOK
  <2>2. CASE Next
    BY <2>2, MembershipStep, AuthenticateStep, ArriveStep, LookupOwnerStep, OwnerAddrStep, Zenon
       DEF Next, Serve
  <2> QED BY <2>1, <2>2, Zenon
<1> QED BY <1>1, <1>2, PTL DEF Spec

\* A proxied request never comes back to a node that proxied it (dispatch and
\* proxy in internal/api, OwnerAddr in internal/cluster).
THEOREM ProxyNoLoop == Spec => []NoLoop
<1>1. RouteInv => NoLoop
  BY CloserIrreflexive, Zenon DEF RouteInv, TypeOK, NoLoop, UnderWay
<1> QED BY <1>1, RouteInvariance, PTL

----------------------------------------------------------------------------
\* A step that changes a view ends the steady time, and a node that runs has the
\* metadata of its ring again once refreshRing is over.
LEMMA SteadyMembership ==
    ASSUME SteadyInv, RouteInv', Membership
    PROVE  SteadyInv'
<1>1. PICK n \in Node : RefreshRing(n) \/ RefreshMeta(n) \/ Crash(n) \/ Start(n)
  BY Zenon DEF Membership
<1>2. steady' => /\ steady
                 /\ UNCHANGED <<ring, meta, up, pc, key, at, owner>>
  <2>1. CASE RefreshRing(n)
    BY <2>1, Zenon DEF RefreshRing, requestVars
  <2>2. CASE RefreshMeta(n)
    BY <2>2, Zenon DEF RefreshMeta, requestVars
  <2>3. CASE Crash(n) \/ Start(n)
    BY <2>3, Zenon DEF Crash, Start
  <2> QED BY <1>1, <2>1, <2>2, <2>3, Zenon
<1>3. ring \in [Node -> SUBSET Node] /\ meta \in [Node -> SUBSET Node] /\ up \subseteq Node
  BY Zenon DEF SteadyInv, RouteInv, TypeOK
<1>4. \A m \in up' \ rebuilt' : meta'[m] = ring'[m]
  <2>1. CASE RefreshRing(n)
    <3>1. PICK S \in Members(n) : ring' = [ring EXCEPT ![n] = S]
      BY <2>1, Zenon DEF RefreshRing
    <3> QED BY <1>3, <2>1, <3>1, Zenon DEF RefreshRing, SteadyInv
  <2>2. CASE RefreshMeta(n)
    BY <1>3, <2>2, Zenon DEF RefreshMeta, SteadyInv
  <2>3. CASE Crash(n)
    BY <1>3, <2>3, Zenon DEF Crash, SteadyInv
  <2>4. CASE Start(n)
    BY <1>3, <2>4, ZenonT(60) DEF Start, SteadyInv
  <2> QED BY <1>1, <2>1, <2>2, <2>3, <2>4, Zenon
<1>5. UnderWay' => at' \in up'
  BY <1>1 DEF SteadyInv, UnderWay, RefreshRing, RefreshMeta, Crash, Start, requestVars
<1>6. /\ steady' => \A m \in up' : ring'[m] = up' /\ meta'[m] = up'
      /\ steady' /\ pc' = "address" => owner' = OwnerFor(up', key')
      /\ steady' /\ pc' = "served" => at' = OwnerFor(up', key')
  BY <1>2, Zenon DEF SteadyInv, OwnerServes
<1> QED BY <1>4, <1>5, <1>6, Zenon DEF SteadyInv, OwnerServes

\* A node of a converged cluster finds the owner of every other node's ring, and
\* that owner is a node that runs and whose address is known.
LEMMA SteadyServe ==
    ASSUME SteadyInv, RouteInv', Serve
    PROVE  SteadyInv'
<1>1. UNCHANGED <<viewVars, key, steady>>
  BY Zenon DEF Serve, Authenticate, LookupOwner, OwnerAddr
<1>2. /\ \A m \in up' \ rebuilt' : meta'[m] = ring'[m]
      /\ steady' => \A m \in up' : ring'[m] = up' /\ meta'[m] = up'
  BY <1>1, Zenon DEF SteadyInv, viewVars
<1>3. steady => /\ ring[at] = up /\ meta[at] = up /\ at \in up /\ up \in SUBSET Node
                /\ key \in KeyHash
  BY Zenon DEF SteadyInv, RouteInv, TypeOK, Serve, Authenticate, LookupOwner, OwnerAddr, UnderWay
<1>4. steady /\ OwnerFor(up, key) # at => OwnerFor(up, key) \in up
  BY <1>3, OwnerCloser, Zenon
<1>5. NoNode \notin Node
  BY ClusterAssumption, Zenon
<1>6. /\ UnderWay' => at' \in up'
      /\ steady' /\ pc' = "address" => owner' = OwnerFor(up, key)
      /\ steady' /\ pc' = "served" => at' = OwnerFor(up, key)
  <2>1. CASE Authenticate
    BY <1>1, <2>1, Zenon DEF Authenticate, SteadyInv, UnderWay, viewVars
  <2>2. CASE LookupOwner
    BY <1>1, <1>3, <1>4, <1>5, <2>2 DEF LookupOwner, SteadyInv, UnderWay, viewVars
  <2>3. CASE OwnerAddr
    BY <1>1, <1>3, <1>4, <2>3 DEF OwnerAddr, SteadyInv, RouteInv, UnderWay, viewVars
  <2> QED BY <2>1, <2>2, <2>3, Zenon DEF Serve
<1>7. up' = up /\ key' = key
  BY <1>1, Zenon DEF viewVars
<1> QED BY <1>2, <1>6, <1>7, Zenon DEF SteadyInv, OwnerServes

\* In a converged cluster a request is served by the owner of its key, whichever
\* node it was sent to and however often the nodes rebuild the same view meanwhile
\* ("every node computes identical ownership", SetNodes).
THEOREM OwnershipAgreed == Spec => []OwnerServes
<1>1. Init => SteadyInv \/ ~RouteInv
  BY Zenon DEF Init, SteadyInv, UnderWay, OwnerServes
<1>2. SteadyInv /\ RouteInv' /\ [Next]_vars => SteadyInv'
  <2> SUFFICES ASSUME SteadyInv, RouteInv', [Next]_vars PROVE SteadyInv'
    BY Zenon
  <2>1. CASE UNCHANGED vars \/ ChangeAccess
    BY <2>1 DEF vars, ChangeAccess, viewVars, requestVars, SteadyInv, UnderWay, OwnerServes
  <2>2. CASE \E n \in Node : Arrive(n)
    BY <2>2, Zenon DEF Arrive, viewVars, SteadyInv, UnderWay, Converged, OwnerServes
  <2> QED BY <2>1, <2>2, SteadyMembership, SteadyServe, Zenon DEF Next
<1>3. SteadyInv => OwnerServes
  BY Zenon DEF SteadyInv
<1> QED BY <1>1, <1>2, <1>3, RouteInvariance, PTL DEF Spec

----------------------------------------------------------------------------
\* A row that is there keeps its user and its permissions, and does not become
\* valid again.
LEMMA AccessStep ==
    ASSUME AccessTypeOK, AccessNext
    PROVE  /\ AccessTypeOK'
           /\ \A c \in Cred : rows[c] # NoRow =>
                /\ rows'[c] # NoRow /\ CanProject(c, Perm)' = CanProject(c, Perm)
                /\ ~rows[c].valid => ~rows'[c].valid
<1>1. PICK c \in Cred :
          \/ rows[c] = NoRow /\ \E r \in Row : rows' = [rows EXCEPT ![c] = r]
          \/ rows[c] # NoRow /\ rows' = [rows EXCEPT ![c].valid = FALSE]
  BY Zenon DEF AccessNext, CreateSession, CreateToken, RevokeSession, RevokeToken, Expire, Insert,
         End, Issued, Row
<1>2. CASE rows[c] = NoRow /\ \E r \in Row : rows' = [rows EXCEPT ![c] = r]
  <2>1. PICK r \in Row : rows' = [rows EXCEPT ![c] = r]
    BY <1>2, Zenon
  <2>2. AccessTypeOK' /\ \A d \in Cred : rows[d] # NoRow => rows'[d] = rows[d]
    BY <1>2, <2>1, Zenon DEF AccessTypeOK
  <2> QED BY <2>2, Zenon DEF CanProject, Perms
<1>3. CASE rows[c] # NoRow /\ rows' = [rows EXCEPT ![c].valid = FALSE]
  <2>1. rows[c] \in Row
    BY <1>3, Zenon DEF AccessTypeOK
  <2>2. rows'[c] = [rows[c] EXCEPT !.valid = FALSE] /\ rows'[c] \in Row
    BY <1>3, <2>1, Zenon DEF AccessTypeOK, Row
  <2>3. /\ rows'[c].user = rows[c].user /\ rows'[c].permissions = rows[c].permissions
        /\ ~rows'[c].valid
    BY <2>1, <2>2, Zenon DEF Row
  <2>4. AccessTypeOK' /\ \A d \in Cred \ {c} : rows'[d] = rows[d]
    BY <1>3, <2>2, Zenon DEF AccessTypeOK
  <2>5. NoRow \notin Row
    BY RowAssumption, Zenon
  <2> QED BY <2>2, <2>3, <2>4, <2>5, Zenon DEF CanProject, Perms
<1> QED BY <1>1, <1>2, <1>3, Zenon

\* Each step keeps what the nodes have found out about the credential.
LEMMA AuthStep ==
    ASSUME AuthInv, [Next]_vars
    PROVE  AuthInv'
<1> USE DEF AuthInv, AuthTypeOK
<1>1. CASE Membership
  <2>1. /\ UNCHANGED <<cred, late, rows>> /\ (pc' = pc \/ (pc' = "failed" /\ pc # "none"))
    BY <1>1, Zenon DEF Membership, RefreshRing, RefreshMeta, Crash, Start, requestVars, authVars,
                UnderWay
  <2> QED BY <2>1, Zenon DEF AccessTypeOK, CanProject, Perms
<1>2. CASE ChangeAccess
  <2>1. UNCHANGED <<cred, late, pc>>
    BY <1>2, Zenon DEF ChangeAccess, requestVars, authVars
  <2>2. /\ AccessTypeOK'
        /\ rows[cred] # NoRow => /\ rows'[cred] # NoRow
                                 /\ CanProject(cred, Perm)' = CanProject(cred, Perm)
                                 /\ ~rows[cred].valid => ~rows'[cred].valid
    BY <1>2, <2>1, AccessStep, Zenon DEF ChangeAccess, CanProject, Perms
  <2> QED BY <2>1, <2>2, Zenon
<1>3. CASE Authenticate
  <2>1. UNCHANGED <<cred, late, rows>> /\ pc = "auth" /\ pc' \in {"lookup", "denied"}
    BY <1>3, Zenon DEF Authenticate, authVars
  <2>2. pc' = "lookup" => rows[cred].valid /\ CanProject(cred, Perm)
    BY <1>3, Zenon DEF Authenticate, Found
  <2> QED BY <2>1, <2>2, Zenon DEF AccessTypeOK, CanProject, Perms
<1>4. CASE LookupOwner
  <2>1. UNCHANGED <<cred, late, rows>> /\ pc = "lookup" /\ pc' \in {"served", "address"}
    BY <1>4, Zenon DEF LookupOwner, authVars
  <2> QED BY <2>1, Zenon DEF AccessTypeOK, CanProject, Perms
<1>5. CASE OwnerAddr
  <2>1. /\ UNCHANGED <<cred, rows>> /\ pc = "address" /\ pc' \in {"served", "failed", "auth"}
        /\ pc' = "auth" => late' = ~Found(cred)
        /\ pc' # "auth" => late' = late
    BY <1>5, Zenon DEF OwnerAddr
  <2>2. pc' = "auth" /\ late' => ~rows[cred].valid
    BY <2>1, Zenon DEF Found, Issued
  <2>3. late' \in BOOLEAN
    BY <2>1, Zenon
  <2> QED BY <2>1, <2>2, <2>3 DEF AccessTypeOK, CanProject, Perms
<1>6. CASE \E n \in Node : Arrive(n)
  <2>1. /\ cred' \in Cred /\ rows[cred'] # NoRow /\ pc' = "auth" /\ rows' = rows
        /\ late' = ~(rows[cred'] # NoRow /\ rows[cred'].valid)
    BY <1>6, Zenon DEF Arrive, Issued, Found
  <2> QED BY <2>1, Zenon DEF AccessTypeOK
<1>7. CASE UNCHANGED vars
  <2>1. UNCHANGED <<pc, cred, late, rows>>
    BY <1>7, Zenon DEF vars, requestVars, authVars
  <2> QED BY <2>1, Zenon DEF AccessTypeOK, CanProject, Perms
<1> QED BY <1>1, <1>2, <1>3, <1>4, <1>5, <1>6, <1>7, Zenon DEF Next, Serve

\* A node serves only what the credential allowed when the request reached that
\* node (dispatch and authenticate), however many nodes accepted it before and
\* whatever is revoked on the way.
THEOREM ServesAllowed == Spec => []ServedAllowed
<1>1. Init => AuthInv
  BY Zenon DEF Init, AccessInit, AuthInv, AuthTypeOK, AccessTypeOK
<1>2. AuthInv /\ [Next]_vars => AuthInv'
  BY AuthStep, Zenon
<1>3. AuthInv => ServedAllowed
  BY Zenon DEF AuthInv, ServedAllowed, CanProject, Perms
<1> QED BY <1>1, <1>2, <1>3, PTL DEF Spec
====

---- MODULE MCCluster ----
(* Three nodes with interleaved virtual nodes. *)
EXTENDS Cluster, TLC

CONSTANTS n1, n2, n3, u1, u2, u3

MCNodes == {n1, n2, n3}
MCHash == n1 :> {0, 3} @@ n2 :> {2, 5} @@ n3 :> {1}
MCKey == {4}

\* u1 may do everything; u2 does not have the permission; u3 is of another
\* organisation.
MCRoles == u1 :> {"token:admin", "issue:read"} @@ u2 :> {"token:admin"} @@ u3 :> {"issue:read"}
MCOrg == u1 :> 1 @@ u2 :> 1 @@ u3 :> 2
====

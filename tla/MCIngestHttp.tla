---- MODULE MCIngestHttp ----
(* Two handlers, and three keys, two of them of one project. *)
EXTENDS IngestHttp, IngestProofs, TLC

CONSTANTS h1, h2, k1, k2, k3, p1, p2

MCProjectOf == (k1 :> p1) @@ (k2 :> p2) @@ (k3 :> p1)
Symmetry == Permutations({h1, h2}) \cup Permutations({k1, k3})
====

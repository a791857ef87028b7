---- MODULE MCWal ----
(* Instances of Wal for TLC: three clients are interchangeable.             *)
EXTENDS Wal, TLC

Symmetry == Permutations(Client)
====

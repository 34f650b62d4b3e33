---- MODULE MCResourcePartitions ----
(* ResourcePartitions, whose clients and values are all alike. *)
EXTENDS ResourcePartitions, TLC

Symmetry == Permutations(Client) \cup Permutations(Value)
====

---- MODULE MCDistributedLock ----
EXTENDS DistributedLock, TLC

Symmetry == Permutations(Client) \cup Permutations(Token)
====

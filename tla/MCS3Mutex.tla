---- MODULE MCS3Mutex ----
EXTENDS S3Mutex, TLC

Symmetry == Permutations(Client) \cup Permutations(LockId)
====

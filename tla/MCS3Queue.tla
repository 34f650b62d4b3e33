---- MODULE MCS3Queue ----
EXTENDS S3Queue, TLC

\* Every worker in a process of its own.
OwnProcess == [w \in Client |-> w]

\* Nothing is promised once a PUT has replaced what it had not read.
StillTold == ~clobbered

\* No worker keeps the message's lock longer than lockTTL.
LockHeld == ~lapsed

Symmetry == Permutations(Client)
====

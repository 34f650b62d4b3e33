---- MODULE MCMetadataUpload ----
EXTENDS MetadataUpload, TLC

CONSTANTS a, b, x

\* An attribute goes and another one comes in front; later it comes back.
Lists == {<<a, b>>, <<x, b>>}

\* Nothing is promised after an upload without its lock's protection.
StillPromised == ~overtaken /\ ~unguarded /\ (raced => \A u \in used : u[1] < 2)

Symmetry == Permutations(Client) \cup Permutations(LockId)
====

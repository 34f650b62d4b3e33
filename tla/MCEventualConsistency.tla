---- MODULE MCEventualConsistency ----
(* EventualConsistency with a set() and then an addition, and then a set().*)
EXTENDS EventualConsistency, TLC

CONSTANTS plus, assign, later

MCTxn == {plus, assign}
MCTxns == {plus, assign, later}
MCOp == [t \in Txn |-> IF t = plus THEN "add" ELSE "set"]
MCStamp == [t \in Txn |-> IF t = assign THEN 1 ELSE IF t = plus THEN 2 ELSE 3]
Symmetry == Permutations(Client) \cup Permutations(Ticket)
====

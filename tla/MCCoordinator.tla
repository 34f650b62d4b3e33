---- MODULE MCCoordinator ----
(***************************************************************************)
(* GlobalCoordinator with at most Budget disturbances: starts, stops,      *)
(* crashes, subscriptions, failing calls, heartbeats that outlive their    *)
(* mutex, and heartbeats so late that a running worker's registration      *)
(* lapses.                                                                 *)
(***************************************************************************)
EXTENDS GlobalCoordinator, TLC

CONSTANT Budget

\* The second service's heartbeats may overlap.
MCHeartbeat == {<<1, 1>>, <<2, 1>>, <<2, 2>>}

VARIABLE budget

\* Heartbeats come several times in workerTimeout.
Punctual == \A p \in Service : running[p] => \A w \in Workers(p) : reg[w] # 1

BudgetInit == CoordinatorInit /\ budget = Budget

Undisturbed ==
  \/ \E h \in Heartbeat : Proceed(h)
  \/ \E w \in Worker : Sweep(w)
  \/ Punctual /\ Tick

Disturbed ==
  \/ Disturb
  \/ ~Punctual /\ Tick

BudgetNext ==
  \/ Undisturbed /\ UNCHANGED budget
  \/ budget > 0 /\ Disturbed /\ budget' = budget - 1

\* Timers and the event loop go on, deletions are sent, time passes.
Fairness ==
  /\ \A h \in Heartbeat : WF_coordinatorVars(Proceed(h))
  /\ \A w \in Worker : WF_coordinatorVars(Sweep(w))
  /\ WF_coordinatorVars(Punctual /\ Tick)

BudgetSpec == BudgetInit /\ [][BudgetNext]_<<coordinatorVars, budget>> /\ Fairness
====

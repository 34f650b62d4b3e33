---- MODULE LeasedMutex ----
(***************************************************************************)
(* What concerns/distributed-lock.ts promises its callers: a mutex whose   *)
(* exclusion lasts until a lease lapses.  A lock record carries a TTL and  *)
(* nobody tells its holder when it runs out, so once a lease has lapsed    *)
(* (or a record could not be read) the promise is gone and any caller may  *)
(* enter.                                                                  *)
(***************************************************************************)
CONSTANT Client

VARIABLES
  holders,   \* the callers inside the critical section
  lapsed     \* has some lease run out, or some record been unreadable, so far?

vars == <<holders, lapsed>>

Init == holders = {} /\ lapsed = FALSE

Enter(c) ==
  /\ c \notin holders
  /\ holders = {} \/ lapsed
  /\ holders' = holders \cup {c}
  /\ UNCHANGED lapsed

\* The lease ran out while the record was on its way to the store.
EnterLate(c) ==
  /\ c \notin holders
  /\ holders' = holders \cup {c}
  /\ lapsed' = TRUE

Leave(c) ==
  /\ c \in holders
  /\ holders' = holders \ {c}
  /\ UNCHANGED lapsed

Lapse == ~lapsed /\ lapsed' = TRUE /\ UNCHANGED holders

Next ==
  \/ \E c \in Client : Enter(c) \/ EnterLate(c) \/ Leave(c)
  \/ Lapse

Spec == Init /\ [][Next]_vars
====

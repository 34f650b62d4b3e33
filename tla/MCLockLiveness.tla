---- MODULE MCLockLiveness ----
(***************************************************************************)
(* DistributedLock when crashes, failing reads and calls of isLocked() are *)
(* finitely many: from some moment on it is calm, and the lock is left to  *)
(* its callers.                                                            *)
(***************************************************************************)
EXTENDS DistributedLock

VARIABLE calm

CalmInit == Init /\ calm = FALSE

CalmNext ==
  \/ /\ \/ \E c \in Client : StartAcquire(c) \/ Proceed(c)
        \/ Tick
     /\ UNCHANGED calm
  \/ ~calm /\ UNCHANGED calm /\ \E c \in Client : Disturb(c)
  \/ ~calm /\ calm' = TRUE /\ UNCHANGED vars

(***************************************************************************)
(* The event loop and the clock: a client that has started a call goes on, *)
(* its callback returns, time passes.  Clients keep calling acquire(), and *)
(* at least now and then the store answers a PUT before the caller's       *)
(* timeout is over (seconds, against milliseconds of latency).             *)
(***************************************************************************)
Fairness ==
  /\ WF_vars(Tick)
  /\ WF_calm(calm' = TRUE /\ UNCHANGED vars)
  /\ \A c \in Client :
       /\ WF_vars(Proceed(c))
       /\ WF_vars(StartAcquire(c))
       /\ SF_vars(PutLoses(c) /\ wait[c] > 0)

CalmSpec == CalmInit /\ [][CalmNext]_<<vars, calm>> /\ Fairness
====

---- MODULE TasksPool ----
(***************************************************************************)
(* TasksPool (src/src/tasks/tasks-pool.class.ts): functions are queued and *)
(* run a limited number at a time; a pool can be paused, resumed, stopped, *)
(* drained, and its limit changed while it runs.  A pool's profile         *)
(* ("balanced", "light" or "bare") decides which of three loops takes      *)
(* tasks from the queue, and how running tasks are counted.                *)
(*                                                                         *)
(* A task's end is spread over several microtasks: first its promise       *)
(* settles, then the pool counts it as ended, wakes those that wait and    *)
(* takes the next.  Anything may happen in between.  The order of the      *)
(* queue (first in, first out; or priorities that age) is left open, and   *)
(* so is why an attempt fails (an error, or its timeout).                  *)
(***************************************************************************)
EXTENDS Naturals, FiniteSets

CONSTANTS
  Task,
  Profile,   \* the profiles to consider
  Limit,     \* the values of concurrency
  Retries    \* task.retries

ASSUME PoolAssumption ==
  /\ IsFiniteSet(Task)
  /\ Profile \subseteq {"balanced", "light", "bare"}
  /\ Limit \subseteq Nat \ {0}
  /\ Retries \in Nat

VARIABLES
  profile,
  state,     \* how far each task has come
  retried,   \* how often each task has been tried again
  settled,   \* how often each task's promise has been resolved or rejected
  limit,     \* effectiveConcurrency
  paused,
  stopped,
  pauser,    \* a call of pause(): between two steps, waiting, or over
  drainer    \* a call of drain()

poolVars == <<profile, state, retried, settled, limit, paused, stopped, pauser, drainer>>

(***************************************************************************)
(* A task that has left the queue runs, sleeps before its next attempt,    *)
(* has ended (its result is there), is completing (its promise is settled) *)
(* and is done.                                                            *)
(***************************************************************************)
TaskState == {"new", "queued", "running", "sleeping", "ended", "completing", "done", "cancelled"}
Executing == {"running", "sleeping", "ended"}
Caller == {"none", "looping", "waiting", "returned"}

Queued(st) == {t \in Task : st[t] = "queued"}

\* Mutant of Active: a task that sleeps before its next attempt does not count.
AwakeOnly(st) == {t \in Task : st[t] \in {"running", "ended"} \/ (st[t] = "completing" /\ profile # "balanced")}

\* _currentActiveCount(): the map of active tasks, from which a task is deleted
\* before its promise settles, or the counter of the light loops, afterwards.
Active(st) == {t \in Task : st[t] \in Executing \/ (st[t] = "completing" /\ profile # "balanced")}

\* drain() finds no running task but a queue, and never lets go of the event loop.
Spinning ==
  /\ drainer = "looping"
  /\ Active(state) = {} /\ Queued(state) # {}
  /\ \A t \in Task : state[t] # "completing"

----------------------------------------------------------------------------
\* As many tasks as there is room for.
Fills(st, S) ==
  /\ S \subseteq Queued(st)
  /\ S # {} => Cardinality(Active(st) \cup S) <= limit'
  /\ S = Queued(st) \/ Cardinality(Active(st) \cup S) >= limit'

TakeFrom(st) ==
  \E S \in SUBSET Task :
    Fills(st, S) /\ state' = [t \in Task |-> IF t \in S THEN "running" ELSE st[t]]

\* processNext(), when the tasks are in the states st.
ProcessNext(st) == IF paused' \/ stopped' THEN state' = st ELSE TakeFrom(st)

\* enqueue(), addBatch() and process(): a task that has not been taken yet.
Enqueue(t) ==
  /\ state[t] = "new" /\ ~Spinning
  /\ UNCHANGED <<profile, retried, settled, limit, paused, stopped, pauser, drainer>>
  /\ ProcessNext([state EXCEPT ![t] = "queued"])

\* Mutant of Fails: a task may be tried again any number of times.
FailsForEver(t) ==
  /\ state[t] = "running" /\ ~Spinning
  /\ state' = [state EXCEPT ![t] = "sleeping"]
  /\ UNCHANGED <<profile, retried, settled, limit, paused, stopped, pauser, drainer>>

\* An attempt fails: the next one follows if the error is retryable and the
\* pool is not overloaded; bare pools have no retries.
Fails(t) ==
  /\ state[t] = "running" /\ ~Spinning
  /\ \/ state' = [state EXCEPT ![t] = "ended"]
     \/ /\ profile # "bare" /\ retried[t] < Retries
        /\ state' = [state EXCEPT ![t] = "sleeping"]
  /\ UNCHANGED <<profile, retried, settled, limit, paused, stopped, pauser, drainer>>

Succeeds(t) ==
  /\ state[t] = "running" /\ ~Spinning
  /\ state' = [state EXCEPT ![t] = "ended"]
  /\ UNCHANGED <<profile, retried, settled, limit, paused, stopped, pauser, drainer>>

\* The delay is over, whether the pool is paused or stopped.
Wakes(t) ==
  /\ state[t] = "sleeping" /\ ~Spinning
  /\ state' = [state EXCEPT ![t] = "running"]
  /\ retried' = [retried EXCEPT ![t] = @ + 1]
  /\ UNCHANGED <<profile, settled, limit, paused, stopped, pauser, drainer>>

\* then() or catch() of the task's promise.
Complete(t) ==
  /\ state[t] = "ended"
  /\ state' = [state EXCEPT ![t] = "completing"]
  /\ settled' = [settled EXCEPT ![t] = @ + 1]
  /\ UNCHANGED <<profile, retried, limit, paused, stopped, pauser, drainer>>

\* Mutant of Notified: nobody is woken.
NotifiedNobody(caller) == caller

\* _notifyActiveWaiters()
Notified(caller) == IF caller = "waiting" THEN "looping" ELSE caller

\* Mutant of Finish: the balanced loop, too, takes the next task whether the
\* pool is paused.
FinishAlways(t) ==
  /\ state[t] = "completing"
  /\ pauser' = Notified(pauser) /\ drainer' = Notified(drainer)
  /\ UNCHANGED <<profile, retried, settled, limit, paused, stopped>>
  /\ TakeFrom([state EXCEPT ![t] = "done"])

\* Mutant of Finish: the next task is not taken.
FinishOnly(t) ==
  /\ state[t] = "completing"
  /\ pauser' = Notified(pauser) /\ drainer' = Notified(drainer)
  /\ state' = [state EXCEPT ![t] = "done"]
  /\ UNCHANGED <<profile, retried, settled, limit, paused, stopped>>

\* finally() of the task's promise.  The bare loop calls itself, and so looks
\* neither at paused nor at stopped.
Finish(t) ==
  /\ state[t] = "completing"
  /\ pauser' = Notified(pauser) /\ drainer' = Notified(drainer)
  /\ UNCHANGED <<profile, retried, settled, limit, paused, stopped>>
  /\ LET st == [state EXCEPT ![t] = "done"]
     IN IF profile = "bare" THEN TakeFrom(st) ELSE ProcessNext(st)

----------------------------------------------------------------------------
Pause ==
  /\ pauser \in {"none", "returned"} /\ ~Spinning
  /\ paused' = TRUE
  /\ pauser' = "looping"
  /\ UNCHANGED <<profile, state, retried, settled, limit, stopped, drainer>>

\* pause() looks at the map of active tasks, which only balanced pools use.
PauseLooks ==
  /\ pauser = "looping"
  /\ pauser' = IF profile = "balanced" /\ Active(state) # {} THEN "waiting" ELSE "returned"
  /\ UNCHANGED <<profile, state, retried, settled, limit, paused, stopped, drainer>>

\* Mutant of Resume: without processNext().
ResumeOnly ==
  /\ ~Spinning
  /\ paused' = FALSE
  /\ UNCHANGED <<profile, state, retried, settled, limit, stopped, pauser, drainer>>

Resume ==
  /\ ~Spinning
  /\ paused' = FALSE
  /\ UNCHANGED <<profile, retried, settled, limit, stopped, pauser, drainer>>
  /\ ProcessNext(state)

\* Mutant of Stop: running tasks are rejected as well.
StopAll ==
  /\ ~stopped /\ ~Spinning
  /\ stopped' = TRUE
  /\ state' = [t \in Task |-> IF state[t] = "queued" THEN "cancelled" ELSE state[t]]
  /\ settled' = [t \in Task |-> IF state[t] \in {"queued", "running"} THEN settled[t] + 1 ELSE settled[t]]
  /\ UNCHANGED <<profile, retried, limit, paused, pauser, drainer>>

\* stop() rejects what is in the queue, and ends the delays of active tasks; a
\* running function need not look at its signal.
Stop ==
  /\ ~stopped /\ ~Spinning
  /\ stopped' = TRUE
  /\ state' = [t \in Task |-> IF state[t] = "queued" THEN "cancelled"
                              ELSE IF state[t] = "sleeping" /\ profile = "balanced" THEN "ended" ELSE state[t]]
  /\ settled' = [t \in Task |-> IF state[t] = "queued" THEN settled[t] + 1 ELSE settled[t]]
  /\ UNCHANGED <<profile, retried, limit, paused, pauser, drainer>>

SetConcurrency(n) ==
  /\ ~Spinning
  /\ limit' = n
  /\ UNCHANGED <<profile, retried, settled, paused, stopped, pauser, drainer>>
  /\ ProcessNext(state)

Drain ==
  /\ drainer \in {"none", "returned"}
  /\ drainer' = "looping"
  /\ UNCHANGED <<profile, state, retried, settled, limit, paused, stopped, pauser>>

\* Mutant of DrainLooks: drain() waits for the queue's end although no task is
\* left to wake it.
DrainWaits ==
  /\ drainer = "looping"
  /\ drainer' = "waiting"
  /\ UNCHANGED <<profile, state, retried, settled, limit, paused, stopped, pauser>>

\* drain() looks again at once if there is a queue and no running task.
DrainLooks ==
  /\ drainer = "looping"
  /\ drainer' = IF Active(state) # {} THEN "waiting"
                ELSE IF Queued(state) # {} THEN "looping" ELSE "returned"
  /\ UNCHANGED <<profile, state, retried, settled, limit, paused, stopped, pauser>>

----------------------------------------------------------------------------
PoolInit ==
  /\ profile \in Profile
  /\ state = [t \in Task |-> "new"]
  /\ retried = [t \in Task |-> 0]
  /\ settled = [t \in Task |-> 0]
  /\ limit \in Limit
  /\ paused = FALSE /\ stopped = FALSE
  /\ pauser = "none" /\ drainer = "none"

\* The steps of one task that the pool and its function take.
Run(t) == Succeeds(t) \/ Fails(t) \/ Wakes(t) \/ Complete(t) \/ Finish(t)

PoolNext ==
  \/ \E t \in Task : Enqueue(t) \/ Run(t)
  \/ Pause \/ PauseLooks \/ Resume \/ Stop
  \/ \E n \in Limit : SetConcurrency(n)
  \/ Drain \/ DrainLooks

PoolSpec == PoolInit /\ [][PoolNext]_poolVars

(***************************************************************************)
(* Functions end, by themselves or by their timeout; timers fire and       *)
(* microtasks run.  Nobody need resume a pool.                             *)
(***************************************************************************)
FairPoolSpec ==
  /\ PoolSpec
  /\ \A t \in Task : WF_poolVars(Run(t))
  /\ WF_poolVars(PauseLooks) /\ WF_poolVars(DrainLooks)

----------------------------------------------------------------------------
(* Every variable stays in its type; above all no task is tried more often *)
(* than its retries allow.                                                 *)
PoolTypeOK ==
  /\ profile \in Profile
  /\ state \in [Task -> TaskState]
  /\ retried \in [Task -> 0 .. Retries]
  /\ settled \in [Task -> Nat]
  /\ limit \in Limit
  /\ paused \in BOOLEAN /\ stopped \in BOOLEAN
  /\ pauser \in Caller /\ drainer \in Caller

(***************************************************************************)
(* A task's promise is resolved or rejected once: by its own end or by     *)
(* stop(), never by both, and by stop() only if the task never started.    *)
(***************************************************************************)
SettledOnce ==
  \A t \in Task : settled[t] = IF state[t] \in {"completing", "done", "cancelled"} THEN 1 ELSE 0

(***************************************************************************)
(* No wakeup is lost: when a pool that is neither paused nor stopped has a *)
(* queue, then its limit is reached or the end of a task is about to take  *)
(* the next one.                                                           *)
(***************************************************************************)
NoLostWakeup ==
  Queued(state) # {} /\ ~paused /\ ~stopped =>
    Cardinality(Active(state)) >= limit \/ \E t \in Task : state[t] = "completing"

(***************************************************************************)
(* Once pause() of a balanced pool has returned, nothing runs until        *)
(* resume() is called: neither what was queued nor what is enqueued later, *)
(* nor another attempt of a task.                                          *)
(***************************************************************************)
PausedIsQuiet ==
  profile = "balanced" /\ paused /\ pauser = "returned" => \A t \in Task : state[t] \notin Executing

(***************************************************************************)
(* A task starts only if with it no more tasks than the limit have started *)
(* and not ended, those that wait for their next attempt included,         *)
(* whichever of the loops starts it and however the limit has changed.     *)
(***************************************************************************)
StartsWithinLimit ==
  [][(\E t \in Task : state[t] \in {"new", "queued"} /\ state'[t] = "running")
       => Cardinality({t \in Task : state'[t] \in Executing}) <= limit']_poolVars

(***************************************************************************)
(* A task in the queue settles in the end, unless the pool is paused or    *)
(* stopped.                                                                *)
(***************************************************************************)
QueuedTasksSettle == \A t \in Task : state[t] = "queued" ~> (settled[t] > 0 \/ paused \/ stopped)

(***************************************************************************)
(* drain() returns, in particular when it follows stop() as in destroy(),  *)
(* unless the pool has a queue that it may not touch, being paused or      *)
(* stopped.                                                                *)
(***************************************************************************)
DrainReturns == drainer = "looping" ~> (drainer = "returned" \/ ((paused \/ stopped) /\ Queued(state) # {}))

\* pause() returns, whether the pool is resumed in between.
PauseReturns == pauser = "looping" ~> pauser = "returned"
====

---- MODULE TasksPool_proofs ----
(***************************************************************************)
(* Proofs about TasksPool for any finite number of tasks, any limits, any  *)
(* number of retries and every profile.                                    *)
(***************************************************************************)
EXTENDS TasksPool, FiniteSetTheorems, TLAPS

----------------------------------------------------------------------------
(* What processNext() does to tasks that are in the states st.             *)

States == [Task -> TaskState]

\* A task stays as it is, or leaves the queue and runs.
Moves(st) == \A t \in Task : state'[t] = st[t] \/ (st[t] = "queued" /\ state'[t] = "running")

LEMMA TakeFromMoves ==
  ASSUME NEW st \in States, TakeFrom(st)
  PROVE  state' \in States /\ Moves(st)
  <1>1. PICK S \in SUBSET Task :
          Fills(st, S) /\ state' = [t \in Task |-> IF t \in S THEN "running" ELSE st[t]]
    BY DEF TakeFrom
  <1>2. \A t \in S : st[t] = "queued"
    BY <1>1 DEF Fills, Queued
  <1> QED
    BY <1>1, <1>2 DEF States, TaskState, Moves

LEMMA ProcessNextMoves ==
  ASSUME NEW st \in States, ProcessNext(st)
  PROVE  state' \in States /\ Moves(st)
  <1>1. CASE paused' \/ stopped'
    BY <1>1 DEF ProcessNext, Moves
  <1>2. CASE ~(paused' \/ stopped')
    BY <1>2, TakeFromMoves DEF ProcessNext
  <1> QED
    BY <1>1, <1>2

\* The loop goes on until the queue is empty or the limit is reached.
LEMMA TakeFromFills ==
  ASSUME NEW st \in States, TakeFrom(st), profile' = profile
  PROVE  Queued(state)' = {} \/ Cardinality(Active(state)') >= limit'
  <1>1. PICK S \in SUBSET Task :
          Fills(st, S) /\ state' = [t \in Task |-> IF t \in S THEN "running" ELSE st[t]]
    BY DEF TakeFrom
  <1>2. \A t \in S : st[t] = "queued"
    BY <1>1 DEF Fills, Queued
  <1>3. Active(state)' = Active(st) \cup S
    BY <1>1, <1>2 DEF Active, Executing, States
  <1>4. CASE S = Queued(st)
    BY <1>1, <1>4 DEF Queued
  <1>5. CASE Cardinality(Active(st) \cup S) >= limit'
    BY <1>3, <1>5
  <1> QED
    BY <1>1, <1>4, <1>5 DEF Fills

\* It stops at the limit.
LEMMA TakeFromStops ==
  ASSUME NEW st \in States, TakeFrom(st), limit' \in Nat,
         NEW u \in Task, st[u] # "running", state'[u] = "running"
  PROVE  Cardinality({t \in Task : state'[t] \in Executing}) <= limit'
  <1>1. PICK S \in SUBSET Task :
          Fills(st, S) /\ state' = [t \in Task |-> IF t \in S THEN "running" ELSE st[t]]
    BY DEF TakeFrom
  <1> DEFINE Now == {t \in Task : state'[t] \in Executing}
             Room == Active(st) \cup S
  <1>2. u \in S
    BY <1>1
  <1>3. Cardinality(Room) <= limit'
    BY <1>1, <1>2 DEF Fills
  <1>4. Now \subseteq Room /\ Room \subseteq Task
    BY <1>1 DEF Active
  <1>5. IsFiniteSet(Room)
    BY <1>4, PoolAssumption, FS_Subset
  <1>6. Cardinality(Now) <= Cardinality(Room)
    BY <1>4, <1>5, FS_Subset
  <1>7. IsFiniteSet(Now)
    BY <1>4, <1>5, FS_Subset
  <1>8. Cardinality(Now) \in Nat /\ Cardinality(Room) \in Nat
    BY <1>5, <1>7, FS_CardinalityType
  <1> QED
    BY <1>3, <1>6, <1>8

----------------------------------------------------------------------------
(* The two actions that look at the queue with one task changed.           *)

Enqueued(t) == [state EXCEPT ![t] = "queued"]
Finished(t) == [state EXCEPT ![t] = "done"]

LEMMA ChangedStates ==
  ASSUME PoolTypeOK, NEW t \in Task
  PROVE  state \in States /\ Enqueued(t) \in States /\ Finished(t) \in States
  BY DEF PoolTypeOK, States, TaskState, Enqueued, Finished

LEMMA EnqueueMoves ==
  ASSUME PoolTypeOK, NEW t \in Task, Enqueue(t)
  PROVE  state' \in States /\ Moves(Enqueued(t))
  <1>1. ProcessNext(Enqueued(t))
    BY DEF Enqueue, Enqueued
  <1> QED
    BY <1>1, ChangedStates, ProcessNextMoves

LEMMA FinishMoves ==
  ASSUME PoolTypeOK, NEW t \in Task, Finish(t)
  PROVE  state' \in States /\ Moves(Finished(t))
  <1>1. TakeFrom(Finished(t)) \/ ProcessNext(Finished(t))
    BY DEF Finish, Finished
  <1> QED
    BY <1>1, ChangedStates, ProcessNextMoves, TakeFromMoves

LEMMA PassMoves ==
  ASSUME PoolTypeOK, ProcessNext(state)
  PROVE  state' \in States /\ Moves(state)
  BY ProcessNextMoves DEF PoolTypeOK, States

----------------------------------------------------------------------------
(* Types, and why no task is tried more often than it may be.              *)

\* A task that waits for its next attempt may be tried again.
RetriesLeft == \A t \in Task : state[t] = "sleeping" => retried[t] < Retries

LEMMA PoolTypeInit == PoolInit => PoolTypeOK /\ RetriesLeft
  <1> SUFFICES ASSUME PoolInit PROVE PoolTypeOK /\ RetriesLeft
    OBVIOUS
  <1>1. retried \in [Task -> 0 .. Retries] /\ settled \in [Task -> Nat]
    BY PoolAssumption DEF PoolInit
  <1>2. state \in [Task -> TaskState] /\ pauser \in Caller /\ drainer \in Caller
    BY DEF PoolInit, TaskState, Caller
  <1>3. RetriesLeft
    BY DEF PoolInit, RetriesLeft
  <1> QED
    BY <1>1, <1>2, <1>3 DEF PoolInit, PoolTypeOK

\* A step that tries no task again needs to be looked at for its states alone.
LEMMA SameRetries ==
  ASSUME PoolTypeOK, RetriesLeft, retried' = retried,
         \A t \in Task : state'[t] = "sleeping" => state[t] = "sleeping"
  PROVE  RetriesLeft'
  BY DEF PoolTypeOK, RetriesLeft

LEMMA PoolTypeNext == PoolTypeOK /\ RetriesLeft /\ [PoolNext]_poolVars => PoolTypeOK' /\ RetriesLeft'
  <1> SUFFICES ASSUME PoolTypeOK, RetriesLeft, [PoolNext]_poolVars PROVE PoolTypeOK' /\ RetriesLeft'
    OBVIOUS
  <1> USE PoolAssumption DEF PoolTypeOK
  <1>1. ASSUME NEW t \in Task, Enqueue(t) PROVE PoolTypeOK' /\ RetriesLeft'
    <2>1. state' \in States /\ Moves(Enqueued(t))
      BY <1>1, EnqueueMoves
    <2>2. RetriesLeft'
      BY <1>1, <2>1, SameRetries DEF Enqueue, Moves, Enqueued, States
    <2> QED
      BY <1>1, <2>1, <2>2 DEF Enqueue, States
  <1>2. ASSUME NEW t \in Task, Succeeds(t) PROVE PoolTypeOK' /\ RetriesLeft'
    BY <1>2, SameRetries DEF Succeeds, TaskState
  <1>3. ASSUME NEW t \in Task, Fails(t) PROVE PoolTypeOK' /\ RetriesLeft'
    <2>1. PoolTypeOK'
      BY <1>3 DEF Fails, TaskState
    <2>2. RetriesLeft'
      BY <1>3 DEF Fails, RetriesLeft
    <2> QED
      BY <2>1, <2>2
  <1>4. ASSUME NEW t \in Task, Wakes(t) PROVE PoolTypeOK' /\ RetriesLeft'
    <2>1. retried[t] + 1 \in 0 .. Retries
      BY <1>4 DEF Wakes, RetriesLeft
    <2>2. retried' \in [Task -> 0 .. Retries]
      BY <1>4, <2>1 DEF Wakes
    <2>3. PoolTypeOK'
      BY <1>4, <2>2 DEF Wakes, TaskState
    <2>4. RetriesLeft'
      BY <1>4 DEF Wakes, RetriesLeft
    <2> QED
      BY <2>3, <2>4
  <1>5. ASSUME NEW t \in Task, Complete(t) PROVE PoolTypeOK' /\ RetriesLeft'
    BY <1>5, SameRetries DEF Complete, TaskState
  <1>6. ASSUME NEW t \in Task, Finish(t) PROVE PoolTypeOK' /\ RetriesLeft'
    <2>1. state' \in States /\ Moves(Finished(t))
      BY <1>6, FinishMoves
    <2>2. RetriesLeft'
      BY <1>6, <2>1, SameRetries DEF Finish, Moves, Finished, States
    <2>3. pauser' \in Caller /\ drainer' \in Caller
      BY <1>6 DEF Finish, Notified, Caller
    <2> QED
      BY <1>6, <2>1, <2>2, <2>3 DEF Finish, States
  <1>7. ASSUME Pause \/ PauseLooks PROVE PoolTypeOK' /\ RetriesLeft'
    BY <1>7, SameRetries DEF Pause, PauseLooks, Caller
  <1>8. ASSUME Resume PROVE PoolTypeOK' /\ RetriesLeft'
    <2>1. state' \in States /\ Moves(state)
      BY <1>8, PassMoves DEF Resume
    <2>2. RetriesLeft'
      BY <1>8, <2>1, SameRetries DEF Resume, Moves
    <2> QED
      BY <1>8, <2>1, <2>2 DEF Resume, States
  <1>9. ASSUME Stop PROVE PoolTypeOK' /\ RetriesLeft'
    <2>1. state' \in [Task -> TaskState] /\ settled' \in [Task -> Nat]
      BY <1>9 DEF Stop, TaskState
    <2>2. RetriesLeft'
      BY <1>9, SameRetries DEF Stop
    <2> QED
      BY <1>9, <2>1, <2>2 DEF Stop
  <1>10. ASSUME NEW n \in Limit, SetConcurrency(n) PROVE PoolTypeOK' /\ RetriesLeft'
    <2>1. state' \in States /\ Moves(state)
      BY <1>10, PassMoves DEF SetConcurrency
    <2>2. RetriesLeft'
      BY <1>10, <2>1, SameRetries DEF SetConcurrency, Moves
    <2> QED
      BY <1>10, <2>1, <2>2 DEF SetConcurrency, States
  <1>11. ASSUME Drain \/ DrainLooks PROVE PoolTypeOK' /\ RetriesLeft'
    BY <1>11, SameRetries DEF Drain, DrainLooks, Caller
  <1>12. ASSUME UNCHANGED poolVars PROVE PoolTypeOK' /\ RetriesLeft'
    BY <1>12, SameRetries DEF poolVars
  <1> QED
    BY <1>1, <1>2, <1>3, <1>4, <1>5, <1>6, <1>7, <1>8, <1>9, <1>10, <1>11, <1>12 DEF PoolNext, Run

(***************************************************************************)
(* The variables keep their types, and no task is tried more often than    *)
(* its retries allow.                                                      *)
(***************************************************************************)
THEOREM PoolIsTyped == PoolSpec => []PoolTypeOK
  BY PoolTypeInit, PoolTypeNext, PTL DEF PoolSpec

----------------------------------------------------------------------------
(* Promises settle once.                                                   *)

LEMMA SettledNext == PoolTypeOK /\ SettledOnce /\ [PoolNext]_poolVars => SettledOnce'
  <1> SUFFICES ASSUME PoolTypeOK, SettledOnce, [PoolNext]_poolVars PROVE SettledOnce'
    OBVIOUS
  <1> USE DEF PoolTypeOK, SettledOnce
  <1>1. ASSUME NEW t \in Task, Enqueue(t) PROVE SettledOnce'
    <2>1. Moves(Enqueued(t))
      BY <1>1, EnqueueMoves
    <2> QED
      BY <1>1, <2>1 DEF Enqueue, Moves, Enqueued
  <1>2. ASSUME NEW t \in Task, Succeeds(t) \/ Fails(t) \/ Wakes(t) PROVE SettledOnce'
    BY <1>2 DEF Succeeds, Fails, Wakes
  <1>3. ASSUME NEW t \in Task, Complete(t) PROVE SettledOnce'
    BY <1>3 DEF Complete
  <1>4. ASSUME NEW t \in Task, Finish(t) PROVE SettledOnce'
    <2>1. Moves(Finished(t))
      BY <1>4, FinishMoves
    <2> QED
      BY <1>4, <2>1 DEF Finish, Moves, Finished
  <1>5. ASSUME Pause \/ PauseLooks \/ Drain \/ DrainLooks PROVE SettledOnce'
    BY <1>5 DEF Pause, PauseLooks, Drain, DrainLooks
  <1>6. ASSUME NEW n \in Limit, SetConcurrency(n) PROVE SettledOnce'
    <2>1. Moves(state)
      BY <1>6, PassMoves DEF SetConcurrency
    <2> QED
      BY <1>6, <2>1 DEF SetConcurrency, Moves
  <1>7. ASSUME Stop PROVE SettledOnce'
    BY <1>7 DEF Stop
  <1>8. ASSUME UNCHANGED poolVars PROVE SettledOnce'
    BY <1>8 DEF poolVars
  <1>9. ASSUME Resume PROVE SettledOnce'
    <2>1. Moves(state)
      BY <1>9, PassMoves DEF Resume
    <2> QED
      BY <1>9, <2>1 DEF Resume, Moves
  <1> QED
    BY <1>1, <1>2, <1>3, <1>4, <1>5, <1>6, <1>7, <1>8, <1>9 DEF PoolNext, Run

(***************************************************************************)
(* No promise is settled twice, and none whose task still runs: stop() and *)
(* the end of a task never meet.                                           *)
(***************************************************************************)
THEOREM TasksSettleOnce == PoolSpec => []SettledOnce
  <1>1. PoolInit => SettledOnce
    BY DEF PoolInit, SettledOnce
  <1> QED
    BY <1>1, SettledNext, PoolIsTyped, PTL DEF PoolSpec

----------------------------------------------------------------------------
(* No wakeup is lost.                                                      *)

\* processNext() leaves no room that it may fill.
LEMMA PassFills ==
  ASSUME NEW st \in States, ProcessNext(st), profile' = profile
  PROVE  NoLostWakeup'
  <1>1. CASE paused' \/ stopped'
    BY <1>1 DEF NoLostWakeup
  <1>2. CASE ~(paused' \/ stopped')
    BY <1>2, TakeFromFills DEF ProcessNext, NoLostWakeup
  <1> QED
    BY <1>1, <1>2

\* A step that neither queues nor ends a task, nor makes room.
LEMMA SameRoom ==
  ASSUME NoLostWakeup, Queued(state)' = Queued(state), Active(state)' = Active(state), limit' = limit,
         paused' = paused, stopped' = stopped,
         \A t \in Task : state[t] = "completing" => state'[t] = "completing"
  PROVE  NoLostWakeup'
  BY DEF NoLostWakeup

LEMMA WakeupNext == PoolTypeOK /\ NoLostWakeup /\ [PoolNext]_poolVars => NoLostWakeup'
  <1> SUFFICES ASSUME PoolTypeOK, NoLostWakeup, [PoolNext]_poolVars PROVE NoLostWakeup'
    OBVIOUS
  <1> USE DEF PoolTypeOK
  <1>1. ASSUME NEW t \in Task, Enqueue(t) PROVE NoLostWakeup'
    BY <1>1, ChangedStates, PassFills DEF Enqueue, Enqueued
  <1>2. ASSUME NEW t \in Task, Succeeds(t) \/ Fails(t) \/ Wakes(t) PROVE NoLostWakeup'
    <2>1. Queued(state)' = Queued(state)
      BY <1>2 DEF Succeeds, Fails, Wakes, Queued
    <2>2. Active(state)' = Active(state)
      BY <1>2 DEF Succeeds, Fails, Wakes, Active, Executing
    <2>3. \A u \in Task : state[u] = "completing" => state'[u] = "completing"
      BY <1>2 DEF Succeeds, Fails, Wakes
    <2> QED
      BY <1>2, <2>1, <2>2, <2>3, SameRoom DEF Succeeds, Fails, Wakes
  <1>3. ASSUME NEW t \in Task, Complete(t) PROVE NoLostWakeup'
    <2>1. state'[t] = "completing"
      BY <1>3 DEF Complete
    <2> QED
      BY <2>1 DEF NoLostWakeup
  <1>4. ASSUME NEW t \in Task, Finish(t) PROVE NoLostWakeup'
    <2>1. CASE TakeFrom(Finished(t))
      BY <1>4, <2>1, ChangedStates, TakeFromFills DEF Finish, NoLostWakeup
    <2>2. CASE ProcessNext(Finished(t))
      BY <1>4, <2>2, ChangedStates, PassFills DEF Finish
    <2> QED
      BY <1>4, <2>1, <2>2 DEF Finish, Finished
  <1>5. ASSUME Pause PROVE NoLostWakeup'
    BY <1>5 DEF Pause, NoLostWakeup
  <1>6. ASSUME Resume PROVE NoLostWakeup'
    BY <1>6, ChangedStates, PassFills DEF Resume, States
  <1>7. ASSUME Stop PROVE NoLostWakeup'
    BY <1>7 DEF Stop, NoLostWakeup
  <1>8. ASSUME NEW n \in Limit, SetConcurrency(n) PROVE NoLostWakeup'
    BY <1>8, PassFills DEF SetConcurrency, States
  <1>9. ASSUME PauseLooks \/ Drain \/ DrainLooks \/ UNCHANGED poolVars PROVE NoLostWakeup'
    BY <1>9, SameRoom DEF PauseLooks, Drain, DrainLooks, poolVars, Queued, Active
  <1> QED
    BY <1>1, <1>2, <1>3, <1>4, <1>5, <1>6, <1>7, <1>8, <1>9 DEF PoolNext, Run

(***************************************************************************)
(* A queue never waits beside free room in a pool that may work, except    *)
(* for the end of a task that is under way.                                *)
(***************************************************************************)
THEOREM NoWakeupIsLost == PoolSpec => []NoLostWakeup
  <1>1. PoolInit => NoLostWakeup
    BY DEF PoolInit, NoLostWakeup, Queued
  <1> QED
    BY <1>1, WakeupNext, PoolIsTyped, PTL DEF PoolSpec

----------------------------------------------------------------------------
(* pause()                                                                 *)

LEMMA QuietNext == PoolTypeOK /\ PausedIsQuiet /\ [PoolNext]_poolVars => PausedIsQuiet'
  <1> SUFFICES ASSUME PoolTypeOK, PausedIsQuiet, [PoolNext]_poolVars,
                      profile' = "balanced", paused', pauser' = "returned",
                      NEW u \in Task
               PROVE  state'[u] \notin Executing
    BY DEF PausedIsQuiet
  <1> USE DEF PoolTypeOK, PausedIsQuiet, Executing
  <1>1. ASSUME NEW t \in Task, Enqueue(t) PROVE state'[u] \notin Executing
    BY <1>1 DEF Enqueue, ProcessNext
  <1>2. ASSUME NEW t \in Task, Succeeds(t) \/ Fails(t) \/ Wakes(t) PROVE state'[u] \notin Executing
    BY <1>2 DEF Succeeds, Fails, Wakes
  <1>3. ASSUME NEW t \in Task, Complete(t) PROVE state'[u] \notin Executing
    BY <1>3 DEF Complete
  <1>4. ASSUME NEW t \in Task, Finish(t) PROVE state'[u] \notin Executing
    BY <1>4 DEF Finish, ProcessNext, Notified
  <1>5. ASSUME PauseLooks PROVE state'[u] \notin Executing
    BY <1>5 DEF PauseLooks, Active
  <1>6. ASSUME Stop PROVE state'[u] \notin Executing
    BY <1>6 DEF Stop
  <1>7. ASSUME NEW n \in Limit, SetConcurrency(n) PROVE state'[u] \notin Executing
    BY <1>7 DEF SetConcurrency, ProcessNext
  <1>8. ASSUME Pause \/ Resume \/ Drain \/ DrainLooks \/ UNCHANGED poolVars
        PROVE  state'[u] \notin Executing
    BY <1>8 DEF Pause, Resume, Drain, DrainLooks, poolVars
  <1> QED
    BY <1>1, <1>2, <1>3, <1>4, <1>5, <1>6, <1>7, <1>8 DEF PoolNext, Run

(***************************************************************************)
(* After pause() has returned nothing runs in a balanced pool, however     *)
(* tasks are enqueued, the limit is changed or the pool is stopped.        *)
(***************************************************************************)
THEOREM PausedPoolsAreQuiet == PoolSpec => []PausedIsQuiet
  <1>1. PoolInit => PausedIsQuiet
    BY DEF PoolInit, PausedIsQuiet
  <1> QED
    BY <1>1, QuietNext, PoolIsTyped, PTL DEF PoolSpec

----------------------------------------------------------------------------
(* The limit                                                               *)

LEMMA PassStops ==
  ASSUME NEW st \in States, ProcessNext(st), limit' \in Nat,
         NEW u \in Task, st[u] # "running", state'[u] = "running"
  PROVE  Cardinality({t \in Task : state'[t] \in Executing}) <= limit'
  <1>1. CASE paused' \/ stopped'
    BY <1>1 DEF ProcessNext
  <1>2. CASE ~(paused' \/ stopped')
    BY <1>2, TakeFromStops DEF ProcessNext
  <1> QED
    BY <1>1, <1>2

LEMMA StartsNext ==
  ASSUME PoolTypeOK, PoolTypeOK', [PoolNext]_poolVars,
         NEW u \in Task, state[u] \in {"new", "queued"}, state'[u] = "running"
  PROVE  Cardinality({t \in Task : state'[t] \in Executing}) <= limit'
  <1> DEFINE Goal == Cardinality({t \in Task : state'[t] \in Executing}) <= limit'
  <1> USE DEF PoolTypeOK
  <1>0. limit' \in Nat
    BY PoolAssumption
  <1>1. ASSUME NEW t \in Task, Enqueue(t) PROVE Goal
    <2>1. Enqueued(t)[u] # "running"
      BY DEF Enqueued
    <2> QED
      BY <1>0, <1>1, <2>1, ChangedStates, PassStops DEF Enqueue, Enqueued
  <1>2. ASSUME NEW t \in Task, Succeeds(t) \/ Fails(t) \/ Wakes(t) \/ Complete(t) PROVE Goal
    BY <1>2 DEF Succeeds, Fails, Wakes, Complete
  <1>3. ASSUME NEW t \in Task, Finish(t) PROVE Goal
    <2>1. Finished(t)[u] # "running"
      BY DEF Finished
    <2>2. CASE TakeFrom(Finished(t))
      BY <1>0, <2>1, <2>2, ChangedStates, TakeFromStops
    <2>3. CASE ProcessNext(Finished(t))
      BY <1>0, <2>1, <2>3, ChangedStates, PassStops
    <2> QED
      BY <1>3, <2>2, <2>3 DEF Finish, Finished
  <1>4. ASSUME Resume PROVE Goal
    BY <1>0, <1>4, PassStops DEF Resume, States
  <1>5. ASSUME NEW n \in Limit, SetConcurrency(n) PROVE Goal
    BY <1>0, <1>5, PassStops DEF SetConcurrency, States
  <1>6. ASSUME Pause \/ PauseLooks \/ Stop \/ Drain \/ DrainLooks \/ UNCHANGED poolVars PROVE Goal
    BY <1>6 DEF Pause, PauseLooks, Stop, Drain, DrainLooks, poolVars
  <1> QED
    BY <1>1, <1>2, <1>3, <1>4, <1>5, <1>6 DEF PoolNext, Run

(***************************************************************************)
(* No loop starts a task beyond the limit as it is then, whichever of      *)
(* enqueue(), resume(), setConcurrency() or a task's end runs it.          *)
(***************************************************************************)
THEOREM StartsStayWithinLimit == PoolSpec => StartsWithinLimit
  <1>1. PoolTypeOK /\ PoolTypeOK' /\ [PoolNext]_poolVars
          => [(\E t \in Task : state[t] \in {"new", "queued"} /\ state'[t] = "running")
                => Cardinality({t \in Task : state'[t] \in Executing}) <= limit']_poolVars
    BY StartsNext
  <1> QED
    BY <1>1, PoolIsTyped, PTL DEF PoolSpec, StartsWithinLimit
====

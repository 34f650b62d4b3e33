---- MODULE GlobalCoordinator ----
(***************************************************************************)
(* GlobalCoordinatorService of                                             *)
(* src/src/plugins/concerns/global-coordinator-service.class.ts: processes *)
(* that register themselves as workers, share one leader record with a     *)
(* lease, and, when the lease is over, elect the first registered worker   *)
(* and write the record anew.  A worker is a service (its id starts with   *)
(* `gcs-`) or a plugin of its process; plugins come first.                 *)
(*                                                                         *)
(* Every storage call is one atomic step, and so are the parallel PUTs of  *)
(* a registration.  Timestamps are counted down: the record's and the      *)
(* candidate's leaseEnd, and how long a registration still counts.  The    *)
(* ttl of the record's PUT is counted from its leaseEnd.  A tick is longer *)
(* than stateCacheTtl.  A mutex keeps a service to one heartbeat at a time *)
(* until it times out: then the next one runs beside it.                   *)
(***************************************************************************)
EXTENDS Integers

CONSTANTS
  Service,      \* numbers: the order of the workers' ids
  Plugins,      \* the services that have a plugin to subscribe
  Heartbeat,    \* <<service, n>>: those of one service that may overlap
  None,         \* no record, no leader
  Lease,        \* leaseTimeout, in ticks
  Grace,        \* PluginStorage's own ttl ends this much later (60 s)
  WorkerTtl,    \* workerTimeout + 5 s
  MaxEpoch      \* epochs past this one are not told apart

ASSUME CoordinatorAssumption ==
  /\ Service \subseteq Nat
  /\ Plugins \subseteq Service /\ Heartbeat \subseteq Service \X Nat
  /\ Lease \in Nat \ {0} /\ Grace \in Nat /\ WorkerTtl \in Nat \ {0} /\ MaxEpoch \in Nat \ {0}

VARIABLES
  state,       \* the leader record
  reg,         \* ticks a worker's registration still counts; 0: stale, -1: none
  doomed,      \* registrations that a listing found stale, about to be deleted
  running,     \* isRunning of each service
  subscribed,  \* has its plugin subscribed?
  pc,          \* the storage call a heartbeat is about to make
  leader,      \* currentLeaderId
  epoch,       \* currentEpoch
  cache,       \* _cachedState
  choice,      \* the leader the heartbeat has read or elected
  prior,       \* previousEpoch
  next,        \* nextEpoch
  lease,       \* leaseEnd of the candidate's record
  view,        \* stateCache.state.epoch; 0 without a record
  current      \* is stateCache.version still the version of the record?

record == <<state, current>>
heartbeat == <<choice, prior, next, lease, view>>
coordinatorVars ==
  <<record, reg, doomed, running, subscribed, pc, leader, epoch, cache, heartbeat>>

\* The service of a heartbeat.
Of(h) == h[1]

Own(p) == <<"gcs", p>>
Plugin(p) == <<"worker", p>>
Worker == {Own(p) : p \in Service} \cup {Plugin(p) : p \in Plugins}
Workers(p) == {Own(p)} \cup (IF subscribed[p] THEN {Plugin(p)} ELSE {})

Records == [leader : Worker, epoch : 1..MaxEpoch, left : -(Grace + 1)..Lease]
CoordinatorPC == {"idle", "register", "read", "purgeRead", "peek", "elect",
                  "attempt", "purgeAttempt", "create", "swap", "final", "purgeFinal"}

CoordinatorTypeOK ==
  /\ state \in Records \cup {None}
  /\ reg \in [Worker -> -1..WorkerTtl]
  /\ doomed \subseteq Worker
  /\ running \in [Service -> BOOLEAN] /\ subscribed \in [Service -> BOOLEAN]
  /\ pc \in [Heartbeat -> CoordinatorPC]
  /\ leader \in [Service -> Worker \cup {None}]
  /\ epoch \in [Service -> 0..MaxEpoch]
  /\ cache \in [Service -> Records \cup {None}]
  /\ choice \in [Heartbeat -> Worker \cup {None}]
  /\ prior \in [Heartbeat -> 0..MaxEpoch] /\ next \in [Heartbeat -> 0..MaxEpoch]
  /\ lease \in [Heartbeat -> -(Grace + 1)..Lease]
  /\ view \in [Heartbeat -> 0..MaxEpoch] /\ current \in [Heartbeat -> BOOLEAN]

\* Mutant of Succ: the epoch stays.
SameEpoch(e) == e

Succ(e) == IF e < MaxEpoch THEN e + 1 ELSE MaxEpoch
Later(e, f) == IF e < f THEN f ELSE e

\* listActiveWorkerIds(), and the plugin workers among them.
Active == {w \in Worker : reg[w] > 0}
Stale == {w \in Worker : reg[w] = 0}
PluginsOf(workers) == {w \in workers : w[1] = "worker"}

\* The first candidate: plugin workers go before services.
First(workers) ==
  LET candidates == IF PluginsOf(workers) # {} THEN PluginsOf(workers) ELSE workers
  IN CHOOSE w \in candidates : \A v \in candidates : w[2] <= v[2]

CoordinatorInit ==
  /\ state = None
  /\ reg = [w \in Worker |-> -1]
  /\ doomed = {}
  /\ running = [p \in Service |-> FALSE] /\ subscribed = [p \in Service |-> FALSE]
  /\ pc = [h \in Heartbeat |-> "idle"]
  /\ leader = [p \in Service |-> None] /\ epoch = [p \in Service |-> 0]
  /\ cache = [p \in Service |-> None]
  /\ choice = [h \in Heartbeat |-> None]
  /\ prior = [h \in Heartbeat |-> 0] /\ next = [h \in Heartbeat |-> 0]
  /\ lease = [h \in Heartbeat |-> 0]
  /\ view = [h \in Heartbeat |-> 0] /\ current = [h \in Heartbeat |-> FALSE]

Goto(h, call) == pc' = [pc EXCEPT ![h] = call]

\* A PUT or a DELETE reaches the store: whoever has read a version has an old one.
Store(new) == state' = new /\ current' = [h \in Heartbeat |-> FALSE]

Forget(h) == current' = [current EXCEPT ![h] = FALSE]

Clear(h) ==
  /\ choice' = [choice EXCEPT ![h] = None]
  /\ prior' = [prior EXCEPT ![h] = 0] /\ next' = [next EXCEPT ![h] = 0]
  /\ lease' = [lease EXCEPT ![h] = 0]
  /\ view' = [view EXCEPT ![h] = 0]

\* The end of _heartbeatCycle().  It does not ask whether the service still
\* runs, and it resets the mutex, whosever that is by now.
End(h, who, e) ==
  /\ leader' = [leader EXCEPT ![Of(h)] = who]
  /\ epoch' = [epoch EXCEPT ![Of(h)] = Later(e, 1)]
  /\ Goto(h, "idle")
  /\ Clear(h)

----------------------------------------------------------------------------
Start(p) ==
  /\ ~running[p]
  /\ running' = [running EXCEPT ![p] = TRUE]
  /\ UNCHANGED <<record, reg, doomed, subscribed, pc, leader, epoch, cache, heartbeat>>

Subscribe(p) ==
  /\ p \in Plugins
  /\ running[p] /\ ~subscribed[p]
  /\ subscribed' = [subscribed EXCEPT ![p] = TRUE]
  /\ UNCHANGED <<record, reg, doomed, running, pc, leader, epoch, cache, heartbeat>>

\* stop() leaves a heartbeat that is under way alone.  Its DELETEs may fail.
Stop(p) ==
  /\ running[p]
  /\ running' = [running EXCEPT ![p] = FALSE]
  /\ subscribed' = [subscribed EXCEPT ![p] = FALSE]
  /\ leader' = [leader EXCEPT ![p] = None]
  /\ reg' \in {reg, [w \in Worker |-> IF w \in Workers(p) THEN -1 ELSE reg[w]]}
  /\ UNCHANGED <<record, doomed, pc, epoch, cache, heartbeat>>

\* A new process has no heartbeat under way.
Reset(f, p, v) == [h \in Heartbeat |-> IF Of(h) = p THEN v ELSE f[h]]

Crash(p) ==
  /\ running[p] \/ \E h \in Heartbeat : Of(h) = p /\ pc[h] # "idle"
  /\ running' = [running EXCEPT ![p] = FALSE]
  /\ subscribed' = [subscribed EXCEPT ![p] = FALSE]
  /\ leader' = [leader EXCEPT ![p] = None]
  /\ epoch' = [epoch EXCEPT ![p] = 0]
  /\ cache' = [cache EXCEPT ![p] = None]
  /\ pc' = Reset(pc, p, "idle") /\ choice' = Reset(choice, p, None)
  /\ prior' = Reset(prior, p, 0) /\ next' = Reset(next, p, 0)
  /\ lease' = Reset(lease, p, 0) /\ view' = Reset(view, p, 0)
  /\ current' = Reset(current, p, FALSE)
  /\ UNCHANGED <<state, reg, doomed>>

\* The timer, or a subscription, starts a heartbeat.
Launch(h) ==
  /\ running[Of(h)]
  /\ pc[h] = "idle"
  /\ \A g \in Heartbeat : Of(g) = Of(h) /\ g[2] < h[2] => pc[g] # "idle"
  /\ Goto(h, "register")
  /\ UNCHANGED <<record, reg, doomed, running, subscribed, leader, epoch, cache, heartbeat>>

Alone(h) == \A g \in Heartbeat : Of(g) = Of(h) => pc[g] = "idle"

Begin(h) == Alone(h) /\ Launch(h)

\* Beside one that has held the mutex for too long, or whose mutex another
\* one's end has reset.
Overrun(h) == ~Alone(h) /\ Launch(h)

\* _registerWorker().
Register(h) ==
  /\ pc[h] = "register"
  /\ reg' = [w \in Worker |-> IF w \in Workers(Of(h)) THEN WorkerTtl ELSE reg[w]]
  /\ Goto(h, "read")
  /\ UNCHANGED <<record, doomed, running, subscribed, leader, epoch, cache, heartbeat>>

Outdated == state # None /\ state.left < -Grace

\* What the heartbeat does with the state _getState() has answered.
Decide(h, answer) ==
  IF answer # None /\ answer.left > 0 /\ answer.leader[1] = "worker"
    THEN End(h, answer.leader, answer.epoch)
    ELSE /\ prior' = [prior EXCEPT ![h] = IF answer = None THEN epoch[Of(h)] ELSE answer.epoch]
         /\ IF answer = None \/ answer.left <= 0
              THEN Goto(h, "elect") /\ UNCHANGED choice
              ELSE Goto(h, "peek") /\ choice' = [choice EXCEPT ![h] = answer.leader]
         /\ UNCHANGED <<leader, epoch, next, lease, view>>

\* _getState(): the cache or the record.
ReadState(h) ==
  /\ pc[h] = "read"
  /\ IF cache[Of(h)] # None THEN Decide(h, cache[Of(h)]) /\ UNCHANGED cache
     ELSE \/ /\ Outdated
             /\ Goto(h, "purgeRead")
             /\ UNCHANGED <<leader, epoch, cache, heartbeat>>
          \/ /\ ~Outdated
             /\ Decide(h, state)
             /\ cache' = [cache EXCEPT ![Of(h)] = state]
  /\ UNCHANGED <<record, reg, doomed, running, subscribed>>

\* get() and getWithVersion() delete whatever the key holds by now.
PurgeRead(h) ==
  /\ pc[h] = "purgeRead"
  /\ Store(None)
  /\ Decide(h, None)
  /\ UNCHANGED <<reg, doomed, running, subscribed, cache>>

\* A listing sets out to delete the registrations it finds stale.
List == doomed' = doomed \cup Stale

\* Does a plugin worker wait to take over from a service?
Peek(h) ==
  /\ pc[h] = "peek"
  /\ List
  /\ IF PluginsOf(Active) # {}
       THEN Goto(h, "elect") /\ UNCHANGED <<leader, epoch, heartbeat>>
       ELSE End(h, choice[h], prior[h])
  /\ UNCHANGED <<record, reg, running, subscribed, cache>>

\* One more turn of attemptState(): its epoch and leaseEnd come before its read.
Attempt(h, e) ==
  /\ next' = [next EXCEPT ![h] = e]
  /\ lease' = [lease EXCEPT ![h] = Lease]
  /\ Goto(h, "attempt")

\* Mutant of Elect: a service elects itself.
ElectSelf(h) ==
  /\ pc[h] = "elect"
  /\ List
  /\ choice' = [choice EXCEPT ![h] = Own(Of(h))]
  /\ Attempt(h, Succ(prior[h]))
  /\ UNCHANGED <<record, reg, running, subscribed, leader, epoch, cache, prior, view>>

Elect(h) ==
  /\ pc[h] = "elect"
  /\ List
  /\ IF Active = {} THEN End(h, None, prior[h])
     ELSE /\ choice' = [choice EXCEPT ![h] = First(Active)]
          /\ Attempt(h, Succ(prior[h]))
          /\ UNCHANGED <<leader, epoch, prior, view>>
  /\ UNCHANGED <<record, reg, running, subscribed, cache>>

\* Had the record's lease time left when this attempt began?
InForce(h) == state.left + (Lease - lease[h]) > 0

ReadRecord(h) ==
  /\ pc[h] = "attempt"
  /\ \/ /\ state = None
        /\ view' = [view EXCEPT ![h] = 0]
        /\ Goto(h, "create")
        /\ UNCHANGED <<current, leader, epoch, choice, prior, next, lease>>
     \/ /\ Outdated
        /\ Goto(h, "purgeAttempt")
        /\ UNCHANGED <<current, leader, epoch, heartbeat>>
     \/ /\ state # None /\ ~Outdated
        /\ IF state.leader = choice[h] /\ InForce(h)
             THEN End(h, state.leader, state.epoch) /\ UNCHANGED current
             ELSE /\ view' = [view EXCEPT ![h] = state.epoch]
                  /\ current' = [current EXCEPT ![h] = TRUE]
                  /\ Goto(h, "swap")
                  /\ UNCHANGED <<leader, epoch, choice, prior, next, lease>>
  /\ UNCHANGED <<state, reg, doomed, running, subscribed, cache>>

PurgeAttempt(h) ==
  /\ pc[h] = "purgeAttempt"
  /\ Store(None)
  /\ view' = [view EXCEPT ![h] = 0]
  /\ Goto(h, "create")
  /\ UNCHANGED <<reg, doomed, running, subscribed, leader, epoch, cache, choice, prior, next, lease>>

\* Mutant of MayPut: a PUT without ifMatch.
MayAlwaysSwap(h) == pc[h] = "create" => state = None

\* The conditions of setIfNotExists() and setIfVersion(), and what they write.
MayPut(h) == IF pc[h] = "create" THEN state = None ELSE current[h]
Put(h) == Store([leader |-> choice[h], epoch |-> next[h], left |-> lease[h]])

\* Both answer null when their condition fails, and the attempt counts as won
\* all the same: only an exception means another attempt.
WriteRecord(h) ==
  /\ pc[h] \in {"create", "swap"}
  /\ IF MayPut(h) THEN Put(h) ELSE UNCHANGED record
  /\ cache' = [cache EXCEPT ![Of(h)] = None]
  /\ End(h, choice[h], next[h])
  /\ UNCHANGED <<reg, doomed, running, subscribed>>

LastLook(h) ==
  /\ pc[h] = "final"
  /\ \/ Outdated /\ Goto(h, "purgeFinal") /\ UNCHANGED <<leader, epoch, heartbeat>>
     \/ state # None /\ ~Outdated /\ End(h, state.leader, state.epoch)
     \/ state = None /\ End(h, None, prior[h])
  /\ UNCHANGED <<record, reg, doomed, running, subscribed, cache>>

PurgeFinal(h) ==
  /\ pc[h] = "purgeFinal"
  /\ Store(None)
  /\ End(h, None, prior[h])
  /\ UNCHANGED <<reg, doomed, running, subscribed, cache>>

\* A storage call throws.  A failing registration is only logged, a failing
\* listing counts as empty, a failing read as "no state".
CallFails(h) ==
  /\ \/ /\ pc[h] = "register"
        /\ \E done \in SUBSET Workers(Of(h)) \ {Workers(Of(h))} :
             reg' = [w \in Worker |-> IF w \in done THEN WorkerTtl ELSE reg[w]]
        /\ Goto(h, "read")
        /\ UNCHANGED <<leader, epoch, heartbeat>>
     \/ pc[h] = "read" /\ cache[Of(h)] = None /\ Decide(h, None) /\ UNCHANGED reg
     \/ pc[h] = "purgeRead" /\ Decide(h, None) /\ UNCHANGED reg
     \/ pc[h] = "peek" /\ End(h, choice[h], prior[h]) /\ UNCHANGED reg
     \/ /\ pc[h] \in {"elect", "attempt", "purgeAttempt", "final", "purgeFinal"}
        /\ End(h, None, prior[h])
        /\ UNCHANGED reg
  /\ UNCHANGED <<record, doomed, running, subscribed, cache>>

\* A write throws, or its response is lost: one more attempt, or, after the
\* eighth, a last look.
WriteFails(h) ==
  /\ pc[h] \in {"create", "swap"}
  /\ \/ Forget(h) /\ UNCHANGED state
     \/ MayPut(h) /\ Put(h)
  /\ \/ Attempt(h, Succ(Later(view[h], prior[h])))
     \/ Goto(h, "final") /\ UNCHANGED <<next, lease>>
  /\ UNCHANGED <<reg, doomed, running, subscribed, leader, epoch, cache, choice, prior, view>>

\* _deleteStaleWorkers() deletes a registration, renewed or not.
Sweep(w) ==
  /\ w \in doomed
  /\ doomed' = doomed \ {w}
  /\ reg' = [reg EXCEPT ![w] = -1]
  /\ UNCHANGED <<record, running, subscribed, pc, leader, epoch, cache, heartbeat>>

Down(n) == IF n > -(Grace + 1) THEN n - 1 ELSE n

Tick ==
  /\ state' = IF state = None THEN None ELSE [state EXCEPT !.left = Down(@)]
  /\ reg' = [w \in Worker |-> IF reg[w] > 0 THEN reg[w] - 1 ELSE reg[w]]
  /\ lease' = [h \in Heartbeat |->
                IF pc[h] \in {"attempt", "purgeAttempt", "create", "swap"} THEN Down(lease[h]) ELSE lease[h]]
  /\ cache' = [p \in Service |-> None]
  /\ UNCHANGED <<current, doomed, running, subscribed, pc, leader, epoch, choice, prior, next, view>>

Proceed(h) ==
  \/ Begin(h) \/ Register(h) \/ ReadState(h) \/ PurgeRead(h) \/ Peek(h) \/ Elect(h)
  \/ ReadRecord(h) \/ PurgeAttempt(h) \/ WriteRecord(h) \/ LastLook(h) \/ PurgeFinal(h)

\* What happens to a service or a heartbeat now and then.
Disturb ==
  \/ \E p \in Service : Start(p) \/ Subscribe(p) \/ Stop(p) \/ Crash(p)
  \/ \E h \in Heartbeat : Overrun(h) \/ CallFails(h) \/ WriteFails(h)

CoordinatorNext ==
  \/ \E h \in Heartbeat : Proceed(h)
  \/ Disturb
  \/ \E w \in Worker : Sweep(w)
  \/ Tick

CoordinatorSpec == CoordinatorInit /\ [][CoordinatorNext]_coordinatorVars

----------------------------------------------------------------------------
(* The leader record is renewed for the same leader only once its lease is *)
(* over, however many services conduct an election for it at a time.       *)
RenewedOnlyWhenOver ==
  [][state # None /\ state' # None /\ state'.leader = state.leader /\ state'.left > state.left
       => state.left <= 0]_coordinatorVars

(* Once the disturbances are over, every running service settles on the    *)
(* same leader, the first worker of those that run ("Deterministic         *)
(* election - Lexicographically first worker ID wins"), whatever elections *)
(* were under way and whatever leader the record named.                    *)
LeadersAgree ==
  <>[](\A p \in Service :
         running[p] => leader[p] = First(UNION {Workers(q) : q \in {r \in Service : running[r]}}))
====

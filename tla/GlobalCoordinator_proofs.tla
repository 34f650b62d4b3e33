---- MODULE GlobalCoordinator_proofs ----
(***************************************************************************)
(* Proofs about GlobalCoordinator for any services, plugins, overlapping   *)
(* heartbeats, lease and time-to-live.                                     *)
(***************************************************************************)
EXTENDS GlobalCoordinator, WellFoundedInduction, TLAPS

----------------------------------------------------------------------------
(* An election always finds a first worker.                                *)

LEMMA NaturalsHaveLeast ==
  ASSUME NEW T, T \subseteq Nat, T # {}
  PROVE  \E m \in T : \A n \in T : m <= n
  <1>1. PICK m \in T : \A n \in T : <<n, m>> \notin OpToRel(<, Nat)
    BY WFMin, NatLessThanWellFounded, Zenon
  <1>2. \A n \in T : ~(n < m)
    BY <1>1, Zenon DEF OpToRel
  <1>3. \A n \in T : m <= n
    BY <1>2
  <1> QED
    BY <1>3

LEMMA FirstIsOne ==
  ASSUME NEW workers, workers \subseteq Worker, workers # {}
  PROVE  First(workers) \in workers
  <1> DEFINE C == IF PluginsOf(workers) # {} THEN PluginsOf(workers) ELSE workers
             T == {w[2] : w \in C}
  <1>1. C # {} /\ C \subseteq workers
    BY DEF PluginsOf
  <1>2. \A w \in Worker : w[2] \in Nat
    BY CoordinatorAssumption DEF Worker, Own, Plugin
  <1>3. T \subseteq Nat /\ T # {}
    BY <1>1, <1>2
  <1> HIDE DEF T
  <1>4. PICK m \in T : \A n \in T : m <= n
    BY <1>3, NaturalsHaveLeast
  <1>5. PICK w \in C : w[2] = m
    BY <1>4 DEF T
  <1>6. \A v \in C : w[2] <= v[2]
    BY <1>4, <1>5 DEF T
  <1>7. (CHOOSE v \in C : \A u \in C : v[2] <= u[2]) \in C
    BY <1>6
  <1> QED
    BY <1>1, <1>7 DEF First

----------------------------------------------------------------------------
(* Types.  They rest on what a heartbeat knows before it writes: it has    *)
(* elected a worker and counted an epoch.                                  *)

StoreTyped ==
  /\ state \in Records \cup {None}
  /\ reg \in [Worker -> -1..WorkerTtl]
  /\ doomed \subseteq Worker

ServicesTyped ==
  /\ running \in [Service -> BOOLEAN] /\ subscribed \in [Service -> BOOLEAN]
  /\ cache \in [Service -> Records \cup {None}]

OutcomesTyped ==
  /\ leader \in [Service -> Worker \cup {None}]
  /\ epoch \in [Service -> 0..MaxEpoch]

HeartbeatsTyped ==
  /\ pc \in [Heartbeat -> CoordinatorPC]
  /\ choice \in [Heartbeat -> Worker \cup {None}]
  /\ prior \in [Heartbeat -> 0..MaxEpoch] /\ next \in [Heartbeat -> 0..MaxEpoch]
  /\ lease \in [Heartbeat -> -(Grace + 1)..Lease]
  /\ view \in [Heartbeat -> 0..MaxEpoch]

Attempting == {"attempt", "purgeAttempt", "create", "swap"}
Elected == \A h \in Heartbeat : pc[h] \in Attempting => choice[h] \in Worker /\ next[h] \in 1..MaxEpoch

Typed ==
  /\ StoreTyped /\ ServicesTyped
  /\ OutcomesTyped /\ HeartbeatsTyped /\ Elected
  /\ current \in [Heartbeat -> BOOLEAN]

LEMMA TypedIsTypeOK == Typed => CoordinatorTypeOK
  BY DEF Typed, StoreTyped, ServicesTyped, OutcomesTyped, HeartbeatsTyped, CoordinatorTypeOK

LEMMA Epochs ==
  /\ 0 \in 0..MaxEpoch /\ 1 \in 0..MaxEpoch /\ 1..MaxEpoch \subseteq 0..MaxEpoch
  /\ \A e \in 0..MaxEpoch : Succ(e) \in 1..MaxEpoch
  /\ \A e, f \in 0..MaxEpoch : Later(e, f) \in 0..MaxEpoch
  BY CoordinatorAssumption DEF Succ, Later

LEMMA Leases ==
  /\ Lease \in -(Grace + 1)..Lease /\ 0 \in -(Grace + 1)..Lease
  /\ \A n \in -(Grace + 1)..Lease : Down(n) \in -(Grace + 1)..Lease /\ Down(n) <= n
  BY CoordinatorAssumption DEF Down

LEMMA Owners == \A h \in Heartbeat : Of(h) \in Service
  BY CoordinatorAssumption DEF Of

\* The end of a heartbeat, whatever it has found.
LEMMA EndTyped ==
  ASSUME Typed, NEW h \in Heartbeat, NEW who \in Worker \cup {None}, NEW e \in 0..MaxEpoch,
         End(h, who, e)
  PROVE  OutcomesTyped' /\ HeartbeatsTyped' /\ Elected'
  <1> USE DEF Typed
  <1>1. Later(e, 1) \in 0..MaxEpoch
    BY Epochs
  <1>2. OutcomesTyped'
    BY <1>1, Owners DEF End, OutcomesTyped
  <1>3. HeartbeatsTyped'
    BY Epochs, Leases DEF End, Clear, Goto, HeartbeatsTyped, CoordinatorPC
  <1>4. Elected'
    BY DEF End, Clear, Goto, HeartbeatsTyped, Elected, Attempting
  <1> QED
    BY <1>2, <1>3, <1>4

\* What a heartbeat makes of the state it has read.
LEMMA DecideTyped ==
  ASSUME Typed, NEW h \in Heartbeat, NEW answer \in Records \cup {None}, Decide(h, answer)
  PROVE  OutcomesTyped' /\ HeartbeatsTyped' /\ Elected'
  <1> DEFINE Over == answer # None /\ answer.left > 0 /\ answer.leader[1] = "worker"
  <1>1. CASE Over
    <2>1. answer.leader \in Worker \cup {None} /\ answer.epoch \in 0..MaxEpoch
      BY <1>1, Epochs DEF Records
    <2> QED
      BY <1>1, <2>1, EndTyped DEF Decide
  <1>2. CASE ~Over
    <2> USE DEF Typed
    <2>1. (IF answer = None THEN epoch[Of(h)] ELSE answer.epoch) \in 0..MaxEpoch
      BY Owners, Epochs DEF OutcomesTyped, Records
    <2>2. prior' \in [Heartbeat -> 0..MaxEpoch]
      BY <1>2, <2>1 DEF Decide, HeartbeatsTyped
    <2>3. choice' \in [Heartbeat -> Worker \cup {None}]
      BY <1>2 DEF Decide, HeartbeatsTyped, Records
    <2>4. pc' \in [Heartbeat -> CoordinatorPC]
      BY <1>2 DEF Decide, Goto, HeartbeatsTyped, CoordinatorPC
    <2>5. UNCHANGED <<leader, epoch, next, lease, view>>
      BY <1>2 DEF Decide
    <2>6. Elected'
      BY <1>2, <2>5 DEF Decide, Goto, HeartbeatsTyped, Elected, Attempting
    <2> QED
      BY <2>2, <2>3, <2>4, <2>5, <2>6 DEF OutcomesTyped, HeartbeatsTyped
  <1> QED
    BY <1>1, <1>2

\* A heartbeat goes on to a call other than an attempt.
LEMMA GotoTyped ==
  ASSUME Typed, NEW h \in Heartbeat, NEW call \in CoordinatorPC \ Attempting, Goto(h, call),
         UNCHANGED <<leader, epoch, choice, prior, next, lease>>,
         view' \in [Heartbeat -> 0..MaxEpoch]
  PROVE  OutcomesTyped' /\ HeartbeatsTyped' /\ Elected'
  <1> USE DEF Typed
  <1>1. OutcomesTyped' /\ HeartbeatsTyped'
    BY DEF Goto, OutcomesTyped, HeartbeatsTyped
  <1>2. Elected'
    BY DEF Goto, HeartbeatsTyped, Elected
  <1> QED
    BY <1>1, <1>2

\* An attempt goes on.
LEMMA AttemptGoesOn ==
  ASSUME Typed, NEW h \in Heartbeat, pc[h] \in Attempting, NEW call \in Attempting, Goto(h, call),
         UNCHANGED <<leader, epoch, choice, prior, next, lease>>,
         view' \in [Heartbeat -> 0..MaxEpoch]
  PROVE  OutcomesTyped' /\ HeartbeatsTyped' /\ Elected'
  <1> USE DEF Typed
  <1>1. OutcomesTyped' /\ HeartbeatsTyped'
    BY DEF Goto, OutcomesTyped, HeartbeatsTyped, Attempting, CoordinatorPC
  <1>2. Elected'
    BY DEF Goto, HeartbeatsTyped, Elected
  <1> QED
    BY <1>1, <1>2

\* An attempt starts.
LEMMA AttemptTyped ==
  ASSUME Typed, NEW h \in Heartbeat, NEW e \in 1..MaxEpoch, Attempt(h, e),
         choice' \in [Heartbeat -> Worker \cup {None}], choice'[h] \in Worker,
         \A g \in Heartbeat \ {h} : choice'[g] = choice[g],
         UNCHANGED <<leader, epoch, prior, view>>
  PROVE  OutcomesTyped' /\ HeartbeatsTyped' /\ Elected'
  <1> USE DEF Typed
  <1>1. OutcomesTyped' /\ HeartbeatsTyped'
    BY Epochs, Leases DEF Attempt, Goto, OutcomesTyped, HeartbeatsTyped, CoordinatorPC
  <1>2. Elected'
    BY DEF Attempt, Goto, HeartbeatsTyped, Elected
  <1> QED
    BY <1>1, <1>2

LEMMA TypedInit == CoordinatorInit => Typed
  <1> SUFFICES ASSUME CoordinatorInit PROVE Typed
    OBVIOUS
  <1>1. StoreTyped
    BY CoordinatorAssumption DEF CoordinatorInit, StoreTyped
  <1>2. ServicesTyped
    BY DEF CoordinatorInit, ServicesTyped
  <1>3. OutcomesTyped
    BY Epochs DEF CoordinatorInit, OutcomesTyped
  <1>4. HeartbeatsTyped
    BY Epochs, Leases DEF CoordinatorInit, HeartbeatsTyped, CoordinatorPC
  <1>5. Elected
    BY DEF CoordinatorInit, Elected, Attempting
  <1>6. current \in [Heartbeat -> BOOLEAN]
    BY DEF CoordinatorInit
  <1> QED
    BY <1>1, <1>2, <1>3, <1>4, <1>5, <1>6 DEF Typed

\* The record, and who still has its version, after a PUT or a DELETE.
LEMMA StoreTypes ==
  ASSUME NEW new \in Records \cup {None}, Store(new)
  PROVE  state' \in Records \cup {None} /\ current' \in [Heartbeat -> BOOLEAN]
  BY DEF Store

LEMMA PutTypes ==
  ASSUME Typed, NEW h \in Heartbeat, pc[h] \in Attempting, Put(h)
  PROVE  state' \in Records \cup {None} /\ current' \in [Heartbeat -> BOOLEAN]
  <1>1. [leader |-> choice[h], epoch |-> next[h], left |-> lease[h]] \in Records
    BY DEF Typed, Elected, HeartbeatsTyped, Records
  <1> QED
    BY <1>1, StoreTypes DEF Put

\* Services come, go and lose what they know.
LEMMA ServiceTyped ==
  ASSUME Typed, NEW p \in Service, Start(p) \/ Subscribe(p) \/ Stop(p) \/ Crash(p)
  PROVE  Typed'
  <1> USE DEF Typed
  <1>1. ASSUME Start(p) \/ Subscribe(p) PROVE Typed'
    BY <1>1 DEF Start, Subscribe, StoreTyped, ServicesTyped, OutcomesTyped, HeartbeatsTyped, Elected, record,
       heartbeat
  <1>2. ASSUME Stop(p) PROVE Typed'
    <2>1. StoreTyped' /\ ServicesTyped'
      BY <1>2, CoordinatorAssumption DEF Stop, StoreTyped, ServicesTyped, record
    <2>2. OutcomesTyped' /\ HeartbeatsTyped' /\ Elected' /\ current' = current
      BY <1>2 DEF Stop, OutcomesTyped, HeartbeatsTyped, Elected, record, heartbeat
    <2> QED
      BY <2>1, <2>2
  <1>3. ASSUME Crash(p) PROVE Typed'
    <2>1. StoreTyped' /\ ServicesTyped' /\ OutcomesTyped'
      BY <1>3, Epochs DEF Crash, StoreTyped, ServicesTyped, OutcomesTyped
    <2>2. HeartbeatsTyped'
      <3>1. pc' \in [Heartbeat -> CoordinatorPC] /\ choice' \in [Heartbeat -> Worker \cup {None}]
        BY <1>3 DEF Crash, Reset, HeartbeatsTyped, CoordinatorPC
      <3>2. prior' \in [Heartbeat -> 0..MaxEpoch] /\ next' \in [Heartbeat -> 0..MaxEpoch]
        BY <1>3, Epochs DEF Crash, Reset, HeartbeatsTyped
      <3>3. lease' \in [Heartbeat -> -(Grace + 1)..Lease] /\ view' \in [Heartbeat -> 0..MaxEpoch]
        BY <1>3, Epochs, Leases DEF Crash, Reset, HeartbeatsTyped
      <3> QED
        BY <3>1, <3>2, <3>3 DEF HeartbeatsTyped
    <2>3. Elected' /\ current' \in [Heartbeat -> BOOLEAN]
      BY <1>3 DEF Crash, Reset, Elected, Attempting
    <2> QED
      BY <2>1, <2>2, <2>3
  <1> QED
    BY <1>1, <1>2, <1>3

\* The first calls of a heartbeat.
LEMMA BeginningTyped ==
  ASSUME Typed, NEW h \in Heartbeat, Launch(h) \/ Register(h) \/ ReadState(h) \/ PurgeRead(h)
  PROVE  Typed'
  <1> USE DEF Typed, record, heartbeat
  <1>0. "register" \in CoordinatorPC \ Attempting /\ "read" \in CoordinatorPC \ Attempting
        /\ "purgeRead" \in CoordinatorPC \ Attempting
    BY DEF CoordinatorPC, Attempting
  <1>1. ASSUME Launch(h) PROVE Typed'
    <2>1. OutcomesTyped' /\ HeartbeatsTyped' /\ Elected'
      BY <1>0, <1>1, GotoTyped DEF Launch, HeartbeatsTyped
    <2> QED
      BY <1>1, <2>1 DEF Launch, StoreTyped, ServicesTyped
  <1>2. ASSUME Register(h) PROVE Typed'
    <2>1. OutcomesTyped' /\ HeartbeatsTyped' /\ Elected'
      BY <1>0, <1>2, GotoTyped DEF Register, HeartbeatsTyped
    <2>2. StoreTyped'
      BY <1>2, CoordinatorAssumption DEF Register, StoreTyped
    <2> QED
      BY <1>2, <2>1, <2>2 DEF Register, ServicesTyped
  <1>3. ASSUME ReadState(h) PROVE Typed'
    <2>1. StoreTyped' /\ current' = current /\ UNCHANGED <<running, subscribed>>
      BY <1>3 DEF ReadState, StoreTyped
    <2>2. CASE cache[Of(h)] # None
      <3>1. Decide(h, cache[Of(h)]) /\ UNCHANGED cache
        BY <1>3, <2>2 DEF ReadState
      <3>2. cache[Of(h)] \in Records \cup {None}
        BY Owners DEF ServicesTyped
      <3>3. OutcomesTyped' /\ HeartbeatsTyped' /\ Elected'
        BY <3>1, <3>2, DecideTyped
      <3> QED
        BY <2>1, <3>1, <3>3 DEF ServicesTyped
    <2>3. CASE Goto(h, "purgeRead") /\ UNCHANGED <<leader, epoch, cache, heartbeat>>
      <3>1. OutcomesTyped' /\ HeartbeatsTyped' /\ Elected'
        BY <1>0, <2>3, GotoTyped DEF HeartbeatsTyped
      <3> QED
        BY <2>1, <2>3, <3>1 DEF ServicesTyped
    <2>4. CASE Decide(h, state) /\ cache' = [cache EXCEPT ![Of(h)] = state]
      <3>1. OutcomesTyped' /\ HeartbeatsTyped' /\ Elected'
        BY <2>4, DecideTyped DEF StoreTyped
      <3>2. ServicesTyped'
        BY <2>1, <2>4 DEF StoreTyped, ServicesTyped
      <3> QED
        BY <2>1, <3>1, <3>2
    <2> QED
      BY <1>3, <2>2, <2>3, <2>4 DEF ReadState
  <1>4. ASSUME PurgeRead(h) PROVE Typed'
    <2>1. OutcomesTyped' /\ HeartbeatsTyped' /\ Elected'
      BY <1>4, DecideTyped DEF PurgeRead
    <2> QED
      BY <1>4, <2>1, StoreTypes DEF PurgeRead, StoreTyped, ServicesTyped
  <1> QED
    BY <1>1, <1>2, <1>3, <1>4

\* Listings and elections.
LEMMA ElectionTyped ==
  ASSUME Typed, NEW h \in Heartbeat, Peek(h) \/ Elect(h)
  PROVE  Typed'
  <1> USE DEF Typed, record, heartbeat
  <1>1. doomed \cup Stale \subseteq Worker
    BY DEF StoreTyped, Stale
  <1>2. ASSUME Peek(h) PROVE Typed'
    <2>1. CASE Goto(h, "elect") /\ UNCHANGED <<leader, epoch, heartbeat>>
      <3>1. "elect" \in CoordinatorPC \ Attempting
        BY DEF CoordinatorPC, Attempting
      <3>2. OutcomesTyped' /\ HeartbeatsTyped' /\ Elected'
        BY <2>1, <3>1, GotoTyped DEF HeartbeatsTyped
      <3> QED
        BY <1>1, <1>2, <3>2 DEF Peek, List, StoreTyped, ServicesTyped
    <2>2. CASE End(h, choice[h], prior[h])
      <3>1. OutcomesTyped' /\ HeartbeatsTyped' /\ Elected'
        BY <2>2, EndTyped DEF HeartbeatsTyped
      <3> QED
        BY <1>1, <1>2, <3>1 DEF Peek, List, StoreTyped, ServicesTyped
    <2> QED
      BY <1>2, <2>1, <2>2 DEF Peek
  <1>3. ASSUME Elect(h) PROVE Typed'
    <2>1. CASE Active = {}
      <3>1. End(h, None, prior[h])
        BY <1>3, <2>1 DEF Elect
      <3>2. OutcomesTyped' /\ HeartbeatsTyped' /\ Elected'
        BY <3>1, EndTyped DEF HeartbeatsTyped
      <3> QED
        BY <1>1, <1>3, <3>2 DEF Elect, List, StoreTyped, ServicesTyped
    <2>2. CASE Active # {}
      <3>1. /\ choice' = [choice EXCEPT ![h] = First(Active)]
            /\ Attempt(h, Succ(prior[h]))
            /\ UNCHANGED <<leader, epoch, prior, view>>
        BY <1>3, <2>2 DEF Elect
      <3>2. First(Active) \in Worker
        BY <2>2, FirstIsOne DEF Active
      <3>3. Succ(prior[h]) \in 1..MaxEpoch
        BY Epochs DEF HeartbeatsTyped
      <3>4. OutcomesTyped' /\ HeartbeatsTyped' /\ Elected'
        BY <3>1, <3>2, <3>3, AttemptTyped DEF HeartbeatsTyped
      <3> QED
        BY <1>1, <1>3, <3>4 DEF Elect, List, StoreTyped, ServicesTyped
    <2> QED
      BY <2>1, <2>2
  <1> QED
    BY <1>2, <1>3

\* The calls of an attempt.
LEMMA AttemptCallsTyped ==
  ASSUME Typed, NEW h \in Heartbeat, ReadRecord(h) \/ PurgeAttempt(h) \/ WriteRecord(h)
  PROVE  Typed'
  <1> USE DEF Typed, record, heartbeat
  <1>0. {"attempt", "purgeAttempt", "create", "swap"} \subseteq Attempting
    BY DEF Attempting
  <1>1. ASSUME ReadRecord(h) PROVE Typed'
    <2>1. StoreTyped' /\ ServicesTyped'
      BY <1>1 DEF ReadRecord, StoreTyped, ServicesTyped
    <2>2. pc[h] \in Attempting
      BY <1>0, <1>1 DEF ReadRecord
    <2>3. CASE /\ state = None /\ view' = [view EXCEPT ![h] = 0] /\ Goto(h, "create")
               /\ UNCHANGED <<current, leader, epoch, choice, prior, next, lease>>
      <3>1. view' \in [Heartbeat -> 0..MaxEpoch]
        BY <2>3, Epochs DEF HeartbeatsTyped
      <3> QED
        BY <1>0, <2>1, <2>2, <2>3, <3>1, AttemptGoesOn
    <2>4. CASE Goto(h, "purgeAttempt") /\ UNCHANGED <<current, leader, epoch, heartbeat>>
      BY <1>0, <2>1, <2>2, <2>4, AttemptGoesOn DEF HeartbeatsTyped
    <2>5. CASE state # None /\ End(h, state.leader, state.epoch) /\ UNCHANGED current
      <3>1. state.leader \in Worker \cup {None} /\ state.epoch \in 0..MaxEpoch
        BY <2>5, Epochs DEF StoreTyped, Records
      <3> QED
        BY <2>1, <2>5, <3>1, EndTyped
    <2>6. CASE /\ state # None /\ view' = [view EXCEPT ![h] = state.epoch]
               /\ current' = [current EXCEPT ![h] = TRUE] /\ Goto(h, "swap")
               /\ UNCHANGED <<leader, epoch, choice, prior, next, lease>>
      <3>1. view' \in [Heartbeat -> 0..MaxEpoch]
        BY <2>6, Epochs DEF HeartbeatsTyped, StoreTyped, Records
      <3>2. current' \in [Heartbeat -> BOOLEAN]
        BY <2>6
      <3> QED
        BY <1>0, <2>1, <2>2, <2>6, <3>1, <3>2, AttemptGoesOn
    <2> QED
      BY <1>1, <2>3, <2>4, <2>5, <2>6 DEF ReadRecord
  <1>2. ASSUME PurgeAttempt(h) PROVE Typed'
    <2>1. view' \in [Heartbeat -> 0..MaxEpoch]
      BY <1>2, Epochs DEF PurgeAttempt, HeartbeatsTyped
    <2>2. OutcomesTyped' /\ HeartbeatsTyped' /\ Elected'
      BY <1>0, <1>2, <2>1, AttemptGoesOn DEF PurgeAttempt
    <2> QED
      BY <1>2, <2>2, StoreTypes DEF PurgeAttempt, StoreTyped, ServicesTyped
  <1>3. ASSUME WriteRecord(h) PROVE Typed'
    <2>1. pc[h] \in Attempting
      BY <1>0, <1>3 DEF WriteRecord
    <2>2. state' \in Records \cup {None} /\ current' \in [Heartbeat -> BOOLEAN]
      BY <1>3, <2>1, PutTypes DEF WriteRecord, StoreTyped
    <2>3. choice[h] \in Worker \cup {None} /\ next[h] \in 0..MaxEpoch
      BY DEF HeartbeatsTyped
    <2>4. OutcomesTyped' /\ HeartbeatsTyped' /\ Elected'
      BY <1>3, <2>3, EndTyped DEF WriteRecord
    <2> QED
      BY <1>3, <2>2, <2>4 DEF WriteRecord, StoreTyped, ServicesTyped
  <1> QED
    BY <1>1, <1>2, <1>3

\* The last look at the record.
LEMMA LastLookTyped ==
  ASSUME Typed, NEW h \in Heartbeat, LastLook(h) \/ PurgeFinal(h)
  PROVE  Typed'
  <1> USE DEF Typed, record, heartbeat
  <1>1. prior[h] \in 0..MaxEpoch
    BY DEF HeartbeatsTyped
  <1>2. ASSUME LastLook(h) PROVE Typed'
    <2>1. StoreTyped' /\ ServicesTyped' /\ current' = current
      BY <1>2 DEF LastLook, StoreTyped, ServicesTyped
    <2>2. CASE Goto(h, "purgeFinal") /\ UNCHANGED <<leader, epoch, heartbeat>>
      <3>1. "purgeFinal" \in CoordinatorPC \ Attempting
        BY DEF CoordinatorPC, Attempting
      <3> QED
        BY <2>1, <2>2, <3>1, GotoTyped DEF HeartbeatsTyped
    <2>3. CASE state # None /\ End(h, state.leader, state.epoch)
      <3>1. state.leader \in Worker \cup {None} /\ state.epoch \in 0..MaxEpoch
        BY <2>3, Epochs DEF StoreTyped, Records
      <3> QED
        BY <2>1, <2>3, <3>1, EndTyped
    <2>4. CASE End(h, None, prior[h])
      BY <1>1, <2>1, <2>4, EndTyped
    <2> QED
      BY <1>2, <2>2, <2>3, <2>4 DEF LastLook
  <1>3. ASSUME PurgeFinal(h) PROVE Typed'
    <2>1. OutcomesTyped' /\ HeartbeatsTyped' /\ Elected'
      BY <1>1, <1>3, EndTyped DEF PurgeFinal
    <2> QED
      BY <1>3, <2>1, StoreTypes DEF PurgeFinal, StoreTyped, ServicesTyped
  <1> QED
    BY <1>2, <1>3

\* Calls that fail.
LEMMA FailuresTyped ==
  ASSUME Typed, NEW h \in Heartbeat, CallFails(h) \/ WriteFails(h)
  PROVE  Typed'
  <1> USE DEF Typed, record, heartbeat
  <1>1. choice[h] \in Worker \cup {None} /\ prior[h] \in 0..MaxEpoch /\ view[h] \in 0..MaxEpoch
    BY DEF HeartbeatsTyped
  <1>2. ASSUME CallFails(h) PROVE Typed'
    <2>1. /\ UNCHANGED <<state, current, doomed, running, subscribed, cache>>
          /\ ServicesTyped'
      BY <1>2 DEF CallFails, ServicesTyped
    <2>2. CASE /\ \E done \in SUBSET Workers(Of(h)) :
                    reg' = [w \in Worker |-> IF w \in done THEN WorkerTtl ELSE reg[w]]
               /\ Goto(h, "read") /\ UNCHANGED <<leader, epoch, heartbeat>>
      <3>1. "read" \in CoordinatorPC \ Attempting
        BY DEF CoordinatorPC, Attempting
      <3>2. OutcomesTyped' /\ HeartbeatsTyped' /\ Elected'
        BY <2>2, <3>1, GotoTyped DEF HeartbeatsTyped
      <3>3. StoreTyped'
        BY <2>1, <2>2, CoordinatorAssumption DEF StoreTyped
      <3> QED
        BY <2>1, <3>2, <3>3
    <2>3. CASE UNCHANGED reg /\ (Decide(h, None) \/ End(h, choice[h], prior[h]) \/ End(h, None, prior[h]))
      <3>1. OutcomesTyped' /\ HeartbeatsTyped' /\ Elected'
        BY <1>1, <2>3, DecideTyped, EndTyped
      <3> QED
        BY <2>1, <2>3, <3>1 DEF StoreTyped
    <2>4. CASE pc[h] = "register"
      <3>1. /\ \E done \in SUBSET Workers(Of(h)) :
                 reg' = [w \in Worker |-> IF w \in done THEN WorkerTtl ELSE reg[w]]
            /\ Goto(h, "read") /\ UNCHANGED <<leader, epoch, heartbeat>>
        BY <1>2, <2>4 DEF CallFails
      <3> QED
        BY <2>2, <3>1
    <2>5. CASE pc[h] # "register"
      <3>1. UNCHANGED reg /\ (Decide(h, None) \/ End(h, choice[h], prior[h]) \/ End(h, None, prior[h]))
        BY <1>2, <2>5 DEF CallFails
      <3> QED
        BY <2>3, <3>1
    <2> QED
      BY <2>4, <2>5
  <1>3. ASSUME WriteFails(h) PROVE Typed'
    <2>1. pc[h] \in Attempting /\ choice[h] \in Worker
      BY <1>3 DEF WriteFails, Attempting, Elected
    <2>2. state' \in Records \cup {None} /\ current' \in [Heartbeat -> BOOLEAN]
      BY <1>3, <2>1, PutTypes DEF WriteFails, Forget, StoreTyped
    <2>3. CASE Attempt(h, Succ(Later(view[h], prior[h])))
      <3>1. Succ(Later(view[h], prior[h])) \in 1..MaxEpoch
        BY <1>1, Epochs
      <3>2. OutcomesTyped' /\ HeartbeatsTyped' /\ Elected'
        BY <1>3, <2>1, <2>3, <3>1, AttemptTyped DEF WriteFails, HeartbeatsTyped
      <3> QED
        BY <1>3, <2>2, <3>2 DEF WriteFails, StoreTyped, ServicesTyped
    <2>4. CASE Goto(h, "final") /\ UNCHANGED <<next, lease>>
      <3>1. "final" \in CoordinatorPC \ Attempting
        BY DEF CoordinatorPC, Attempting
      <3>2. OutcomesTyped' /\ HeartbeatsTyped' /\ Elected'
        BY <1>3, <2>4, <3>1, GotoTyped DEF WriteFails, HeartbeatsTyped
      <3> QED
        BY <1>3, <2>2, <3>2 DEF WriteFails, StoreTyped, ServicesTyped
    <2> QED
      BY <1>3, <2>3, <2>4 DEF WriteFails
  <1> QED
    BY <1>2, <1>3

LEMMA SweepTyped ==
  ASSUME Typed, NEW w \in Worker, Sweep(w)
  PROVE  Typed'
  <1> USE DEF Typed, record, heartbeat
  <1>1. StoreTyped'
    BY CoordinatorAssumption DEF Sweep, StoreTyped
  <1> QED
    BY <1>1 DEF Sweep, ServicesTyped, OutcomesTyped, HeartbeatsTyped, Elected

LEMMA TickTyped ==
  ASSUME Typed, Tick
  PROVE  Typed'
  <1> USE DEF Typed
  <1>1. state' \in Records \cup {None}
    BY Leases DEF Tick, StoreTyped, Records
  <1>2. reg' \in [Worker -> -1..WorkerTtl]
    BY CoordinatorAssumption DEF Tick, StoreTyped
  <1>3. lease' \in [Heartbeat -> -(Grace + 1)..Lease]
    BY Leases DEF Tick, HeartbeatsTyped
  <1>4. ServicesTyped' /\ OutcomesTyped' /\ Elected'
    BY DEF Tick, ServicesTyped, OutcomesTyped, Elected
  <1> QED
    BY <1>1, <1>2, <1>3, <1>4 DEF Tick, StoreTyped, HeartbeatsTyped

LEMMA TypedNext == Typed /\ [CoordinatorNext]_coordinatorVars => Typed'
  <1> SUFFICES ASSUME Typed, [CoordinatorNext]_coordinatorVars PROVE Typed'
    OBVIOUS
  <1>1. ASSUME NEW h \in Heartbeat, Proceed(h) PROVE Typed'
    BY <1>1, BeginningTyped, ElectionTyped, AttemptCallsTyped, LastLookTyped DEF Proceed, Begin
  <1>2. ASSUME Disturb PROVE Typed'
    BY <1>2, ServiceTyped, BeginningTyped, FailuresTyped DEF Disturb, Overrun
  <1>3. CASE UNCHANGED coordinatorVars
    BY <1>3 DEF coordinatorVars, record, heartbeat, Typed, StoreTyped, ServicesTyped, OutcomesTyped, HeartbeatsTyped,
       Elected
  <1> QED
    BY <1>1, <1>2, <1>3, SweepTyped, TickTyped DEF CoordinatorNext

LEMMA TypedAlways == CoordinatorSpec => []Typed
  BY TypedInit, TypedNext, PTL DEF CoordinatorSpec

(***************************************************************************)
(* The record names a worker and an epoch whatever fails, lapses or is     *)
(* deleted, and every heartbeat that writes has elected a worker.          *)
(***************************************************************************)
THEOREM CoordinatorIsTyped == CoordinatorSpec => []CoordinatorTypeOK
  BY TypedAlways, TypedIsTypeOK, PTL

----------------------------------------------------------------------------
(* A lease that has time left is not renewed.  A heartbeat that still has  *)
(* the version of the record knows that the record names somebody else     *)
(* than it has elected, or that its lease is over; and so it stays for as  *)
(* long as the version is that of the record.                              *)

Superseded(h) == state.leader # choice[h] \/ state.left <= 0
VersionsAreFresh == \A h \in Heartbeat : current[h] => pc[h] = "swap" /\ Superseded(h)

\* A step that leaves the record, and those who have its version, alone.
LEMMA SameVersions ==
  ASSUME VersionsAreFresh, state' = state, \A h \in Heartbeat : current'[h] => current[h],
         \A h \in Heartbeat : current'[h] => pc'[h] = pc[h] /\ choice'[h] = choice[h]
  PROVE  VersionsAreFresh'
  BY DEF VersionsAreFresh, Superseded

LEMMA NoVersions ==
  ASSUME \A h \in Heartbeat : ~current'[h]
  PROVE  VersionsAreFresh'
  BY DEF VersionsAreFresh

\* The end of a heartbeat that has no version, and a call that is none of a swap.
LEMMA EndKeepsVersions ==
  ASSUME Typed, VersionsAreFresh, NEW h \in Heartbeat, NEW who, NEW e, End(h, who, e),
         UNCHANGED record, ~current[h]
  PROVE  VersionsAreFresh'
  BY SameVersions DEF End, Clear, Goto, record, Typed, HeartbeatsTyped

LEMMA DecideKeepsVersions ==
  ASSUME Typed, VersionsAreFresh, NEW h \in Heartbeat, NEW answer, Decide(h, answer),
         UNCHANGED record, ~current[h]
  PROVE  VersionsAreFresh'
  <1>1. \A g \in Heartbeat \ {h} : pc'[g] = pc[g] /\ choice'[g] = choice[g]
    BY DEF Decide, End, Clear, Goto, Typed, HeartbeatsTyped
  <1> QED
    BY <1>1, SameVersions DEF record

LEMMA StoredVersions ==
  ASSUME NEW new, Store(new)
  PROVE  VersionsAreFresh'
  BY NoVersions DEF Store

LEMMA CallKeepsVersions ==
  ASSUME Typed, VersionsAreFresh, NEW h \in Heartbeat, Proceed(h) \/ Overrun(h) \/ CallFails(h)
  PROVE  VersionsAreFresh'
  <1> USE DEF Typed, record, heartbeat
  <1>0. pc[h] # "swap" => ~current[h]
    BY DEF VersionsAreFresh
  <1>1. ASSUME Launch(h) \/ Register(h) PROVE VersionsAreFresh'
    BY <1>0, <1>1, SameVersions DEF Launch, Register, Goto, HeartbeatsTyped
  <1>2. ASSUME ReadState(h) PROVE VersionsAreFresh'
    <2>1. CASE Goto(h, "purgeRead") /\ UNCHANGED heartbeat
      BY <1>0, <1>2, <2>1, SameVersions DEF ReadState, Goto, HeartbeatsTyped
    <2>2. CASE Decide(h, cache[Of(h)]) \/ Decide(h, state)
      BY <1>0, <1>2, <2>2, DecideKeepsVersions DEF ReadState
    <2> QED
      BY <1>2, <2>1, <2>2 DEF ReadState
  <1>3. ASSUME Peek(h) PROVE VersionsAreFresh'
    <2>1. CASE Goto(h, "elect") /\ UNCHANGED heartbeat
      BY <1>0, <1>3, <2>1, SameVersions DEF Peek, Goto, HeartbeatsTyped
    <2>2. CASE End(h, choice[h], prior[h])
      BY <1>0, <1>3, <2>2, EndKeepsVersions DEF Peek
    <2> QED
      BY <1>3, <2>1, <2>2 DEF Peek
  <1>4. ASSUME Elect(h) PROVE VersionsAreFresh'
    <2>1. CASE End(h, None, prior[h])
      BY <1>0, <1>4, <2>1, EndKeepsVersions DEF Elect
    <2>2. CASE choice' = [choice EXCEPT ![h] = First(Active)] /\ Attempt(h, Succ(prior[h]))
      BY <1>0, <1>4, <2>2, SameVersions DEF Elect, Attempt, Goto, HeartbeatsTyped
    <2> QED
      BY <1>4, <2>1, <2>2 DEF Elect
  <1>5. ASSUME ReadRecord(h) PROVE VersionsAreFresh'
    <2>1. ~current[h]
      BY <1>0, <1>5 DEF ReadRecord
    <2>2. CASE UNCHANGED <<current, choice>> /\ \E call \in CoordinatorPC : Goto(h, call)
      BY <1>5, <2>1, <2>2, SameVersions DEF ReadRecord, Goto, HeartbeatsTyped
    <2>3. CASE End(h, state.leader, state.epoch) /\ UNCHANGED current
      BY <1>5, <2>1, <2>3, EndKeepsVersions DEF ReadRecord
    <2>4. CASE /\ state # None /\ ~(state.leader = choice[h] /\ InForce(h))
               /\ current' = [current EXCEPT ![h] = TRUE] /\ Goto(h, "swap") /\ UNCHANGED choice
      <3>1. state \in Records /\ lease[h] \in -(Grace + 1)..Lease
        BY <2>4 DEF StoreTyped, HeartbeatsTyped
      <3>2. Superseded(h)
        BY <2>4, <3>1, CoordinatorAssumption DEF InForce, Records, Superseded
      <3>3. state' = state
        BY <1>5 DEF ReadRecord
      <3> QED
        BY <2>4, <3>2, <3>3 DEF Goto, HeartbeatsTyped, VersionsAreFresh, Superseded
    <2>5. "create" \in CoordinatorPC /\ "purgeAttempt" \in CoordinatorPC
      BY DEF CoordinatorPC
    <2> QED
      BY <1>5, <2>2, <2>3, <2>4, <2>5 DEF ReadRecord
  <1>6. ASSUME PurgeRead(h) \/ PurgeAttempt(h) \/ PurgeFinal(h) PROVE VersionsAreFresh'
    BY <1>6, StoredVersions DEF PurgeRead, PurgeAttempt, PurgeFinal
  <1>7. ASSUME WriteRecord(h) PROVE VersionsAreFresh'
    <2>1. CASE MayPut(h)
      BY <1>7, <2>1, StoredVersions DEF WriteRecord, Put
    <2>2. CASE ~MayPut(h)
      <3>1. ~current[h]
        BY <1>0, <1>7, <2>2 DEF MayPut, WriteRecord
      <3> QED
        BY <1>7, <2>2, <3>1, EndKeepsVersions DEF WriteRecord
    <2> QED
      BY <2>1, <2>2
  <1>8. ASSUME LastLook(h) PROVE VersionsAreFresh'
    <2>1. CASE Goto(h, "purgeFinal") /\ UNCHANGED heartbeat
      BY <1>0, <1>8, <2>1, SameVersions DEF LastLook, Goto, HeartbeatsTyped
    <2>2. CASE End(h, state.leader, state.epoch) \/ End(h, None, prior[h])
      BY <1>0, <1>8, <2>2, EndKeepsVersions DEF LastLook
    <2> QED
      BY <1>8, <2>1, <2>2 DEF LastLook
  <1>9. ASSUME CallFails(h) PROVE VersionsAreFresh'
    <2>1. ~current[h]
      BY <1>0, <1>9 DEF CallFails
    <2>2. CASE Goto(h, "read") /\ UNCHANGED heartbeat
      BY <1>9, <2>1, <2>2, SameVersions DEF CallFails, Goto, HeartbeatsTyped
    <2>3. CASE Decide(h, None) \/ End(h, choice[h], prior[h]) \/ End(h, None, prior[h])
      BY <1>9, <2>1, <2>3, DecideKeepsVersions, EndKeepsVersions DEF CallFails
    <2> QED
      BY <1>9, <2>2, <2>3 DEF CallFails
  <1> QED
    BY <1>1, <1>2, <1>3, <1>4, <1>5, <1>6, <1>7, <1>8, <1>9 DEF Proceed, Begin, Overrun

LEMMA VersionsNext == Typed /\ VersionsAreFresh /\ [CoordinatorNext]_coordinatorVars => VersionsAreFresh'
  <1> SUFFICES ASSUME Typed, VersionsAreFresh, [CoordinatorNext]_coordinatorVars PROVE VersionsAreFresh'
    OBVIOUS
  <1> USE DEF Typed, record, heartbeat
  <1>1. ASSUME NEW h \in Heartbeat, WriteFails(h) PROVE VersionsAreFresh'
    <2>1. CASE Forget(h) /\ UNCHANGED state
      BY <1>1, <2>1, SameVersions DEF WriteFails, Forget, Attempt, Goto, HeartbeatsTyped
    <2>2. CASE Put(h)
      BY <2>2, StoredVersions DEF Put
    <2> QED
      BY <1>1, <2>1, <2>2 DEF WriteFails
  <1>2. ASSUME NEW p \in Service, Start(p) \/ Subscribe(p) \/ Stop(p) PROVE VersionsAreFresh'
    BY <1>2, SameVersions DEF Start, Subscribe, Stop
  <1>3. ASSUME NEW p \in Service, Crash(p) PROVE VersionsAreFresh'
    BY <1>3, SameVersions DEF Crash, Reset
  <1>4. ASSUME NEW w \in Worker, Sweep(w) PROVE VersionsAreFresh'
    BY <1>4, SameVersions DEF Sweep
  <1>5. ASSUME Tick PROVE VersionsAreFresh'
    <2>1. ASSUME NEW h \in Heartbeat, current[h] PROVE Superseded(h)'
      <3>1. Superseded(h) /\ choice' = choice
        BY <1>5, <2>1 DEF VersionsAreFresh, Tick
      <3>2. CASE state = None
        BY <1>5, <3>1, <3>2 DEF Tick, Superseded
      <3>3. CASE state # None
        <4>1. state \in Records /\ state' = [state EXCEPT !.left = Down(@)]
          BY <1>5, <3>3 DEF Tick, StoreTyped
        <4>2. state'.leader = state.leader /\ state'.left = Down(state.left)
          BY <4>1 DEF Records
        <4>3. state.left \in -(Grace + 1)..Lease
          BY <4>1 DEF Records
        <4> QED
          BY <3>1, <4>2, <4>3, Leases, CoordinatorAssumption DEF Superseded
      <3> QED
        BY <3>2, <3>3
    <2> QED
      BY <1>5, <2>1 DEF Tick, VersionsAreFresh
  <1>6. CASE UNCHANGED coordinatorVars
    BY <1>6, SameVersions DEF coordinatorVars
  <1> QED
    BY <1>1, <1>2, <1>3, <1>4, <1>5, <1>6, CallKeepsVersions DEF CoordinatorNext, Disturb

LEMMA VersionsStayFresh == CoordinatorSpec => []VersionsAreFresh
  <1>1. CoordinatorInit => VersionsAreFresh
    BY DEF CoordinatorInit, VersionsAreFresh
  <1> QED
    BY <1>1, VersionsNext, TypedAlways, PTL DEF CoordinatorSpec

\* The record is written by a PUT that finds none or has its version.
Renewal == state # None /\ state' # None /\ state'.leader = state.leader /\ state'.left > state.left

LEMMA PutReplaces ==
  ASSUME Typed, VersionsAreFresh, NEW h \in Heartbeat, pc[h] \in {"create", "swap"}, MayPut(h), Put(h), Renewal
  PROVE  state.left <= 0
  <1>1. current[h]
    BY DEF MayPut, Renewal
  <1>2. state'.leader = choice[h]
    BY DEF Put, Store
  <1> QED
    BY <1>1, <1>2 DEF VersionsAreFresh, Superseded, Renewal

LEMMA RenewalStep ==
  ASSUME Typed, VersionsAreFresh, [CoordinatorNext]_coordinatorVars, Renewal
  PROVE  state.left <= 0
  <1> USE DEF Typed, record
  <1>1. state' # state
    <2> SUFFICES ASSUME state' = state PROVE FALSE
      OBVIOUS
    <2>1. state.left \in Int
      BY CoordinatorAssumption DEF Renewal, StoreTyped, Records
    <2> QED
      BY <2>1 DEF Renewal
  <1>2. ASSUME NEW h \in Heartbeat, Proceed(h) PROVE state.left <= 0
    <2>1. CASE PurgeRead(h) \/ PurgeAttempt(h) \/ PurgeFinal(h)
      BY <2>1 DEF PurgeRead, PurgeAttempt, PurgeFinal, Store, Renewal
    <2>2. CASE WriteRecord(h)
      BY <1>1, <2>2, PutReplaces DEF WriteRecord
    <2>3. CASE \/ Begin(h) \/ Register(h) \/ ReadState(h) \/ Peek(h) \/ Elect(h)
               \/ ReadRecord(h) \/ LastLook(h)
      BY <1>1, <2>3 DEF Begin, Launch, Register, ReadState, Peek, Elect, ReadRecord, LastLook
    <2> QED
      BY <1>2, <2>1, <2>2, <2>3 DEF Proceed
  <1>3. ASSUME Disturb PROVE state.left <= 0
    <2>1. ASSUME NEW h \in Heartbeat, WriteFails(h) PROVE state.left <= 0
      BY <1>1, <2>1, PutReplaces DEF WriteFails
    <2>2. ASSUME NEW p \in Service, Start(p) \/ Subscribe(p) \/ Stop(p) \/ Crash(p) PROVE state.left <= 0
      BY <1>1, <2>2 DEF Start, Subscribe, Stop, Crash
    <2>3. ASSUME NEW h \in Heartbeat, Overrun(h) \/ CallFails(h) PROVE state.left <= 0
      BY <1>1, <2>3 DEF Overrun, Launch, CallFails
    <2> QED
      BY <1>3, <2>1, <2>2, <2>3 DEF Disturb
  <1>4. ASSUME NEW w \in Worker, Sweep(w) PROVE state.left <= 0
    BY <1>1, <1>4 DEF Sweep
  <1>5. ASSUME Tick PROVE state.left <= 0
    <2>1. state \in Records /\ state' = [state EXCEPT !.left = Down(@)]
      BY <1>5 DEF Tick, StoreTyped, Renewal
    <2>2. state'.left = Down(state.left) /\ state.left \in -(Grace + 1)..Lease
      BY <2>1 DEF Records
    <2> QED
      BY <2>2, Leases, CoordinatorAssumption DEF Renewal
  <1>6. CASE UNCHANGED coordinatorVars
    BY <1>1, <1>6 DEF coordinatorVars
  <1> QED
    BY <1>2, <1>3, <1>4, <1>5, <1>6 DEF CoordinatorNext

(***************************************************************************)
(* Whoever conducts elections at a time, the lease of a leader is renewed  *)
(* only when it is over: a PUT goes through with the version it has read,  *)
(* and it has read that the lease was over or the leader another one.      *)
(***************************************************************************)
THEOREM LeasesRunOut == CoordinatorSpec => RenewedOnlyWhenOver
  <1>1. Typed /\ VersionsAreFresh /\ [CoordinatorNext]_coordinatorVars
          => [Renewal => state.left <= 0]_coordinatorVars
    BY RenewalStep
  <1> QED
    BY <1>1, TypedAlways, VersionsStayFresh, PTL DEF CoordinatorSpec, RenewedOnlyWhenOver, Renewal
====

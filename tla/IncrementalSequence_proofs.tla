---- MODULE IncrementalSequence_proofs ----
(***************************************************************************)
(* Proofs about DistributedLock, for any number of clients, any TTL and    *)
(* timeouts, both kinds of storage adapter, with and without failing       *)
(* reads; and, on top of them, about IncrementalSequence for any number of *)
(* processes, any batch size and increment, and any mixture of modes.      *)
(***************************************************************************)
EXTENDS IncrementalSequence, TLAPS

----------------------------------------------------------------------------
(* The lock.                                                               *)

LEMMA TypeInit == Init => TypeOK
  <1> SUFFICES ASSUME Init PROVE TypeOK
    OBVIOUS
  <1>1. 0 \in -1..Ttl
    BY ConstantsAssumption
  <1>2. lock \in [token : Token \cup {NoToken}, left : -1..Ttl]
    BY <1>1 DEF Init, Absent
  <1>3. lease \in [Client -> -1..Ttl]
    BY <1>1 DEF Init
  <1>4. pc \in [Client -> PC] /\ token \in [Client -> Token \cup {NoToken}] /\ wait \in [Client -> Nat]
    BY DEF Init, PC
  <1>5. lapsed \in BOOLEAN
    BY DEF Init
  <1> QED
    BY <1>2, <1>3, <1>4, <1>5 DEF TypeOK

LEMMA TypeNext == TypeOK /\ [Next]_vars => TypeOK'
  <1> USE ConstantsAssumption
  <1> SUFFICES ASSUME TypeOK, [Next]_vars PROVE TypeOK'
    OBVIOUS
  <1> USE DEF TypeOK, PC
  <1>1. ASSUME NEW c \in Client, StartAcquire(c) PROVE TypeOK'
    BY <1>1 DEF StartAcquire, TryPut, FreshTokens
  <1>2. ASSUME NEW c \in Client, PutWins(c) PROVE TypeOK'
    BY <1>2 DEF PutWins, Goto
  <1>3. ASSUME NEW c \in Client, PutLoses(c) PROVE TypeOK'
    BY <1>3 DEF PutLoses, Goto, Done
  <1>4. ASSUME NEW c \in Client, GetLock(c) PROVE TypeOK'
    BY <1>4 DEF GetLock, Goto, TryPut
  <1>5. ASSUME NEW c \in Client, ClearLock(c) PROVE TypeOK'
    BY <1>5 DEF ClearLock, TryPut, Absent
  <1>6. ASSUME NEW c \in Client, WakeUp(c) PROVE TypeOK'
    BY <1>6 DEF WakeUp, TryPut
  <1>7. ASSUME NEW c \in Client, StartRelease(c) PROVE TypeOK'
    BY <1>7 DEF StartRelease, Goto
  <1>8. ASSUME NEW c \in Client, CheckToken(c) PROVE TypeOK'
    BY <1>8 DEF CheckToken, Goto, Done
  <1>9. ASSUME NEW c \in Client, DeleteLock(c) PROVE TypeOK'
    BY <1>9 DEF DeleteLock, Done, Absent
  <1>10. ASSUME NEW c \in Client, Probe(c) PROVE TypeOK'
    BY <1>10 DEF Probe, Goto
  <1>11. ASSUME NEW c \in Client, ReadFails(c) PROVE TypeOK'
    BY <1>11 DEF ReadFails, Goto
  <1>12. ASSUME NEW c \in Client, Abandon(c) PROVE TypeOK'
    BY <1>12 DEF Abandon, Done
  <1>13. CASE Tick
    <2>1. \A n \in -1..Ttl : Countdown(n) \in -1..Ttl
      BY DEF Countdown
    <2>2. lock' \in [token : Token \cup {NoToken}, left : -1..Ttl]
      BY <1>13, <2>1 DEF Tick
    <2>3. lease' \in [Client -> -1..Ttl]
      BY <1>13, <2>1 DEF Tick
    <2>4. wait' \in [Client -> Nat] /\ lapsed' \in BOOLEAN
      BY <1>13 DEF Tick
    <2> QED
      BY <1>13, <2>2, <2>3, <2>4 DEF Tick
  <1>14. CASE UNCHANGED vars
    BY <1>14 DEF vars
  <1> QED
    BY <1>1, <1>2, <1>3, <1>4, <1>5, <1>6, <1>7, <1>8, <1>9, <1>10, <1>11,
       <1>12, <1>13, <1>14 DEF Next, Proceed, Disturb

(* Every variable keeps its type, whatever the clients, TTL and timeouts.  *)
THEOREM TypeCorrect == Spec => []TypeOK
  BY TypeInit, TypeNext, PTL DEF Spec

(***************************************************************************)
(* The inductive invariant.  Tokens tell the clients apart, and until a    *)
(* lapse nobody is about to delete a record that is not its own, so the    *)
(* record of whoever is inside is still in the store.                      *)
(***************************************************************************)
TokensAreUnique ==
  \A c, d \in Client : token[c] = token[d] /\ token[c] # NoToken => c = d

TokenWhileCalling ==
  \A c \in Client :
    /\ pc[c] = "idle" => token[c] = NoToken
    /\ pc[c] \notin {"idle", "delete"} => token[c] # NoToken

RecordsAreLive == ~lapsed => ~IsExpired

NoStaleDelete ==
  ~lapsed => \A c \in Client : pc[c] # "clear" /\ (pc[c] = "delete" => token[c] # NoToken)

HoldersAreRecorded == ~lapsed => \A c \in Client : Holding(c) => lock.token = token[c]

Inv ==
  /\ TypeOK
  /\ TokensAreUnique
  /\ TokenWhileCalling
  /\ RecordsAreLive
  /\ NoStaleDelete
  /\ HoldersAreRecorded

LEMMA InvImpliesExclusion == Inv => ExclusiveUntilLapse
  BY DEF Inv, ExclusiveUntilLapse, HoldersAreRecorded, TokensAreUnique, Holding

LEMMA InvInit == Init => Inv
  <1> SUFFICES ASSUME Init PROVE Inv
    OBVIOUS
  <1> QED
    BY TypeInit DEF Init, Inv, TokensAreUnique, TokenWhileCalling, RecordsAreLive, NoStaleDelete,
       HoldersAreRecorded, IsExpired, Exists, Absent, Holding

LEMMA InvNext == Inv /\ TypeOK' /\ [Next]_vars => Inv'
  <1> SUFFICES ASSUME Inv, TypeOK', [Next]_vars PROVE Inv'
    OBVIOUS
  <1> USE DEF Inv, TypeOK, PC, TokensAreUnique, TokenWhileCalling, RecordsAreLive, NoStaleDelete,
          HoldersAreRecorded, IsExpired, Exists, Holding
  <1>1. ASSUME NEW c \in Client, StartAcquire(c) PROVE Inv'
    BY <1>1, ConstantsAssumption DEF StartAcquire, TryPut, FreshTokens
  <1>2. ASSUME NEW c \in Client, PutWins(c) PROVE Inv'
    BY <1>2 DEF PutWins, Goto
  <1>3. ASSUME NEW c \in Client, PutLoses(c) PROVE Inv'
    BY <1>3 DEF PutLoses, Goto, Done
  <1>4. ASSUME NEW c \in Client, GetLock(c) PROVE Inv'
    BY <1>4 DEF GetLock, Goto, TryPut
  <1>5. ASSUME NEW c \in Client, ClearLock(c) PROVE Inv'
    BY <1>5 DEF ClearLock, TryPut, Absent
  <1>6. ASSUME NEW c \in Client, WakeUp(c) PROVE Inv'
    BY <1>6 DEF WakeUp, TryPut
  <1>7. ASSUME NEW c \in Client, StartRelease(c) PROVE Inv'
    BY <1>7 DEF StartRelease, Goto
  <1>8. ASSUME NEW c \in Client, CheckToken(c) PROVE Inv'
    BY <1>8 DEF CheckToken, Goto, Done
  <1>9. ASSUME NEW c \in Client, DeleteLock(c) PROVE Inv'
    BY <1>9 DEF DeleteLock, Done, Absent
  <1>10. ASSUME NEW c \in Client, Probe(c) PROVE Inv'
    BY <1>10 DEF Probe, Goto
  <1>11. ASSUME NEW c \in Client, ReadFails(c) PROVE Inv'
    BY <1>11 DEF ReadFails, Goto
  <1>12. ASSUME NEW c \in Client, Abandon(c) PROVE Inv'
    BY <1>12 DEF Abandon, Done
  <1>13. CASE Tick
    <2>1. lock'.token = lock.token /\ UNCHANGED <<pc, token>>
      BY <1>13 DEF Tick
    <2>2. ~lapsed' => ~lapsed /\ (Exists => lock.left > 0)
      <3>1. ~lapsed' => ~lapsed /\ ~(Exists /\ lock.left <= 0)
        BY <1>13, Zenon DEF Tick
      <3> QED
        BY <3>1
    <2>3. Exists => lock'.left = Countdown(lock.left)
      BY <1>13 DEF Tick
    <2>4. RecordsAreLive'
      BY <2>1, <2>2, <2>3 DEF Countdown
    <2> QED
      BY <2>1, <2>2, <2>4
  <1>14. CASE UNCHANGED vars
    BY <1>14 DEF vars
  <1> QED
    BY <1>1, <1>2, <1>3, <1>4, <1>5, <1>6, <1>7, <1>8, <1>9, <1>10, <1>11,
       <1>12, <1>13, <1>14 DEF Next, Proceed, Disturb

LEMMA Invariance == Spec => []Inv
  BY TypeCorrect, InvInit, InvNext, PTL DEF Spec

(* Until the first lapse the critical sections of any number of clients    *)
(* exclude each other.                                                     *)
THEOREM MutualExclusion == Spec => []ExclusiveUntilLapse
  BY Invariance, InvImpliesExclusion, PTL

(* Until the first lapse no step but the owner's own release removes or    *)
(* replaces a lock record.                                                 *)
THEOREM OwnersDelete == Spec => OnlyOwnerDeletes
  <1> DEFINE Deletes(c) == token[c] = lock.token /\ pc[c] = "delete" /\ pc'[c] = "idle"
             Removal == ~lapsed' /\ lock'.token # lock.token /\ Exists
                          => \E c \in Client : Deletes(c)
  <1>1. Inv /\ [Next]_vars => [Removal]_vars
    <2> SUFFICES ASSUME Inv, [Next]_vars PROVE Removal
      OBVIOUS
    <2>1. ASSUME NEW c \in Client, DeleteLock(c) PROVE Removal
      BY <2>1 DEF Inv, HoldersAreRecorded, NoStaleDelete, Holding, TypeOK, DeleteLock, Done
    <2>2. ASSUME NEW c \in Client, ClearLock(c) PROVE Removal
      BY <2>2 DEF Inv, NoStaleDelete, ClearLock
    <2>3. ASSUME NEW c \in Client, PutWins(c) PROVE Removal
      BY <2>3 DEF PutWins
    <2>4. CASE Tick
      BY <2>4 DEF Tick, Inv, TypeOK
    <2>5. CASE UNCHANGED lock
      BY <2>5
    <2> QED
      BY <2>1, <2>2, <2>3, <2>4, <2>5 DEF Next, Proceed, Disturb, StartAcquire, PutLoses, GetLock,
         WakeUp, StartRelease, CheckToken, Probe, ReadFails, Abandon, vars
  <1> QED
    BY <1>1, Invariance, PTL DEF Spec, OnlyOwnerDeletes

(* DistributedLock implements the mutex with lapsing leases that withLock  *)
(* offers its callers.                                                     *)
THEOREM Refinement == Spec => ImplementsMutex
  <1> DEFINE Holders == {c \in Client : Holding(c)}
  <1>1. Init => Mutex!Init
    BY DEF Init, Mutex!Init, Holding
  <1>2. Inv /\ Inv' /\ [Next]_vars => [Mutex!Next]_(Mutex!vars)
    <2> SUFFICES ASSUME Inv, Inv', [Next]_vars PROVE Mutex!Next \/ UNCHANGED Mutex!vars
      OBVIOUS
    <2> USE DEF Inv, TypeOK, PC, Mutex!Next, Mutex!vars
    <2>1. ASSUME NEW c \in Client, PutWins(c) PROVE Mutex!Enter(c) \/ Mutex!EnterLate(c)
      <3>1. c \notin Holders /\ Holders' = Holders \cup {c}
        BY <2>1 DEF PutWins, Goto, Holding, TokenWhileCalling
      <3>2. Holders = {} \/ lapsed
        BY <2>1 DEF PutWins, HoldersAreRecorded, Holding, Exists
      <3> QED
        BY <2>1, <3>1, <3>2 DEF PutWins, Mutex!Enter, Mutex!EnterLate
    <2>2. ASSUME NEW c \in Client, Done(c), pc[c] # "idle", UNCHANGED lapsed
          PROVE Mutex!Leave(c) \/ UNCHANGED Mutex!vars
      <3>1. Holders' = Holders \ {c}
        BY <2>2 DEF Done, Holding
      <3> QED
        BY <2>2, <3>1 DEF Mutex!Leave
    <2>3. ASSUME Holders' = Holders, lapsed => lapsed'
          PROVE Mutex!Lapse \/ UNCHANGED Mutex!vars
      BY <2>3 DEF Mutex!Lapse
    <2>4. ASSUME NEW c \in Client, StartAcquire(c) PROVE Holders' = Holders
      BY <2>4 DEF StartAcquire, TryPut, Holding
    <2>5. ASSUME NEW c \in Client, GetLock(c) \/ ClearLock(c) \/ WakeUp(c) PROVE Holders' = Holders
      BY <2>5 DEF GetLock, ClearLock, WakeUp, TryPut, Goto, Holding
    <2>6. ASSUME NEW c \in Client, StartRelease(c) PROVE Holders' = Holders
      BY <2>6 DEF StartRelease, Goto, Holding
    <2>7. ASSUME NEW c \in Client, Probe(c) \/ ReadFails(c) PROVE Holders' = Holders
      BY <2>7 DEF Probe, ReadFails, Goto, Holding, TokenWhileCalling
    <2>8. ASSUME NEW c \in Client, PutLoses(c)
          PROVE Done(c) \/ Holders' = Holders
      BY <2>8 DEF PutLoses, Goto, Holding
    <2>9. ASSUME NEW c \in Client, CheckToken(c)
          PROVE Done(c) \/ Holders' = Holders
      BY <2>9 DEF CheckToken, Goto, Holding
    <2>10. CASE Tick
      BY <2>10, <2>3 DEF Tick, Holding
    <2>11. CASE UNCHANGED vars
      BY <2>11 DEF vars, Holding
    <2>12. ASSUME NEW c \in Client, StartAcquire(c) \/ Proceed(c) \/ Disturb(c)
           PROVE Mutex!Next \/ UNCHANGED Mutex!vars
      <3>1. CASE PutWins(c)
        BY <3>1, <2>1
      <3>2. CASE PutLoses(c)
        BY <3>2, <2>2, <2>3, <2>8 DEF PutLoses
      <3>3. CASE CheckToken(c)
        BY <3>3, <2>2, <2>3, <2>9 DEF CheckToken
      <3>4. CASE DeleteLock(c)
        BY <3>4, <2>2 DEF DeleteLock
      <3>5. CASE Abandon(c)
        BY <3>5, <2>2 DEF Abandon
      <3>6. CASE StartAcquire(c)
        BY <3>6, <2>3, <2>4 DEF StartAcquire
      <3>7. CASE GetLock(c) \/ ClearLock(c) \/ WakeUp(c)
        BY <3>7, <2>3, <2>5 DEF GetLock, ClearLock, WakeUp
      <3>8. CASE StartRelease(c)
        BY <3>8, <2>3, <2>6 DEF StartRelease
      <3>9. CASE Probe(c) \/ ReadFails(c)
        BY <3>9, <2>3, <2>7 DEF Probe, ReadFails
      <3> QED
        BY <2>12, <3>1, <3>2, <3>3, <3>4, <3>5, <3>6, <3>7, <3>8, <3>9 DEF Proceed, Disturb
    <2> QED
      BY <2>10, <2>11, <2>12 DEF Next
  <1> QED
    BY <1>1, <1>2, Invariance, PTL DEF Spec, ImplementsMutex, Mutex!Spec

----------------------------------------------------------------------------
(* The sequence.                                                           *)

allVars == <<vars, seqVars>>

\* The sequence uses the lock as the lock module allows.
LEMMA LockStep == [SeqNext]_allVars => [Next]_vars
  BY DEF SeqNext, allVars, NextLocal, CallNext, CallReset, ReadCounter, WriteCounter, EndCallback,
     LockCall, DropCall, DropBatch, Next, Proceed, Disturb, vars

\* Whatever next(), reset(), batches and dying processes do, the lock of the
\* sequence behaves as DistributedLock does on its own, and so as the leased
\* mutex: withLock's callers add no way in, out or past it.
THEOREM SequenceKeepsTheLock == SeqSpec => Spec /\ ImplementsMutex
  <1>1. SeqInit => Init
    BY DEF SeqInit
  <1>2. SeqSpec => Spec
    BY <1>1, LockStep, PTL DEF SeqSpec, Spec, allVars
  <1> QED
    BY <1>2, Refinement

LEMMA LockInvariance == SeqSpec => []Inv
  <1>1. SeqInit => Inv
    BY InvInit DEF SeqInit
  <1>2. Inv /\ [SeqNext]_allVars => Inv'
    BY LockStep, TypeNext, InvNext DEF Inv
  <1> QED
    BY <1>1, <1>2, PTL DEF SeqSpec, allVars

LEMMA SeqTypeInit == SeqInit => SeqTypeOK
  <1> SUFFICES ASSUME SeqInit PROVE SeqTypeOK
    OBVIOUS
  <1>1. value \in Nat /\ batch \in [Process -> [current : Nat, end : Nat]] /\ issued \subseteq Nat
    BY SequenceAssumption DEF SeqInit, NoBatch
  <1>2. /\ goal \in [Client -> {"none", "next", "reset"}]
        /\ stage \in [Client -> {"none", "read", "wrote"}]
        /\ seen \in [Client -> Nat]
    BY DEF SeqInit
  <1>3. repeated \in BOOLEAN /\ rewound \in BOOLEAN
    BY DEF SeqInit
  <1> QED
    BY <1>1, <1>2, <1>3 DEF SeqTypeOK

LEMMA SeqTypeNext == SeqTypeOK /\ [SeqNext]_allVars => SeqTypeOK'
  <1> SUFFICES ASSUME SeqTypeOK, [SeqNext]_allVars PROVE SeqTypeOK'
    OBVIOUS
  <1> USE SequenceAssumption DEF SeqTypeOK
  <1>0. \A c \in Client : Step(c) \in Nat \ {0}
    BY DEF Step
  <1>1. ASSUME NEW c \in Client, NextLocal(c) PROVE SeqTypeOK'
    BY <1>1 DEF NextLocal, Issue
  <1>2. ASSUME NEW c \in Client, CallNext(c) PROVE SeqTypeOK'
    BY <1>2 DEF CallNext
  <1>3. ASSUME NEW c \in Client, CallReset(c) PROVE SeqTypeOK'
    BY <1>3 DEF CallReset, NoBatch
  <1>4. ASSUME NEW c \in Client, ReadCounter(c) PROVE SeqTypeOK'
    BY <1>4 DEF ReadCounter
  <1>5. ASSUME NEW c \in Client, WriteCounter(c) PROVE SeqTypeOK'
    <2>1. value' \in Nat
      BY <1>0, <1>5 DEF WriteCounter
    <2>2. rewound' \in BOOLEAN
      BY <1>5 DEF WriteCounter
    <2>3. stage' \in [Client -> {"none", "read", "wrote"}]
      BY <1>5 DEF WriteCounter
    <2> QED
      BY <1>5, <2>1, <2>2, <2>3 DEF WriteCounter
  <1>6. ASSUME NEW c \in Client, EndCallback(c) PROVE SeqTypeOK'
    BY <1>6 DEF EndCallback
  <1>7. ASSUME NEW c \in Client, LockCall(c) PROVE SeqTypeOK'
    <2>1. CASE Return(c)
      <3>1. batch' \in [Process -> [current : Nat, end : Nat]] /\ issued' \subseteq Nat
        <4>1. CASE goal[c] = "next" /\ stage[c] = "wrote"
          <5>1. issued' = issued \cup {seen[c]}
            BY <2>1, <4>1 DEF Return, Issue
          <5>2. [current |-> seen[c] + 1, end |-> seen[c] + Step(c)] \in [current : Nat, end : Nat]
            BY <1>0
          <5>3. batch' \in [Process -> [current : Nat, end : Nat]]
            BY <2>1, <4>1, <5>2 DEF Return
          <5> QED
            BY <5>1, <5>3
        <4>2. CASE ~(goal[c] = "next" /\ stage[c] = "wrote")
          BY <2>1, <4>2 DEF Return
        <4> QED
          BY <4>1, <4>2
      <3>2. repeated' \in BOOLEAN
        BY <2>1 DEF Return, Issue
      <3> QED
        BY <2>1, <3>1, <3>2 DEF Return
    <2> QED
      BY <1>7, <2>1 DEF LockCall, seqVars
  <1>8. ASSUME NEW c \in Client, DropCall(c) PROVE SeqTypeOK'
    BY <1>8 DEF DropCall
  <1>9. ASSUME NEW p \in Process, DropBatch(p) PROVE SeqTypeOK'
    BY <1>9 DEF DropBatch, NoBatch
  <1>10. CASE UNCHANGED seqVars
    BY <1>10 DEF seqVars
  <1> QED
    BY <1>1, <1>2, <1>3, <1>4, <1>5, <1>6, <1>7, <1>8, <1>9, <1>10 DEF SeqNext, allVars

(* The variables of the sequence keep their types.                         *)
THEOREM SeqTypeCorrect == SeqSpec => []SeqTypeOK
  BY SeqTypeInit, SeqTypeNext, PTL DEF SeqSpec, allVars

(***************************************************************************)
(* The inductive invariant.  A callback that has read the counter is the   *)
(* only one inside, so what it read is still there; one that has written   *)
(* it has moved it past every id and batch there is, and its reservation   *)
(* stays free until it returns.                                            *)
(***************************************************************************)
ReservedBelow(n) ==
  /\ \A id \in issued : id < n
  /\ \A p \in Process : HasIds(p) => batch[p].end <= n

BatchesUnissued ==
  \A p \in Process : \A id \in issued : ~(batch[p].current <= id /\ id < batch[p].end)

BatchesDisjoint ==
  \A p, q \in Process :
    p # q /\ HasIds(p) /\ HasIds(q)
      => batch[p].end <= batch[q].current \/ batch[q].end <= batch[p].current

ReadIsCurrent(c) == stage[c] = "read" => Holding(c) /\ seen[c] = value

WrittenIsReserved(c) ==
  stage[c] = "wrote" /\ goal[c] = "next"
    => Holding(c) /\ value = seen[c] + Step(c) /\ ReservedBelow(seen[c])

StagesFit == \A c \in Client : stage[c] # "none" => pc[c] \in {"held", "check", "delete"}

Sound ==
  ~lapsed /\ ~rewound =>
    /\ ~repeated
    /\ ReservedBelow(value)
    /\ BatchesUnissued
    /\ BatchesDisjoint
    /\ \A c \in Client : ReadIsCurrent(c) /\ WrittenIsReserved(c)

LEMMA SoundInit == SeqInit => Sound
  BY DEF SeqInit, Sound, ReservedBelow, BatchesUnissued, BatchesDisjoint, ReadIsCurrent,
     WrittenIsReserved, HasIds, NoBatch

LEMMA StagesNext == Inv /\ SeqTypeOK /\ StagesFit /\ [SeqNext]_allVars => StagesFit'
  <1> SUFFICES ASSUME Inv, SeqTypeOK, StagesFit, [SeqNext]_allVars PROVE StagesFit'
    OBVIOUS
  <1> USE DEF StagesFit, SeqTypeOK, Inv, TypeOK
  <1>1. ASSUME NEW c \in Client, NextLocal(c) PROVE StagesFit'
    BY <1>1 DEF NextLocal, vars
  <1>2. ASSUME NEW c \in Client, CallNext(c) \/ CallReset(c) PROVE StagesFit'
    BY <1>2 DEF CallNext, CallReset, StartAcquire, TryPut
  <1>3. ASSUME NEW c \in Client, ReadCounter(c) \/ WriteCounter(c) PROVE StagesFit'
    BY <1>3 DEF ReadCounter, WriteCounter, vars
  <1>4. ASSUME NEW c \in Client, EndCallback(c) PROVE StagesFit'
    BY <1>4 DEF EndCallback, StartRelease, Goto
  <1>5. ASSUME NEW c \in Client, LockCall(c) PROVE StagesFit'
    <2>1. stage' = stage \/ stage' = [stage EXCEPT ![c] = "none"]
      BY <1>5 DEF LockCall, Return, seqVars
    <2>2. pc'[c] = "idle" => stage'[c] = "none"
      BY <1>5 DEF LockCall, Return
    <2>3. stage[c] # "none" => pc'[c] \in {"held", "check", "delete", "idle"}
      BY <1>5 DEF LockCall, PutWins, PutLoses, GetLock, ClearLock, WakeUp, CheckToken, DeleteLock,
         ReadFails, Goto, Done, TryPut
    <2>4. \A d \in Client \ {c} : pc'[d] = pc[d]
      BY <1>5 DEF LockCall, PutWins, PutLoses, GetLock, ClearLock, WakeUp, CheckToken, DeleteLock,
         ReadFails, Goto, Done, TryPut
    <2> QED
      BY <2>1, <2>2, <2>3, <2>4
  <1>6. ASSUME NEW c \in Client, DropCall(c) PROVE StagesFit'
    BY <1>6 DEF DropCall, Abandon, Done
  <1>7. CASE Tick /\ UNCHANGED seqVars
    BY <1>7 DEF Tick, seqVars
  <1>8. ASSUME NEW p \in Process, DropBatch(p) PROVE StagesFit'
    BY <1>8 DEF DropBatch, vars
  <1>9. CASE UNCHANGED allVars
    BY <1>9 DEF allVars, vars, seqVars
  <1> QED
    BY <1>1, <1>2, <1>3, <1>4, <1>5, <1>6, <1>7, <1>8, <1>9 DEF SeqNext

\* A step that changes nothing but the lock, and drops at most some batches.
LEMMA Quiet ==
  ASSUME Sound, SeqTypeOK, ~lapsed' => ~lapsed,
         UNCHANGED <<value, issued, repeated, rewound>>,
         \A p \in Process : batch'[p] \in {batch[p], NoBatch},
         \A c \in Client : stage'[c] = "none" \/ (stage'[c] = stage[c] /\ goal'[c] = goal[c] /\ seen'[c] = seen[c]),
         ~lapsed' => \A c \in Client : stage'[c] # "none" /\ Holding(c) => Holding(c)'
  PROVE  Sound'
  <1> SUFFICES ASSUME ~lapsed', ~rewound' PROVE Sound'
    BY DEF Sound
  <1> USE DEF Sound, HasIds, NoBatch
  <1>1. ~lapsed /\ ~rewound /\ ~repeated'
    OBVIOUS
  <1>2. ReservedBelow(value)'
    BY <1>1 DEF ReservedBelow
  <1>3. BatchesUnissued'
    BY <1>1, SequenceAssumption DEF BatchesUnissued, SeqTypeOK
  <1>4. BatchesDisjoint'
    BY <1>1 DEF BatchesDisjoint
  <1>5. ASSUME NEW c \in Client PROVE ReadIsCurrent(c)' /\ WrittenIsReserved(c)'
    BY <1>1, <1>5 DEF ReadIsCurrent, WrittenIsReserved, ReservedBelow, Step
  <1> QED
    BY <1>1, <1>2, <1>3, <1>4, <1>5

\* A storage call of c's leaves the other calls where they are.
LEMMA OthersKeep ==
  ASSUME Inv, NEW c \in Client, LockCall(c)
  PROVE  /\ \A d \in Client \ {c} : pc'[d] = pc[d] /\ token'[d] = token[d]
         /\ ~lapsed' => ~lapsed
  <1>1. ASSUME NEW d \in Client \ {c} PROVE pc'[d] = pc[d] /\ token'[d] = token[d]
    BY DEF LockCall, PutWins, PutLoses, GetLock, ClearLock, WakeUp, CheckToken, DeleteLock,
       ReadFails, Goto, Done, TryPut, Inv, TypeOK
  <1>2. ~lapsed' => ~lapsed
    BY Zenon DEF LockCall, PutWins, PutLoses, GetLock, ClearLock, WakeUp, CheckToken, DeleteLock, ReadFails
  <1> QED
    BY <1>1, <1>2

LEMMA SoundNext == Inv /\ Inv' /\ SeqTypeOK /\ StagesFit /\ Sound /\ [SeqNext]_allVars => Sound'
  <1> SUFFICES ASSUME Inv, Inv', SeqTypeOK, StagesFit, Sound, [SeqNext]_allVars PROVE Sound'
    OBVIOUS
  <1> USE SequenceAssumption
  <1>e. \A c, d \in Client : ~lapsed /\ Holding(c) /\ Holding(d) => c = d
    BY InvImpliesExclusion DEF ExclusiveUntilLapse
  <1>s. \A c \in Client : Step(c) \in Nat \ {0}
    BY DEF Step
  <1>h. \A c \in Client : UNCHANGED <<pc, token>> => (Holding(c)' <=> Holding(c))
    BY DEF Holding
  <1>1. ASSUME NEW c \in Client, NextLocal(c) PROVE Sound'
    <2> SUFFICES ASSUME ~lapsed, ~rewound PROVE Sound'
      BY <1>1 DEF Sound, NextLocal, vars
    <2> DEFINE p == Home[c]
               id == batch[p].current
    <2> USE DEF SeqTypeOK, HasIds
    <2>1. p \in Process /\ id < batch[p].end /\ id \in Nat
      BY <1>1 DEF NextLocal
    <2>2. /\ issued' = issued \cup {id}
          /\ batch' = [batch EXCEPT ![p].current = id + 1]
          /\ UNCHANGED <<vars, value, goal, stage, seen, rewound>>
      BY <1>1 DEF NextLocal, Issue
    <2>3. id \notin issued
      BY <2>1 DEF Sound, BatchesUnissued
    <2>4. ~repeated'
      BY <1>1, <2>3 DEF NextLocal, Issue, Sound
    <2>5. ASSUME NEW n \in Nat, ReservedBelow(n) PROVE ReservedBelow(n)'
      BY <2>1, <2>2, <2>5 DEF ReservedBelow
    <2>6. BatchesUnissued'
      BY <2>1, <2>2 DEF Sound, BatchesUnissued, BatchesDisjoint
    <2>7. BatchesDisjoint'
      BY <2>1, <2>2 DEF Sound, BatchesDisjoint
    <2>8. ASSUME NEW d \in Client PROVE ReadIsCurrent(d)' /\ WrittenIsReserved(d)'
      BY <1>h, <2>2, <2>5, <2>8 DEF Sound, ReadIsCurrent, WrittenIsReserved, Step, vars
    <2> QED
      BY <2>2, <2>4, <2>5, <2>6, <2>7, <2>8 DEF Sound
  <1>2. ASSUME NEW c \in Client, CallNext(c) PROVE Sound'
    <2>1. stage[c] = "none"
      BY <1>2 DEF CallNext, StartAcquire, StagesFit
    <2>2. \A d \in Client : Holding(d) => Holding(d)'
      BY <1>2 DEF CallNext, StartAcquire, TryPut, Holding, Inv, TypeOK
    <2> QED
      BY <1>2, <2>1, <2>2, Quiet DEF CallNext, StartAcquire, SeqTypeOK
  <1>3. ASSUME NEW c \in Client, CallReset(c) PROVE Sound'
    <2>1. stage[c] = "none"
      BY <1>3 DEF CallReset, StartAcquire, StagesFit
    <2>2. \A d \in Client : Holding(d) => Holding(d)'
      BY <1>3 DEF CallReset, StartAcquire, TryPut, Holding, Inv, TypeOK
    <2> QED
      BY <1>3, <2>1, <2>2, Quiet DEF CallReset, StartAcquire, SeqTypeOK
  <1>4. ASSUME NEW c \in Client, ReadCounter(c) PROVE Sound'
    <2> SUFFICES ASSUME ~lapsed, ~rewound PROVE Sound'
      BY <1>4 DEF Sound, ReadCounter, vars
    <2>1. /\ UNCHANGED <<vars, value, batch, goal, issued, repeated, rewound>>
          /\ seen' = [seen EXCEPT ![c] = value] /\ stage' = [stage EXCEPT ![c] = "read"]
      BY <1>4 DEF ReadCounter
    <2>2. Holding(c)
      BY <1>4 DEF ReadCounter, Holding, Inv, TokenWhileCalling
    <2>3. ASSUME NEW n \in Nat, ReservedBelow(n) PROVE ReservedBelow(n)'
      BY <2>1, <2>3 DEF ReservedBelow, HasIds
    <2>4. BatchesUnissued' /\ BatchesDisjoint' /\ ~repeated' /\ ReservedBelow(value)'
      BY <2>1, <2>3 DEF Sound, BatchesUnissued, BatchesDisjoint, HasIds, SeqTypeOK
    <2>5. ASSUME NEW d \in Client PROVE ReadIsCurrent(d)' /\ WrittenIsReserved(d)'
      <3>1. CASE d = c
        BY <1>h, <2>1, <2>2, <3>1 DEF ReadIsCurrent, WrittenIsReserved, SeqTypeOK, vars
      <3>2. CASE d # c
        BY <1>h, <2>1, <2>3, <3>2 DEF Sound, ReadIsCurrent, WrittenIsReserved, SeqTypeOK, Step, vars
      <3> QED
        BY <3>1, <3>2
    <2> QED
      BY <2>4, <2>5 DEF Sound
  <1>5. ASSUME NEW c \in Client, WriteCounter(c) PROVE Sound'
    <2> SUFFICES ASSUME ~lapsed, ~rewound' PROVE Sound'
      BY <1>5 DEF Sound, WriteCounter, vars
    <2>1. /\ UNCHANGED <<vars, batch, goal, seen, issued, repeated>>
          /\ stage' = [stage EXCEPT ![c] = "wrote"]
      BY <1>5 DEF WriteCounter
    <2>2. ~rewound
      BY <1>5 DEF WriteCounter
    <2>3. Holding(c) /\ seen[c] = value /\ ReservedBelow(value)
      BY <1>5, <2>2 DEF WriteCounter, Sound, ReadIsCurrent
    <2>4. value' \in Nat /\ value' >= value /\ (goal[c] = "next" => value' = seen[c] + Step(c))
      <3>1. CASE goal[c] = "next"
        BY <1>5, <1>s, <2>3, <3>1 DEF WriteCounter, SeqTypeOK
      <3>2. CASE goal[c] # "next"
        <4>1. PICK v \in ResetTo : value' = v /\ rewound' = (rewound \/ v < value)
          BY <1>5, <3>2 DEF WriteCounter
        <4>2. ~(v < value)
          BY <4>1
        <4> QED
          BY <3>2, <4>1, <4>2 DEF SeqTypeOK
      <3> QED
        BY <3>1, <3>2
    <2>5. ASSUME NEW n \in Nat, ReservedBelow(n), NEW m \in Nat, n <= m PROVE ReservedBelow(m)'
      BY <2>1, <2>5 DEF ReservedBelow, HasIds, SeqTypeOK
    <2>6. BatchesUnissued' /\ BatchesDisjoint' /\ ~repeated'
      BY <2>1, <2>2 DEF Sound, BatchesUnissued, BatchesDisjoint, HasIds
    <2>7. ReservedBelow(value)'
      BY <2>3, <2>4, <2>5 DEF SeqTypeOK
    <2>8. ASSUME NEW d \in Client PROVE ReadIsCurrent(d)' /\ WrittenIsReserved(d)'
      <3>1. CASE d = c
        <4>1. ReservedBelow(seen[c])'
          BY <2>1, <2>3, <2>5 DEF SeqTypeOK, ReservedBelow, HasIds
        <4> QED
          BY <1>h, <2>1, <2>3, <2>4, <3>1, <4>1 DEF ReadIsCurrent, WrittenIsReserved, SeqTypeOK, Step, vars
      <3>2. CASE d # c
        <4>1. ~Holding(d)
          BY <1>e, <2>3, <3>2
        <4>2. stage'[d] = stage[d] /\ goal'[d] = goal[d]
          BY <2>1, <3>2 DEF SeqTypeOK
        <4> QED
          BY <2>2, <4>1, <4>2 DEF Sound, ReadIsCurrent, WrittenIsReserved
      <3> QED
        BY <3>1, <3>2
    <2> QED
      BY <2>6, <2>7, <2>8 DEF Sound
  <1>6. ASSUME NEW c \in Client, EndCallback(c) PROVE Sound'
    <2>1. \A d \in Client : Holding(d) => Holding(d)'
      BY <1>6 DEF EndCallback, StartRelease, Goto, Holding, Inv, TypeOK
    <2>2. \A d \in Client : stage'[d] \in {stage[d], "none"}
      BY <1>6 DEF EndCallback, SeqTypeOK
    <2> QED
      BY <1>6, <2>1, <2>2, Quiet DEF EndCallback, StartRelease
  <1>7. ASSUME NEW c \in Client, DropCall(c) PROVE Sound'
    <2>0. stage' = [stage EXCEPT ![c] = "none"]
      BY <1>7 DEF DropCall
    <2>1. \A d \in Client \ {c} : Holding(d) => Holding(d)'
      BY <1>7 DEF DropCall, Abandon, Done, Holding, Inv, TypeOK
    <2>2. \A d \in Client \ {c} : seen'[d] = seen[d] /\ goal'[d] = goal[d]
      BY <1>7 DEF DropCall, SeqTypeOK
    <2> QED
      BY <1>7, <2>0, <2>1, <2>2, Quiet DEF DropCall, Abandon, SeqTypeOK
  <1>8. ASSUME NEW p \in Process, DropBatch(p) PROVE Sound'
    BY <1>8, <1>h, Quiet DEF DropBatch, SeqTypeOK, vars
  <1>9. CASE Tick /\ UNCHANGED seqVars
    BY <1>9, <1>h, Quiet DEF Tick, seqVars
  <1>10. CASE UNCHANGED allVars
    BY <1>10, <1>h, Quiet DEF allVars, vars, seqVars
  <1>11. ASSUME NEW c \in Client, LockCall(c), pc'[c] # "idle" PROVE Sound'
    <2>1. UNCHANGED seqVars
      BY <1>11 DEF LockCall
    <2>2. \A d \in Client \ {c} : Holding(d) => Holding(d)'
      BY <1>11, OthersKeep DEF Holding
    <2>3. Holding(c) => Holding(c)'
      BY <1>11 DEF LockCall, PutWins, PutLoses, GetLock, ClearLock, WakeUp, CheckToken, DeleteLock,
         ReadFails, Goto, Done, TryPut, Holding, Inv, TypeOK
    <2>4. ~lapsed' => ~lapsed
      BY <1>11, OthersKeep
    <2> QED
      BY <2>1, <2>2, <2>3, <2>4, Quiet DEF seqVars
  <1>12. ASSUME NEW c \in Client, LockCall(c), pc'[c] = "idle" PROVE Sound'
    <2>1. Return(c)
      BY <1>12 DEF LockCall
    <2>2. \A d \in Client \ {c} : Holding(d) => Holding(d)'
      BY <1>12, OthersKeep DEF Holding
    <2>3. ~lapsed' => ~lapsed
      BY <1>12, OthersKeep
    <2>4. stage'[c] = "none" /\ \A d \in Client \ {c} :
            stage'[d] = stage[d] /\ goal'[d] = goal[d] /\ seen'[d] = seen[d]
      BY <2>1 DEF Return, SeqTypeOK
    <2>5. CASE ~(goal[c] = "next" /\ stage[c] = "wrote")
      BY <2>1, <2>2, <2>3, <2>4, <2>5, Quiet DEF Return
    <2>6. CASE goal[c] = "next" /\ stage[c] = "wrote"
      <3> SUFFICES ASSUME ~lapsed, ~rewound PROVE Sound'
        BY <2>1, <2>3 DEF Sound, Return
      <3> DEFINE p == Home[c]
                 id == seen[c]
                 new == [current |-> id + 1, end |-> id + Step(c)]
      <3> USE DEF SeqTypeOK, HasIds
      <3>1. Holding(c) /\ value = id + Step(c) /\ ReservedBelow(id) /\ id \in Nat /\ p \in Process
        BY <2>6 DEF Sound, WrittenIsReserved
      <3>2. UNCHANGED <<value, rewound>> /\ issued' = issued \cup {id}
        BY <2>1, <2>6 DEF Return, Issue
      <3>3. ASSUME NEW q \in Process
            PROVE  \/ batch'[q].current = batch[q].current /\ batch'[q].end = batch[q].end
                   \/ q = p /\ batch'[q].current = id + 1 /\ batch'[q].end = value
        BY <2>1, <2>6, <3>1 DEF Return
      <3>4. ~repeated'
        BY <2>1, <2>6, <3>1 DEF Return, Issue, Sound, ReservedBelow
      <3>5. ReservedBelow(value)'
        BY <1>s, <3>1, <3>2, <3>3 DEF Sound, ReservedBelow
      <3>6. BatchesUnissued'
        <4>1. \A i \in issued : i \in Nat /\ i < id
          BY <3>1 DEF ReservedBelow
        <4>2. \A q \in Process : HasIds(q) => batch[q].end <= id
          BY <3>1 DEF ReservedBelow
        <4> SUFFICES ASSUME NEW q \in Process, NEW i \in issued'
                     PROVE  (~(batch[q].current <= i /\ i < batch[q].end))'
          BY DEF BatchesUnissued
        <4>3. i = id \/ i \in issued
          BY <3>2
        <4>4. CASE batch'[q].current = id + 1
          <5>1. i \in Nat /\ i <= id
            <6>1. CASE i = id
              BY <3>1, <6>1
            <6>2. CASE i \in issued
              BY <3>1, <4>1, <6>2
            <6> QED
              BY <4>3, <6>1, <6>2
          <5>2. ~(batch'[q].current <= i)
            BY <3>1, <4>4, <5>1
          <5> QED
            BY <3>2, <5>2
        <4>5. CASE batch'[q].current = batch[q].current /\ batch'[q].end = batch[q].end
          <5>1. CASE i = id
            BY <3>1, <4>2, <4>5, <5>1
          <5>2. CASE i \in issued
            BY <4>5, <5>2 DEF Sound, BatchesUnissued
          <5> QED
            BY <4>3, <5>1, <5>2
        <4> QED
          BY <3>3, <4>4, <4>5
      <3>7. BatchesDisjoint'
        <4>1. ASSUME NEW q \in Process, HasIds(q) PROVE batch[q].end <= id
          BY <3>1, <4>1 DEF ReservedBelow
        <4> SUFFICES ASSUME NEW q \in Process, NEW r \in Process, q # r, HasIds(q)', HasIds(r)'
                     PROVE  (batch[q].end <= batch[r].current \/ batch[r].end <= batch[q].current)'
          BY DEF BatchesDisjoint
        <4>2. CASE q = p /\ batch'[q].current = id + 1 /\ batch'[q].end = value
          BY <3>1, <3>3, <4>1, <4>2
        <4>3. CASE r = p /\ batch'[r].current = id + 1 /\ batch'[r].end = value
          BY <3>1, <3>3, <4>1, <4>3
        <4>4. CASE /\ batch'[q].current = batch[q].current /\ batch'[q].end = batch[q].end
                   /\ batch'[r].current = batch[r].current /\ batch'[r].end = batch[r].end
          BY <4>4 DEF Sound, BatchesDisjoint
        <4> QED
          BY <3>3, <4>2, <4>3, <4>4
      <3>8. ASSUME NEW d \in Client PROVE ReadIsCurrent(d)' /\ WrittenIsReserved(d)'
        <4>1. d = c => stage'[d] = "none"
          BY <2>4
        <4>2. d # c => ~Holding(d) /\ stage'[d] = stage[d] /\ goal'[d] = goal[d]
          BY <1>e, <2>4, <3>1
        <4> QED
          BY <4>1, <4>2 DEF Sound, ReadIsCurrent, WrittenIsReserved
      <3> QED
        BY <3>2, <3>4, <3>5, <3>6, <3>7, <3>8 DEF Sound
    <2> QED
      BY <2>5, <2>6
  <1> QED
    BY <1>1, <1>2, <1>3, <1>4, <1>5, <1>6, <1>7, <1>8, <1>9, <1>10, <1>11, <1>12 DEF SeqNext

LEMMA SeqInvariance == SeqSpec => [](Inv /\ SeqTypeOK /\ StagesFit /\ Sound)
  <1>1. SeqInit => StagesFit
    BY DEF SeqInit, StagesFit
  <1> QED
    BY <1>1, LockInvariance, SeqTypeCorrect, SoundInit, StagesNext, SoundNext, PTL DEF SeqSpec, allVars

(* No id is handed out twice while no lock lapses and no reset() moves the *)
(* counter down: a returning call issues what it read, below the counter   *)
(* it wrote and above everything issued or reserved.                       *)
THEOREM IdsAreUnique == SeqSpec => []UniqueIds
  <1>1. Sound => UniqueIds
    BY DEF Sound, UniqueIds
  <1> QED
    BY <1>1, SeqInvariance, PTL

(* Under the same conditions reserved batches stay disjoint, unissued and  *)
(* below the counter.                                                      *)
THEOREM ReservationsHold == SeqSpec => []BatchesAreReserved
  <1>1. SeqTypeOK /\ Sound => BatchesAreReserved
    BY DEF Sound, BatchesAreReserved, ReservedBelow, BatchesUnissued, BatchesDisjoint, SeqTypeOK
  <1> QED
    BY <1>1, SeqInvariance, PTL

(* A callback never writes back a value older than the counter.            *)
THEOREM CounterMonotone == SeqSpec => CounterNeverFallsBack
  <1>1. Inv /\ SeqTypeOK /\ Sound /\ [SeqNext]_allVars
          => [~lapsed' /\ ~rewound' => value' >= value]_allVars
    <2> SUFFICES ASSUME SeqTypeOK, Sound, [SeqNext]_allVars, ~lapsed', ~rewound' PROVE value' >= value
      BY DEF allVars
    <2>1. ASSUME NEW c \in Client, WriteCounter(c) PROVE value' >= value
      <3>0. Step(c) \in Nat
        BY SequenceAssumption DEF Step
      <3>1. CASE goal[c] = "next"
        BY <2>1, <3>0, <3>1 DEF WriteCounter, Sound, ReadIsCurrent, SeqTypeOK, vars
      <3>2. CASE goal[c] # "next"
        <4>1. PICK v \in ResetTo : value' = v /\ rewound' = (rewound \/ v < value)
          BY <2>1, <3>2 DEF WriteCounter
        <4>2. ~(v < value)
          BY <4>1
        <4> QED
          BY <4>1, <4>2, SequenceAssumption DEF SeqTypeOK
      <3> QED
        BY <3>1, <3>2
    <2>2. (\A c \in Client : ~WriteCounter(c)) => value' = value
      BY DEF SeqNext, allVars, NextLocal, CallNext, CallReset, ReadCounter, EndCallback, LockCall, Return,
         DropCall, DropBatch, seqVars
    <2> QED
      BY <2>1, <2>2 DEF SeqTypeOK
  <1> QED
    BY <1>1, SeqInvariance, PTL DEF SeqSpec, CounterNeverFallsBack, allVars
====

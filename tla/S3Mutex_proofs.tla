---- MODULE S3Mutex_proofs ----
(***************************************************************************)
(* Proofs about S3Mutex for any number of clients, any ttl and grace.      *)
(***************************************************************************)
EXTENDS S3Mutex, TLAPS

LEMMA MutexTypeInit == MutexInit => MutexTypeOK
  <1> SUFFICES ASSUME MutexInit PROVE MutexTypeOK
    OBVIOUS
  <1>1. clock \in Nat /\ lock \in [id : LockId \cup {NoId}, until : Nat]
    BY DEF MutexInit, Absent
  <1>2. pc \in [Client -> MutexPC] /\ id \in [Client -> LockId \cup {NoId}]
    BY DEF MutexInit, MutexPC
  <1>3. now \in [Client -> Nat] /\ until \in [Client -> Nat]
    BY DEF MutexInit
  <1>4. read \in [Client -> [id : LockId \cup {NoId}, until : Nat]]
    BY DEF MutexInit, Absent
  <1>5. overtaken \in BOOLEAN
    BY DEF MutexInit
  <1> QED
    BY <1>1, <1>2, <1>3, <1>4, <1>5 DEF MutexTypeOK

\* Done, Acquired and KeepOld leave values of the right types.
LEMMA ClientTypes ==
  ASSUME MutexTypeOK, NEW c \in Client, Done(c) \/ Acquired(c) \/ KeepOld(c)
  PROVE  /\ pc' \in [Client -> MutexPC]
         /\ id' \in [Client -> LockId \cup {NoId}]
         /\ now' \in [Client -> Nat]
         /\ until' \in [Client -> Nat]
         /\ read' \in [Client -> [id : LockId \cup {NoId}, until : Nat]]
         /\ Acquired(c) => lock' \in [id : LockId \cup {NoId}, until : Nat]
  <1> USE MutexAssumption DEF MutexTypeOK, MutexPC, Absent, Goto
  <1>1. Absent \in [id : LockId \cup {NoId}, until : Nat]
    OBVIOUS
  <1>2. CASE Done(c)
    BY <1>1, <1>2 DEF Done, Acquired, Record
  <1>3. CASE Acquired(c)
    BY <1>1, <1>3 DEF Acquired, Record
  <1>4. CASE KeepOld(c)
    BY <1>1, <1>4 DEF KeepOld, Acquired, Record
  <1> QED
    BY <1>2, <1>3, <1>4

\* What a client has read is a record.
LEMMA ReadTypes ==
  ASSUME MutexTypeOK, NEW c \in Client, NEW fit, NEW next \in MutexPC, Read(c, fit, next)
  PROVE  MutexTypeOK'
  <1> USE DEF MutexTypeOK
  <1>1. UNCHANGED <<clock, lock, overtaken>>
    BY DEF Read
  <1>2. CASE Done(c)
    BY <1>1, <1>2, ClientTypes
  <1>3. CASE ~Done(c)
    <2>1. /\ Goto(c, "purge") \/ Goto(c, next)
          /\ read' = [read EXCEPT ![c] = lock]
          /\ UNCHANGED <<id, now, until>>
      BY <1>3, Zenon DEF Read
    <2>2. pc' \in [Client -> MutexPC]
      BY <2>1 DEF Goto, MutexPC
    <2>3. read' \in [Client -> [id : LockId \cup {NoId}, until : Nat]]
      BY <2>1
    <2> QED
      BY <1>1, <2>1, <2>2, <2>3
  <1> QED
    BY <1>2, <1>3

LEMMA MutexTypeNext == MutexTypeOK /\ [MutexNext]_mutexVars => MutexTypeOK'
  <1> SUFFICES ASSUME MutexTypeOK, [MutexNext]_mutexVars PROVE MutexTypeOK'
    OBVIOUS
  <1> USE MutexAssumption DEF MutexTypeOK
  <1>1. ASSUME NEW c \in Client, TryLock(c) PROVE MutexTypeOK'
    BY <1>1 DEF TryLock, Goto, FreshIds, MutexPC
  <1>2. ASSUME NEW c \in Client, PutLock(c) PROVE MutexTypeOK'
    BY <1>2, ClientTypes DEF PutLock, Goto, MutexPC
  <1>3. ASSUME NEW c \in Client, ReadLock(c) \/ ReadOwn(c) PROVE MutexTypeOK'
    <2>1. "take" \in MutexPC /\ "head" \in MutexPC
      BY DEF MutexPC
    <2>2. Read(c, lock.until <= now[c], "take") \/ Read(c, lock.id = id[c], "head")
      BY <1>3 DEF ReadLock, ReadOwn
    <2> QED
      BY <2>1, <2>2, ReadTypes
  <1>4. ASSUME NEW c \in Client, TakeOver(c) PROVE MutexTypeOK'
    BY <1>4, ClientTypes DEF TakeOver
  <1>5. ASSUME NEW c \in Client, Unlock(c) PROVE MutexTypeOK'
    BY <1>5 DEF Unlock, Goto, MutexPC
  <1>6. ASSUME NEW c \in Client, HeadOwn(c) PROVE MutexTypeOK'
    BY <1>6, ClientTypes DEF HeadOwn, Goto, MutexPC
  <1>7. ASSUME NEW c \in Client, Delete(c) PROVE MutexTypeOK'
    <2>1. lock' \in [id : LockId \cup {NoId}, until : Nat]
      BY <1>7 DEF Delete, Absent
    <2>2. overtaken' \in BOOLEAN
      BY <1>7 DEF Delete
    <2>3. (Done(c) \/ KeepOld(c)) /\ clock' = clock
      BY <1>7 DEF Delete
    <2> QED
      BY <2>1, <2>2, <2>3, ClientTypes
  <1>8. ASSUME NEW c \in Client, Extend(c) PROVE MutexTypeOK'
    BY <1>8 DEF Extend, Goto, MutexPC
  <1>9. ASSUME NEW c \in Client, ReadToExtend(c) PROVE MutexTypeOK'
    <2>1. UNCHANGED <<clock, lock, overtaken>>
      BY <1>9 DEF ReadToExtend
    <2>2. CASE KeepOld(c)
      BY <2>1, <2>2, ClientTypes
    <2>3. CASE ~KeepOld(c)
      <3>1. /\ \E call \in {"clear", "renew"} : Goto(c, call)
            /\ now' = [now EXCEPT ![c] = clock]
            /\ read' = [read EXCEPT ![c] = lock]
            /\ UNCHANGED <<id, until>>
        BY <1>9, <2>3 DEF ReadToExtend
      <3>2. pc' \in [Client -> MutexPC]
        BY <3>1 DEF Goto, MutexPC
      <3>3. now' \in [Client -> Nat]
        BY <3>1
      <3>4. read' \in [Client -> [id : LockId \cup {NoId}, until : Nat]]
        BY <3>1
      <3> QED
        BY <2>1, <3>1, <3>2, <3>3, <3>4
    <2> QED
      BY <2>2, <2>3
  <1>10. ASSUME NEW c \in Client, Renew(c) PROVE MutexTypeOK'
    BY <1>10, ClientTypes DEF Renew
  <1>11. ASSUME NEW c \in Client, Peek(c) PROVE MutexTypeOK'
    BY <1>11 DEF Peek, Goto, MutexPC
  <1>12. ASSUME NEW c \in Client, Abandon(c) PROVE MutexTypeOK'
    BY <1>12, ClientTypes DEF Abandon
  <1>13. CASE Tick
    BY <1>13 DEF Tick
  <1>14. CASE UNCHANGED mutexVars
    BY <1>14 DEF mutexVars
  <1> QED
    BY <1>1, <1>2, <1>3, <1>4, <1>5, <1>6, <1>7, <1>8, <1>9, <1>10, <1>11, <1>12, <1>13, <1>14
    DEF MutexNext, LockCall

(* The variables of the mutex keep their types.                            *)
THEOREM MutexTypeCorrect == MutexSpec => []MutexTypeOK
  BY MutexTypeInit, MutexTypeNext, PTL DEF MutexSpec

(***************************************************************************)
(* The inductive invariant: a live holder's record is the one in the       *)
(* store, because whoever is about to replace or delete a record has       *)
(* either put it there or seen it expire.                                  *)
(***************************************************************************)
IdsAreUnique == \A c, d \in Client : id[c] = id[d] /\ id[c] # NoId => c = d

BusyHaveIds == \A c \in Client : pc[c] \notin {"idle", "purge"} => id[c] # NoId

ReadsAreSeen ==
  \A c \in Client :
    /\ now[c] <= clock
    /\ pc[c] = "take" => read[c].until <= now[c]
    /\ pc[c] \in {"purge", "clear"} => read[c].until < clock
    /\ pc[c] \in {"head", "delete", "renew"} => read[c].id = id[c]

LiveAreRecorded ==
  ~overtaken => \A c \in Client : Live(c) => lock = [id |-> id[c], until |-> until[c]]

MutexInv == MutexTypeOK /\ IdsAreUnique /\ BusyHaveIds /\ ReadsAreSeen /\ LiveAreRecorded

LEMMA MutexInvInit == MutexInit => MutexInv
  BY MutexTypeInit
  DEF MutexInit, MutexInv, IdsAreUnique, BusyHaveIds, ReadsAreSeen, LiveAreRecorded, Live, Holding

LEMMA MutexInvImplies == MutexInv => LiveHoldersExclusive
  BY DEF MutexInv, LiveHoldersExclusive, LiveAreRecorded, IdsAreUnique, BusyHaveIds, Live, Holding

\* Whose record a step may replace or remove.
LEMMA LiveLockIsSafe ==
  ASSUME MutexInv, [MutexNext]_mutexVars, ~overtaken', NEW c \in Client, Live(c), lock' # lock
  PROVE  \/ Acquired(c)
         \/ pc[c] = "delete" /\ pc'[c] = "idle"
  <1> USE DEF MutexInv, MutexTypeOK
  <1>1. ~overtaken /\ lock = [id |-> id[c], until |-> until[c]] /\ id[c] # NoId /\ clock < until[c]
    <2>1. ~overtaken
      BY DEF MutexNext, mutexVars, LockCall, TryLock, PutLock, ReadLock, Read, TakeOver, Unlock, ReadOwn,
         HeadOwn, Delete, Extend, ReadToExtend, Renew, Peek, Abandon, Tick
    <2> QED
      BY <2>1 DEF LiveAreRecorded, BusyHaveIds, Live, Holding
  <1>2. ASSUME NEW d \in Client, PutLock(d) PROVE FALSE
    BY <1>1, <1>2 DEF PutLock, Exists
  <1>3. ASSUME NEW d \in Client, TakeOver(d) PROVE FALSE
    BY <1>1, <1>3 DEF TakeOver, ReadsAreSeen
  <1>4. ASSUME NEW d \in Client, Renew(d) PROVE Acquired(c)
    <2>1. lock = read[d] /\ Acquired(d)
      BY <1>4 DEF Renew
    <2>2. d = c
      BY <1>1, <1>4, <2>1 DEF Renew, ReadsAreSeen, IdsAreUnique
    <2> QED
      BY <2>1, <2>2
  <1>5. ASSUME NEW d \in Client, Delete(d) PROVE pc[c] = "delete" /\ pc'[c] = "idle"
    <2>1. lock = read[d]
      BY <1>1, <1>5, Zenon DEF Delete, Exists
    <2>2. pc[d] = "delete"
      BY <1>1, <1>5, <2>1 DEF Delete, ReadsAreSeen
    <2>3. d = c
      BY <1>1, <2>1, <2>2 DEF ReadsAreSeen, IdsAreUnique
    <2> QED
      BY <1>5, <2>2, <2>3 DEF Delete, Done, Goto
  <1>6. \E d \in Client : PutLock(d) \/ TakeOver(d) \/ Renew(d) \/ Delete(d)
    BY DEF MutexNext, mutexVars, LockCall, TryLock, ReadLock, Read, Unlock, ReadOwn,
       HeadOwn, Extend, ReadToExtend, Peek, Abandon, Tick
  <1> QED
    BY <1>2, <1>3, <1>4, <1>5, <1>6

Books == IdsAreUnique /\ BusyHaveIds /\ ReadsAreSeen

\* The three ways in which a call of c's ends keep the books.
LEMMA EndsKeepBooks ==
  ASSUME MutexInv, NEW c \in Client, clock' = clock,
         Done(c) \/ (pc[c] \notin {"idle", "purge"} /\ (Acquired(c) \/ KeepOld(c)))
  PROVE  Books'
  <1> USE MutexAssumption DEF MutexInv, MutexTypeOK, Goto
  <1>1. CASE Done(c)
    <2>1. IdsAreUnique'
      BY <1>1 DEF Done, IdsAreUnique
    <2>2. BusyHaveIds'
      BY <1>1 DEF Done, BusyHaveIds
    <2>3. ReadsAreSeen'
      BY <1>1 DEF Done, ReadsAreSeen
    <2> QED
      BY <2>1, <2>2, <2>3 DEF Books
  <1>2. CASE pc[c] \notin {"idle", "purge"} /\ (Acquired(c) \/ KeepOld(c))
    <2>1. /\ id' = id /\ pc' = [pc EXCEPT ![c] = "held"]
          /\ now' = [now EXCEPT ![c] = 0] /\ read' = [read EXCEPT ![c] = Absent]
      BY <1>2 DEF Acquired, KeepOld
    <2>2. IdsAreUnique'
      BY <2>1 DEF IdsAreUnique
    <2>3. BusyHaveIds'
      BY <1>2, <2>1 DEF BusyHaveIds
    <2>4. ReadsAreSeen'
      BY <2>1 DEF ReadsAreSeen
    <2> QED
      BY <2>2, <2>3, <2>4 DEF Books
  <1> QED
    BY <1>1, <1>2

\* What one step does to the bookkeeping of its own client and of others.
LEMMA BooksNext ==
  ASSUME MutexInv, [MutexNext]_mutexVars
  PROVE  Books'
  <1> USE MutexAssumption DEF MutexInv, MutexTypeOK, Books
  <1>1. ASSUME NEW c \in Client, TryLock(c) PROVE Books'
    <2>1. PICK i \in FreshIds : id' = [id EXCEPT ![c] = i]
      BY <1>1 DEF TryLock
    <2>2. i # NoId /\ \A d \in Client : id[d] # i
      BY <2>1 DEF FreshIds
    <2>3. IdsAreUnique'
      BY <2>1, <2>2 DEF IdsAreUnique
    <2>4. BusyHaveIds'
      BY <1>1, <2>1, <2>2 DEF TryLock, Goto, BusyHaveIds
    <2>5. ReadsAreSeen'
      BY <1>1, <2>1 DEF TryLock, Goto, ReadsAreSeen
    <2> QED
      BY <2>3, <2>4, <2>5
  <1>2. ASSUME NEW c \in Client, PutLock(c) PROVE Books'
    <2>1. CASE Acquired(c)
      BY <1>2, <2>1, EndsKeepBooks DEF PutLock
    <2>2. CASE ~Acquired(c)
      BY <1>2, <2>2 DEF PutLock, Goto, IdsAreUnique, BusyHaveIds, ReadsAreSeen
    <2> QED
      BY <2>1, <2>2
  <1>3. ASSUME NEW c \in Client, ReadLock(c) PROVE Books'
    <2>1. CASE Done(c)
      BY <1>3, <2>1, EndsKeepBooks DEF ReadLock, Read
    <2>2. CASE ~Done(c)
      BY <1>3, <2>2 DEF ReadLock, Read, Outdated, Goto, IdsAreUnique, BusyHaveIds, ReadsAreSeen
    <2> QED
      BY <2>1, <2>2
  <1>4. ASSUME NEW c \in Client, ReadOwn(c) PROVE Books'
    <2>1. CASE Done(c)
      BY <1>4, <2>1, EndsKeepBooks DEF ReadOwn, Read
    <2>2. CASE ~Done(c)
      BY <1>4, <2>2 DEF ReadOwn, Read, Outdated, Goto, IdsAreUnique, BusyHaveIds, ReadsAreSeen
    <2> QED
      BY <2>1, <2>2
  <1>5. ASSUME NEW c \in Client, TakeOver(c) PROVE Books'
    BY <1>5, EndsKeepBooks DEF TakeOver
  <1>6. ASSUME NEW c \in Client, Unlock(c) PROVE Books'
    BY <1>6 DEF Unlock, Goto, IdsAreUnique, BusyHaveIds, ReadsAreSeen
  <1>7. ASSUME NEW c \in Client, HeadOwn(c) PROVE Books'
    <2>1. CASE Done(c)
      BY <1>7, <2>1, EndsKeepBooks DEF HeadOwn
    <2>2. CASE ~Done(c)
      BY <1>7, <2>2 DEF HeadOwn, Goto, IdsAreUnique, BusyHaveIds, ReadsAreSeen
    <2> QED
      BY <2>1, <2>2
  <1>8. ASSUME NEW c \in Client, Delete(c) PROVE Books'
    BY <1>8, EndsKeepBooks DEF Delete
  <1>9. ASSUME NEW c \in Client, Extend(c) PROVE Books'
    BY <1>9 DEF Extend, Goto, IdsAreUnique, BusyHaveIds, ReadsAreSeen
  <1>10. ASSUME NEW c \in Client, ReadToExtend(c) PROVE Books'
    <2>1. CASE KeepOld(c)
      BY <1>10, <2>1, EndsKeepBooks DEF ReadToExtend
    <2>2. CASE ~KeepOld(c)
      <3>1. /\ \/ pc' = [pc EXCEPT ![c] = "clear"] /\ lock.until + Grace < clock
               \/ pc' = [pc EXCEPT ![c] = "renew"] /\ lock.id = id[c]
            /\ read' = [read EXCEPT ![c] = lock] /\ now' = [now EXCEPT ![c] = clock]
            /\ UNCHANGED <<clock, lock, id>>
            /\ Exists /\ pc[c] = "reread"
        BY <1>10, <2>2 DEF ReadToExtend, Outdated, Goto
      <3>2. IdsAreUnique' /\ BusyHaveIds'
        BY <3>1 DEF IdsAreUnique, BusyHaveIds
      <3>3. ReadsAreSeen'
        BY <3>1 DEF ReadsAreSeen
      <3> QED
        BY <3>2, <3>3
    <2> QED
      BY <2>1, <2>2
  <1>11. ASSUME NEW c \in Client, Renew(c) PROVE Books'
    BY <1>11, EndsKeepBooks DEF Renew
  <1>12. ASSUME NEW c \in Client, Peek(c) PROVE Books'
    BY <1>12 DEF Peek, Outdated, Goto, IdsAreUnique, BusyHaveIds, ReadsAreSeen
  <1>13. ASSUME NEW c \in Client, Abandon(c) PROVE Books'
    BY <1>13, EndsKeepBooks DEF Abandon
  <1>14. CASE Tick
    BY <1>14 DEF Tick, IdsAreUnique, BusyHaveIds, ReadsAreSeen
  <1>15. CASE UNCHANGED mutexVars
    BY <1>15 DEF mutexVars, IdsAreUnique, BusyHaveIds, ReadsAreSeen
  <1> QED
    BY <1>1, <1>2, <1>3, <1>4, <1>5, <1>6, <1>7, <1>8, <1>9, <1>10, <1>11, <1>12, <1>13, <1>14, <1>15
    DEF MutexNext, LockCall

\* How a client may come to be a live holder after a step.
LEMMA LiveBefore ==
  ASSUME MutexInv, [MutexNext]_mutexVars, NEW c \in Client, Live(c)'
  PROVE  \/ Acquired(c)
         \/ Live(c) /\ id'[c] = id[c] /\ until'[c] = until[c] /\ pc'[c] # "idle"
  <1> USE MutexAssumption DEF MutexInv, MutexTypeOK, Live, Holding
  <1>1. ASSUME NEW d \in Client, TryLock(d) PROVE Live(c) /\ id'[c] = id[c] /\ until'[c] = until[c]
    BY <1>1 DEF TryLock, Goto
  <1>2. ASSUME NEW d \in Client, PutLock(d) \/ TakeOver(d), ~Acquired(c)
        PROVE  Live(c) /\ id'[c] = id[c] /\ until'[c] = until[c]
    BY <1>2 DEF PutLock, TakeOver, Acquired, Done, Goto
  <1>3. ASSUME NEW d \in Client, ReadLock(d) \/ ReadOwn(d)
        PROVE  Live(c) /\ id'[c] = id[c] /\ until'[c] = until[c]
    BY <1>3 DEF ReadLock, ReadOwn, Read, Done, Goto
  <1>4. ASSUME NEW d \in Client, Unlock(d) \/ HeadOwn(d) \/ Delete(d)
        PROVE  Live(c) /\ id'[c] = id[c] /\ until'[c] = until[c]
    BY <1>4 DEF Unlock, HeadOwn, Delete, Done, KeepOld, Goto
  <1>5. ASSUME NEW d \in Client, Extend(d) \/ ReadToExtend(d)
        PROVE  Live(c) /\ id'[c] = id[c] /\ until'[c] = until[c]
    BY <1>5 DEF Extend, ReadToExtend, KeepOld, Goto
  <1>6. ASSUME NEW d \in Client, Renew(d), ~Acquired(c)
        PROVE  Live(c) /\ id'[c] = id[c] /\ until'[c] = until[c]
    BY <1>6 DEF Renew, Acquired, KeepOld, Goto
  <1>7. ASSUME NEW d \in Client, Peek(d) \/ Abandon(d)
        PROVE  Live(c) /\ id'[c] = id[c] /\ until'[c] = until[c]
    BY <1>7 DEF Peek, Abandon, Done, Goto
  <1>8. CASE Tick \/ UNCHANGED mutexVars
    BY <1>8 DEF Tick, mutexVars
  <1>9. pc'[c] # "idle"
    OBVIOUS
  <1> QED
    BY <1>1, <1>2, <1>3, <1>4, <1>5, <1>6, <1>7, <1>8, <1>9 DEF MutexNext, LockCall

LEMMA LiveNext == MutexInv /\ [MutexNext]_mutexVars => LiveAreRecorded'
  <1> SUFFICES ASSUME MutexInv, [MutexNext]_mutexVars, ~overtaken', NEW c \in Client, Live(c)'
               PROVE  lock' = [id |-> id'[c], until |-> until'[c]]
    BY DEF LiveAreRecorded
  <1>1. CASE Acquired(c)
    BY <1>1 DEF Acquired, Record, MutexInv, MutexTypeOK
  <1>2. CASE Live(c) /\ id'[c] = id[c] /\ until'[c] = until[c] /\ pc'[c] # "idle" /\ ~Acquired(c)
    <2>1. lock' = lock
      BY <1>2, LiveLockIsSafe
    <2>2. ~overtaken
      BY DEF MutexNext, mutexVars, LockCall, TryLock, PutLock, ReadLock, Read, TakeOver, Unlock, ReadOwn,
         HeadOwn, Delete, Extend, ReadToExtend, Renew, Peek, Abandon, Tick
    <2> QED
      BY <1>2, <2>1, <2>2 DEF MutexInv, LiveAreRecorded
  <1> QED
    BY <1>1, <1>2, LiveBefore

LEMMA MutexInvariance == MutexSpec => []MutexInv
  <1>1. MutexInv /\ [MutexNext]_mutexVars => MutexInv'
    BY MutexTypeNext, BooksNext, LiveNext DEF MutexInv, Books
  <1> QED
    BY <1>1, MutexInvInit, PTL DEF MutexSpec

(* Two callers are never both within the expiresAt they were given, unless *)
(* a DELETE overtakes a takeover or a renewal.                             *)
THEOREM LiveExclusion == MutexSpec => []LiveHoldersExclusive
  BY MutexInvariance, MutexInvImplies, PTL

(* Under the same condition only its own unlock() removes a live holder's  *)
(* record.                                                                 *)
THEOREM LiveRecordSafety == MutexSpec => LiveRecordStays
  <1>1. MutexInv /\ [MutexNext]_mutexVars
          => [\A c \in Client :
                ~overtaken' /\ Live(c) /\ lock.id = id[c] /\ lock'.id # id[c]
                  => pc[c] = "delete" /\ pc'[c] = "idle"]_mutexVars
    <2> SUFFICES ASSUME MutexInv, [MutexNext]_mutexVars, ~overtaken', NEW c \in Client, Live(c),
                        lock.id = id[c], lock'.id # id[c]
                 PROVE  pc[c] = "delete" /\ pc'[c] = "idle"
      OBVIOUS
    <2>1. ~Acquired(c)
      BY DEF Acquired, Record
    <2> QED
      BY <2>1, LiveLockIsSafe
  <1> QED
    BY <1>1, MutexInvariance, PTL DEF MutexSpec, LiveRecordStays
====

---- MODULE S3Mutex ----
(***************************************************************************)
(* S3Mutex of src/src/plugins/concerns/s3-mutex.class.ts: a lock that is   *)
(* one object, created with ifNoneMatch, taken over with ifMatch once its  *)
(* expiresAt has passed, and removed by deleteIfVersion(), which is a HEAD *)
(* followed by an unconditional DELETE.  Keys are independent: there is    *)
(* one.                                                                    *)
(*                                                                         *)
(* A version is an ETag, the hash of the body, so the model lets the       *)
(* record stand for its version.  Each storage call is one atomic step.    *)
(* All clocks agree; `clock` is a number because tryLock() compares with   *)
(* the time at which it was called, and because takeover leaves a former   *)
(* holder's expiresAt where it was.                                        *)
(***************************************************************************)
EXTENDS Integers

CONSTANTS
  Client,   \* concurrent callers
  LockId,   \* _generateLockId()'s values; see FreshIds
  NoId,     \* the id of no lock
  Ttl,      \* ttlMs, in ticks
  Grace,    \* PluginStorage's own ttl ends this much later (60 s in the code)
  MaxTime   \* the clock stops here

ASSUME MutexAssumption ==
  /\ NoId \notin LockId
  /\ Ttl \in Nat \ {0}
  /\ Grace \in Nat
  /\ MaxTime \in Nat

VARIABLES
  clock,
  lock,       \* the lock object: lockId and expiresAt
  pc,         \* the storage call each client is about to make
  id,         \* the lockId of each client's current lock or attempt
  now,        \* Date.now() as the client's current call read it
  until,      \* the expiresAt the client was last given
  read,       \* the record, and hence version, the client has read
  overtaken   \* history: a DELETE has hit another record than the one read

mutexVars == <<clock, lock, pc, id, now, until, read, overtaken>>

Absent == [id |-> NoId, until |-> 0]
Exists == lock.id # NoId

\* Mutant of Record: the ttl is subtracted.
RecordBefore(c) == [id |-> id[c], until |-> now[c] - Ttl]

Record(c) == [id |-> id[c], until |-> now[c] + Ttl]

\* getWithVersion() removes such a record instead of answering it.
Outdated == Exists /\ lock.until + Grace < clock

MutexPC == {"idle", "put", "read", "take", "purge", "held",
            "verify", "head", "delete", "reread", "renew", "clear"}

Holding(c) == pc[c] \in {"held", "verify", "head", "delete", "reread", "renew", "clear"}

\* The holder is still within the expiresAt it was given.
Live(c) == Holding(c) /\ clock < until[c]

\* An id that nobody remembers cannot be told from a new one.
FreshIds == LockId \ ({lock.id} \cup {id[d] : d \in Client} \cup {read[d].id : d \in Client})

MutexTypeOK ==
  /\ clock \in Nat
  /\ lock \in [id : LockId \cup {NoId}, until : Nat]
  /\ pc \in [Client -> MutexPC]
  /\ id \in [Client -> LockId \cup {NoId}]
  /\ now \in [Client -> Nat]
  /\ until \in [Client -> Nat]
  /\ read \in [Client -> [id : LockId \cup {NoId}, until : Nat]]
  /\ overtaken \in BOOLEAN

MutexInit ==
  /\ clock = 0
  /\ lock = Absent
  /\ pc = [c \in Client |-> "idle"]
  /\ id = [c \in Client |-> NoId]
  /\ now = [c \in Client |-> 0]
  /\ until = [c \in Client |-> 0]
  /\ read = [c \in Client |-> Absent]
  /\ overtaken = FALSE

Goto(c, call) == pc' = [pc EXCEPT ![c] = call]

\* The call is over for c, which no longer has (or never got) the lock.
Done(c) ==
  /\ Goto(c, "idle")
  /\ id' = [id EXCEPT ![c] = NoId]
  /\ now' = [now EXCEPT ![c] = 0]
  /\ until' = [until EXCEPT ![c] = 0]
  /\ read' = [read EXCEPT ![c] = Absent]

Acquired(c) ==
  /\ lock' = Record(c)
  /\ Goto(c, "held")
  /\ until' = [until EXCEPT ![c] = now[c] + Ttl]
  /\ now' = [now EXCEPT ![c] = 0]
  /\ read' = [read EXCEPT ![c] = Absent]
  /\ UNCHANGED id

TryLock(c) ==
  /\ pc[c] = "idle"
  /\ \E i \in FreshIds : id' = [id EXCEPT ![c] = i]
  /\ now' = [now EXCEPT ![c] = clock]
  /\ Goto(c, "put")
  /\ UNCHANGED <<clock, lock, until, read, overtaken>>

PutLock(c) ==
  /\ pc[c] = "put"
  /\ IF Exists THEN Goto(c, "read") /\ UNCHANGED <<lock, id, now, until, read>>
               ELSE Acquired(c)
  /\ UNCHANGED <<clock, overtaken>>

\* getWithVersion() of a call: next is what follows a record that is fit.
Read(c, fit, next) ==
  /\ IF ~Exists \/ (~Outdated /\ ~fit) THEN Done(c)
     ELSE /\ Goto(c, IF Outdated THEN "purge" ELSE next)
          /\ read' = [read EXCEPT ![c] = lock]
          /\ UNCHANGED <<id, now, until>>
  /\ UNCHANGED <<clock, lock, overtaken>>

\* The takeover compares with the time at which tryLock() was called.
ReadLock(c) == pc[c] = "read" /\ Read(c, lock.until <= now[c], "take")

\* Mutant of TakeOver: the PUT without ifMatch.
TakeUnconditionally(c) ==
  /\ pc[c] = "take"
  /\ Acquired(c)
  /\ UNCHANGED <<clock, overtaken>>

TakeOver(c) ==
  /\ pc[c] = "take"
  /\ IF lock = read[c] THEN Acquired(c) ELSE Done(c) /\ UNCHANGED lock
  /\ UNCHANGED <<clock, overtaken>>

\* The callers' work is done.
Unlock(c) ==
  /\ pc[c] = "held"
  /\ Goto(c, "verify")
  /\ UNCHANGED <<clock, lock, id, now, until, read, overtaken>>

\* Mutant of ReadOwn: unlock() does not compare the lockId.
ReadAnyones(c) == pc[c] = "verify" /\ Read(c, TRUE, "head")

ReadOwn(c) == pc[c] = "verify" /\ Read(c, lock.id = id[c], "head")

HeadOwn(c) ==
  /\ pc[c] = "head"
  /\ IF lock = read[c] THEN Goto(c, "delete") /\ UNCHANGED <<id, now, until, read>> ELSE Done(c)
  /\ UNCHANGED <<clock, lock, overtaken>>

\* extend() failed: false, and the caller still has whatever it had.
KeepOld(c) ==
  /\ Goto(c, "held")
  /\ now' = [now EXCEPT ![c] = 0]
  /\ read' = [read EXCEPT ![c] = Absent]
  /\ UNCHANGED <<id, until>>

\* deleteIfVersion()'s DELETE, or the one of getWithVersion().
Delete(c) ==
  /\ pc[c] \in {"delete", "purge", "clear"}
  /\ lock' = Absent
  /\ overtaken' = (overtaken \/ (Exists /\ lock # read[c]))
  /\ IF pc[c] = "clear" THEN KeepOld(c) ELSE Done(c)
  /\ UNCHANGED clock

Extend(c) ==
  /\ pc[c] = "held"
  /\ Goto(c, "reread")
  /\ UNCHANGED <<clock, lock, id, now, until, read, overtaken>>

\* extend() reads the record, and the time when it has it.
ReadToExtend(c) ==
  /\ pc[c] = "reread"
  /\ IF Outdated \/ (Exists /\ lock.id = id[c] /\ clock < lock.until)
       THEN /\ Goto(c, IF Outdated THEN "clear" ELSE "renew")
            /\ now' = [now EXCEPT ![c] = clock]
            /\ read' = [read EXCEPT ![c] = lock]
            /\ UNCHANGED <<id, until>>
       ELSE KeepOld(c)
  /\ UNCHANGED <<clock, lock, overtaken>>

Renew(c) ==
  /\ pc[c] = "renew"
  /\ IF lock = read[c] THEN Acquired(c) ELSE KeepOld(c) /\ UNCHANGED lock
  /\ UNCHANGED <<clock, overtaken>>

\* isLocked() or getLockInfo() comes across an outdated record.
Peek(c) ==
  /\ pc[c] = "idle"
  /\ Outdated
  /\ Goto(c, "purge")
  /\ read' = [read EXCEPT ![c] = lock]
  /\ UNCHANGED <<clock, lock, id, now, until, overtaken>>

\* The process dies, or a storage call throws.
Abandon(c) ==
  /\ pc[c] # "idle"
  /\ Done(c)
  /\ UNCHANGED <<clock, lock, overtaken>>

Tick ==
  /\ clock < MaxTime
  /\ clock' = clock + 1
  /\ UNCHANGED <<lock, pc, id, now, until, read, overtaken>>

\* The storage calls of tryLock() and of unlock().
LockCall(c) ==
  \/ PutLock(c) \/ ReadLock(c) \/ TakeOver(c)
  \/ ReadOwn(c) \/ HeadOwn(c) \/ Delete(c)

MutexNext ==
  \/ \E c \in Client :
       \/ TryLock(c) \/ LockCall(c) \/ Unlock(c)
       \/ Extend(c) \/ ReadToExtend(c) \/ Renew(c)
       \/ Peek(c) \/ Abandon(c)
  \/ Tick

MutexSpec == MutexInit /\ [][MutexNext]_mutexVars

----------------------------------------------------------------------------
(* Unless a DELETE overtakes another client's takeover or renewal, two     *)
(* callers are never both within the expiresAt they were given: takeover   *)
(* and renewal are compare-and-swap, and only an expired record is taken.  *)
LiveHoldersExclusive == ~overtaken => \A c, d \in Client : Live(c) /\ Live(d) => c = d

(* Under the same condition a live holder's record never leaves the store  *)
(* but by its own unlock(): nobody's takeover, cleanup or unlock() with a  *)
(* stale version reaches it.                                               *)
LiveRecordStays ==
  [][\A c \in Client :
       ~overtaken' /\ Live(c) /\ lock.id = id[c] /\ lock'.id # id[c]
         => pc[c] = "delete" /\ pc'[c] = "idle"]_mutexVars
====

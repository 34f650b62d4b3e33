---- MODULE DistributedLock ----
(***************************************************************************)
(* DistributedLock of src/src/concerns/distributed-lock.ts: a lock that is *)
(* one object of the store, created with `ifNoneMatch: '*'`, carrying its  *)
(* owner's token and an expiry, and removed by an unconditional DELETE.    *)
(* Locks of different names are independent, so the module has one.        *)
(*                                                                         *)
(* A client is one asynchronous caller (of withLock, or of acquire and     *)
(* release in a finally), in any process; every storage call is one atomic *)
(* step and whatever happens between two of them may be anybody's step.    *)
(*                                                                         *)
(* Time is counted down, not up: `left`, `lease` and `wait` are the ticks  *)
(* until a timestamp is reached, so that the model needs no clock bound;   *)
(* -1 stands for "now > _expiresAt".  All the clocks agree.                *)
(***************************************************************************)
EXTENDS Integers

CONSTANTS
  Client,       \* concurrent callers
  Token,        \* idGenerator()'s values; see FreshTokens
  NoToken,      \* the token of no lock
  Ttl,          \* options.ttl, in ticks
  Timeouts,     \* the options.timeout values in use, in ticks; 0 is the default
  ReadsExpire,  \* TRUE: PluginStorage.get() deletes an expired record and
                \* answers null; FALSE: SequenceStorage.get() returns it
  ReadsFail     \* may a read throw (a storage error, a corrupted body)?

ASSUME ConstantsAssumption ==
  /\ NoToken \notin Token
  /\ Ttl \in Nat
  /\ Timeouts \subseteq Nat
  /\ ReadsExpire \in BOOLEAN
  /\ ReadsFail \in BOOLEAN

VARIABLES
  lock,      \* the lock object: its token and the ticks it has left
  pc,        \* the storage call each client is about to make
  token,     \* the token of each client's current acquire()
  lease,     \* ticks left of the _expiresAt the client computed itself
  wait,      \* ticks until the client's timeout is over
  lapsed     \* history: a record outlived its TTL, or could not be read

vars == <<lock, pc, token, lease, wait, lapsed>>

Absent == [token |-> NoToken, left |-> 0]
Exists == lock.token # NoToken
IsExpired == Exists /\ lock.left < 0

PC == {"idle", "put", "get", "clear", "sleep", "held", "check", "delete"}

TypeOK ==
  /\ lock \in [token : Token \cup {NoToken}, left : -1..Ttl]
  /\ pc \in [Client -> PC]
  /\ token \in [Client -> Token \cup {NoToken}]
  /\ lease \in [Client -> -1..Ttl]
  /\ wait \in [Client -> Nat]
  /\ lapsed \in BOOLEAN

\* A client owns the lock from the response to its PUT until its release has
\* deleted (or decided not to delete) the record.
Holding(c) == pc[c] \in {"held", "check", "delete"} /\ token[c] # NoToken

(***************************************************************************)
(* idGenerator() never repeats a value.  A token that neither the store    *)
(* nor any client remembers cannot be told from a new one, so the model    *)
(* reuses those and needs no bound on the number of acquire() calls.       *)
(***************************************************************************)
FreshTokens == Token \ ({lock.token} \cup {token[d] : d \in Client})

Init ==
  /\ lock = Absent
  /\ pc = [c \in Client |-> "idle"]
  /\ token = [c \in Client |-> NoToken]
  /\ lease = [c \in Client |-> 0]
  /\ wait = [c \in Client |-> 0]
  /\ lapsed = FALSE

\* The call is over for c: it forgets its token.
Done(c) ==
  /\ pc' = [pc EXCEPT ![c] = "idle"]
  /\ token' = [token EXCEPT ![c] = NoToken]
  /\ lease' = [lease EXCEPT ![c] = 0]
  /\ wait' = [wait EXCEPT ![c] = 0]

\* Mutant of TryPut: the expiry is a tick too late.
TryPutLate(c) ==
  /\ pc' = [pc EXCEPT ![c] = "put"]
  /\ lease' = [lease EXCEPT ![c] = Ttl + 1]

\* One more turn of acquire()'s loop: a payload with a new _expiresAt.
TryPut(c) ==
  /\ pc' = [pc EXCEPT ![c] = "put"]
  /\ lease' = [lease EXCEPT ![c] = Ttl]

Goto(c, call) == pc' = [pc EXCEPT ![c] = call] /\ UNCHANGED lease

StartAcquire(c) ==
  /\ pc[c] = "idle"
  /\ \E t \in FreshTokens : token' = [token EXCEPT ![c] = t]
  /\ \E timeout \in Timeouts : wait' = [wait EXCEPT ![c] = timeout]
  /\ TryPut(c)
  /\ UNCHANGED <<lock, lapsed>>

\* Mutant of PutWins: a PUT without ifNoneMatch.
PutUnconditionally(c) ==
  /\ pc[c] = "put"
  /\ lock' = [token |-> token[c], left |-> lease[c]]
  /\ lapsed' = (lapsed \/ lease[c] < 0)
  /\ wait' = [wait EXCEPT ![c] = 0]
  /\ Goto(c, "held")
  /\ UNCHANGED token

\* The conditional PUT finds no object.  The record may expire on its way.
PutWins(c) ==
  /\ pc[c] = "put"
  /\ ~Exists
  /\ lock' = [token |-> token[c], left |-> lease[c]]
  /\ lapsed' = (lapsed \/ lease[c] < 0)
  /\ wait' = [wait EXCEPT ![c] = 0]
  /\ Goto(c, "held")
  /\ UNCHANGED token

\* Mutant of PutLoses: the timeout is not looked at.
PutLosesForEver(c) ==
  /\ pc[c] = "put"
  /\ Exists
  /\ Goto(c, "get")
  /\ UNCHANGED <<lock, token, wait, lapsed>>

\* 412.  The timeout is looked at before the record is.
PutLoses(c) ==
  /\ pc[c] = "put"
  /\ Exists
  /\ IF wait[c] = 0
       THEN Done(c)
       ELSE Goto(c, "get") /\ UNCHANGED <<token, wait>>
  /\ UNCHANGED <<lock, lapsed>>

\* Mutants of GetLock: every record counts as expired, and none does.
ClearAnyLock(c) ==
  /\ pc[c] = "get"
  /\ IF Exists THEN Goto(c, "clear") ELSE TryPut(c)
  /\ UNCHANGED <<lock, token, wait, lapsed>>

ClearNoLock(c) ==
  /\ pc[c] = "get"
  /\ IF Exists THEN Goto(c, "sleep") ELSE TryPut(c)
  /\ UNCHANGED <<lock, token, wait, lapsed>>

GetLock(c) ==
  /\ pc[c] = "get"
  /\ IF ~Exists THEN TryPut(c)
     ELSE IF IsExpired THEN Goto(c, "clear")
     ELSE Goto(c, "sleep")
  /\ UNCHANGED <<lock, token, wait, lapsed>>

\* Deletes whatever the key holds by now.
ClearLock(c) ==
  /\ pc[c] = "clear"
  /\ lock' = Absent
  /\ TryPut(c)
  /\ UNCHANGED <<token, wait, lapsed>>

\* The backoff, or any shorter pause, is over.
WakeUp(c) ==
  /\ pc[c] = "sleep"
  /\ TryPut(c)
  /\ UNCHANGED <<lock, token, wait, lapsed>>

\* The callback is over and withLock's finally releases.
StartRelease(c) ==
  /\ pc[c] = "held"
  /\ Goto(c, "check")
  /\ UNCHANGED <<lock, token, wait, lapsed>>

\* release() reads the record and compares the tokens.
CheckToken(c) ==
  /\ pc[c] = "check"
  /\ IF (ReadsExpire /\ IsExpired) \/ (Exists /\ lock.token = token[c])
       THEN Goto(c, "delete") /\ UNCHANGED <<token, wait>>
       ELSE Done(c)
  /\ UNCHANGED <<lock, lapsed>>

\* Like ClearLock, deletes whatever the key holds by now.
DeleteLock(c) ==
  /\ pc[c] = "delete"
  /\ lock' = Absent
  /\ Done(c)
  /\ UNCHANGED lapsed

\* Mutant of Probe: it cleans up a live record as well.
ProbeClears(c) ==
  /\ pc[c] = "idle"
  /\ Exists
  /\ Goto(c, "delete")
  /\ UNCHANGED <<lock, token, wait, lapsed>>

\* isLocked() or getLockInfo() finds an expired record and cleans it up.
Probe(c) ==
  /\ pc[c] = "idle"
  /\ IsExpired
  /\ Goto(c, "delete")
  /\ UNCHANGED <<lock, token, wait, lapsed>>

\* A read throws: every caller answers with a DELETE of the key.
ReadFails(c) ==
  /\ ReadsFail
  /\ \/ pc[c] = "get" /\ Goto(c, "clear")
     \/ pc[c] \in {"idle", "check"} /\ Goto(c, "delete")
  /\ lapsed' = TRUE
  /\ UNCHANGED <<lock, token, wait>>

\* The process dies, or a storage call throws out of acquire() or release().
Abandon(c) ==
  /\ pc[c] # "idle"
  /\ Done(c)
  /\ UNCHANGED <<lock, lapsed>>

Countdown(n) == IF n < 0 THEN n ELSE n - 1

Tick ==
  /\ \/ Exists /\ lock.left >= 0
     \/ \E c \in Client : wait[c] > 0 \/ (pc[c] # "idle" /\ lease[c] >= 0)
  /\ lock' = IF Exists THEN [lock EXCEPT !.left = Countdown(@)] ELSE lock
  /\ lease' = [c \in Client |-> IF pc[c] = "idle" THEN lease[c] ELSE Countdown(lease[c])]
  /\ wait' = [c \in Client |-> IF wait[c] = 0 THEN 0 ELSE wait[c] - 1]
  /\ lapsed' = (lapsed \/ (Exists /\ lock.left <= 0))
  /\ UNCHANGED <<pc, token>>

\* What c does of its own, once it has called acquire().
Proceed(c) ==
  \/ PutWins(c) \/ PutLoses(c) \/ GetLock(c) \/ ClearLock(c) \/ WakeUp(c)
  \/ StartRelease(c) \/ CheckToken(c) \/ DeleteLock(c)

\* What happens to c now and then.
Disturb(c) == Probe(c) \/ ReadFails(c) \/ Abandon(c)

Next ==
  \/ \E c \in Client : StartAcquire(c) \/ Proceed(c) \/ Disturb(c)
  \/ Tick

Spec == Init /\ [][Next]_vars

----------------------------------------------------------------------------
(* Until a record outlives its TTL or a read fails, withLock's callbacks   *)
(* never overlap: PUT with ifNoneMatch is the only way in, and neither the *)
(* cleanup of expired records nor a release removes the holder's record.   *)
ExclusiveUntilLapse == ~lapsed => \A c, d \in Client : Holding(c) /\ Holding(d) => c = d

(* Until then the record is only ever removed by the client that put it    *)
(* there: the cleanup DELETE of a waiting acquire() (distributed-lock.ts   *)
(* :186), the one of isLocked() and a release() with somebody else's token *)
(* all spare it.                                                           *)
OnlyOwnerDeletes ==
  [][~lapsed' /\ lock'.token # lock.token /\ Exists
       => \E c \in Client : token[c] = lock.token /\ pc[c] = "delete" /\ pc'[c] = "idle"]_vars

(* acquire() always returns, with a handle or with null: neither other     *)
(* clients' locks nor the cleanup of expired ones keep it looping past its *)
(* timeout.                                                                *)
AcquireReturns == \A c \in Client : pc[c] = "put" ~> pc[c] \in {"held", "idle"}

(* No record stays for ever: its owner releases it, or, when the owner is  *)
(* gone, some waiting acquire() cleans it up ("TTL-based auto-expiration   *)
(* prevents deadlocks from crashed processes").                            *)
LockIsFreed == \A t \in Token : lock.token = t ~> lock.token # t

(* The lock implements the mutex its callers rely on.                      *)
Mutex == INSTANCE LeasedMutex WITH holders <- {c \in Client : Holding(c)}
ImplementsMutex == Mutex!Spec
====

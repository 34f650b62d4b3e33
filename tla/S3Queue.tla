---- MODULE S3Queue ----
(***************************************************************************)
(* One message of an S3Queue and the workers after it                      *)
(* (src/src/plugins/s3-queue.plugin.ts).  A claim is protected three       *)
(* times: by a lock per message, which LeasedMutex stands for; by a marker *)
(* with a TTL in PluginStorage and in a cache per process; and by the ETag *)
(* of the queue entry, with which updateConditional() makes its PUT        *)
(* conditional (src/src/core/resource-persistence.class.ts).  An ETag is   *)
(* the hash of the body, and a queue entry has an empty body as long as it *)
(* fits into the metadata (behavior body-overflow), so here the condition  *)
(* always holds: a PUT replaces whatever is there.                         *)
(*                                                                         *)
(* A worker comes to attemptClaim() by polling or with a ticket; both      *)
(* only tell it which entry to look at.                                    *)
(***************************************************************************)
EXTENDS LeasedMutex, Naturals

CONSTANTS
  Process,      \* the processes that consume the queue
  Home,         \* the process of each worker (Client is the set of workers)
  Token,        \* lock tokens; one that nobody remembers counts as new
  None,         \* no token, no status, no entry
  Mode,         \* failureStrategy.mode; there is a dead letter queue unless it is "retry"
  MaxAttempts,  \* the message's maxAttempts
  Visibility,   \* visibilityTimeout
  Backoff,      \* the delay before a retry
  MarkerTtl,    \* processedCacheTTL
  CallsFail,    \* may calls of the store fail, or their responses be lost?
  MaxTime       \* the clock stops here, and so do renewals

ASSUME QueueAssumption ==
  /\ Home \in [Client -> Process]
  /\ None \notin Token
  /\ Mode \in {"retry", "hybrid", "dead-letter"}
  /\ MaxAttempts \in Nat
  /\ {Visibility, Backoff, MarkerTtl} \subseteq Nat \ {0} /\ MaxTime \in Nat
  /\ CallsFail \in BOOLEAN

VARIABLES
  clock,
  entry,    \* the queue entry: status, lockToken, visibleAt, attempts
  buried,   \* is there a copy in the dead letter queue?
  marker,   \* when the marker in PluginStorage expires
  cache,    \* when the marker in a process' processedCache expires
  job,      \* what each worker is at (see Idle)
  ext       \* how far its handler's renewLock() has come (see NoExt)

\* History.
VARIABLES
  current,      \* the calls since whose first read the entry has not changed
  clobbered,    \* has a PUT replaced another version than the one first read?
  excused,      \* see MarkersSuffice
  completions   \* how often the message was completed, up to 2

queueVars == <<holders, lapsed, clock, entry, buried, marker, cache, job, ext,
               current, clobbered, excused, completions>>

Terminal == {"completed", "failed", "dead"}
Status == {"pending", "processing"} \cup Terminal
Entry == {e \in [status : Status, token : Token \cup {None}, visible : Nat, attempts : Nat] :
            e.token # None <=> e.status = "processing"}

Holding == {"have", "bury", "verify", "reread", "put"}

(***************************************************************************)
(* A worker's job: where it is, the message's lockToken, the status to be  *)
(* written, the time the claim started at or the visibleAt to be written,  *)
(* the entry as it was read, and the end of the claim (0: not a claim).    *)
(***************************************************************************)
Job == [pc : {"idle", "check", "mark", "skip", "marked", "get", "claim", "clear"} \cup Holding,
        token : Token \cup {None}, want : Status \cup {None}, at : Nat,
        base : Entry \cup {None}, until : Nat]
Idle == [pc |-> "idle", token |-> None, want |-> None, at |-> 0, base |-> None, until |-> 0]

\* A renewal: where it is, the entry as it was read, the visibleAt to be written.
Ext == [pc : {"none", "reread", "put"}, base : Entry \cup {None}, at : Nat]
NoExt == [pc |-> "none", base |-> None, at |-> 0]

Exposed == {w \in Client : job[w].pc \in {"marked", "get", "claim"}}

Goto(w, pc) == job' = [job EXCEPT ![w].pc = pc]
Rest(w) == job' = [job EXCEPT ![w] = Idle]
Uncache(w) == cache' = [cache EXCEPT ![Home[w]] = 0]

TokenOf(e) == IF e = None THEN None ELSE e.token
FreshTokens ==
  Token \ ({entry.token} \cup UNION {{job[w].token, TokenOf(job[w].base), TokenOf(ext[w].base)} : w \in Client})

\* updateConditional()'s PUT by the call that first read the entry at <<w, k>>.
Replace(w, k, e) ==
  /\ entry' = e
  /\ clobbered' = (clobbered \/ <<w, k>> \notin current)
  /\ current' = {}

Read(w, k) == current' = current \cup {<<w, k>>}

----------------------------------------------------------------------------
\* Enqueued, and nobody has seen it yet.
QueueInit ==
  /\ Init
  /\ clock = 0
  /\ entry = [status |-> "pending", token |-> None, visible |-> 0, attempts |-> 0]
  /\ buried = FALSE
  /\ marker = 0
  /\ cache = [p \in Process |-> 0]
  /\ job = [w \in Client |-> Idle]
  /\ ext = [w \in Client |-> NoExt]
  /\ current = {}
  /\ clobbered = FALSE
  /\ excused = FALSE
  /\ completions = 0

\* attemptClaim() gets the message's lock.  Without it there is no claim.
AcquireLock(w) ==
  /\ job[w].pc = "idle"
  /\ Enter(w) \/ EnterLate(w)
  /\ job' = [job EXCEPT ![w] = [Idle EXCEPT !.pc = "check", !.at = clock]]
  /\ UNCHANGED <<clock, entry, buried, marker, cache, ext, current, clobbered, excused, completions>>

\* Mutant of MarkerFound: the process only looks into its own cache.
OnlyCached(w) == cache[Home[w]] > clock

MarkerFound(w) == cache[Home[w]] > clock \/ marker > clock

\* _isRecentlyProcessed(): a marker that cannot be read counts as none.
IsRecentlyProcessed(w) ==
  /\ job[w].pc = "check"
  /\ \/ /\ MarkerFound(w)
        /\ Goto(w, "skip")
        /\ cache' = IF cache[Home[w]] > clock THEN cache
                    ELSE [cache EXCEPT ![Home[w]] = clock + MarkerTtl]
        /\ UNCHANGED excused
     \/ /\ ~MarkerFound(w)
        /\ Goto(w, "mark")
        /\ UNCHANGED <<cache, excused>>
     \/ /\ CallsFail /\ MarkerFound(w) /\ cache[Home[w]] <= clock
        /\ Goto(w, "mark")
        /\ excused' = TRUE
        /\ UNCHANGED cache
  /\ UNCHANGED <<holders, lapsed, clock, entry, buried, marker, ext, current, clobbered, completions>>

\* _markMessageProcessed(): that the marker was not stored is only logged.
MarkMessageProcessed(w) ==
  /\ job[w].pc = "mark"
  /\ Goto(w, "marked")
  /\ cache' = [cache EXCEPT ![Home[w]] = clock + MarkerTtl]
  /\ \/ marker' = clock + MarkerTtl /\ UNCHANGED excused
     \/ CallsFail /\ excused' = TRUE /\ UNCHANGED marker
  /\ UNCHANGED <<holders, lapsed, clock, entry, buried, ext, current, clobbered, completions>>

ReleaseLock(w) ==
  /\ job[w].pc \in {"skip", "marked"}
  /\ Leave(w)
  /\ IF job[w].pc = "skip" THEN Rest(w) ELSE Goto(w, "get")
  /\ UNCHANGED <<clock, entry, buried, marker, cache, ext, current, clobbered, excused, completions>>

\* If the entry is not claimable the marker stays in PluginStorage; if it
\* cannot be read, the marker goes.
GetEntry(w) ==
  /\ job[w].pc = "get"
  /\ \/ /\ entry.status = "pending" /\ entry.visible <= job[w].at
        /\ job' = [job EXCEPT ![w].pc = "claim", ![w].base = entry]
        /\ Read(w, "job")
        /\ UNCHANGED cache
     \/ /\ ~(entry.status = "pending" /\ entry.visible <= job[w].at)
        /\ Rest(w) /\ Uncache(w) /\ UNCHANGED current
     \/ /\ CallsFail
        /\ job' = [job EXCEPT ![w] = [Idle EXCEPT !.pc = "clear"]] /\ Uncache(w) /\ UNCHANGED current
  /\ UNCHANGED <<holders, lapsed, clock, entry, buried, marker, ext, clobbered, excused, completions>>

Claimed(w, t) ==
  [status |-> "processing", token |-> t, visible |-> job[w].at + Visibility,
   attempts |-> job[w].base.attempts + 1]

\* The claim's update.  It may fail, and its response may be lost.
ClaimEntry(w) ==
  /\ job[w].pc = "claim"
  /\ FreshTokens # {}
  /\ LET t == CHOOSE t \in FreshTokens : TRUE
     IN \/ /\ Replace(w, "job", Claimed(w, t))
           /\ job' = [job EXCEPT ![w].pc = "have", ![w].token = t, ![w].until = job[w].at + Visibility]
           /\ UNCHANGED cache
        \/ CallsFail /\ Replace(w, "job", Claimed(w, t)) /\ Rest(w) /\ Uncache(w)
        \/ /\ CallsFail /\ Rest(w) /\ Uncache(w)
           /\ current' = current \ {<<w, "job">>}
           /\ UNCHANGED <<entry, clobbered>>
  /\ UNCHANGED <<holders, lapsed, clock, buried, marker, ext, excused, completions>>

Exhausted == IF Mode = "retry" THEN "failed" ELSE "dead"

\* Mutant of AfterFailure: one retry too many.
RetryOnceMore(attempts) == IF attempts <= MaxAttempts THEN "pending" ELSE Exhausted

\* _handleProcessingFailure().
AfterFailure(attempts) ==
  IF Mode # "dead-letter" /\ attempts < MaxAttempts THEN "pending" ELSE Exhausted

\* Mutant of FirstStep: the entry is updated before the copy is written.
UpdateFirst(status) == "verify"

\* moveToDeadLetter() writes its copy before it updates the entry.
FirstStep(status) == IF status = "dead" THEN "bury" ELSE "verify"

\* The handler acknowledges or fails, once; or the original record is gone.
Settle(w) ==
  /\ job[w].pc = "have"
  /\ \E status \in {"completed", "failed", AfterFailure(job[w].base.attempts + 1)} :
       job' = [job EXCEPT ![w].pc = FirstStep(status), ![w].want = status,
                          ![w].at = clock + Backoff, ![w].base = None]
  /\ UNCHANGED <<holders, lapsed, clock, entry, buried, marker, cache, ext,
                 current, clobbered, excused, completions>>

\* Mutant of Recoverable: the visibility timeout is not looked at.
AnyProcessing == entry.status = "processing"

\* _recoverSingleMessage() on an entry whose claim is over.
Recoverable == entry.status = "processing" /\ entry.visible <= clock

RecoverMessage(w) ==
  /\ job[w].pc = "idle" /\ Recoverable
  /\ IF entry.attempts >= MaxAttempts
       THEN /\ job' = [job EXCEPT ![w] = [Idle EXCEPT !.pc = FirstStep(Exhausted), !.token = entry.token,
                                                     !.want = Exhausted]]
            /\ UNCHANGED current
       ELSE /\ job' = [job EXCEPT ![w] = [Idle EXCEPT !.pc = "reread", !.want = "pending", !.at = clock]]
            /\ Read(w, "job")
  /\ excused' = TRUE
  /\ UNCHANGED <<holders, lapsed, clock, entry, buried, marker, cache, ext, clobbered, completions>>

MoveToDeadLetter(w) ==
  /\ job[w].pc = "bury"
  /\ Goto(w, "verify")
  /\ buried' = TRUE
  /\ UNCHANGED <<holders, lapsed, clock, entry, marker, cache, ext,
                 current, clobbered, excused, completions>>

\* Mutant of TokenMatches: requireLock is not looked at.
AnyToken(w) == TRUE

TokenMatches(w) == entry.token = job[w].token

\* _updateQueueEntryWithLock(): only with the token of the entry.
VerifyToken(w) ==
  /\ job[w].pc = "verify"
  /\ IF TokenMatches(w)
       THEN Goto(w, "reread") /\ Read(w, "job")
       ELSE Rest(w) /\ UNCHANGED current
  /\ UNCHANGED <<holders, lapsed, clock, entry, buried, marker, cache, ext,
                 clobbered, excused, completions>>

\* updateConditional() reads the entry once more and merges into that.
Reread(w) ==
  /\ job[w].pc = "reread"
  /\ job' = [job EXCEPT ![w].pc = "put", ![w].base = entry]
  /\ UNCHANGED <<holders, lapsed, clock, entry, buried, marker, cache, ext,
                 current, clobbered, excused, completions>>

\* Mutant of Updated: the token of the claim stays in the entry.
KeepsToken(j) == [j.base EXCEPT !.status = j.want]

Updated(j) ==
  [status |-> j.want, token |-> None, attempts |-> j.base.attempts,
   visible |-> IF j.want = "pending" THEN j.at ELSE j.base.visible]

\* Whoever does not complete the message removes its marker afterwards.
PutUpdate(w) ==
  /\ job[w].pc = "put"
  /\ Replace(w, "job", Updated(job[w]))
  /\ completions' = IF job[w].want = "completed" /\ completions < 2 THEN completions + 1 ELSE completions
  /\ \/ (job[w].want = "completed" \/ CallsFail) /\ Rest(w) /\ UNCHANGED cache
     \/ /\ job[w].want # "completed"
        /\ job' = [job EXCEPT ![w] = [Idle EXCEPT !.pc = "clear"]]
        /\ Uncache(w)
  /\ UNCHANGED <<holders, lapsed, clock, buried, marker, ext, excused>>

\* _clearProcessedMarker()'s DELETE.
ClearMarker(w) ==
  /\ job[w].pc = "clear"
  /\ Rest(w)
  /\ marker' = 0
  /\ excused' = (excused \/ (marker > clock /\ Exposed # {}))
  /\ UNCHANGED <<holders, lapsed, clock, entry, buried, cache, ext, current, clobbered, completions>>

\* Any call of an update fails: the worker gives the message up.
GiveUp(w) ==
  /\ CallsFail
  /\ job[w].pc \in {"bury", "verify", "reread", "put", "clear"}
  /\ Rest(w)
  /\ current' = current \ {<<w, "job">>}
  /\ UNCHANGED <<holders, lapsed, clock, entry, buried, marker, cache, ext,
                 clobbered, excused, completions>>

\* renewLock() -> extendVisibility(), called by the handler, a timer say.
RenewLock(w) ==
  /\ ext[w] = NoExt
  /\ job[w].pc \in Holding /\ job[w].until > 0
  /\ entry.status = "processing" /\ entry.token = job[w].token
  /\ entry.visible <= MaxTime
  /\ LET from == IF entry.visible > clock THEN entry.visible ELSE clock
     IN ext' = [ext EXCEPT ![w] = [pc |-> "reread", base |-> None, at |-> from + Visibility]]
  /\ Read(w, "ext")
  /\ excused' = TRUE
  /\ UNCHANGED <<holders, lapsed, clock, entry, buried, marker, cache, job, clobbered, completions>>

RereadForRenewal(w) ==
  /\ ext[w].pc = "reread"
  /\ ext' = [ext EXCEPT ![w].pc = "put", ![w].base = entry]
  /\ UNCHANGED <<holders, lapsed, clock, entry, buried, marker, cache, job,
                 current, clobbered, excused, completions>>

PutRenewal(w) ==
  /\ ext[w].pc = "put"
  /\ Replace(w, "ext", [ext[w].base EXCEPT !.visible = ext[w].at])
  /\ ext' = [ext EXCEPT ![w] = NoExt]
  /\ \/ (CallsFail \/ job[w].token # ext[w].base.token) /\ UNCHANGED job
     \/ /\ job[w].until > 0 /\ job[w].token = ext[w].base.token
        /\ job' = [job EXCEPT ![w].until = ext[w].at]
  /\ UNCHANGED <<holders, lapsed, clock, buried, marker, cache, excused, completions>>

RenewalFails(w) ==
  /\ CallsFail
  /\ ext[w] # NoExt
  /\ ext' = [ext EXCEPT ![w] = NoExt]
  /\ current' = current \ {<<w, "ext">>}
  /\ UNCHANGED <<holders, lapsed, clock, entry, buried, marker, cache, job,
                 clobbered, excused, completions>>

\* A process dies with all that its workers were doing, and starts again.
Crash(p) ==
  LET workers == {w \in Client : Home[w] = p}
  IN /\ job' = [w \in Client |-> IF w \in workers THEN Idle ELSE job[w]]
     /\ ext' = [w \in Client |-> IF w \in workers THEN NoExt ELSE ext[w]]
     /\ cache' = [cache EXCEPT ![p] = 0]
     /\ holders' = holders \ workers
     /\ current' = {c \in current : c[1] \notin workers}
     /\ UNCHANGED <<lapsed, clock, entry, buried, marker, clobbered, excused, completions>>

\* An expired marker is as good as none.
StillValid(expiry) == IF expiry > clock' THEN expiry ELSE 0

Tick ==
  /\ clock < MaxTime
  /\ clock' = clock + 1
  /\ marker' = StillValid(marker)
  /\ cache' = [p \in Process |-> StillValid(cache[p])]
  /\ excused' = (excused \/ (Exposed # {} /\ marker = clock'))
  /\ UNCHANGED <<holders, lapsed, entry, buried, job, ext, current, clobbered, completions>>

LockLapses ==
  /\ Lapse
  /\ UNCHANGED <<clock, entry, buried, marker, cache, job, ext,
                 current, clobbered, excused, completions>>

QueueNext ==
  \/ \E w \in Client :
       \/ AcquireLock(w) \/ IsRecentlyProcessed(w) \/ MarkMessageProcessed(w) \/ ReleaseLock(w)
       \/ GetEntry(w) \/ ClaimEntry(w) \/ Settle(w)
       \/ MoveToDeadLetter(w) \/ VerifyToken(w) \/ Reread(w) \/ PutUpdate(w) \/ ClearMarker(w)
       \/ GiveUp(w) \/ RecoverMessage(w)
       \/ RenewLock(w) \/ RereadForRenewal(w) \/ PutRenewal(w) \/ RenewalFails(w)
  \/ \E p \in Process : Crash(p)
  \/ Tick \/ LockLapses

QueueSpec == QueueInit /\ [][QueueNext]_queueVars

----------------------------------------------------------------------------
QueueTypeOK ==
  /\ holders \subseteq Client /\ lapsed \in BOOLEAN
  /\ clock \in Nat
  /\ entry \in Entry
  /\ buried \in BOOLEAN
  /\ marker \in Nat /\ cache \in [Process -> Nat]
  /\ job \in [Client -> Job] /\ ext \in [Client -> Ext]
  /\ current \subseteq Client \X {"job", "ext"}
  /\ clobbered \in BOOLEAN /\ excused \in BOOLEAN /\ completions \in 0 .. 2

Owners == {w \in Client : job[w].pc \in Holding /\ job[w].until > clock}

(* While ETags tell versions apart, a message has one worker at a time     *)
(* until its visibility timeout: "Only ONE worker succeeds".               *)
OneClaim == ~clobbered => \A v, w \in Owners : v = w

(* While ETags tell versions apart, what is completed, failed or dead      *)
(* stays so, whoever recovers, retries or renews at the same time.         *)
SettledIsFinal ==
  [][~clobbered' /\ entry.status \in Terminal => entry'.status = entry.status]_queueVars

(* And no message is claimed more often than maxRetries allows, counting   *)
(* the claims whose worker died or never heard of them.                    *)
AttemptsAreBounded ==
  ~clobbered => entry.attempts <= IF MaxAttempts = 0 THEN 1 ELSE MaxAttempts

(* Without telling versions apart, the lock and the marker alone keep a    *)
(* claim from replacing another's entry, unless a lease lapses, a marker   *)
(* cannot be stored or read or goes away under a claim, or a recovery or   *)
(* a renewal comes in between: none of these looks at the marker.          *)
MarkersSuffice == clobbered => excused \/ lapsed

(* A message is dead only when its copy is in the dead letter queue,       *)
(* wherever a process dies in between.                                     *)
DeadIsBuried == entry.status = "dead" => buried

(* "S3Queue achieves exactly-once processing": a message is not completed  *)
(* twice.                                                                  *)
ExactlyOnce == completions <= 1

(* While ETags tell versions apart the queue keeps what QueuedMessage      *)
(* promises, whatever workers, recoveries and renewals do at the same      *)
(* time: the claim is with the worker whose token the entry has, as long   *)
(* as it has not let go of its job, and every PUT of the entry is a claim, *)
(* a worker's own decision, a return or the end of an exhausted message.   *)
Claimants == {w \in Client : entry.status = "processing" /\ job[w].until > 0 /\ job[w].token = entry.token}

Message == INSTANCE QueuedMessage WITH
  Worker <- Client, Limit <- MaxAttempts, status <- entry.status, attempts <- entry.attempts,
  holder <- Claimants, owners <- Owners, broken <- clobbered

ImplementsMessage == Message!Spec
====

---- MODULE S3Queue_proofs ----
(***************************************************************************)
(* For any number of workers, processes and attempts, and any timing:      *)
(* type correctness, the safety properties of the passing run, and that    *)
(* the queue implements QueuedMessage.                                     *)
(***************************************************************************)
EXTENDS S3Queue, TLAPS

\* What a worker has read by the time it needs it.
JobOK(j) ==
  /\ j.pc \in {"claim", "have", "put"} => j.base \in Entry
  /\ j.pc \in {"bury", "verify", "reread", "put"} => j.want \in {"pending"} \cup Terminal
  /\ j.pc \in {"bury", "verify"} => j.token \in Token /\ (j.until = 0 => j.want \in Terminal)
  /\ j.until > 0 => j.token \in Token /\ j.pc \in Holding
  /\ j.pc = "have" => j.until > 0

JobsOK == job \in [Client -> Job] /\ \A w \in Client : JobOK(job[w])

ExtsOK ==
  /\ ext \in [Client -> Ext]
  /\ \A w \in Client :
       /\ ext[w].pc = "put" => ext[w].base \in Entry
       /\ ext[w].pc # "none" => ext[w].at > 0

SharedOK ==
  /\ holders \subseteq Client /\ lapsed \in BOOLEAN
  /\ clock \in Nat
  /\ entry \in Entry
  /\ buried \in BOOLEAN
  /\ marker \in Nat /\ cache \in [Process -> Nat]
  /\ current \subseteq Client \X {"job", "ext"}
  /\ clobbered \in BOOLEAN /\ excused \in BOOLEAN /\ completions \in 0 .. 2

TypeInv == SharedOK /\ JobsOK /\ ExtsOK

\* Every claim has a token of its own.
OwnTokens ==
  \A v, w \in Client : v # w /\ job[v].until > 0 /\ job[w].until > 0 => job[v].token # job[w].token

\* What a call that has the entry's version may rely on.
ClaimIsCurrent(w) == job[w].pc = "claim" => job[w].base = entry /\ entry.status = "pending"

UpdateIsCurrent(w) ==
  job[w].pc \in {"reread", "put"} =>
    /\ entry.status = "processing"
    /\ job[w].pc = "put" => job[w].base = entry
    /\ job[w].until > 0 => entry.token = job[w].token
    /\ job[w].until = 0 /\ job[w].want = "pending" => entry.visible <= clock

RenewalIsCurrent(w) ==
  /\ ext[w].pc \in {"reread", "put"}
  /\ entry.status = "processing"
  /\ ext[w].at >= entry.visible
  /\ ext[w].pc = "put" => ext[w].base = entry

Current ==
  \A w \in Client :
    /\ <<w, "job">> \in current => job[w].pc \in {"claim", "reread", "put"} /\ ClaimIsCurrent(w) /\ UpdateIsCurrent(w)
    /\ <<w, "ext">> \in current => RenewalIsCurrent(w)

\* A claim before its end is the entry's, unless the message is settled.
OwnersHold ==
  \A w \in Owners :
    \/ entry.status \in Terminal
    \/ entry.status = "processing" /\ entry.token = job[w].token /\ entry.visible >= job[w].until

ClaimInv == ~clobbered => (\A v, w \in Owners : v = w) /\ Current /\ OwnersHold

QueueInv == TypeInv /\ OwnTokens /\ ClaimInv

----------------------------------------------------------------------------
\* One worker's job changes.
LEMMA JobUpdate ==
  ASSUME JobsOK, NEW w \in Client, NEW j \in Job, JobOK(j), job' = [job EXCEPT ![w] = j]
  PROVE  JobsOK'
BY DEF JobsOK

LEMMA RestUpdate == ASSUME JobsOK, NEW w \in Client, Rest(w) PROVE JobsOK'
<1>1. Idle \in Job /\ JobOK(Idle)
  BY QueueAssumption DEF Idle, Job, JobOK
<1> QED
  BY <1>1, JobUpdate DEF Rest

\* Only its position changes: what was read or decided stays.
LEMMA GotoUpdate ==
  ASSUME JobsOK, NEW w \in Client, NEW pc, Goto(w, pc),
         \/ pc \in {"mark", "skip", "marked", "get"} /\ job[w].pc \notin Holding
         \/ pc \in {"verify", "reread"} /\ job[w].pc \in {"bury", "verify"}
  PROVE  JobsOK'
<1> DEFINE j == [job[w] EXCEPT !.pc = pc]
<1>1. job[w] \in Job /\ JobOK(job[w])
  BY DEF JobsOK
<1>2. j \in Job
  BY <1>1 DEF Job, Holding
<1>3. JobOK(j)
  BY <1>1 DEF Job, JobOK, Holding
<1> QED
  BY <1>2, <1>3, JobUpdate DEF Goto

\* A step replaces the entry by a PUT, or leaves it alone; and only
\* moveToDeadLetter() writes a copy.
LEMMA EntryStep ==
  ASSUME [QueueNext]_queueVars
  PROVE  /\ \/ UNCHANGED <<entry, clobbered>>
            \/ \E w \in Client, k \in {"job", "ext"} : \E e : Replace(w, k, e)
         /\ UNCHANGED buried \/ \E w \in Client : MoveToDeadLetter(w)
<1> DEFINE Kept == UNCHANGED <<entry, clobbered, buried>>
           Put == \E w \in Client, k \in {"job", "ext"} : \E e : Replace(w, k, e)
<1>1. ASSUME NEW w \in Client, AcquireLock(w) \/ IsRecentlyProcessed(w) \/ MarkMessageProcessed(w) PROVE Kept
  BY <1>1 DEF AcquireLock, IsRecentlyProcessed, MarkMessageProcessed
<1>2. ASSUME NEW w \in Client, ReleaseLock(w) \/ GetEntry(w) \/ Settle(w) PROVE Kept
  BY <1>2 DEF ReleaseLock, GetEntry, Settle
<1>3. ASSUME NEW w \in Client, RecoverMessage(w) \/ VerifyToken(w) \/ Reread(w) PROVE Kept
  BY <1>3 DEF RecoverMessage, VerifyToken, Reread
<1>4. ASSUME NEW w \in Client, ClearMarker(w) \/ GiveUp(w) PROVE Kept
  BY <1>4 DEF ClearMarker, GiveUp
<1>5. ASSUME NEW w \in Client, RenewLock(w) \/ RereadForRenewal(w) \/ RenewalFails(w) PROVE Kept
  BY <1>5 DEF RenewLock, RereadForRenewal, RenewalFails
<1>6. ASSUME NEW q \in Process, Crash(q) PROVE Kept
  BY <1>6 DEF Crash
<1>7. ASSUME Tick \/ LockLapses \/ UNCHANGED queueVars PROVE Kept
  BY <1>7 DEF Tick, LockLapses, queueVars
<1>8. ASSUME NEW w \in Client, MoveToDeadLetter(w) PROVE UNCHANGED <<entry, clobbered>>
  BY <1>8 DEF MoveToDeadLetter
<1>9. ASSUME NEW w \in Client, ClaimEntry(w) PROVE (UNCHANGED <<entry, clobbered>> \/ Put) /\ UNCHANGED buried
  <2> DEFINE t == CHOOSE t \in FreshTokens : TRUE
  <2>1. Replace(w, "job", Claimed(w, t)) \/ UNCHANGED <<entry, clobbered>>
    BY <1>9, Zenon DEF ClaimEntry
  <2> HIDE DEF t
  <2>2. UNCHANGED buried
    BY <1>9, Zenon DEF ClaimEntry
  <2> QED
    BY <2>1, <2>2, Zenon
<1>10. ASSUME NEW w \in Client, PutUpdate(w) PROVE Put /\ UNCHANGED buried
  <2>1. Replace(w, "job", Updated(job[w])) /\ UNCHANGED buried
    BY <1>10, Zenon DEF PutUpdate
  <2> QED
    BY <2>1, Zenon
<1>11. ASSUME NEW w \in Client, PutRenewal(w) PROVE Put /\ UNCHANGED buried
  <2>1. Replace(w, "ext", [ext[w].base EXCEPT !.visible = ext[w].at]) /\ UNCHANGED buried
    BY <1>11, Zenon DEF PutRenewal
  <2> QED
    BY <2>1, Zenon
<1> DEFINE Copied == \E w \in Client : MoveToDeadLetter(w)
           Same == UNCHANGED <<entry, clobbered>>
<1>12. Kept => Same /\ UNCHANGED buried
  OBVIOUS
<1> HIDE DEF Kept, Put, Same
<1>13. ASSUME NEW w \in Client, MoveToDeadLetter(w) PROVE Same /\ Copied
  BY <1>8, <1>13 DEF Same
<1>14. ASSUME NEW w \in Client, ClaimEntry(w) \/ PutUpdate(w) \/ PutRenewal(w) PROVE (Same \/ Put) /\ UNCHANGED buried
  BY <1>9, <1>10, <1>11, <1>14 DEF Same
<1> HIDE DEF Copied
<1>15. Kept \/ (Same /\ Copied) \/ ((Same \/ Put) /\ UNCHANGED buried)
  BY <1>1, <1>2, <1>3, <1>4, <1>5, <1>6, <1>7, <1>13, <1>14 DEF QueueNext
<1> QED
  BY <1>12, <1>15 DEF Put, Same, Copied

LEMMA QueueTyping == TypeInv /\ [QueueNext]_queueVars => TypeInv'
<1> SUFFICES ASSUME TypeInv, [QueueNext]_queueVars PROVE TypeInv'
  OBVIOUS
<1>a. /\ clock \in Nat /\ entry \in Entry /\ marker \in Nat /\ cache \in [Process -> Nat]
      /\ \A w \in Client : Home[w] \in Process
      /\ {Visibility, Backoff, MarkerTtl} \subseteq Nat /\ Visibility > 0
  BY QueueAssumption DEF TypeInv, SharedOK
<1> USE DEF TypeInv
<1>1. ASSUME NEW w \in Client, AcquireLock(w) PROVE TypeInv'
  <2> DEFINE j == [Idle EXCEPT !.pc = "check", !.at = clock]
  <2>a. j \in Job
    BY <1>a DEF Idle, Job
  <2>b. JobOK(j)
    BY DEF Idle, JobOK
  <2>1. JobsOK'
    BY <2>b, <1>1, <2>a, JobUpdate DEF AcquireLock
  <2>2. SharedOK'
    BY <1>1 DEF AcquireLock, Enter, EnterLate, SharedOK
  <2>3. ExtsOK'
    BY <1>1 DEF AcquireLock, ExtsOK
  <2> QED
    BY <2>1, <2>2, <2>3
<1>2. ASSUME NEW w \in Client, IsRecentlyProcessed(w) PROVE TypeInv'
  <2>1. JobsOK'
    BY <1>2, GotoUpdate DEF IsRecentlyProcessed, Holding
  <2>a. cache' \in [Process -> Nat] /\ marker' \in Nat
    BY <1>2, <1>a DEF IsRecentlyProcessed
  <2>2. SharedOK'
    BY <1>2, <2>a DEF IsRecentlyProcessed, SharedOK
  <2>3. ExtsOK'
    BY <1>2 DEF IsRecentlyProcessed, ExtsOK
  <2> QED
    BY <2>1, <2>2, <2>3
<1>3. ASSUME NEW w \in Client, MarkMessageProcessed(w) PROVE TypeInv'
  <2>1. JobsOK'
    BY <1>3, GotoUpdate DEF MarkMessageProcessed, Holding
  <2>a. cache' \in [Process -> Nat] /\ marker' \in Nat
    BY <1>3, <1>a DEF MarkMessageProcessed
  <2>2. SharedOK'
    BY <1>3, <2>a DEF MarkMessageProcessed, SharedOK
  <2>3. ExtsOK'
    BY <1>3 DEF MarkMessageProcessed, ExtsOK
  <2> QED
    BY <2>1, <2>2, <2>3
<1>4. ASSUME NEW w \in Client, ReleaseLock(w) PROVE TypeInv'
  <2>1. JobsOK'
    BY <1>4, GotoUpdate, RestUpdate DEF ReleaseLock, Holding
  <2>2. SharedOK'
    BY <1>4 DEF ReleaseLock, Leave, SharedOK
  <2>3. ExtsOK'
    BY <1>4 DEF ReleaseLock, ExtsOK
  <2> QED
    BY <2>1, <2>2, <2>3
<1>5. ASSUME NEW w \in Client, GetEntry(w) PROVE TypeInv'
  <2>0. job[w] \in Job /\ JobOK(job[w])
    BY DEF JobsOK
  <2> DEFINE j == [job[w] EXCEPT !.pc = "claim", !.base = entry]
             k == [Idle EXCEPT !.pc = "clear"]
  <2>a. j \in Job /\ JobOK(j)
    BY <1>5, <2>0 DEF GetEntry, Job, JobOK, Holding, SharedOK
  <2>b. k \in Job /\ JobOK(k)
    BY <1>a DEF Idle, Job, JobOK, Holding
  <2>c. job' = [job EXCEPT ![w] = j] \/ Rest(w) \/ job' = [job EXCEPT ![w] = k]
    BY <1>5 DEF GetEntry
  <2>1. JobsOK'
    BY <2>a, <2>b, <2>c, JobUpdate, RestUpdate
  <2>2. SharedOK'
    BY <1>5 DEF GetEntry, Uncache, Read, SharedOK
  <2>3. ExtsOK'
    BY <1>5 DEF GetEntry, ExtsOK
  <2> QED
    BY <2>1, <2>2, <2>3
<1>6. ASSUME NEW w \in Client, ClaimEntry(w) PROVE TypeInv'
  <2>0. job[w] \in Job /\ JobOK(job[w])
    BY DEF JobsOK
  <2> DEFINE t == CHOOSE t \in FreshTokens : TRUE
             j == [job[w] EXCEPT !.pc = "have", !.token = t, !.until = job[w].at + Visibility]
  <2>t. t \in Token /\ t # None
    BY <1>6, QueueAssumption DEF ClaimEntry, FreshTokens
  <2>a. j \in Job /\ JobOK(j)
    <3>1. job[w].at + Visibility \in Nat /\ job[w].at + Visibility > 0
      BY <1>a, <2>0 DEF Job
    <3> QED
      BY <1>6, <2>0, <2>t, <3>1 DEF ClaimEntry, Job, JobOK, Holding
  <2>b. job' = [job EXCEPT ![w] = j] \/ Rest(w)
    BY <1>6 DEF ClaimEntry
  <2>1. JobsOK'
    BY <2>a, <2>b, JobUpdate, RestUpdate
  <2>d. Claimed(w, t) \in Entry
    <3>1. job[w].at + Visibility \in Nat /\ job[w].base.attempts + 1 \in Nat
      <4>1. job[w].base \in Entry
        BY <1>6, <2>0 DEF ClaimEntry, JobOK
      <4>2. job[w].at \in Nat /\ job[w].base.attempts \in Nat
        BY <2>0, <4>1 DEF Job, Entry
      <4> QED
        BY <1>a, <4>2
    <3> QED
      BY <2>t, <3>1 DEF Claimed, Entry, Status
  <2>e. UNCHANGED entry \/ entry' = Claimed(w, t)
    BY <1>6 DEF ClaimEntry, Replace
  <2>f. cache' \in [Process -> Nat] /\ entry' \in Entry
    <3>1. UNCHANGED cache \/ cache' = [cache EXCEPT ![Home[w]] = 0]
      BY <1>6 DEF ClaimEntry, Uncache
    <3> QED
      BY <1>a, <2>d, <2>e, <3>1
  <2>2. SharedOK'
    BY <1>6, <2>f DEF ClaimEntry, Replace, SharedOK
  <2>3. ExtsOK'
    BY <1>6 DEF ClaimEntry, ExtsOK
  <2> QED
    BY <2>1, <2>2, <2>3
<1>7. ASSUME NEW w \in Client, Settle(w) PROVE TypeInv'
  <2>0. job[w] \in Job /\ JobOK(job[w])
    BY DEF JobsOK
  <2>a. PICK status \in {"completed", "failed", AfterFailure(job[w].base.attempts + 1)} :
          job' = [job EXCEPT ![w].pc = FirstStep(status), ![w].want = status,
                             ![w].at = clock + Backoff, ![w].base = None]
    BY <1>7 DEF Settle
  <2> DEFINE j == [job[w] EXCEPT !.pc = FirstStep(status), !.want = status,
                                 !.at = clock + Backoff, !.base = None]
  <2>b. status \in {"pending"} \cup Terminal
    BY DEF AfterFailure, Exhausted, Terminal
  <2>c. FirstStep(status) \in {"bury", "verify"}
    BY DEF FirstStep
  <2>d. j \in Job
    <3>1. clock + Backoff \in Nat
      BY <1>a
    <3>2. status \in Status
      BY <2>b DEF Status
    <3> QED
      BY <2>0, <2>c, <3>1, <3>2 DEF Job, Holding
  <2>e. JobOK(j)
    BY <1>7, <2>0, <2>b, <2>c DEF Settle, Job, JobOK, Holding
  <2>1. JobsOK'
    BY <2>a, <2>d, <2>e, JobUpdate
  <2>2. SharedOK'
    BY <1>7 DEF Settle, SharedOK
  <2>3. ExtsOK'
    BY <1>7 DEF Settle, ExtsOK
  <2> QED
    BY <2>1, <2>2, <2>3
<1>8. ASSUME NEW w \in Client, RecoverMessage(w) PROVE TypeInv'
  <2> DEFINE j == [Idle EXCEPT !.pc = FirstStep(Exhausted), !.token = entry.token, !.want = Exhausted]
             k == [Idle EXCEPT !.pc = "reread", !.want = "pending", !.at = clock]
  <2>a. /\ FirstStep(Exhausted) \in {"bury", "verify"} /\ Exhausted \in Terminal
        /\ entry.token \in Token
    BY <1>a, <1>8 DEF FirstStep, Exhausted, Terminal, Entry, RecoverMessage, Recoverable
  <2>b. j \in Job
    BY <2>a DEF Idle, Job, Status, Holding
  <2>e. JobOK(j)
    BY <2>a DEF Idle, JobOK
  <2>c. k \in Job
    BY <1>a DEF Idle, Job, Status, Holding
  <2>f. JobOK(k)
    BY DEF Idle, JobOK
  <2>d. job' = [job EXCEPT ![w] = j] \/ job' = [job EXCEPT ![w] = k]
    BY <1>8 DEF RecoverMessage
  <2>1. JobsOK'
    BY <2>b, <2>c, <2>d, <2>e, <2>f, JobUpdate
  <2>2. SharedOK'
    BY <1>8 DEF RecoverMessage, Read, SharedOK
  <2>3. ExtsOK'
    BY <1>8 DEF RecoverMessage, ExtsOK
  <2> QED
    BY <2>1, <2>2, <2>3
<1>9. ASSUME NEW w \in Client, MoveToDeadLetter(w) PROVE TypeInv'
  <2>1. JobsOK'
    BY <1>9, GotoUpdate DEF MoveToDeadLetter
  <2>2. SharedOK'
    BY <1>9 DEF MoveToDeadLetter, SharedOK
  <2>3. ExtsOK'
    BY <1>9 DEF MoveToDeadLetter, ExtsOK
  <2> QED
    BY <2>1, <2>2, <2>3
<1>10. ASSUME NEW w \in Client, VerifyToken(w) PROVE TypeInv'
  <2>1. JobsOK'
    BY <1>10, GotoUpdate, RestUpdate DEF VerifyToken
  <2>2. SharedOK'
    BY <1>10 DEF VerifyToken, Read, SharedOK
  <2>3. ExtsOK'
    BY <1>10 DEF VerifyToken, ExtsOK
  <2> QED
    BY <2>1, <2>2, <2>3
<1>11. ASSUME NEW w \in Client, Reread(w) PROVE TypeInv'
  <2>0. job[w] \in Job /\ JobOK(job[w])
    BY DEF JobsOK
  <2> DEFINE j == [job[w] EXCEPT !.pc = "put", !.base = entry]
  <2>a. j \in Job /\ JobOK(j)
    BY <1>11, <2>0 DEF Reread, Job, JobOK, Holding, SharedOK
  <2>1. JobsOK'
    BY <1>11, <2>a, JobUpdate DEF Reread
  <2>2. SharedOK'
    BY <1>11 DEF Reread, SharedOK
  <2>3. ExtsOK'
    BY <1>11 DEF Reread, ExtsOK
  <2> QED
    BY <2>1, <2>2, <2>3
<1>12. ASSUME NEW w \in Client, PutUpdate(w) PROVE TypeInv'
  <2>0. job[w] \in Job /\ JobOK(job[w])
    BY DEF JobsOK
  <2> DEFINE k == [Idle EXCEPT !.pc = "clear"]
  <2>b. k \in Job /\ JobOK(k)
    BY <1>a DEF Idle, Job, JobOK, Holding
  <2>c. Rest(w) \/ job' = [job EXCEPT ![w] = k]
    BY <1>12 DEF PutUpdate
  <2>1. JobsOK'
    BY <2>b, <2>c, JobUpdate, RestUpdate
  <2>d. Updated(job[w]) \in Entry
    BY <1>12, <2>0 DEF PutUpdate, Updated, Entry, Status, Terminal, Job, JobOK
  <2>2. SharedOK'
    BY <1>12, <2>d DEF PutUpdate, Replace, Uncache, SharedOK
  <2>3. ExtsOK'
    BY <1>12 DEF PutUpdate, ExtsOK
  <2> QED
    BY <2>1, <2>2, <2>3
<1>13. ASSUME NEW w \in Client, ClearMarker(w) PROVE TypeInv'
  <2>1. JobsOK'
    BY <1>13, RestUpdate DEF ClearMarker
  <2>2. SharedOK'
    BY <1>13 DEF ClearMarker, SharedOK
  <2>3. ExtsOK'
    BY <1>13 DEF ClearMarker, ExtsOK
  <2> QED
    BY <2>1, <2>2, <2>3
<1>14. ASSUME NEW w \in Client, GiveUp(w) PROVE TypeInv'
  <2>1. JobsOK'
    BY <1>14, RestUpdate DEF GiveUp
  <2>2. SharedOK'
    BY <1>14 DEF GiveUp, SharedOK
  <2>3. ExtsOK'
    BY <1>14 DEF GiveUp, ExtsOK
  <2> QED
    BY <2>1, <2>2, <2>3
<1>15. ASSUME NEW w \in Client, RenewLock(w) PROVE TypeInv'
  <2>1. JobsOK'
    BY <1>15 DEF RenewLock, JobsOK
  <2>2. SharedOK'
    BY <1>15 DEF RenewLock, Read, SharedOK
  <2>3. ExtsOK'
    <3> DEFINE from == IF entry.visible > clock THEN entry.visible ELSE clock
               e == [pc |-> "reread", base |-> None, at |-> from + Visibility]
    <3>1. from + Visibility \in Nat /\ from + Visibility > 0
      BY <1>a DEF Entry
    <3>2. e \in Ext
      BY <3>1 DEF Ext
    <3>3. ext' = [ext EXCEPT ![w] = e]
      BY <1>15 DEF RenewLock
    <3> QED
      BY <3>1, <3>2, <3>3 DEF ExtsOK
  <2> QED
    BY <2>1, <2>2, <2>3
<1>16. ASSUME NEW w \in Client, RereadForRenewal(w) PROVE TypeInv'
  <2>1. JobsOK'
    BY <1>16 DEF RereadForRenewal, JobsOK
  <2>2. SharedOK'
    BY <1>16 DEF RereadForRenewal, SharedOK
  <2>3. ExtsOK'
    BY <1>16, <1>a DEF RereadForRenewal, ExtsOK, Ext
  <2> QED
    BY <2>1, <2>2, <2>3
<1>17. ASSUME NEW w \in Client, PutRenewal(w) PROVE TypeInv'
  <2>0. job[w] \in Job /\ JobOK(job[w])
    BY DEF JobsOK
  <2>e. ext[w] \in Ext /\ ext[w].base \in Entry /\ ext[w].at \in Nat /\ ext[w].at > 0
    BY <1>17 DEF PutRenewal, ExtsOK, Ext
  <2> DEFINE j == [job[w] EXCEPT !.until = ext[w].at]
  <2>a. ASSUME UNCHANGED job PROVE JobsOK'
    BY <2>a DEF JobsOK
  <2>b. ASSUME job[w].until > 0, job' = [job EXCEPT ![w].until = ext[w].at] PROVE JobsOK'
    <3>1. j \in Job
      BY <2>0, <2>e DEF Job
    <3>2. JobOK(j)
      <4>1. /\ j.pc = job[w].pc /\ j.token = job[w].token /\ j.want = job[w].want
            /\ j.base = job[w].base /\ j.until = ext[w].at
        BY <2>0 DEF Job
      <4> QED
        BY <2>0, <2>b, <2>e, <4>1 DEF JobOK
    <3> QED
      BY <2>b, <3>1, <3>2, JobUpdate
  <2>1. JobsOK'
    BY <1>17, <2>a, <2>b DEF PutRenewal
  <2>d. [ext[w].base EXCEPT !.visible = ext[w].at] \in Entry
    BY <2>e DEF Entry
  <2>2. SharedOK'
    BY <1>17, <2>d DEF PutRenewal, Replace, SharedOK
  <2>3. ExtsOK'
    BY <1>17 DEF PutRenewal, ExtsOK, NoExt, Ext
  <2> QED
    BY <2>1, <2>2, <2>3
<1>18. ASSUME NEW w \in Client, RenewalFails(w) PROVE TypeInv'
  <2>1. JobsOK'
    BY <1>18 DEF RenewalFails, JobsOK
  <2>2. SharedOK'
    BY <1>18 DEF RenewalFails, SharedOK
  <2>3. ExtsOK'
    BY <1>18 DEF RenewalFails, ExtsOK, NoExt, Ext
  <2> QED
    BY <2>1, <2>2, <2>3
<1>19. ASSUME NEW p \in Process, Crash(p) PROVE TypeInv'
  <2>0. Idle \in Job /\ JobOK(Idle)
    BY DEF Idle, Job, JobOK
  <2>1. JobsOK'
    BY <1>19, <2>0 DEF Crash, JobsOK
  <2>2. SharedOK'
    BY <1>19 DEF Crash, SharedOK
  <2>3. ExtsOK'
    BY <1>19 DEF Crash, ExtsOK, NoExt, Ext
  <2> QED
    BY <2>1, <2>2, <2>3
<1>20. CASE Tick
  BY <1>20 DEF Tick, StillValid, SharedOK, JobsOK, ExtsOK
<1>21. CASE LockLapses
  BY <1>21 DEF LockLapses, Lapse, SharedOK, JobsOK, ExtsOK
<1>22. CASE UNCHANGED queueVars
  BY <1>22 DEF queueVars, SharedOK, JobsOK, ExtsOK
<1> QED
  BY <1>1, <1>2, <1>3, <1>4, <1>5, <1>6, <1>7, <1>8, <1>9, <1>10, <1>11, <1>12, <1>13, <1>14,
     <1>15, <1>16, <1>17, <1>18, <1>19, <1>20, <1>21, <1>22 DEF QueueNext

----------------------------------------------------------------------------
LEMMA TokensKept ==
  ASSUME JobsOK, OwnTokens, NEW w \in Client, NEW j, job' = [job EXCEPT ![w] = j],
         j.until = 0 \/ (job[w].until > 0 /\ j.token = job[w].token)
  PROVE  OwnTokens'
BY DEF JobsOK, OwnTokens

LEMMA FreshTokensDiffer ==
  ASSUME NEW w \in Client, FreshTokens # {}
  PROVE  (CHOOSE t \in FreshTokens : TRUE) # job[w].token
BY DEF FreshTokens

LEMMA TokensStep == TypeInv /\ OwnTokens /\ [QueueNext]_queueVars => OwnTokens'
<1> SUFFICES ASSUME TypeInv, OwnTokens, [QueueNext]_queueVars PROVE OwnTokens'
  OBVIOUS
<1>j. JobsOK /\ \A w \in Client : job[w] \in Job
  BY DEF TypeInv, JobsOK
<1>r. ASSUME NEW w \in Client, Rest(w) PROVE OwnTokens'
  BY <1>r, <1>j, TokensKept DEF Rest, Idle
<1>g. ASSUME NEW w \in Client, NEW pc, Goto(w, pc) PROVE OwnTokens'
  BY <1>g, <1>j DEF Goto, OwnTokens, Job
<1>1. ASSUME NEW w \in Client, AcquireLock(w) PROVE OwnTokens'
  BY <1>1, <1>j, TokensKept DEF AcquireLock, Idle
<1>2. ASSUME NEW w \in Client,
             \/ IsRecentlyProcessed(w) \/ MarkMessageProcessed(w) \/ ReleaseLock(w)
             \/ MoveToDeadLetter(w) \/ VerifyToken(w) \/ ClearMarker(w) \/ GiveUp(w)
      PROVE  OwnTokens'
  BY <1>2, <1>r, <1>g
     DEF IsRecentlyProcessed, MarkMessageProcessed, ReleaseLock, MoveToDeadLetter, VerifyToken, ClearMarker, GiveUp
<1>3. ASSUME NEW w \in Client, GetEntry(w) PROVE OwnTokens'
  <2>1. CASE Rest(w)
    BY <2>1, <1>r
  <2>2. CASE job' = [job EXCEPT ![w] = [Idle EXCEPT !.pc = "clear"]]
    BY <2>2, <1>j, TokensKept DEF Idle
  <2>3. CASE job' = [job EXCEPT ![w].pc = "claim", ![w].base = entry]
    <3>1. \A v \in Client : job'[v].token = job[v].token /\ job'[v].until = job[v].until
      BY <2>3, <1>j DEF JobsOK, Job
    <3> QED
      BY <3>1 DEF OwnTokens
  <2> QED
    BY <1>3, <2>1, <2>2, <2>3 DEF GetEntry
<1>4. ASSUME NEW w \in Client, ClaimEntry(w) PROVE OwnTokens'
  <2> DEFINE t == CHOOSE t \in FreshTokens : TRUE
  <2>1. \A v \in Client : t # job[v].token
    BY <1>4, FreshTokensDiffer DEF ClaimEntry
  <2> HIDE DEF t
  <2>2. CASE job' = [job EXCEPT ![w].pc = "have", ![w].token = t, ![w].until = job[w].at + Visibility]
    <3>1. /\ job'[w].token = t
          /\ \A v \in Client \ {w} : job'[v] = job[v]
      BY <2>2, <1>j DEF JobsOK, Job
    <3> QED
      BY <2>1, <3>1 DEF OwnTokens
  <2> QED
    BY <1>4, <2>2, <1>r DEF ClaimEntry, t
<1>5. ASSUME NEW w \in Client, Settle(w) PROVE OwnTokens'
  <2> PICK status : job' = [job EXCEPT ![w].pc = FirstStep(status), ![w].want = status,
                                       ![w].at = clock + Backoff, ![w].base = None]
    BY <1>5 DEF Settle
  <2> DEFINE j == [job[w] EXCEPT !.pc = FirstStep(status), !.want = status,
                                 !.at = clock + Backoff, !.base = None]
  <2>1. job' = [job EXCEPT ![w] = j]
    OBVIOUS
  <2>2. job[w] \in Job /\ job[w].until > 0
    BY <1>5, <1>j DEF Settle, JobsOK, JobOK
  <2>3. j.token = job[w].token
    BY <2>2 DEF Job
  <2> HIDE DEF j
  <2> QED
    BY <1>j, <2>1, <2>2, <2>3, TokensKept
<1>6. ASSUME NEW w \in Client, RecoverMessage(w) PROVE OwnTokens'
  <2> DEFINE j == [Idle EXCEPT !.pc = FirstStep(Exhausted), !.token = entry.token, !.want = Exhausted]
             k == [Idle EXCEPT !.pc = "reread", !.want = "pending", !.at = clock]
  <2>1. j.until = 0 /\ k.until = 0
    BY DEF Idle
  <2>2. job' = [job EXCEPT ![w] = j] \/ job' = [job EXCEPT ![w] = k]
    BY <1>6 DEF RecoverMessage
  <2> HIDE DEF j, k
  <2> QED
    BY <1>j, <2>1, <2>2, TokensKept
<1>7. ASSUME NEW w \in Client, Reread(w) PROVE OwnTokens'
  <2>1. \A v \in Client : job'[v].token = job[v].token /\ job'[v].until = job[v].until
    BY <1>7, <1>j DEF Reread, JobsOK, Job
  <2> QED
    BY <2>1 DEF OwnTokens
<1>8. ASSUME NEW w \in Client, PutUpdate(w) PROVE OwnTokens'
  <2>1. CASE job' = [job EXCEPT ![w] = [Idle EXCEPT !.pc = "clear"]]
    BY <2>1, <1>j, TokensKept DEF Idle
  <2> QED
    BY <1>8, <2>1, <1>r DEF PutUpdate
<1>9. ASSUME NEW w \in Client, PutRenewal(w) PROVE OwnTokens'
  <2>1. CASE job[w].until > 0 /\ job' = [job EXCEPT ![w].until = ext[w].at]
    BY <2>1, <1>j DEF OwnTokens, Job
  <2>2. CASE UNCHANGED job
    BY <2>2 DEF OwnTokens
  <2> QED
    BY <1>9, <2>1, <2>2 DEF PutRenewal
<1>10. ASSUME NEW p \in Process, Crash(p) PROVE OwnTokens'
  BY <1>10, <1>j DEF Crash, OwnTokens, Idle
<1>11. ASSUME UNCHANGED job PROVE OwnTokens'
  BY <1>11 DEF OwnTokens
<1>12. ASSUME NEW w \in Client, RenewLock(w) \/ RereadForRenewal(w) \/ RenewalFails(w) PROVE OwnTokens'
  BY <1>11, <1>12 DEF RenewLock, RereadForRenewal, RenewalFails
<1>13. CASE Tick \/ LockLapses \/ UNCHANGED queueVars
  BY <1>11, <1>13 DEF Tick, LockLapses, queueVars
<1> QED
  BY <1>1, <1>2, <1>3, <1>4, <1>5, <1>6, <1>7, <1>8, <1>9, <1>10, <1>12, <1>13 DEF QueueNext

----------------------------------------------------------------------------
\* A step that replaces nothing and starts no claim.
LEMMA OwnersKept ==
  ASSUME \A v, w \in Owners : v = w, OwnersHold, UNCHANGED entry,
         \A w \in Owners' : w \in Owners /\ job'[w].until = job[w].until /\ job'[w].token = job[w].token
  PROVE  (\A v, w \in Owners : v = w)' /\ OwnersHold'
BY DEF OwnersHold

\* A step that replaces nothing: the calls that are current stay what they
\* were, or are current by what they have just read.
LEMMA CurrentKept ==
  ASSUME Current, UNCHANGED entry, clock \in Nat, clock' \in Nat, clock' >= clock, entry.visible \in Nat,
         \A w \in Client :
           /\ <<w, "job">> \in current' =>
                \/ <<w, "job">> \in current /\ job'[w] = job[w]
                \/ job'[w].pc \in {"claim", "reread", "put"} /\ ClaimIsCurrent(w)' /\ UpdateIsCurrent(w)'
           /\ <<w, "ext">> \in current' => \/ <<w, "ext">> \in current /\ ext'[w] = ext[w]
                                          \/ RenewalIsCurrent(w)'
  PROVE  Current'
<1>1. ASSUME NEW w \in Client, <<w, "job">> \in current, job'[w] = job[w]
      PROVE  job'[w].pc \in {"claim", "reread", "put"} /\ ClaimIsCurrent(w)' /\ UpdateIsCurrent(w)'
  <2>1. job[w].pc \in {"claim", "reread", "put"} /\ ClaimIsCurrent(w) /\ UpdateIsCurrent(w)
    BY <1>1 DEF Current
  <2>2. entry.visible <= clock => entry.visible <= clock'
    OBVIOUS
  <2>3. ClaimIsCurrent(w)'
    BY <1>1, <2>1 DEF ClaimIsCurrent
  <2>4. UpdateIsCurrent(w)'
    BY <1>1, <2>1, <2>2 DEF UpdateIsCurrent
  <2> QED
    BY <1>1, <2>1, <2>3, <2>4
<1>2. ASSUME NEW w \in Client, <<w, "ext">> \in current, ext'[w] = ext[w]
      PROVE  RenewalIsCurrent(w)'
  BY <1>2 DEF Current, RenewalIsCurrent
<1> QED
  BY <1>1, <1>2 DEF Current

\* The job of one worker changes, and it is not current afterwards.
LEMMA JobLeaves ==
  ASSUME TypeInv, ClaimInv, ~clobbered, NEW w \in Client, NEW j, job' = [job EXCEPT ![w] = j],
         UNCHANGED <<entry, ext, clobbered, clock>>, current' \subseteq current, <<w, "job">> \notin current',
         \/ j.until = 0
         \/ j.pc \notin Holding
         \/ job[w].pc \in Holding /\ j.token = job[w].token /\ j.until = job[w].until
  PROVE  ClaimInv'
<1>1. /\ \A v, u \in Owners : v = u
      /\ Current /\ OwnersHold
      /\ job \in [Client -> Job] /\ clock \in Nat /\ entry.visible \in Nat
  BY DEF ClaimInv, TypeInv, JobsOK, SharedOK, Entry
<1>2. job'[w] = j /\ \A v \in Client \ {w} : job'[v] = job[v]
  BY <1>1
<1>3. \A v \in Owners' : v \in Owners /\ job'[v].until = job[v].until /\ job'[v].token = job[v].token
  BY <1>1, <1>2 DEF Owners
<1>4. Current'
  BY <1>1, <1>2, CurrentKept
<1> QED
  BY <1>1, <1>3, <1>4, OwnersKept DEF ClaimInv

LEMMA ClaimStep == QueueInv /\ [QueueNext]_queueVars => ClaimInv'
<1> SUFFICES ASSUME QueueInv, [QueueNext]_queueVars, ~clobbered' PROVE ClaimInv'
  BY DEF ClaimInv
<1>t. TypeInv'
  BY QueueTyping DEF QueueInv
<1>a. ~clobbered
  <2>1. ASSUME NEW w \in Client, NEW k, NEW e, Replace(w, k, e) PROVE ~clobbered
    BY <2>1 DEF Replace, QueueInv, TypeInv, SharedOK
  <2> QED
    BY <2>1, EntryStep
<1>b. /\ TypeInv /\ OwnTokens /\ ClaimInv
      /\ \A v, w \in Owners : v = w
      /\ Current /\ OwnersHold
  BY <1>a DEF QueueInv, ClaimInv
<1>c. /\ job \in [Client -> Job] /\ \A w \in Client : job[w] \in Job /\ JobOK(job[w])
      /\ ext \in [Client -> Ext] /\ \A w \in Client : ext[w] \in Ext
      /\ clock \in Nat /\ entry \in Entry /\ entry.visible \in Nat
  BY <1>b DEF TypeInv, JobsOK, ExtsOK, SharedOK, Entry
\* Only a call that is at the right place is current.
<1>d. ASSUME NEW w \in Client, job[w].pc \notin {"claim", "reread", "put"} PROVE <<w, "job">> \notin current
  BY <1>b, <1>d DEF Current
<1>e. ASSUME NEW w \in Client, NEW pc, Goto(w, pc), job[w].pc \notin {"claim", "reread", "put"},
             job[w].pc \in Holding \/ pc \notin Holding,
             UNCHANGED <<entry, ext, clobbered, clock, current>>
      PROVE  ClaimInv'
  <2> DEFINE j == [job[w] EXCEPT !.pc = pc]
  <2>1. j.pc = pc /\ j.token = job[w].token /\ j.until = job[w].until
    BY <1>c DEF Job
  <2>2. job' = [job EXCEPT ![w] = j]
    BY <1>e DEF Goto
  <2> HIDE DEF j
  <2> QED
    BY <1>a, <1>b, <1>d, <1>e, <2>1, <2>2, JobLeaves
<1>f. ASSUME NEW w \in Client, Rest(w), UNCHANGED <<entry, ext, clobbered, clock>>,
             current' \subseteq current, <<w, "job">> \notin current'
      PROVE  ClaimInv'
  <2>1. Idle.until = 0
    BY DEF Idle
  <2> QED
    BY <1>a, <1>b, <1>f, <2>1, JobLeaves DEF Rest
\* What is current and by whom, where nothing is replaced.
<1>g. ASSUME UNCHANGED <<entry, clobbered>>, clock' \in Nat, clock' >= clock,
             \A w \in Owners' : w \in Owners /\ job'[w].until = job[w].until /\ job'[w].token = job[w].token,
             Current'
      PROVE  ClaimInv'
  BY <1>b, <1>g, OwnersKept DEF ClaimInv
<1>1. ASSUME NEW w \in Client, AcquireLock(w) PROVE ClaimInv'
  <2> DEFINE j == [Idle EXCEPT !.pc = "check", !.at = clock]
  <2>1. job' = [job EXCEPT ![w] = j]
    BY <1>1 DEF AcquireLock
  <2>2. j.until = 0
    BY DEF Idle
  <2> HIDE DEF j
  <2> QED
    BY <1>a, <1>b, <1>d, <1>1, <2>1, <2>2, JobLeaves DEF AcquireLock
<1>2. ASSUME NEW w \in Client, IsRecentlyProcessed(w) \/ MarkMessageProcessed(w) PROVE ClaimInv'
  BY <1>2, <1>e DEF IsRecentlyProcessed, MarkMessageProcessed, Holding
<1>3. ASSUME NEW w \in Client, ReleaseLock(w) PROVE ClaimInv'
  BY <1>3, <1>d, <1>e, <1>f DEF ReleaseLock, Holding
<1>4. ASSUME NEW w \in Client, MoveToDeadLetter(w) PROVE ClaimInv'
  BY <1>4, <1>e DEF MoveToDeadLetter, Holding
<1>5. ASSUME NEW w \in Client, GetEntry(w) PROVE ClaimInv'
  <2>1. CASE Rest(w) /\ UNCHANGED current
    BY <1>5, <1>d, <1>f, <2>1 DEF GetEntry
  <2>2. CASE job' = [job EXCEPT ![w] = [Idle EXCEPT !.pc = "clear"]] /\ UNCHANGED current
    <3> DEFINE j == [Idle EXCEPT !.pc = "clear"]
    <3>1. j.until = 0
      BY DEF Idle
    <3> HIDE DEF j
    <3>2. job' = [job EXCEPT ![w] = j]
      BY <2>2 DEF j
    <3> QED
      BY <1>a, <1>b, <1>d, <1>5, <2>2, <3>1, <3>2, JobLeaves DEF GetEntry
  <2>3. CASE /\ entry.status = "pending"
             /\ job' = [job EXCEPT ![w].pc = "claim", ![w].base = entry]
             /\ Read(w, "job")
    <3>1. /\ job'[w].pc = "claim" /\ job'[w].base = entry
          /\ \A v \in Client \ {w} : job'[v] = job[v]
      BY <1>c, <2>3 DEF Job
    <3>2. UNCHANGED <<entry, ext, clock, clobbered>>
      BY <1>5 DEF GetEntry
    <3>3. Current'
      <4>1. ClaimIsCurrent(w)' /\ UpdateIsCurrent(w)'
        BY <2>3, <3>1, <3>2 DEF ClaimIsCurrent, UpdateIsCurrent
      <4> QED
        BY <1>b, <1>c, <2>3, <3>1, <3>2, <4>1, CurrentKept DEF Read
    <3>4. \A v \in Owners' : v \in Owners /\ job'[v].until = job[v].until /\ job'[v].token = job[v].token
      BY <3>1, <3>2 DEF Owners, Holding
    <3> QED
      BY <1>c, <1>g, <3>2, <3>3, <3>4
  <2> QED
    BY <1>5, <2>1, <2>2, <2>3 DEF GetEntry
<1>6. ASSUME NEW w \in Client, ClaimEntry(w) PROVE ClaimInv'
  <2> DEFINE t == CHOOSE t \in FreshTokens : TRUE
  <2>0. job[w].pc = "claim" /\ UNCHANGED <<ext, clock>>
    BY <1>6 DEF ClaimEntry
  <2>1. CASE Rest(w) /\ UNCHANGED <<entry, clobbered>> /\ current' = current \ {<<w, "job">>}
    BY <1>f, <2>0, <2>1
  <2>2. CASE Replace(w, "job", Claimed(w, t))
    <3>1. <<w, "job">> \in current /\ current' = {} /\ entry' = Claimed(w, t)
      BY <2>2 DEF Replace
    <3>2. Owners = {}
      <4>1. entry.status = "pending"
        BY <1>b, <2>0, <3>1 DEF Current, ClaimIsCurrent
      <4> QED
        BY <1>b, <4>1 DEF OwnersHold, Terminal
    <3>3. Current'
      BY <3>1 DEF Current
    <3>4. CASE job' = [job EXCEPT ![w].pc = "have", ![w].token = t, ![w].until = job[w].at + Visibility]
      <4> HIDE DEF t
      <4>1. /\ job'[w].token = t /\ job'[w].until = job[w].at + Visibility
            /\ \A v \in Client \ {w} : job'[v] = job[v]
        BY <1>c, <3>4 DEF Job
      <4>2. Owners' \subseteq {w}
        BY <2>0, <3>2, <4>1 DEF Owners
      <4>3. /\ entry'.status = "processing" /\ entry'.token = job'[w].token
            /\ entry'.visible = job'[w].until
        BY <3>1, <4>1 DEF Claimed
      <4>4. job'[w].until \in Nat
        BY <1>c, <4>1, QueueAssumption DEF Job
      <4> QED
        BY <3>3, <4>2, <4>3, <4>4 DEF ClaimInv, OwnersHold
    <3>5. CASE Rest(w)
      <4>1. Owners' = {}
        BY <1>c, <2>0, <3>2, <3>5 DEF Owners, Rest, Idle, Holding
      <4> QED
        BY <3>3, <4>1 DEF ClaimInv, OwnersHold
    <3> QED
      BY <1>6, <3>4, <3>5 DEF ClaimEntry
  <2> QED
    BY <1>6, <2>1, <2>2 DEF ClaimEntry
<1>7. ASSUME NEW w \in Client, Settle(w) PROVE ClaimInv'
  <2> PICK status : job' = [job EXCEPT ![w].pc = FirstStep(status), ![w].want = status,
                                       ![w].at = clock + Backoff, ![w].base = None]
    BY <1>7 DEF Settle
  <2> DEFINE j == [job[w] EXCEPT !.pc = FirstStep(status), !.want = status,
                                 !.at = clock + Backoff, !.base = None]
  <2>1. job' = [job EXCEPT ![w] = j]
    OBVIOUS
  <2>2. job[w].pc = "have" /\ UNCHANGED <<entry, ext, clobbered, clock, current>>
    BY <1>7 DEF Settle
  <2>3. j.token = job[w].token /\ j.until = job[w].until
    BY <1>c DEF Job
  <2> HIDE DEF j
  <2>4. job[w].pc \in Holding /\ <<w, "job">> \notin current'
    BY <1>d, <2>2 DEF Holding
  <2> QED
    BY <1>a, <1>b, <2>1, <2>2, <2>3, <2>4, JobLeaves
<1>8. ASSUME NEW w \in Client, RecoverMessage(w) PROVE ClaimInv'
  <2> DEFINE j == [Idle EXCEPT !.pc = FirstStep(Exhausted), !.token = entry.token, !.want = Exhausted]
             k == [Idle EXCEPT !.pc = "reread", !.want = "pending", !.at = clock]
  <2>0. /\ job[w].pc = "idle" /\ entry.status = "processing" /\ entry.visible <= clock
        /\ UNCHANGED <<entry, ext, clobbered, clock>>
    BY <1>8 DEF RecoverMessage, Recoverable
  <2>1. CASE job' = [job EXCEPT ![w] = j] /\ UNCHANGED current
    <3>1. j.until = 0
      BY DEF Idle
    <3> HIDE DEF j
    <3> QED
      BY <1>a, <1>b, <1>d, <2>0, <2>1, <3>1, JobLeaves
  <2>2. CASE job' = [job EXCEPT ![w] = k] /\ Read(w, "job")
    <3>1. k.pc = "reread" /\ k.until = 0
      BY DEF Idle
    <3> HIDE DEF k
    <3>2. job'[w] = k /\ \A v \in Client \ {w} : job'[v] = job[v]
      BY <1>c, <2>2
    <3>3. ClaimIsCurrent(w)' /\ UpdateIsCurrent(w)'
      BY <2>0, <3>1, <3>2 DEF ClaimIsCurrent, UpdateIsCurrent
    <3>4. Current'
      BY <1>b, <1>c, <2>0, <2>2, <3>1, <3>2, <3>3, CurrentKept DEF Read
    <3>5. \A v \in Owners' : v \in Owners /\ job'[v].until = job[v].until /\ job'[v].token = job[v].token
      BY <1>c, <2>0, <3>1, <3>2 DEF Owners
    <3> QED
      BY <1>c, <1>g, <2>0, <3>4, <3>5
  <2> QED
    BY <1>8, <2>1, <2>2 DEF RecoverMessage
<1>9. ASSUME NEW w \in Client, VerifyToken(w) PROVE ClaimInv'
  <2>0. job[w].pc = "verify" /\ UNCHANGED <<entry, ext, clobbered, clock>>
    BY <1>9 DEF VerifyToken
  <2>1. CASE Rest(w) /\ UNCHANGED current
    BY <1>d, <1>f, <2>0, <2>1
  <2>2. CASE TokenMatches(w) /\ Goto(w, "reread") /\ Read(w, "job")
    <3>1. /\ job'[w].pc = "reread"
          /\ job'[w].until = job[w].until /\ job'[w].token = job[w].token /\ job'[w].want = job[w].want
          /\ \A v \in Client \ {w} : job'[v] = job[v]
      BY <1>c, <2>2 DEF Goto, Job
    <3>2. entry.status = "processing" /\ entry.token = job[w].token
      <4>1. job[w].token \in Token /\ entry.token = job[w].token
        BY <1>c, <2>0, <2>2 DEF JobOK, TokenMatches
      <4> QED
        BY <1>c, <4>1, QueueAssumption DEF Entry
    <3>u. job[w].until = 0 => job[w].want # "pending"
      BY <1>c, <2>0 DEF JobOK, Terminal
    <3>3. ClaimIsCurrent(w)' /\ UpdateIsCurrent(w)'
      BY <2>0, <3>1, <3>2, <3>u DEF ClaimIsCurrent, UpdateIsCurrent
    <3>4. Current'
      BY <1>b, <1>c, <2>0, <2>2, <3>1, <3>3, CurrentKept DEF Read
    <3>5. \A v \in Owners' : v \in Owners /\ job'[v].until = job[v].until /\ job'[v].token = job[v].token
      BY <2>0, <3>1 DEF Owners, Holding
    <3> QED
      BY <1>c, <1>g, <2>0, <3>4, <3>5
  <2> QED
    BY <1>9, <2>1, <2>2 DEF VerifyToken
<1>10. ASSUME NEW w \in Client, Reread(w) PROVE ClaimInv'
  <2>0. job[w].pc = "reread" /\ UNCHANGED <<entry, ext, clobbered, clock, current>>
    BY <1>10 DEF Reread
  <2>1. /\ job'[w].pc = "put" /\ job'[w].base = entry
        /\ job'[w].until = job[w].until /\ job'[w].token = job[w].token /\ job'[w].want = job[w].want
        /\ \A v \in Client \ {w} : job'[v] = job[v]
    BY <1>10, <1>c DEF Reread, Job
  <2>2. ASSUME <<w, "job">> \in current PROVE ClaimIsCurrent(w)' /\ UpdateIsCurrent(w)'
    <3>1. UpdateIsCurrent(w)
      BY <1>b, <2>2 DEF Current
    <3> QED
      BY <2>0, <2>1, <3>1 DEF ClaimIsCurrent, UpdateIsCurrent
  <2>3. Current'
    BY <1>b, <1>c, <2>0, <2>1, <2>2, CurrentKept
  <2>4. \A v \in Owners' : v \in Owners /\ job'[v].until = job[v].until /\ job'[v].token = job[v].token
    BY <2>0, <2>1 DEF Owners, Holding
  <2> QED
    BY <1>c, <1>g, <2>0, <2>3, <2>4
<1>11. ASSUME NEW w \in Client, PutUpdate(w) PROVE ClaimInv'
  <2>0. job[w].pc = "put" /\ UNCHANGED clock
    BY <1>11 DEF PutUpdate
  <2>1. <<w, "job">> \in current /\ current' = {} /\ entry' = Updated(job[w])
    BY <1>11 DEF PutUpdate, Replace
  <2>2. Current'
    BY <2>1 DEF Current
  <2>3. /\ entry.status = "processing"
        /\ job[w].until > 0 => entry.token = job[w].token
        /\ job[w].until = 0 /\ job[w].want = "pending" => entry.visible <= clock
    BY <1>b, <2>0, <2>1 DEF Current, UpdateIsCurrent
  <2>4. job'[w].until = 0 /\ \A v \in Client \ {w} : job'[v] = job[v]
    BY <1>11, <1>c DEF PutUpdate, Rest, Idle
  <2>5. \A v \in Owners' : v # w /\ v \in Owners
    BY <1>c, <2>0, <2>4 DEF Owners
  <2>6. \A v \in Owners : /\ job[v].until \in Nat /\ job[v].until > clock
                           /\ entry.token = job[v].token /\ entry.visible >= job[v].until
    BY <1>b, <1>c, <2>3 DEF OwnersHold, Terminal, Owners, Job
  <2>7. CASE job[w].until > 0
    <3>1. \A v \in Owners : v = w
      <4> SUFFICES ASSUME NEW v \in Owners PROVE v = w
        OBVIOUS
      <4>1. v \in Client /\ job[v].until > 0 /\ job[v].token = job[w].token
        BY <1>c, <2>3, <2>6, <2>7 DEF Owners
      <4> QED
        BY <1>b, <2>7, <4>1 DEF OwnTokens
    <3> QED
      BY <2>2, <2>5, <3>1 DEF ClaimInv, OwnersHold
  <2>8. CASE job[w].until = 0 /\ job[w].want = "pending"
    <3>1. Owners = {}
      BY <1>c, <2>3, <2>6, <2>8
    <3> QED
      BY <2>2, <2>5, <3>1 DEF ClaimInv, OwnersHold
  <2>9. CASE job[w].until = 0 /\ job[w].want \in Terminal
    <3>1. entry'.status \in Terminal
      BY <2>1, <2>9 DEF Updated
    <3> QED
      BY <1>b, <2>2, <2>5, <3>1 DEF ClaimInv, OwnersHold
  <2> QED
    <3>1. job[w].want \in {"pending"} \cup Terminal /\ job[w].until \in Nat
      BY <1>c, <2>0 DEF JobOK, Job
    <3> QED
      BY <2>7, <2>8, <2>9, <3>1
<1>12. ASSUME NEW w \in Client, ClearMarker(w) PROVE ClaimInv'
  BY <1>12, <1>d, <1>f DEF ClearMarker
<1>13. ASSUME NEW w \in Client, GiveUp(w) PROVE ClaimInv'
  BY <1>13, <1>f DEF GiveUp
<1>14. ASSUME NEW w \in Client, RenewLock(w) PROVE ClaimInv'
  <2> DEFINE from == IF entry.visible > clock THEN entry.visible ELSE clock
             e == [pc |-> "reread", base |-> None, at |-> from + Visibility]
  <2>0. /\ entry.status = "processing" /\ UNCHANGED <<entry, job, clobbered, clock>>
        /\ ext' = [ext EXCEPT ![w] = e] /\ Read(w, "ext")
    BY <1>14 DEF RenewLock
  <2>1. e.pc = "reread" /\ e.at >= entry.visible
    BY <1>c, QueueAssumption
  <2> HIDE DEF e
  <2>2. RenewalIsCurrent(w)'
    BY <1>c, <2>0, <2>1 DEF RenewalIsCurrent
  <2>3. Current'
    BY <1>b, <1>c, <2>0, <2>2, CurrentKept DEF Read
  <2>4. Owners' = Owners
    BY <2>0 DEF Owners
  <2> QED
    BY <1>c, <1>g, <2>0, <2>3, <2>4
<1>15. ASSUME NEW w \in Client, RereadForRenewal(w) PROVE ClaimInv'
  <2>0. ext[w].pc = "reread" /\ UNCHANGED <<entry, job, clobbered, clock, current>>
    BY <1>15 DEF RereadForRenewal
  <2>1. /\ ext'[w].pc = "put" /\ ext'[w].base = entry /\ ext'[w].at = ext[w].at
        /\ \A v \in Client \ {w} : ext'[v] = ext[v]
    BY <1>15, <1>c DEF RereadForRenewal, Ext
  <2>2. ASSUME <<w, "ext">> \in current PROVE RenewalIsCurrent(w)'
    BY <1>b, <2>0, <2>1, <2>2 DEF Current, RenewalIsCurrent
  <2>3. Current'
    BY <1>b, <1>c, <2>0, <2>1, <2>2, CurrentKept
  <2>4. Owners' = Owners
    BY <2>0 DEF Owners
  <2> QED
    BY <1>c, <1>g, <2>0, <2>3, <2>4
<1>16. ASSUME NEW w \in Client, PutRenewal(w) PROVE ClaimInv'
  <2>0. ext[w].pc = "put" /\ UNCHANGED clock
    BY <1>16 DEF PutRenewal
  <2>1. /\ <<w, "ext">> \in current /\ current' = {}
        /\ entry' = [ext[w].base EXCEPT !.visible = ext[w].at]
    BY <1>16 DEF PutRenewal, Replace
  <2>2. Current'
    BY <2>1 DEF Current
  <2>3. ext[w].base = entry /\ ext[w].at >= entry.visible /\ entry.status = "processing"
    BY <1>b, <2>0, <2>1 DEF Current, RenewalIsCurrent
  <2>4. /\ entry'.status = "processing" /\ entry'.token = entry.token
        /\ entry'.visible = ext[w].at /\ ext[w].at \in Nat
    BY <1>c, <2>1, <2>3 DEF Entry, Ext
  <2>6. \A v \in Owners : /\ job[v].until \in Nat /\ job[v].until > 0
                           /\ entry.token = job[v].token /\ entry.visible >= job[v].until
    BY <1>b, <1>c, <2>3 DEF OwnersHold, Terminal, Owners, Job
  <2>7. CASE UNCHANGED job
    <3>1. Owners' = Owners
      BY <2>0, <2>7 DEF Owners
    <3> QED
      BY <1>b, <1>c, <2>2, <2>3, <2>4, <2>6, <2>7, <3>1 DEF ClaimInv, OwnersHold
  <2>8. CASE /\ job[w].until > 0 /\ job[w].token = entry.token
             /\ job' = [job EXCEPT ![w].until = ext[w].at]
    <3>1. /\ job'[w].until = ext[w].at /\ job'[w].token = job[w].token
          /\ \A v \in Client \ {w} : job'[v] = job[v]
      BY <1>c, <2>8 DEF Job
    <3>2. Owners' \subseteq {w}
      <4> SUFFICES ASSUME NEW v \in Client, v \in Owners', v # w PROVE FALSE
        BY DEF Owners
      <4>1. v \in Owners
        BY <2>0, <3>1 DEF Owners
      <4>2. job[v].until > 0 /\ job[v].token = job[w].token
        BY <2>6, <2>8, <4>1
      <4> QED
        BY <1>b, <2>8, <4>2 DEF OwnTokens
    <3> QED
      BY <2>2, <2>4, <2>8, <3>1, <3>2 DEF ClaimInv, OwnersHold
  <2> QED
    BY <1>16, <2>3, <2>7, <2>8 DEF PutRenewal
<1>17. ASSUME NEW w \in Client, RenewalFails(w) PROVE ClaimInv'
  <2>0. /\ UNCHANGED <<entry, job, clobbered, clock>> /\ current' = current \ {<<w, "ext">>}
        /\ \A v \in Client \ {w} : ext'[v] = ext[v]
    BY <1>17, <1>c DEF RenewalFails
  <2>1. Current'
    BY <1>b, <1>c, <2>0, CurrentKept
  <2>2. Owners' = Owners
    BY <2>0 DEF Owners
  <2> QED
    BY <1>c, <1>g, <2>0, <2>1, <2>2
<1>18. ASSUME NEW p \in Process, Crash(p) PROVE ClaimInv'
  <2>0. /\ UNCHANGED <<entry, clobbered, clock>>
        /\ current' = {c \in current : c[1] \notin {w \in Client : Home[w] = p}}
        /\ \A w \in Client : IF Home[w] = p THEN job'[w] = Idle
                             ELSE job'[w] = job[w] /\ ext'[w] = ext[w]
    BY <1>18, <1>c DEF Crash
  <2>1. \A w \in Client, k \in {"job", "ext"} :
          <<w, k>> \in current' => <<w, k>> \in current /\ job'[w] = job[w] /\ ext'[w] = ext[w]
    BY <2>0
  <2>2. Current'
    BY <1>b, <1>c, <2>0, <2>1, CurrentKept
  <2>3. \A v \in Owners' : v \in Owners /\ job'[v].until = job[v].until /\ job'[v].token = job[v].token
    BY <1>c, <2>0 DEF Owners, Idle
  <2> QED
    BY <1>c, <1>g, <2>0, <2>2, <2>3
<1>19. CASE Tick
  <2>0. UNCHANGED <<entry, job, ext, clobbered, current>> /\ clock' = clock + 1
    BY <1>19 DEF Tick
  <2>1. clock' \in Nat /\ clock' >= clock
    BY <1>c, <2>0
  <2>2. Current'
    BY <1>b, <1>c, <2>0, <2>1, CurrentKept
  <2>3. \A v \in Owners' : v \in Owners
    BY <1>c, <2>0 DEF Owners, Job
  <2> QED
    BY <1>g, <2>0, <2>1, <2>2, <2>3
<1>20. CASE LockLapses \/ UNCHANGED queueVars
  <2>0. UNCHANGED <<entry, job, ext, clobbered, current, clock>>
    BY <1>20 DEF LockLapses, queueVars
  <2>1. Current'
    BY <1>b, <1>c, <2>0, CurrentKept
  <2>2. Owners' = Owners
    BY <2>0 DEF Owners
  <2> QED
    BY <1>c, <1>g, <2>0, <2>1, <2>2
<1> QED
  BY <1>1, <1>2, <1>3, <1>4, <1>5, <1>6, <1>7, <1>8, <1>9, <1>10, <1>11, <1>12, <1>13, <1>14,
     <1>15, <1>16, <1>17, <1>18, <1>19, <1>20 DEF QueueNext

LEMMA QueueInduction == QueueSpec => []QueueInv
<1>1. QueueInit => QueueInv
  <2> SUFFICES ASSUME QueueInit PROVE QueueInv
    OBVIOUS
  <2>1. Idle \in Job /\ JobOK(Idle) /\ NoExt \in Ext
    BY DEF Idle, NoExt, Job, Ext, JobOK
  <2>2. TypeInv
    <3>1. entry \in Entry
      BY QueueAssumption DEF QueueInit, Entry, Status
    <3>2. SharedOK
      <4>1. lapsed \in BOOLEAN /\ buried \in BOOLEAN /\ clobbered \in BOOLEAN /\ excused \in BOOLEAN
        BY DEF QueueInit, Init
      <4>2. holders = {} /\ current = {} /\ clock = 0 /\ marker = 0 /\ completions = 0
        BY DEF QueueInit, Init
      <4>3. cache \in [Process -> Nat]
        BY DEF QueueInit
      <4> QED
        BY <3>1, <4>1, <4>2, <4>3 DEF SharedOK
    <3>3. JobsOK
      BY <2>1 DEF QueueInit, JobsOK
    <3>4. ExtsOK
      BY <2>1 DEF QueueInit, ExtsOK, NoExt
    <3> QED
      BY <3>2, <3>3, <3>4 DEF TypeInv
  <2>3. \A w \in Client : job[w].until = 0 /\ job[w].pc = "idle"
    BY DEF QueueInit, Idle
  <2>4. OwnTokens
    BY <2>3 DEF OwnTokens
  <2>5. ClaimInv
    BY <2>3 DEF QueueInit, ClaimInv, Current, OwnersHold, Owners, Holding
  <2> QED
    BY <2>2, <2>4, <2>5 DEF QueueInv
<1>2. QueueInv /\ [QueueNext]_queueVars => QueueInv'
  BY QueueTyping, TokensStep, ClaimStep DEF QueueInv
<1> QED
  BY <1>1, <1>2, PTL DEF QueueSpec

\* The type invariant: the message's entry, its marker and every worker's job.
THEOREM QueueIsTyped == QueueSpec => []QueueTypeOK
<1>1. QueueInv => QueueTypeOK
  BY DEF QueueInv, TypeInv, SharedOK, JobsOK, ExtsOK, QueueTypeOK
<1> QED
  BY <1>1, QueueInduction, PTL

\* As long as every conditional PUT replaced what its call had read first,
\* two workers never hold the message within their visibility timeouts.
THEOREM OneWorkerHolds == QueueSpec => []OneClaim
<1>1. QueueInv => OneClaim
  BY DEF QueueInv, ClaimInv, OneClaim
<1> QED
  BY <1>1, QueueInduction, PTL

\* And in that case no claim, update, recovery or renewal takes a message
\* out of its final status.
THEOREM SettledStaysSettled == QueueSpec => SettledIsFinal
<1>1. ASSUME QueueInv, [QueueNext]_queueVars, ~clobbered', entry.status \in Terminal
      PROVE  entry'.status = entry.status
  <2>1. \A w \in Client : <<w, "job">> \notin current /\ <<w, "ext">> \notin current
    <3>1. ASSUME ~clobbered PROVE \A w \in Client : <<w, "job">> \notin current /\ <<w, "ext">> \notin current
      BY <1>1, <3>1 DEF QueueInv, ClaimInv, Current, ClaimIsCurrent, UpdateIsCurrent, RenewalIsCurrent, Terminal
    <3>2. CASE clobbered
      <4>1. UNCHANGED clobbered \/ \E w \in Client, k \in {"job", "ext"} : clobbered' = (clobbered \/ <<w, k>> \notin current)
        BY <1>1, EntryStep DEF Replace
      <4> QED
        BY <1>1, <3>2, <4>1
    <3> QED
      BY <3>1, <3>2
  <2>2. ASSUME NEW w \in Client, NEW k \in {"job", "ext"}, NEW e, Replace(w, k, e) PROVE FALSE
    BY <1>1, <2>1, <2>2 DEF Replace
  <2>3. UNCHANGED entry
    BY <1>1, <2>2, EntryStep
  <2> QED
    BY <2>3
<1>2. QueueInv /\ [QueueNext]_queueVars =>
        [~clobbered' /\ entry.status \in Terminal => entry'.status = entry.status]_queueVars
  BY <1>1
<1> QED
  BY <1>2, QueueInduction, PTL DEF QueueSpec, SettledIsFinal

----------------------------------------------------------------------------
\* Nothing that is, or is about to be written as, dead lacks its copy.
BuriedInv ==
  \/ buried
  \/ /\ entry.status # "dead"
     /\ \A w \in Client : /\ job[w].pc \in {"verify", "reread", "put"} => job[w].want # "dead"
                          /\ ext[w].pc = "put" => ext[w].base.status # "dead"

LEMMA BuriedStep == TypeInv /\ BuriedInv /\ [QueueNext]_queueVars => BuriedInv'
<1> SUFFICES ASSUME TypeInv, BuriedInv, [QueueNext]_queueVars, ~buried' PROVE BuriedInv'
  BY DEF BuriedInv
<1>a. ~buried
  <2>1. \A w \in Client : ~MoveToDeadLetter(w)
    BY DEF MoveToDeadLetter
  <2>2. UNCHANGED buried
    BY <2>1, EntryStep
  <2> QED
    BY <2>2
<1>b. /\ entry.status # "dead"
      /\ \A w \in Client : /\ job[w].pc \in {"verify", "reread", "put"} => job[w].want # "dead"
                           /\ ext[w].pc = "put" => ext[w].base.status # "dead"
  BY <1>a DEF BuriedInv
<1>c. /\ job \in [Client -> Job] /\ \A w \in Client : job[w] \in Job /\ JobOK(job[w])
      /\ ext \in [Client -> Ext] /\ \A w \in Client : ext[w] \in Ext
  BY DEF TypeInv, JobsOK, ExtsOK
\* Where the entry and the renewals stay as they are, only a job matters.
<1>j. ASSUME NEW w \in Client, NEW j, job' = [job EXCEPT ![w] = j], UNCHANGED <<entry, ext>>,
             j.pc \in {"verify", "reread", "put"} => j.want # "dead"
      PROVE  BuriedInv'
  BY <1>b, <1>c, <1>j DEF BuriedInv
<1>r. ASSUME NEW w \in Client, Rest(w), UNCHANGED <<entry, ext>> PROVE BuriedInv'
  BY <1>j, <1>r DEF Rest, Idle
<1>g. ASSUME NEW w \in Client, NEW pc, Goto(w, pc), UNCHANGED <<entry, ext>>,
             pc \in {"verify", "reread", "put"} => job[w].pc \in {"verify", "reread", "put"}
      PROVE  BuriedInv'
  <2> DEFINE j == [job[w] EXCEPT !.pc = pc]
  <2>1. j.pc = pc /\ j.want = job[w].want
    BY <1>c DEF Job
  <2>2. job' = [job EXCEPT ![w] = j]
    BY <1>g DEF Goto
  <2> HIDE DEF j
  <2> QED
    BY <1>b, <1>g, <1>j, <2>1, <2>2
<1>u. ASSUME UNCHANGED <<entry, job, ext>> PROVE BuriedInv'
  BY <1>b, <1>u DEF BuriedInv
<1>1. ASSUME NEW w \in Client, AcquireLock(w) PROVE BuriedInv'
  <2> DEFINE j == [Idle EXCEPT !.pc = "check", !.at = clock]
  <2>1. j.pc = "check" /\ job' = [job EXCEPT ![w] = j]
    BY <1>1 DEF AcquireLock, Idle
  <2> HIDE DEF j
  <2> QED
    BY <1>1, <1>j, <2>1 DEF AcquireLock
<1>2. ASSUME NEW w \in Client,
             IsRecentlyProcessed(w) \/ MarkMessageProcessed(w) \/ ReleaseLock(w) \/ VerifyToken(w)
             \/ ClearMarker(w) \/ GiveUp(w)
      PROVE  BuriedInv'
  BY <1>2, <1>g, <1>r DEF IsRecentlyProcessed, MarkMessageProcessed, ReleaseLock, VerifyToken, ClearMarker, GiveUp
<1>3. ASSUME NEW w \in Client, GetEntry(w) PROVE BuriedInv'
  <2> DEFINE j == [job[w] EXCEPT !.pc = "claim", !.base = entry]
             k == [Idle EXCEPT !.pc = "clear"]
  <2>1. j.pc = "claim" /\ k.pc = "clear"
    BY <1>c DEF Job, Idle
  <2>2. job' = [job EXCEPT ![w] = j] \/ job' = [job EXCEPT ![w] = k] \/ Rest(w)
    BY <1>3 DEF GetEntry
  <2> HIDE DEF j, k
  <2> QED
    BY <1>3, <1>j, <1>r, <2>1, <2>2 DEF GetEntry
<1>4. ASSUME NEW w \in Client, ClaimEntry(w) PROVE BuriedInv'
  <2> DEFINE t == CHOOSE t \in FreshTokens : TRUE
             j == [job[w] EXCEPT !.pc = "have", !.token = t, !.until = job[w].at + Visibility]
  <2>1. j.pc = "have" /\ Idle.pc = "idle"
    BY <1>c DEF Job, Idle
  <2>2. entry'.status # "dead"
    <3>1. UNCHANGED entry \/ entry' = Claimed(w, t)
      BY <1>4 DEF ClaimEntry, Replace
    <3> QED
      BY <1>b, <3>1 DEF Claimed
  <2>3. job' = [job EXCEPT ![w] = j] \/ job' = [job EXCEPT ![w] = Idle]
    BY <1>4 DEF ClaimEntry, Rest
  <2> HIDE DEF j
  <2>4. \A v \in Client : job'[v].pc \in {"verify", "reread", "put"} => job'[v].want # "dead"
    BY <1>b, <1>c, <2>1, <2>3
  <2>5. UNCHANGED ext
    BY <1>4 DEF ClaimEntry
  <2> QED
    BY <1>b, <2>2, <2>4, <2>5 DEF BuriedInv
<1>5. ASSUME NEW w \in Client, Settle(w) PROVE BuriedInv'
  <2> PICK status : job' = [job EXCEPT ![w].pc = FirstStep(status), ![w].want = status,
                                       ![w].at = clock + Backoff, ![w].base = None]
    BY <1>5 DEF Settle
  <2> DEFINE j == [job[w] EXCEPT !.pc = FirstStep(status), !.want = status,
                                 !.at = clock + Backoff, !.base = None]
  <2>1. j.pc = FirstStep(status) /\ j.want = status
    BY <1>c DEF Job
  <2>2. job' = [job EXCEPT ![w] = j]
    OBVIOUS
  <2> HIDE DEF j
  <2>3. j.pc \in {"verify", "reread", "put"} => j.want # "dead"
    BY <2>1 DEF FirstStep
  <2> QED
    BY <1>5, <1>j, <2>2, <2>3 DEF Settle
<1>6. ASSUME NEW w \in Client, RecoverMessage(w) PROVE BuriedInv'
  <2> DEFINE j == [Idle EXCEPT !.pc = FirstStep(Exhausted), !.token = entry.token, !.want = Exhausted]
             k == [Idle EXCEPT !.pc = "reread", !.want = "pending", !.at = clock]
  <2>1. j.pc = FirstStep(Exhausted) /\ j.want = Exhausted /\ k.want = "pending"
    BY DEF Idle
  <2>2. job' = [job EXCEPT ![w] = j] \/ job' = [job EXCEPT ![w] = k]
    BY <1>6 DEF RecoverMessage
  <2> HIDE DEF j, k
  <2>3. j.pc \in {"verify", "reread", "put"} => j.want # "dead"
    BY <2>1 DEF FirstStep
  <2> QED
    BY <1>6, <1>j, <2>1, <2>2, <2>3 DEF RecoverMessage
<1>7. ASSUME NEW w \in Client, MoveToDeadLetter(w) PROVE BuriedInv'
  BY <1>7 DEF MoveToDeadLetter
<1>8. ASSUME NEW w \in Client, Reread(w) PROVE BuriedInv'
  <2> DEFINE j == [job[w] EXCEPT !.pc = "put", !.base = entry]
  <2>1. j.want = job[w].want
    BY <1>c DEF Job
  <2>2. job' = [job EXCEPT ![w] = j]
    BY <1>8 DEF Reread
  <2> HIDE DEF j
  <2> QED
    BY <1>8, <1>b, <1>j, <2>1, <2>2 DEF Reread
<1>9. ASSUME NEW w \in Client, PutUpdate(w) PROVE BuriedInv'
  <2> DEFINE k == [Idle EXCEPT !.pc = "clear"]
  <2>1. entry'.status # "dead"
    BY <1>9, <1>b DEF PutUpdate, Replace, Updated
  <2>2. k.pc = "clear" /\ Idle.pc = "idle"
    BY DEF Idle
  <2>3. job' = [job EXCEPT ![w] = k] \/ job' = [job EXCEPT ![w] = Idle]
    BY <1>9 DEF PutUpdate, Rest
  <2> HIDE DEF k
  <2>4. \A v \in Client : job'[v].pc \in {"verify", "reread", "put"} => job'[v].want # "dead"
    BY <1>b, <1>c, <2>2, <2>3
  <2> QED
    BY <1>9, <1>b, <2>1, <2>4 DEF BuriedInv, PutUpdate
<1>10. ASSUME NEW w \in Client, RenewLock(w) \/ RenewalFails(w) PROVE BuriedInv'
  BY <1>10, <1>b, <1>c DEF BuriedInv, RenewLock, RenewalFails, NoExt
<1>11. ASSUME NEW w \in Client, RereadForRenewal(w) PROVE BuriedInv'
  BY <1>11, <1>b, <1>c DEF BuriedInv, RereadForRenewal, Ext
<1>12. ASSUME NEW w \in Client, PutRenewal(w) PROVE BuriedInv'
  <2>1. entry'.status # "dead"
    <3>1. ext[w].base \in Entry /\ ext[w].base.status # "dead"
      BY <1>12, <1>b DEF PutRenewal, TypeInv, ExtsOK
    <3> QED
      BY <1>12, <3>1 DEF PutRenewal, Replace, Entry
  <2>2. \A v \in Client : job'[v].pc = job[v].pc /\ job'[v].want = job[v].want
    BY <1>12, <1>c DEF PutRenewal, Job
  <2>3. \A v \in Client : ext'[v].pc = "put" => ext'[v] = ext[v]
    BY <1>12, <1>c DEF PutRenewal, NoExt
  <2> QED
    BY <1>b, <2>1, <2>2, <2>3 DEF BuriedInv
<1>13. ASSUME NEW p \in Process, Crash(p) PROVE BuriedInv'
  BY <1>13, <1>b, <1>c DEF BuriedInv, Crash, Idle, NoExt
<1>14. CASE Tick \/ LockLapses \/ UNCHANGED queueVars
  BY <1>14, <1>u DEF Tick, LockLapses, queueVars
<1> QED
  BY <1>1, <1>2, <1>3, <1>4, <1>5, <1>6, <1>7, <1>8, <1>9, <1>10, <1>11, <1>12, <1>13, <1>14 DEF QueueNext

\* No message is dead without its copy in the dead letter queue, whatever
\* fails, crashes or is clobbered.
THEOREM DeadAreBuried == QueueSpec => []DeadIsBuried
<1>1. QueueInit => BuriedInv
  BY DEF QueueInit, BuriedInv, Idle, NoExt
<1>2. QueueInv /\ BuriedInv /\ [QueueNext]_queueVars => BuriedInv'
  BY BuriedStep DEF QueueInv
<1>3. BuriedInv => DeadIsBuried
  BY DEF BuriedInv, DeadIsBuried
<1> QED
  BY <1>1, <1>2, <1>3, QueueInduction, PTL DEF QueueSpec

----------------------------------------------------------------------------
(* AttemptsAreBounded: the entry counts every claim, a worker that still   *)
(* has the entry has counted its own, whoever is about to make the message *)
(* pending again has seen an attempt left, and a recovery that is about to *)
(* end it has seen that none is.                                           *)

Most == IF MaxAttempts = 0 THEN 1 ELSE MaxAttempts

Counts(j, isCurrent) ==
  /\ j.until > 0 /\ j.token = entry.token =>
       /\ j.pc = "have" => entry.attempts = j.base.attempts + 1
       /\ j.pc \in {"bury", "verify", "reread", "put"} /\ j.want = "pending"
            => entry.attempts < MaxAttempts
  /\ j.until = 0 /\ j.want = "pending" /\ j.pc \in {"reread", "put"} /\ isCurrent
       => entry.attempts < MaxAttempts
  /\ j.until = 0 /\ j.want # "pending" /\ j.pc \in {"bury", "verify", "reread", "put"} =>
       /\ j.want = Exhausted
       /\ j.pc \in {"bury", "verify"} /\ j.token = entry.token => entry.attempts >= MaxAttempts
       /\ j.pc \in {"reread", "put"} /\ isCurrent => entry.attempts >= MaxAttempts

AttemptsInv ==
  ~clobbered =>
    /\ entry.attempts <= Most
    /\ entry.status = "pending" => entry.attempts < Most
    /\ \A w \in Client : Counts(job[w], <<w, "job">> \in current)

LEMMA AttemptsStep == QueueInv /\ AttemptsInv /\ [QueueNext]_queueVars => AttemptsInv'
<1> SUFFICES ASSUME QueueInv, AttemptsInv, [QueueNext]_queueVars, ~clobbered' PROVE AttemptsInv'
  BY DEF AttemptsInv
<1>a. ~clobbered
  <2>1. ASSUME NEW w \in Client, NEW k, NEW e, Replace(w, k, e) PROVE ~clobbered
    BY <2>1 DEF Replace, QueueInv, TypeInv, SharedOK
  <2> QED
    BY <2>1, EntryStep
<1>b. /\ entry.attempts <= Most
      /\ entry.status = "pending" => entry.attempts < Most
      /\ \A w \in Client : Counts(job[w], <<w, "job">> \in current)
      /\ Current
  BY <1>a DEF AttemptsInv, QueueInv, ClaimInv
<1>c. /\ job \in [Client -> Job] /\ \A w \in Client : job[w] \in Job /\ JobOK(job[w])
      /\ ext \in [Client -> Ext]
      /\ entry \in Entry /\ entry.attempts \in Nat /\ Most \in Nat /\ MaxAttempts <= Most /\ Most > 0
  BY QueueAssumption DEF QueueInv, TypeInv, JobsOK, ExtsOK, SharedOK, Entry, Most
\* Where the entry stays as it is, only the job that changes matters.
<1>j. ASSUME NEW w \in Client, NEW j, job' = [job EXCEPT ![w] = j], UNCHANGED <<entry, clobbered>>,
             \A v \in Client : v # w /\ <<v, "job">> \in current' => <<v, "job">> \in current,
             Counts(j, <<w, "job">> \in current')
      PROVE  AttemptsInv'
  <2>1. job'[w] = j /\ \A v \in Client \ {w} : job'[v] = job[v]
    BY <1>c, <1>j
  <2>2. \A v \in Client : Counts(job[v], <<v, "job">> \in current)
    BY <1>b
  <2>3. ASSUME NEW v \in Client PROVE Counts(job'[v], <<v, "job">> \in current')
    BY <1>j, <2>1, <2>2 DEF Counts
  <2>4. ASSUME NEW v \in Client PROVE Counts(job[v], <<v, "job">> \in current)'
    BY <1>j, <2>3 DEF Counts
  <2> QED
    BY <1>b, <1>j, <2>4 DEF AttemptsInv
<1>r. ASSUME NEW w \in Client, Rest(w), UNCHANGED <<entry, clobbered>>, current' \subseteq current
      PROVE  AttemptsInv'
  <2>1. Counts(Idle, <<w, "job">> \in current')
    BY QueueAssumption DEF Counts, Idle
  <2> QED
    BY <1>j, <1>r, <2>1 DEF Rest
<1>g. ASSUME NEW w \in Client, NEW pc, Goto(w, pc), UNCHANGED <<entry, clobbered>>,
             \A v \in Client : v # w /\ <<v, "job">> \in current' => <<v, "job">> \in current,
             job[w].until = 0, pc \notin {"bury", "verify", "reread", "put"}
      PROVE  AttemptsInv'
  <2> DEFINE j == [job[w] EXCEPT !.pc = pc]
  <2>1. j.pc = pc /\ j.want = job[w].want /\ j.until = job[w].until /\ j.token = job[w].token
    BY <1>c DEF Job
  <2>2. job' = [job EXCEPT ![w] = j]
    BY <1>g DEF Goto
  <2> HIDE DEF j
  <2>3. Counts(job[w], <<w, "job">> \in current) /\ job[w].until \in Nat
    BY <1>b, <1>c DEF Job
  <2>4. Counts(j, <<w, "job">> \in current')
    BY <1>g, <2>1, <2>3 DEF Counts
  <2> QED
    BY <1>g, <1>j, <2>2, <2>4
<1>1. ASSUME NEW w \in Client, AcquireLock(w) PROVE AttemptsInv'
  <2> DEFINE j == [Idle EXCEPT !.pc = "check", !.at = clock]
  <2>1. j.until = 0 /\ j.pc = "check" /\ job' = [job EXCEPT ![w] = j]
    BY <1>1 DEF AcquireLock, Idle
  <2> HIDE DEF j
  <2> QED
    BY <1>1, <1>j, <2>1 DEF AcquireLock, Counts
<1>2. ASSUME NEW w \in Client,
             IsRecentlyProcessed(w) \/ MarkMessageProcessed(w) \/ ReleaseLock(w) \/ ClearMarker(w)
      PROVE  AttemptsInv'
  <2>1. job[w].pc \notin Holding /\ UNCHANGED <<entry, clobbered, current>>
    BY <1>2 DEF IsRecentlyProcessed, MarkMessageProcessed, ReleaseLock, ClearMarker, Holding
  <2>2. job[w].until = 0
    BY <1>c, <2>1 DEF Job, JobOK
  <2>3. Rest(w) \/ \E pc \in {"skip", "mark", "marked", "get"} : Goto(w, pc)
    BY <1>2 DEF IsRecentlyProcessed, MarkMessageProcessed, ReleaseLock, ClearMarker
  <2> QED
    BY <1>g, <1>r, <2>1, <2>2, <2>3
<1>3. ASSUME NEW w \in Client, GetEntry(w) PROVE AttemptsInv'
  <2> DEFINE j == [job[w] EXCEPT !.pc = "claim", !.base = entry]
             k == [Idle EXCEPT !.pc = "clear"]
  <2>1. j.until = 0 /\ j.pc = "claim" /\ k.until = 0 /\ k.pc = "clear"
    BY <1>3, <1>c DEF GetEntry, Job, JobOK, Idle, Holding
  <2>2. job' = [job EXCEPT ![w] = j] \/ job' = [job EXCEPT ![w] = k] \/ Rest(w)
    BY <1>3 DEF GetEntry
  <2>3. UNCHANGED <<entry, clobbered>> /\ (Rest(w) => UNCHANGED current \/ job' = [job EXCEPT ![w] = j])
    BY <1>3 DEF GetEntry
  <2>4. current' = current \/ current' = current \cup {<<w, "job">>}
    BY <1>3 DEF GetEntry, Read
  <2> HIDE DEF j, k
  <2>5. Counts(j, <<w, "job">> \in current') /\ Counts(k, <<w, "job">> \in current')
    BY <2>1 DEF Counts
  <2> QED
    BY <1>j, <1>r, <2>2, <2>3, <2>4, <2>5
<1>4. ASSUME NEW w \in Client, ClaimEntry(w) PROVE AttemptsInv'
  <2> DEFINE t == CHOOSE t \in FreshTokens : TRUE
             j == [job[w] EXCEPT !.pc = "have", !.token = t, !.until = job[w].at + Visibility]
  <2>1. \/ Rest(w) /\ UNCHANGED <<entry, clobbered>> /\ current' \subseteq current
        \/ /\ Replace(w, "job", Claimed(w, t))
           /\ job' = [job EXCEPT ![w] = j] \/ job' = [job EXCEPT ![w] = Idle]
    BY <1>4 DEF ClaimEntry, Rest
  <2>2. ASSUME Replace(w, "job", Claimed(w, t)),
               job' = [job EXCEPT ![w] = j] \/ job' = [job EXCEPT ![w] = Idle]
        PROVE  AttemptsInv'
    <3>1. entry' = Claimed(w, t) /\ <<w, "job">> \in current /\ current' = {} /\ job[w].pc = "claim"
      BY <1>4, <2>2 DEF Replace, ClaimEntry
    <3>2. job[w].base = entry /\ entry.attempts < Most
      BY <1>b, <3>1 DEF Current, ClaimIsCurrent
    <3>3. /\ entry'.attempts = entry.attempts + 1 /\ entry'.token = t /\ entry'.status = "processing"
      BY <3>1, <3>2 DEF Claimed
    <3>4. \A v \in Client : job[v].token # t
      BY <1>4, FreshTokensDiffer DEF ClaimEntry
    <3>5. j.pc = "have" /\ j.base = entry /\ Idle.until = 0 /\ Idle.pc = "idle"
      BY <1>c, <3>2 DEF Job, Idle
    <3> HIDE DEF j, t
    <3>6. ASSUME NEW v \in Client PROVE Counts(job[v], <<v, "job">> \in current)'
      <4>1. job'[v] = job[v] \/ job'[v] = j \/ job'[v] = Idle
        BY <1>c, <2>2
      <4>2. CASE job'[v] = job[v]
        BY <1>b, <3>1, <3>3, <3>4, <4>2 DEF Counts, Exhausted
      <4>3. CASE job'[v] = j
        BY <3>3, <3>5, <4>3 DEF Counts
      <4>4. CASE job'[v] = Idle
        BY <3>5, <4>4 DEF Counts
      <4> QED
        BY <4>1, <4>2, <4>3, <4>4
    <3> QED
      BY <1>c, <3>2, <3>3, <3>6 DEF AttemptsInv
  <2> HIDE DEF j, t
  <2> QED
    BY <1>r, <2>1, <2>2
<1>5. ASSUME NEW w \in Client, Settle(w) PROVE AttemptsInv'
  <2> PICK status \in {"completed", "failed", AfterFailure(job[w].base.attempts + 1)} :
             job' = [job EXCEPT ![w].pc = FirstStep(status), ![w].want = status,
                                ![w].at = clock + Backoff, ![w].base = None]
    BY <1>5 DEF Settle
  <2> DEFINE j == [job[w] EXCEPT !.pc = FirstStep(status), !.want = status,
                                 !.at = clock + Backoff, !.base = None]
  <2>1. /\ j.pc = FirstStep(status) /\ j.want = status
        /\ j.until = job[w].until /\ j.token = job[w].token
    BY <1>c DEF Job
  <2>2. /\ job' = [job EXCEPT ![w] = j] /\ UNCHANGED <<entry, clobbered, current>>
        /\ job[w].pc = "have" /\ job[w].until > 0 /\ job[w].until \in Nat
    BY <1>5, <1>c DEF Settle, Job, JobOK
  <2>3. status = "pending" => job[w].base.attempts + 1 < MaxAttempts
    BY DEF AfterFailure, Exhausted
  <2>4. FirstStep(status) # "have"
    BY DEF FirstStep
  <2> HIDE DEF j
  <2>5. Counts(job[w], <<w, "job">> \in current)
    BY <1>b
  <2>6. Counts(j, <<w, "job">> \in current')
    BY <2>1, <2>2, <2>3, <2>4, <2>5 DEF Counts
  <2> QED
    BY <1>j, <2>2, <2>6
<1>6. ASSUME NEW w \in Client, RecoverMessage(w) PROVE AttemptsInv'
  <2> DEFINE j == [Idle EXCEPT !.pc = FirstStep(Exhausted), !.token = entry.token, !.want = Exhausted]
             k == [Idle EXCEPT !.pc = "reread", !.want = "pending", !.at = clock]
  <2>1. j.until = 0 /\ j.want = Exhausted /\ j.want # "pending" /\ k.until = 0 /\ k.want = "pending"
    BY DEF Idle, Exhausted
  <2>2. \/ job' = [job EXCEPT ![w] = j] /\ UNCHANGED current /\ entry.attempts >= MaxAttempts
        \/ /\ job' = [job EXCEPT ![w] = k] /\ entry.attempts < MaxAttempts
           /\ current' = current \cup {<<w, "job">>}
    BY <1>6, <1>c, QueueAssumption DEF RecoverMessage, Read
  <2>3. UNCHANGED <<entry, clobbered>>
    BY <1>6 DEF RecoverMessage
  <2> HIDE DEF j, k
  <2>4. /\ entry.attempts >= MaxAttempts => Counts(j, <<w, "job">> \in current')
        /\ entry.attempts < MaxAttempts => Counts(k, <<w, "job">> \in current')
    BY <2>1, <2>3 DEF Counts
  <2> QED
    BY <1>j, <2>2, <2>3, <2>4
<1>7. ASSUME NEW w \in Client, MoveToDeadLetter(w) PROVE AttemptsInv'
  <2> DEFINE j == [job[w] EXCEPT !.pc = "verify"]
  <2>1. /\ j.pc = "verify" /\ j.want = job[w].want /\ j.until = job[w].until /\ j.token = job[w].token
        /\ job' = [job EXCEPT ![w] = j] /\ UNCHANGED <<entry, clobbered, current>>
    BY <1>7, <1>c DEF MoveToDeadLetter, Goto, Job
  <2> HIDE DEF j
  <2>2. job[w].pc = "bury" /\ job[w].until \in Nat /\ Counts(job[w], <<w, "job">> \in current)
    BY <1>7, <1>b, <1>c DEF MoveToDeadLetter, Job
  <2>3. Counts(j, <<w, "job">> \in current')
    BY <2>1, <2>2 DEF Counts
  <2> QED
    BY <1>j, <2>1, <2>3
<1>8. ASSUME NEW w \in Client, VerifyToken(w) \/ Reread(w) PROVE AttemptsInv'
  <2> DEFINE j == [job[w] EXCEPT !.pc = "reread"]
             k == [job[w] EXCEPT !.pc = "put", !.base = entry]
  <2>1. /\ j.pc = "reread" /\ j.want = job[w].want /\ j.until = job[w].until /\ j.token = job[w].token
        /\ k.pc = "put" /\ k.want = job[w].want /\ k.until = job[w].until /\ k.token = job[w].token
    BY <1>c DEF Job
  <2>2. \/ job[w].pc = "verify" /\ entry.token = job[w].token /\ job' = [job EXCEPT ![w] = j]
        \/ job[w].pc = "reread" /\ job' = [job EXCEPT ![w] = k] /\ UNCHANGED current
        \/ Rest(w) /\ UNCHANGED current
    BY <1>8 DEF VerifyToken, TokenMatches, Reread, Goto
  <2>3. UNCHANGED <<entry, clobbered>> /\ (UNCHANGED current \/ current' = current \cup {<<w, "job">>})
    BY <1>8 DEF VerifyToken, Reread, Read
  <2> HIDE DEF j, k
  <2>4. Counts(job[w], <<w, "job">> \in current) /\ JobOK(job[w]) /\ job[w].until \in Nat
    BY <1>b, <1>c DEF Job
  <2>5. ASSUME job[w].pc = "verify", entry.token = job[w].token PROVE Counts(j, <<w, "job">> \in current')
    <3>1. job[w].until = 0 => job[w].want # "pending"
      BY <2>4, <2>5 DEF JobOK, Terminal
    <3> QED
      BY <2>1, <2>3, <2>4, <2>5, <3>1 DEF Counts
  <2>6. ASSUME job[w].pc = "reread", UNCHANGED current PROVE Counts(k, <<w, "job">> \in current')
    BY <2>1, <2>3, <2>4, <2>6 DEF Counts
  <2> QED
    BY <1>j, <1>r, <2>2, <2>3, <2>5, <2>6
<1>9. ASSUME NEW w \in Client, PutUpdate(w) PROVE AttemptsInv'
  <2> DEFINE k == [Idle EXCEPT !.pc = "clear"]
  <2>1. /\ entry' = Updated(job[w]) /\ <<w, "job">> \in current /\ current' = {}
        /\ job[w].pc = "put"
    BY <1>9 DEF PutUpdate, Replace
  <2>2. /\ job[w].base = entry
        /\ job[w].until > 0 => entry.token = job[w].token
    BY <1>b, <2>1 DEF Current, UpdateIsCurrent
  <2>3. entry'.attempts = entry.attempts /\ entry'.status = job[w].want /\ entry'.token = None
    BY <2>1, <2>2 DEF Updated
  <2>4. job[w].want = "pending" => entry.attempts < MaxAttempts
    <3>1. Counts(job[w], <<w, "job">> \in current) /\ job[w].until \in Nat
      BY <1>b, <1>c DEF Job
    <3> QED
      BY <2>1, <2>2, <3>1 DEF Counts
  <2>5. k.until = 0 /\ Idle.until = 0 /\ k.pc = "clear" /\ Idle.pc = "idle"
    BY DEF Idle
  <2>6. job' = [job EXCEPT ![w] = k] \/ job' = [job EXCEPT ![w] = Idle]
    BY <1>9 DEF PutUpdate, Rest
  <2> HIDE DEF k
  <2>7. ASSUME NEW v \in Client PROVE Counts(job[v], <<v, "job">> \in current)'
    <3>1. job'[v] = job[v] \/ (job'[v].until = 0 /\ job'[v].pc \in {"clear", "idle"})
      BY <1>c, <2>5, <2>6
    <3>2. job[v].until > 0 \/ job[v].pc \in {"bury", "verify"} => job[v].token # None
      BY <1>c, QueueAssumption DEF JobOK
    <3>3. CASE job'[v] = job[v]
      BY <1>b, <2>1, <2>3, <3>2, <3>3 DEF Counts, Exhausted
    <3>4. CASE job'[v].until = 0 /\ job'[v].pc \in {"clear", "idle"}
      BY <3>4 DEF Counts
    <3> QED
      BY <3>1, <3>3, <3>4
  <2>8. entry'.attempts <= Most /\ (entry'.status = "pending" => entry'.attempts < Most)
    BY <1>b, <1>c, <2>3, <2>4, QueueAssumption
  <2> QED
    BY <2>7, <2>8 DEF AttemptsInv
<1>10. ASSUME NEW w \in Client, GiveUp(w) PROVE AttemptsInv'
  BY <1>10, <1>r DEF GiveUp
\* Renewals change neither the attempts nor the token nor the status.
<1>k. ASSUME entry'.attempts = entry.attempts, entry'.token = entry.token, entry'.status = entry.status,
             \A v \in Client : /\ <<v, "job">> \in current' => <<v, "job">> \in current
                               /\ job'[v] = job[v] \/ job'[v] = Idle
                                  \/ /\ job'[v].pc = job[v].pc /\ job'[v].want = job[v].want
                                     /\ job'[v].token = job[v].token /\ job'[v].base = job[v].base
                                     /\ job[v].until > 0 /\ job'[v].until > 0
      PROVE  AttemptsInv'
  <2>1. ASSUME NEW v \in Client PROVE Counts(job[v], <<v, "job">> \in current)'
    <3>1. Counts(job[v], <<v, "job">> \in current) /\ job[v].until \in Nat
      BY <1>b, <1>c DEF Job
    <3>2. Idle.until = 0 /\ Idle.pc = "idle"
      BY DEF Idle
    <3> QED
      BY <1>k, <3>1, <3>2 DEF Counts
  <2> QED
    BY <1>b, <1>k, <2>1 DEF AttemptsInv
<1>11. ASSUME NEW w \in Client, RenewLock(w) \/ RereadForRenewal(w) \/ RenewalFails(w) PROVE AttemptsInv'
  <2>1. UNCHANGED <<entry, job>> /\ (current' \subseteq current \/ current' = current \cup {<<w, "ext">>})
    BY <1>11 DEF RenewLock, RereadForRenewal, RenewalFails, Read
  <2> QED
    BY <1>k, <2>1
<1>12. ASSUME NEW w \in Client, PutRenewal(w) PROVE AttemptsInv'
  <2>1. /\ <<w, "ext">> \in current /\ current' = {} /\ ext[w].pc = "put"
        /\ entry' = [ext[w].base EXCEPT !.visible = ext[w].at]
    BY <1>12 DEF PutRenewal, Replace
  <2>2. ext[w].base = entry /\ ext[w].at > 0
    BY <1>b, <1>12, <2>1 DEF Current, RenewalIsCurrent, QueueInv, TypeInv, ExtsOK
  <2>3. entry'.attempts = entry.attempts /\ entry'.token = entry.token /\ entry'.status = entry.status
    BY <1>c, <2>1, <2>2 DEF Entry
  <2>4. UNCHANGED job \/ (job[w].until > 0 /\ job' = [job EXCEPT ![w].until = ext[w].at])
    BY <1>12 DEF PutRenewal
  <2>5. \A v \in Client : job'[v] = job[v]
                          \/ /\ job'[v].pc = job[v].pc /\ job'[v].want = job[v].want
                             /\ job'[v].token = job[v].token /\ job'[v].base = job[v].base
                             /\ job[v].until > 0 /\ job'[v].until > 0
    BY <1>c, <2>2, <2>4 DEF Job
  <2> QED
    BY <1>k, <2>1, <2>3, <2>5
<1>13. ASSUME NEW p \in Process, Crash(p) PROVE AttemptsInv'
  <2>1. /\ UNCHANGED entry /\ current' \subseteq current
        /\ \A v \in Client : job'[v] = job[v] \/ job'[v] = Idle
    BY <1>13 DEF Crash
  <2> QED
    BY <1>k, <2>1
<1>14. CASE Tick \/ LockLapses \/ UNCHANGED queueVars
  <2>1. UNCHANGED <<entry, job, current>>
    BY <1>14 DEF Tick, LockLapses, queueVars
  <2> QED
    BY <1>k, <2>1
<1> QED
  BY <1>1, <1>2, <1>3, <1>4, <1>5, <1>6, <1>7, <1>8, <1>9, <1>10, <1>11, <1>12, <1>13, <1>14 DEF QueueNext

LEMMA AttemptsInduction == QueueSpec => []AttemptsInv
<1>1. QueueInit => AttemptsInv
  BY QueueAssumption DEF QueueInit, AttemptsInv, Counts, Most, Idle
<1> QED
  BY <1>1, AttemptsStep, QueueInduction, PTL DEF QueueSpec

\* As long as every PUT replaced what its call had read, no message is
\* claimed more often than maxAttempts allows, lost claims included.
THEOREM ClaimsAreCounted == QueueSpec => []AttemptsAreBounded
<1>1. AttemptsInv => AttemptsAreBounded
  BY DEF AttemptsInv, AttemptsAreBounded, Most
<1> QED
  BY <1>1, AttemptsInduction, PTL

----------------------------------------------------------------------------
(* ImplementsMessage.  While nothing is clobbered, a step that leaves the  *)
(* entry alone keeps every claim or lets go of it; the PUT of a claim is   *)
(* Claim, that of an update Settle, TakeBack or WriteOff, depending on who *)
(* made it and how many attempts are left, and that of a renewal Renew.    *)

\* A worker keeps its claim, or has none afterwards.
KeepsOrLetsGo(v) ==
  \/ job'[v].until = 0
  \/ /\ job'[v].until = job[v].until /\ job'[v].token = job[v].token
     /\ job'[v].pc \in Holding => job[v].pc \in Holding

LEMMA ClaimsAreLet ==
  ASSUME TypeInv, UNCHANGED <<entry, clobbered>>, clock' \in Nat, clock' >= clock,
         \A v \in Client : KeepsOrLetsGo(v)
  PROVE  Message!Next
<1>1. clock \in Nat /\ \A v \in Client : job[v].until \in Nat
  BY DEF TypeInv, SharedOK, JobsOK, Job
<1>2. Claimants' \subseteq Claimants
  BY DEF KeepsOrLetsGo, Claimants
<1>3. Owners' \subseteq Owners
  <2> SUFFICES ASSUME NEW v \in Client, job'[v].pc \in Holding, job'[v].until > clock'
               PROVE  job[v].pc \in Holding /\ job[v].until > clock
    BY DEF Owners
  <2>1. job'[v].until # 0
    BY <1>1
  <2> QED
    BY <1>1, <2>1 DEF KeepsOrLetsGo
<1>4. Message!LetGo
  BY <1>2, <1>3 DEF Message!LetGo
<1> QED
  BY <1>4 DEF Message!Next

\* One worker's job changes, and the entry does not.
LEMMA JobMovesOn ==
  ASSUME TypeInv, NEW w \in Client, NEW j, job' = [job EXCEPT ![w] = j], UNCHANGED <<entry, clobbered, clock>>,
         \/ j.until = 0
         \/ j.until = job[w].until /\ j.token = job[w].token /\ (j.pc \in Holding => job[w].pc \in Holding)
  PROVE  Message!Next
<1>1. \A v \in Client : KeepsOrLetsGo(v)
  BY DEF KeepsOrLetsGo, TypeInv, JobsOK
<1>2. clock' \in Nat /\ clock' >= clock
  BY DEF TypeInv, SharedOK
<1> QED
  BY <1>1, <1>2, ClaimsAreLet

\* With the entry's token in its job, a claim is the only one.
LEMMA OneClaimant ==
  ASSUME OwnTokens, NEW w \in Client, job[w].until > 0, job[w].token = entry.token, entry.status = "processing"
  PROVE  Claimants = {w}
BY DEF OwnTokens, Claimants

LEMMA ClaimIsClaim ==
  ASSUME QueueInv, AttemptsInv, ~clobbered, ~clobbered', NEW w \in Client, ClaimEntry(w)
  PROVE  Message!Next
<1>a. /\ job \in [Client -> Job] /\ job[w] \in Job /\ \A v \in Client : job[v].until \in Nat
      /\ clock \in Nat /\ entry.attempts \in Nat /\ MaxAttempts \in Nat
  BY QueueAssumption DEF QueueInv, TypeInv, JobsOK, SharedOK, Job, Entry
<1> DEFINE t == CHOOSE t \in FreshTokens : TRUE
           j == [job[w] EXCEPT !.pc = "have", !.token = t, !.until = job[w].at + Visibility]
<1>1. /\ job[w].pc = "claim" /\ UNCHANGED clock
      /\ \/ Rest(w) /\ UNCHANGED <<entry, clobbered>>
         \/ /\ Replace(w, "job", Claimed(w, t))
            /\ job' = [job EXCEPT ![w] = j] \/ job' = [job EXCEPT ![w] = Idle]
  BY DEF ClaimEntry, Rest
<1>2. j.token = t /\ j.until \in Nat /\ Idle.until = 0
  BY <1>a, QueueAssumption DEF Job, Idle
<1>3. \A v \in Client : job[v].token # t
  BY FreshTokensDiffer DEF ClaimEntry, QueueInv
<1> HIDE DEF t, j
<1>4. CASE Rest(w) /\ UNCHANGED <<entry, clobbered>>
  BY <1>1, <1>2, <1>4, JobMovesOn DEF Rest, QueueInv
<1>5. CASE /\ Replace(w, "job", Claimed(w, t))
           /\ job' = [job EXCEPT ![w] = j] \/ job' = [job EXCEPT ![w] = Idle]
  <2>0. entry' = Claimed(w, t) /\ <<w, "job">> \in current /\ UNCHANGED clobbered
    BY <1>5 DEF Replace, QueueInv, TypeInv, SharedOK
  <2>1. job[w].base = entry /\ entry.status = "pending"
    BY <1>1, <2>0 DEF QueueInv, ClaimInv, Current, ClaimIsCurrent
  <2>2. entry'.status = "processing" /\ entry'.token = t /\ entry'.attempts = entry.attempts + 1
    BY <2>0, <2>1 DEF Claimed
  <2>3. entry.attempts < MaxAttempts \/ entry.attempts = 0
    BY <1>a, <2>1 DEF AttemptsInv, Most
  <2>4. Owners = {}
    BY <2>1 DEF QueueInv, ClaimInv, OwnersHold, Terminal
  <2>5. \A v \in Client \ {w} : job'[v] = job[v]
    BY <1>a, <1>5
  <2>6. Claimants' \subseteq {w}
    BY <1>3, <2>2, <2>5 DEF Claimants
  <2>7. Owners' \subseteq Claimants'
    <3> SUFFICES ASSUME NEW v \in Owners' PROVE v \in Claimants'
      OBVIOUS
    <3>1. v = w
      BY <1>1, <2>4, <2>5 DEF Owners
    <3>2. job'[w].until > clock
      BY <1>1, <3>1 DEF Owners
    <3>3. job'[w] = j
      BY <1>2, <1>5, <1>a, <3>2
    <3> QED
      BY <1>2, <1>a, <2>2, <3>1, <3>2, <3>3 DEF Claimants
  <2>8. Message!Claim(w)
    BY <2>1, <2>2, <2>3, <2>4, <2>6, <2>7 DEF Message!Claim
  <2> QED
    BY <2>0, <2>8 DEF Message!Next
<1> QED
  BY <1>1, <1>4, <1>5

\* An update that has the entry's version ends the claim it was made for.
LEMMA UpdateEndsClaim ==
  ASSUME QueueInv, AttemptsInv, ~clobbered, ~clobbered', NEW w \in Client, PutUpdate(w)
  PROVE  Message!Next
<1>a. /\ job \in [Client -> Job] /\ job[w] \in Job /\ JobOK(job[w]) /\ \A v \in Client : job[v].until \in Nat
      /\ clock \in Nat /\ entry.attempts \in Nat /\ MaxAttempts \in Nat
  BY QueueAssumption DEF QueueInv, TypeInv, JobsOK, SharedOK, Job, Entry
<1>1. /\ job[w].pc = "put" /\ entry' = Updated(job[w]) /\ <<w, "job">> \in current
      /\ UNCHANGED <<clobbered, clock>>
  BY DEF PutUpdate, Replace, QueueInv, TypeInv, SharedOK
<1>2. /\ job[w].base = entry /\ entry.status = "processing"
      /\ job[w].until > 0 => entry.token = job[w].token
      /\ job[w].until = 0 /\ job[w].want = "pending" => entry.visible <= clock
  BY <1>1 DEF QueueInv, ClaimInv, Current, UpdateIsCurrent
<1>3. entry'.status = job[w].want /\ entry'.attempts = entry.attempts
  BY <1>1, <1>2 DEF Updated
<1>4. job[w].want \in {"pending"} \cup Message!Settled
  BY <1>1, <1>a DEF JobOK, Terminal, Message!Settled
<1>5. Claimants' = {}
  BY <1>3, <1>4 DEF Claimants, Message!Settled
<1>6. Owners' = Owners \ {w}
  <2> DEFINE k == [Idle EXCEPT !.pc = "clear"]
  <2>1. k.pc \notin Holding /\ Idle.pc \notin Holding
    BY DEF Idle, Holding
  <2>2. job' = [job EXCEPT ![w] = k] \/ job' = [job EXCEPT ![w] = Idle]
    BY DEF PutUpdate, Rest
  <2> HIDE DEF k
  <2> QED
    BY <1>1, <1>a, <2>1, <2>2 DEF Owners
<1>7. \A v \in Owners : entry.token = job[v].token /\ entry.visible > clock /\ job[v].until > 0
  <2> SUFFICES ASSUME NEW v \in Owners
               PROVE  entry.token = job[v].token /\ entry.visible > clock /\ job[v].until > 0
    OBVIOUS
  <2>1. entry.token = job[v].token /\ entry.visible >= job[v].until
    BY <1>2 DEF QueueInv, ClaimInv, OwnersHold, Terminal
  <2>2. job[v].until > clock /\ job[v].until \in Nat /\ entry.visible \in Nat
    BY <1>a DEF Owners, QueueInv, TypeInv, SharedOK, Entry
  <2> QED
    BY <1>a, <2>1, <2>2
<1>8. Counts(job[w], TRUE)
  BY <1>1 DEF AttemptsInv
<1>9. CASE job[w].until > 0
  <2>1. Claimants = {w}
    BY <1>2, <1>9, OneClaimant DEF QueueInv
  <2>2. Owners' = {}
    BY <1>2, <1>6, <1>7, <1>9 DEF QueueInv, OwnTokens, Owners
  <2>3. job[w].want = "pending" => entry.attempts < MaxAttempts
    BY <1>1, <1>2, <1>8, <1>9 DEF Counts
  <2>4. Message!Settle(w)
    BY <1>2, <1>3, <1>4, <1>5, <2>1, <2>2, <2>3 DEF Message!Settle
  <2> QED
    BY <1>1, <2>4 DEF Message!Next
<1>10. CASE job[w].until = 0
  <2>1. Owners' = Owners
    BY <1>6, <1>7, <1>10
  <2>2. CASE job[w].want = "pending"
    <3>1. Owners = {}
      BY <1>2, <1>7, <1>10, <1>a, <2>2 DEF QueueInv, TypeInv, SharedOK, Entry
    <3>2. entry.attempts < MaxAttempts
      BY <1>1, <1>8, <1>10, <2>2 DEF Counts
    <3>3. Message!TakeBack
      BY <1>2, <1>3, <1>5, <2>1, <2>2, <3>1, <3>2 DEF Message!TakeBack
    <3> QED
      BY <1>1, <3>3 DEF Message!Next
  <2>3. CASE job[w].want # "pending"
    <3>1. job[w].want \in {"failed", "dead"} /\ entry.attempts >= MaxAttempts
      BY <1>1, <1>8, <1>10, <2>3 DEF Counts, Exhausted
    <3>2. Message!WriteOff
      BY <1>2, <1>3, <1>5, <2>1, <3>1 DEF Message!WriteOff
    <3> QED
      BY <1>1, <3>2 DEF Message!Next
  <2> QED
    BY <2>2, <2>3
<1> QED
  BY <1>9, <1>10, <1>a

\* A renewal moves the end of the entry's claim, and of no other.
LEMMA RenewalRenews ==
  ASSUME QueueInv, ~clobbered, ~clobbered', NEW w \in Client, PutRenewal(w)
  PROVE  Message!Next
<1>a. /\ job \in [Client -> Job] /\ job[w] \in Job /\ \A v \in Client : job[v].until \in Nat
      /\ clock \in Nat /\ entry \in Entry /\ ext[w].at \in Nat
  BY DEF QueueInv, TypeInv, JobsOK, ExtsOK, SharedOK, Job, Ext
<1>1. /\ ext[w].pc = "put" /\ entry' = [ext[w].base EXCEPT !.visible = ext[w].at]
      /\ <<w, "ext">> \in current /\ UNCHANGED <<clobbered, clock>>
  BY DEF PutRenewal, Replace, QueueInv, TypeInv, SharedOK
<1>2. ext[w].base = entry /\ entry.status = "processing" /\ ext[w].at > 0
  BY <1>1 DEF QueueInv, ClaimInv, Current, RenewalIsCurrent, TypeInv, ExtsOK
<1>3. entry'.status = entry.status /\ entry'.token = entry.token /\ entry'.attempts = entry.attempts
  BY <1>1, <1>2, <1>a DEF Entry
<1>4. CASE UNCHANGED job
  <2>1. UNCHANGED <<Claimants, Owners>>
    BY <1>1, <1>3, <1>4 DEF Claimants, Owners
  <2>2. Message!LetGo
    BY <1>3, <2>1 DEF Message!LetGo
  <2> QED
    BY <1>1, <2>2 DEF Message!Next
<1>5. CASE /\ job[w].until > 0 /\ job[w].token = ext[w].base.token
           /\ job' = [job EXCEPT ![w].until = ext[w].at]
  <2>1. Claimants = {w}
    BY <1>2, <1>5, OneClaimant DEF QueueInv
  <2>2. /\ job'[w].until > 0 /\ job'[w].token = job[w].token
        /\ \A v \in Client \ {w} : job'[v] = job[v]
    BY <1>2, <1>5, <1>a DEF Job
  <2>3. Claimants' = Claimants
    BY <1>2, <1>3, <1>5, <2>2 DEF Claimants
  <2>4. Owners \subseteq {w}
    <3> SUFFICES ASSUME NEW v \in Owners PROVE v = w
      OBVIOUS
    <3>1. entry.token = job[v].token /\ v \in Client
      BY <1>2 DEF QueueInv, ClaimInv, OwnersHold, Terminal, Owners
    <3>2. job[v].until > 0
      BY <1>a DEF Owners
    <3> QED
      BY <1>2, <1>5, <3>1, <3>2 DEF QueueInv, OwnTokens
  <2>5. Owners' \subseteq {w}
    BY <1>1, <2>2, <2>4 DEF Owners
  <2>6. Message!Renew(w)
    BY <1>2, <1>3, <2>1, <2>3, <2>5 DEF Message!Renew
  <2> QED
    BY <1>1, <2>6 DEF Message!Next
<1> QED
  BY <1>4, <1>5 DEF PutRenewal

LEMMA MessageStep ==
  QueueInv /\ AttemptsInv /\ [QueueNext]_queueVars => [Message!Next]_(Message!messageVars)
<1> SUFFICES ASSUME QueueInv, AttemptsInv, [QueueNext]_queueVars, ~clobbered' PROVE Message!Next
  BY DEF Message!Next
<1>a. ~clobbered
  <2>1. ASSUME NEW w \in Client, NEW k, NEW e, Replace(w, k, e) PROVE ~clobbered
    BY <2>1 DEF Replace, QueueInv, TypeInv, SharedOK
  <2> QED
    BY <2>1, EntryStep
<1>b. TypeInv
  BY DEF QueueInv
<1>c. /\ job \in [Client -> Job] /\ \A w \in Client : job[w] \in Job /\ JobOK(job[w])
      /\ clock \in Nat
  BY <1>b DEF TypeInv, JobsOK, SharedOK
<1>r. ASSUME NEW w \in Client, Rest(w), UNCHANGED <<entry, clobbered, clock>> PROVE Message!Next
  <2>1. Idle.until = 0
    BY DEF Idle
  <2> QED
    BY <1>b, <1>r, <2>1, JobMovesOn DEF Rest
<1>g. ASSUME NEW w \in Client, NEW pc, Goto(w, pc), UNCHANGED <<entry, clobbered, clock>>,
             job[w].pc \in Holding \/ pc \notin Holding
      PROVE  Message!Next
  <2> DEFINE j == [job[w] EXCEPT !.pc = pc]
  <2>1. j.pc = pc /\ j.until = job[w].until /\ j.token = job[w].token
    BY <1>c DEF Job
  <2>2. job' = [job EXCEPT ![w] = j]
    BY <1>g DEF Goto
  <2> HIDE DEF j
  <2> QED
    BY <1>b, <1>g, <2>1, <2>2, JobMovesOn
<1>1. ASSUME NEW w \in Client, AcquireLock(w) PROVE Message!Next
  <2> DEFINE j == [Idle EXCEPT !.pc = "check", !.at = clock]
  <2>1. j.until = 0 /\ job' = [job EXCEPT ![w] = j] /\ UNCHANGED <<entry, clobbered, clock>>
    BY <1>1 DEF AcquireLock, Idle
  <2> HIDE DEF j
  <2> QED
    BY <1>b, <2>1, JobMovesOn
<1>2. ASSUME NEW w \in Client,
             IsRecentlyProcessed(w) \/ MarkMessageProcessed(w) \/ ReleaseLock(w) \/ ClearMarker(w) \/ GiveUp(w)
      PROVE  Message!Next
  <2>1. Rest(w) \/ \E pc \in {"skip", "mark", "marked", "get"} : Goto(w, pc)
    BY <1>2 DEF IsRecentlyProcessed, MarkMessageProcessed, ReleaseLock, ClearMarker, GiveUp
  <2>2. UNCHANGED <<entry, clobbered, clock>>
    BY <1>2 DEF IsRecentlyProcessed, MarkMessageProcessed, ReleaseLock, ClearMarker, GiveUp
  <2> QED
    BY <1>g, <1>r, <2>1, <2>2 DEF Holding
<1>3. ASSUME NEW w \in Client, GetEntry(w) PROVE Message!Next
  <2> DEFINE j == [job[w] EXCEPT !.pc = "claim", !.base = entry]
             k == [Idle EXCEPT !.pc = "clear"]
  <2>1. j.until = job[w].until /\ j.token = job[w].token /\ j.pc \notin Holding /\ k.until = 0
    BY <1>c DEF Job, Idle, Holding
  <2>2. job' = [job EXCEPT ![w] = j] \/ job' = [job EXCEPT ![w] = k] \/ Rest(w)
    BY <1>3 DEF GetEntry
  <2>3. UNCHANGED <<entry, clobbered, clock>>
    BY <1>3 DEF GetEntry
  <2> HIDE DEF j, k
  <2> QED
    BY <1>b, <1>r, <2>1, <2>2, <2>3, JobMovesOn
<1>4. ASSUME NEW w \in Client, Settle(w) PROVE Message!Next
  <2> PICK status \in {"completed", "failed", AfterFailure(job[w].base.attempts + 1)} :
             job' = [job EXCEPT ![w].pc = FirstStep(status), ![w].want = status,
                                ![w].at = clock + Backoff, ![w].base = None]
    BY <1>4 DEF Settle
  <2> DEFINE j == [job[w] EXCEPT !.pc = FirstStep(status), !.want = status,
                                 !.at = clock + Backoff, !.base = None]
  <2>1. job' = [job EXCEPT ![w] = j] /\ j.until = job[w].until /\ j.token = job[w].token
    BY <1>c DEF Job
  <2>2. job[w].pc \in Holding /\ UNCHANGED <<entry, clobbered, clock>>
    BY <1>4 DEF Settle, Holding
  <2> HIDE DEF j
  <2> QED
    BY <1>b, <2>1, <2>2, JobMovesOn
<1>5. ASSUME NEW w \in Client, RecoverMessage(w) PROVE Message!Next
  <2> DEFINE j == [Idle EXCEPT !.pc = FirstStep(Exhausted), !.token = entry.token, !.want = Exhausted]
             k == [Idle EXCEPT !.pc = "reread", !.want = "pending", !.at = clock]
  <2>1. j.until = 0 /\ k.until = 0
    BY DEF Idle
  <2>2. job' = [job EXCEPT ![w] = j] \/ job' = [job EXCEPT ![w] = k]
    BY <1>5 DEF RecoverMessage
  <2>3. UNCHANGED <<entry, clobbered, clock>>
    BY <1>5 DEF RecoverMessage
  <2> HIDE DEF j, k
  <2> QED
    BY <1>b, <2>1, <2>2, <2>3, JobMovesOn
<1>6. ASSUME NEW w \in Client, MoveToDeadLetter(w) \/ VerifyToken(w) PROVE Message!Next
  <2>1. /\ job[w].pc \in Holding /\ UNCHANGED <<entry, clobbered, clock>>
        /\ Rest(w) \/ Goto(w, "verify") \/ Goto(w, "reread")
    BY <1>6 DEF MoveToDeadLetter, VerifyToken, Holding
  <2> QED
    BY <1>g, <1>r, <2>1
<1>7. ASSUME NEW w \in Client, Reread(w) PROVE Message!Next
  <2> DEFINE j == [job[w] EXCEPT !.pc = "put", !.base = entry]
  <2>1. job' = [job EXCEPT ![w] = j] /\ j.until = job[w].until /\ j.token = job[w].token
    BY <1>7, <1>c DEF Reread, Job
  <2>2. job[w].pc \in Holding /\ UNCHANGED <<entry, clobbered, clock>>
    BY <1>7 DEF Reread, Holding
  <2> HIDE DEF j
  <2> QED
    BY <1>b, <2>1, <2>2, JobMovesOn
<1>8. ASSUME NEW w \in Client, ClaimEntry(w) \/ PutUpdate(w) \/ PutRenewal(w) PROVE Message!Next
  BY <1>8, <1>a, ClaimIsClaim, UpdateEndsClaim, RenewalRenews
\* The jobs stay as they are, or go with their process.
<1>k. ASSUME UNCHANGED <<entry, clobbered>>, clock' = clock \/ clock' = clock + 1,
             \A v \in Client : job'[v] = job[v] \/ job'[v] = Idle
      PROVE  Message!Next
  <2>1. \A v \in Client : KeepsOrLetsGo(v)
    BY <1>k DEF KeepsOrLetsGo, Idle
  <2>2. clock' \in Nat /\ clock' >= clock
    BY <1>c, <1>k
  <2> QED
    BY <1>b, <1>k, <2>1, <2>2, ClaimsAreLet
<1>9. ASSUME NEW w \in Client, RenewLock(w) \/ RereadForRenewal(w) \/ RenewalFails(w) PROVE Message!Next
  <2>1. UNCHANGED <<entry, clobbered, clock, job>>
    BY <1>9 DEF RenewLock, RereadForRenewal, RenewalFails
  <2> QED
    BY <1>k, <2>1
<1>10. ASSUME NEW p \in Process, Crash(p) PROVE Message!Next
  BY <1>10, <1>k DEF Crash
<1>11. CASE Tick \/ LockLapses \/ UNCHANGED queueVars
  <2>1. UNCHANGED <<entry, clobbered, job>> /\ (clock' = clock \/ clock' = clock + 1)
    BY <1>11 DEF Tick, LockLapses, queueVars
  <2> QED
    BY <1>k, <2>1
<1> QED
  BY <1>1, <1>2, <1>3, <1>4, <1>5, <1>6, <1>7, <1>8, <1>9, <1>10, <1>11 DEF QueueNext

\* The queue implements QueuedMessage: as long as every PUT replaces what its
\* call has read, a message is claimed by one worker at a time and at most
\* maxAttempts times, leaves its claim by its worker's decision, or by a
\* recovery once nobody owns it or no attempt is left, and is settled for good.
THEOREM QueueImplementsMessage == QueueSpec => ImplementsMessage
<1>1. QueueInit => Message!Init
  BY DEF QueueInit, Message!Init, Claimants, Owners, Idle
<1> QED
  BY <1>1, MessageStep, QueueInduction, AttemptsInduction, PTL DEF QueueSpec, ImplementsMessage, Message!Spec

----------------------------------------------------------------------------
(* MarkersSuffice: as long as nothing is excused, one worker at a time is  *)
(* between its marker and its claim, the marker outlives the claim, and    *)
(* whoever is about to replace the entry is current.                       *)

Marking == {"check", "mark", "skip", "marked"}

MarkersInv ==
  ~excused /\ ~lapsed =>
    /\ ~clobbered
    /\ \A v, w \in holders : v = w
    /\ \A w \in Client :
         /\ job[w].pc \in Marking => w \in holders
         /\ job[w].pc \in Holding => job[w].until > 0
         /\ job[w].pc \in {"claim", "reread", "put"} => <<w, "job">> \in current
         /\ ext[w] = NoExt
    /\ \A v \in Exposed :
         /\ marker > clock
         /\ \A w \in Client : w \in Exposed \/ job[w].pc = "mark" => v = w

\* Nothing that was excused or has lapsed is forgotten.
LEMMA ExcusesLast ==
  ASSUME TypeInv, [QueueNext]_queueVars, ~excused', ~lapsed'
  PROVE  ~excused /\ ~lapsed
<1> USE DEF TypeInv, SharedOK
<1>1. ASSUME NEW w \in Client, AcquireLock(w) \/ ReleaseLock(w) PROVE ~excused /\ ~lapsed
  BY <1>1 DEF AcquireLock, ReleaseLock, Enter, EnterLate, Leave
<1>2. ASSUME NEW w \in Client, IsRecentlyProcessed(w) \/ MarkMessageProcessed(w) \/ GetEntry(w) \/ ClaimEntry(w)
      PROVE  ~excused /\ ~lapsed
  BY <1>2, Zenon DEF IsRecentlyProcessed, MarkMessageProcessed, GetEntry, ClaimEntry
<1>3. ASSUME NEW w \in Client,
             Settle(w) \/ MoveToDeadLetter(w) \/ VerifyToken(w) \/ Reread(w) \/ PutUpdate(w)
      PROVE  ~excused /\ ~lapsed
  BY <1>3, Zenon DEF Settle, MoveToDeadLetter, VerifyToken, Reread, PutUpdate
<1>4. ASSUME NEW w \in Client, ClearMarker(w) \/ GiveUp(w) \/ RecoverMessage(w) PROVE ~excused /\ ~lapsed
  BY <1>4, Zenon DEF ClearMarker, GiveUp, RecoverMessage
<1>5. ASSUME NEW w \in Client, RenewLock(w) \/ RereadForRenewal(w) \/ PutRenewal(w) \/ RenewalFails(w)
      PROVE  ~excused /\ ~lapsed
  BY <1>5, Zenon DEF RenewLock, RereadForRenewal, PutRenewal, RenewalFails
<1>6. ASSUME NEW p \in Process, Crash(p) PROVE ~excused /\ ~lapsed
  BY <1>6, Zenon DEF Crash
<1>7. CASE Tick \/ LockLapses \/ UNCHANGED queueVars
  BY <1>7 DEF Tick, LockLapses, Lapse, queueVars
<1> QED
  BY <1>1, <1>2, <1>3, <1>4, <1>5, <1>6, <1>7 DEF QueueNext

LEMMA MarkersStep == QueueInv /\ MarkersInv /\ [QueueNext]_queueVars => MarkersInv'
<1> SUFFICES ASSUME QueueInv, MarkersInv, [QueueNext]_queueVars, ~excused', ~lapsed'
             PROVE  MarkersInv'
  BY DEF MarkersInv
<1>t. TypeInv
  BY DEF QueueInv
<1>a. ~excused /\ ~lapsed /\ ~clobbered
  BY <1>t, ExcusesLast DEF MarkersInv
<1>b. /\ \A v, w \in holders : v = w
      /\ \A w \in Client :
           /\ job[w].pc \in Marking => w \in holders
           /\ job[w].pc \in Holding => job[w].until > 0
           /\ job[w].pc \in {"claim", "reread", "put"} => <<w, "job">> \in current
           /\ ext[w] = NoExt
      /\ \A v \in Exposed :
           /\ marker > clock
           /\ \A w \in Client : w \in Exposed \/ job[w].pc = "mark" => v = w
      /\ Current /\ OwnTokens
  BY <1>a DEF MarkersInv, QueueInv, ClaimInv
<1>c. /\ job \in [Client -> Job] /\ \A w \in Client : job[w] \in Job /\ JobOK(job[w])
      /\ clock \in Nat /\ marker \in Nat /\ MarkerTtl \in Nat /\ MarkerTtl > 0
      /\ entry \in Entry
  BY <1>t, QueueAssumption DEF TypeInv, JobsOK, SharedOK
\* One worker moves; the marker, its own claim and the lock are as it needs them.
<1>j. ASSUME NEW w \in Client, NEW j, job' = [job EXCEPT ![w] = j], UNCHANGED <<clobbered, ext, clock>>,
             holders' = holders \/ holders' = holders \ {w} \/ holders' = {w},
             \A v \in Client : v # w /\ job[v].pc \in Marking => v \notin holders \/ v \in holders',
             \A v \in Client : v # w /\ job[v].pc \in {"claim", "reread", "put"}
                                 /\ <<v, "job">> \in current => <<v, "job">> \in current',
             j.pc \in Marking => w \in holders',
             j.pc \in Holding => j.until > 0,
             j.pc \in {"claim", "reread", "put"} => <<w, "job">> \in current',
             Exposed \subseteq {w} \/ marker' = marker,
             j.pc \in {"marked", "get", "claim"} =>
               /\ marker' > clock
               /\ \A v \in Client \ {w} : v \notin Exposed /\ job[v].pc # "mark",
             j.pc = "mark" => \A v \in Client \ {w} : v \notin Exposed
      PROVE  MarkersInv'
  <2>1. job'[w] = j /\ \A v \in Client \ {w} : job'[v] = job[v]
    BY <1>c, <1>j
  <2>2. \A u, v \in holders' : u = v
    BY <1>b, <1>j
  <2>3. ASSUME NEW v \in Client
        PROVE  /\ job'[v].pc \in Marking => v \in holders'
               /\ job'[v].pc \in Holding => job'[v].until > 0
               /\ job'[v].pc \in {"claim", "reread", "put"} => <<v, "job">> \in current'
               /\ ext'[v] = NoExt
    BY <1>b, <1>j, <2>1
  <2>4. ASSUME NEW v \in Exposed'
        PROVE  /\ marker' > clock'
               /\ \A u \in Client : u \in Exposed' \/ job'[u].pc = "mark" => v = u
    <3>1. v \in Client /\ job'[v].pc \in {"marked", "get", "claim"}
      BY <2>4 DEF Exposed
    <3>2. CASE v = w
      BY <1>j, <2>1, <3>1, <3>2 DEF Exposed
    <3>3. CASE v # w
      <4>1. v \in Exposed /\ marker' = marker
        BY <1>j, <2>1, <3>1, <3>3 DEF Exposed
      <4>2. j.pc \notin {"marked", "get", "claim", "mark"}
        BY <1>j, <3>1, <3>3, <4>1
      <4> QED
        BY <1>b, <1>j, <2>1, <3>1, <4>1, <4>2 DEF Exposed
    <3> QED
      BY <3>2, <3>3
  <2> QED
    BY <1>a, <1>j, <2>2, <2>3, <2>4 DEF MarkersInv
<1>r. ASSUME NEW w \in Client, Rest(w), UNCHANGED <<clobbered, ext, clock, marker>>,
             holders' = holders \/ holders' = holders \ {w},
             \A v \in Client : v # w /\ <<v, "job">> \in current => <<v, "job">> \in current'
      PROVE  MarkersInv'
  <2>1. Idle.pc = "idle"
    BY DEF Idle
  <2>2. Idle.pc \notin Marking \cup Holding \cup {"claim", "get"}
    BY <2>1 DEF Marking, Holding
  <2> QED
    BY <1>j, <1>r, <2>1, <2>2 DEF Rest, Holding
<1>g. ASSUME NEW w \in Client, NEW pc, Goto(w, pc), UNCHANGED <<clobbered, ext, clock>>,
             UNCHANGED holders \/ (pc \notin Marking /\ holders' = holders \ {w}),
             \A v \in Client : v # w /\ <<v, "job">> \in current => <<v, "job">> \in current',
             pc \in Marking => w \in holders,
             pc \in Holding => job[w].until > 0,
             pc # "claim",
             pc \in {"reread", "put"} => <<w, "job">> \in current',
             Exposed \subseteq {w} \/ marker' = marker,
             pc \in {"marked", "get"} =>
               /\ marker' > clock
               /\ \A v \in Client \ {w} : v \notin Exposed /\ job[v].pc # "mark",
             pc = "mark" => \A v \in Client \ {w} : v \notin Exposed
      PROVE  MarkersInv'
  <2> DEFINE j == [job[w] EXCEPT !.pc = pc]
  <2>1. j.pc = pc /\ j.until = job[w].until
    BY <1>c DEF Job
  <2>2. job' = [job EXCEPT ![w] = j]
    BY <1>g DEF Goto
  <2> HIDE DEF j
  <2> QED
    BY <1>g, <1>j, <2>1, <2>2
<1>1. ASSUME NEW w \in Client, AcquireLock(w) PROVE MarkersInv'
  <2> DEFINE j == [Idle EXCEPT !.pc = "check", !.at = clock]
  <2>1. j.pc = "check" /\ job' = [job EXCEPT ![w] = j]
    BY <1>1 DEF AcquireLock, Idle
  <2>2. holders = {} /\ holders' = {w} /\ UNCHANGED <<clobbered, ext, clock, marker, current>>
    BY <1>1, <1>a DEF AcquireLock, Enter, EnterLate
  <2> HIDE DEF j
  <2> QED
    BY <1>j, <2>1, <2>2 DEF Holding, Marking
<1>2. ASSUME NEW w \in Client, IsRecentlyProcessed(w) PROVE MarkersInv'
  <2>1. /\ job[w].pc = "check" /\ UNCHANGED <<holders, clobbered, ext, clock, marker, current>>
        /\ Goto(w, "skip") \/ (Goto(w, "mark") /\ ~MarkerFound(w))
    BY <1>2 DEF IsRecentlyProcessed
  <2>2. ~MarkerFound(w) => Exposed = {}
    BY <1>b, <1>c DEF MarkerFound
  <2>3. w \in holders
    BY <1>b, <2>1 DEF Marking
  <2> QED
    BY <1>g, <2>1, <2>2, <2>3 DEF Holding
<1>3. ASSUME NEW w \in Client, MarkMessageProcessed(w) PROVE MarkersInv'
  <2>1. /\ job[w].pc = "mark" /\ UNCHANGED <<holders, clobbered, ext, clock, current>>
        /\ Goto(w, "marked") /\ marker' = clock + MarkerTtl
    BY <1>3 DEF MarkMessageProcessed
  <2>2. w \in holders /\ Exposed \subseteq {w}
    BY <1>b, <2>1 DEF Marking, Exposed
  <2>3. \A v \in Client \ {w} : job[v].pc # "mark"
    BY <1>b, <2>2 DEF Marking
  <2>4. marker' > clock
    BY <1>c, <2>1
  <2> QED
    BY <1>g, <2>1, <2>2, <2>3, <2>4 DEF Holding
<1>4. ASSUME NEW w \in Client, ReleaseLock(w) PROVE MarkersInv'
  <2>1. /\ UNCHANGED <<clobbered, ext, clock, marker, current>> /\ holders' = holders \ {w}
        /\ Rest(w) \/ (job[w].pc = "marked" /\ Goto(w, "get"))
    BY <1>4 DEF ReleaseLock, Leave
  <2>2. job[w].pc = "marked" =>
          /\ marker > clock
          /\ \A v \in Client \ {w} : v \notin Exposed /\ job[v].pc # "mark"
    BY <1>b DEF Exposed
  <2> QED
    BY <1>g, <1>r, <2>1, <2>2 DEF Holding, Marking
<1>5. ASSUME NEW w \in Client, GetEntry(w) PROVE MarkersInv'
  <2> DEFINE j == [job[w] EXCEPT !.pc = "claim", !.base = entry]
             k == [Idle EXCEPT !.pc = "clear"]
  <2>1. j.pc = "claim" /\ k.pc = "clear"
    BY <1>c DEF Job, Idle
  <2>2. \/ job' = [job EXCEPT ![w] = j] /\ current' = current \cup {<<w, "job">>}
        \/ job' = [job EXCEPT ![w] = k] /\ UNCHANGED current
        \/ Rest(w) /\ UNCHANGED current
    BY <1>5 DEF GetEntry, Read
  <2>3. job[w].pc = "get" /\ UNCHANGED <<clobbered, ext, clock, marker, holders>>
    BY <1>5 DEF GetEntry
  <2>4. /\ marker > clock
        /\ \A v \in Client \ {w} : v \notin Exposed /\ job[v].pc # "mark"
    BY <1>b, <2>3 DEF Exposed
  <2> HIDE DEF j, k
  <2> QED
    BY <1>j, <1>r, <2>1, <2>2, <2>3, <2>4 DEF Holding, Marking
<1>6. ASSUME NEW w \in Client, ClaimEntry(w) PROVE MarkersInv'
  <2> DEFINE t == CHOOSE t \in FreshTokens : TRUE
             j == [job[w] EXCEPT !.pc = "have", !.token = t, !.until = job[w].at + Visibility]
  <2>1. \/ Rest(w) /\ UNCHANGED clobbered /\ current' = current \ {<<w, "job">>}
        \/ /\ Replace(w, "job", Claimed(w, t))
           /\ job' = [job EXCEPT ![w] = j] \/ Rest(w)
    BY <1>6 DEF ClaimEntry
  <2>2. job[w].pc = "claim" /\ UNCHANGED <<ext, clock, marker, holders>>
    BY <1>6 DEF ClaimEntry
  <2>3. j.pc = "have" /\ j.until > 0
    BY <1>c, QueueAssumption DEF Job
  <2> HIDE DEF j
  <2>4. <<w, "job">> \in current /\ entry.status = "pending"
    BY <1>b, <2>2 DEF Current, ClaimIsCurrent
  <2>5. \A v \in Client \ {w} : job[v].pc \notin {"claim", "reread", "put"}
    BY <1>b, <2>2, <2>4 DEF Current, UpdateIsCurrent, Exposed
  <2>6. ASSUME Replace(w, "job", Claimed(w, t)) PROVE UNCHANGED clobbered
    BY <1>a, <1>t, <2>4, <2>6 DEF Replace, TypeInv, SharedOK
  <2> HIDE DEF t
  <2>7. ASSUME Rest(w), UNCHANGED clobbered PROVE MarkersInv'
    <3>1. Idle.pc = "idle"
      BY DEF Idle
    <3> QED
      BY <1>j, <2>2, <2>5, <2>7, <3>1 DEF Rest, Holding, Marking
  <2>8. ASSUME job' = [job EXCEPT ![w] = j], UNCHANGED clobbered PROVE MarkersInv'
    BY <1>j, <2>2, <2>3, <2>5, <2>8 DEF Holding, Marking
  <2> QED
    BY <2>1, <2>6, <2>7, <2>8
<1>7. ASSUME NEW w \in Client, Settle(w) PROVE MarkersInv'
  <2> PICK status : job' = [job EXCEPT ![w].pc = FirstStep(status), ![w].want = status,
                                       ![w].at = clock + Backoff, ![w].base = None]
    BY <1>7 DEF Settle
  <2> DEFINE j == [job[w] EXCEPT !.pc = FirstStep(status), !.want = status,
                                 !.at = clock + Backoff, !.base = None]
  <2>1. j.pc \in {"bury", "verify"} /\ j.until = job[w].until /\ job' = [job EXCEPT ![w] = j]
    BY <1>c DEF Job, FirstStep
  <2> HIDE DEF j
  <2>2. job[w].until > 0 /\ UNCHANGED <<clobbered, ext, clock, marker, holders, current>>
    BY <1>7, <1>b DEF Settle, Holding
  <2> QED
    BY <1>j, <2>1, <2>2 DEF Holding, Marking
<1>8. ASSUME NEW w \in Client, MoveToDeadLetter(w) PROVE MarkersInv'
  <2>1. /\ Goto(w, "verify") /\ UNCHANGED <<clobbered, ext, clock, marker, holders, current>>
        /\ job[w].until > 0
    BY <1>8, <1>b DEF MoveToDeadLetter, Holding
  <2> QED
    BY <1>g, <2>1 DEF Marking
<1>9. ASSUME NEW w \in Client, VerifyToken(w) PROVE MarkersInv'
  <2>1. /\ UNCHANGED <<clobbered, ext, clock, marker, holders>> /\ job[w].until > 0
        /\ \/ Goto(w, "reread") /\ current' = current \cup {<<w, "job">>}
           \/ Rest(w) /\ UNCHANGED current
    BY <1>9, <1>b DEF VerifyToken, Holding, Read
  <2> QED
    BY <1>g, <1>r, <2>1 DEF Marking
<1>10. ASSUME NEW w \in Client, Reread(w) PROVE MarkersInv'
  <2> DEFINE j == [job[w] EXCEPT !.pc = "put", !.base = entry]
  <2>1. j.pc = "put" /\ j.until = job[w].until
    BY <1>c DEF Job
  <2>2. job' = [job EXCEPT ![w] = j] /\ UNCHANGED <<clobbered, ext, clock, marker, holders, current>>
    BY <1>10 DEF Reread
  <2>3. job[w].until > 0 /\ <<w, "job">> \in current
    BY <1>10, <1>b DEF Reread, Holding
  <2> HIDE DEF j
  <2> QED
    BY <1>j, <2>1, <2>2, <2>3 DEF Marking
<1>11. ASSUME NEW w \in Client, PutUpdate(w) PROVE MarkersInv'
  <2> DEFINE k == [Idle EXCEPT !.pc = "clear"]
  <2>1. job[w].pc = "put" /\ UNCHANGED <<ext, clock, marker, holders>> /\ current' = {}
    BY <1>11 DEF PutUpdate, Replace
  <2>2. job[w].until > 0 /\ <<w, "job">> \in current
    BY <1>b, <2>1 DEF Holding
  <2>3. entry.status = "processing" /\ entry.token = job[w].token
    BY <1>b, <2>1, <2>2 DEF Current, UpdateIsCurrent
  <2>4. UNCHANGED clobbered
    BY <1>11, <1>a, <1>t, <2>2 DEF PutUpdate, Replace, TypeInv, SharedOK
  <2>5. ASSUME NEW v \in Client, v # w, job[v].pc \in {"claim", "reread", "put"} PROVE FALSE
    <3>1. <<v, "job">> \in current
      BY <1>b, <2>5
    <3>2. job[v].pc # "claim"
      BY <1>b, <2>3, <3>1 DEF Current, ClaimIsCurrent
    <3>3. job[v].until > 0 /\ entry.token = job[v].token
      BY <1>b, <2>5, <3>1, <3>2 DEF Current, UpdateIsCurrent, Holding
    <3> QED
      BY <1>b, <2>2, <2>3, <2>5, <3>3 DEF OwnTokens
  <2>6. job' = [job EXCEPT ![w] = k] \/ job' = [job EXCEPT ![w] = Idle]
    BY <1>11 DEF PutUpdate, Rest
  <2>7. k.pc = "clear" /\ Idle.pc = "idle"
    BY DEF Idle
  <2>8. holders' = holders /\ marker' = marker
    BY <2>1
  <2> HIDE DEF k
  <2>9. ASSUME NEW j, job' = [job EXCEPT ![w] = j], j.pc \in {"clear", "idle"} PROVE MarkersInv'
    BY <1>j, <2>1, <2>4, <2>5, <2>8, <2>9 DEF Holding, Marking
  <2> QED
    BY <2>6, <2>7, <2>9
<1>12. ASSUME NEW w \in Client, ClearMarker(w) PROVE MarkersInv'
  <2>1. /\ Rest(w) /\ UNCHANGED <<clobbered, ext, clock, holders, current>>
        /\ Exposed = {} \/ ~(marker > clock)
    BY <1>12 DEF ClearMarker
  <2>2. Exposed = {}
    BY <1>b, <2>1
  <2>3. Idle.pc = "idle"
    BY DEF Idle
  <2> QED
    BY <1>j, <2>1, <2>2, <2>3 DEF Rest, Holding, Marking
<1>13. ASSUME NEW w \in Client, GiveUp(w) PROVE MarkersInv'
  BY <1>13, <1>r DEF GiveUp
\* What an excuse goes with, or a renewal needs.
<1>14. ASSUME NEW w \in Client, RecoverMessage(w) \/ RenewLock(w) PROVE FALSE
  BY <1>14 DEF RecoverMessage, RenewLock
<1>15. ASSUME NEW w \in Client, RereadForRenewal(w) \/ PutRenewal(w) \/ RenewalFails(w) PROVE FALSE
  <2>1. ext[w] = NoExt /\ NoExt.pc = "none"
    BY <1>b DEF NoExt
  <2>2. ext[w].pc = "reread" \/ ext[w].pc = "put" \/ ext[w] # NoExt
    BY <1>15, Zenon DEF RereadForRenewal, PutRenewal, RenewalFails
  <2> QED
    BY <2>1, <2>2
<1>16. ASSUME NEW p \in Process, Crash(p) PROVE MarkersInv'
  <2>1. /\ UNCHANGED <<clobbered, clock, marker>> /\ holders' = holders \ {w \in Client : Home[w] = p}
        /\ current' = {c \in current : c[1] \notin {w \in Client : Home[w] = p}}
        /\ \A w \in Client : /\ Home[w] = p => job'[w] = Idle
                             /\ Home[w] # p => job'[w] = job[w]
                             /\ ext'[w] = NoExt
    BY <1>16, <1>b DEF Crash
  <2>2. Idle.pc = "idle"
    BY DEF Idle
  <2>3. ASSUME NEW w \in Client, job'[w].pc # "idle" PROVE job'[w] = job[w] /\ Home[w] # p
    BY <2>1, <2>2, <2>3
  <2>4. ASSUME NEW w \in Client
        PROVE  /\ job'[w].pc \in Marking => w \in holders'
               /\ job'[w].pc \in Holding => job'[w].until > 0
               /\ job'[w].pc \in {"claim", "reread", "put"} => <<w, "job">> \in current'
               /\ ext'[w] = NoExt
    BY <1>b, <2>1, <2>3 DEF Marking, Holding
  <2>5. \A v \in Exposed' : v \in Exposed
    BY <2>3 DEF Exposed
  <2>6. ASSUME NEW v \in Exposed'
        PROVE  /\ marker' > clock'
               /\ \A u \in Client : u \in Exposed' \/ job'[u].pc = "mark" => v = u
    BY <1>b, <2>1, <2>3, <2>5
  <2> QED
    BY <1>a, <1>b, <2>1, <2>4, <2>6 DEF MarkersInv
<1>17. CASE Tick
  <2>1. /\ UNCHANGED <<holders, clobbered, job, ext, current>> /\ clock' = clock + 1
        /\ marker' = IF marker > clock' THEN marker ELSE 0
        /\ Exposed = {} \/ marker # clock'
    BY <1>17 DEF Tick, StillValid
  <2>2. Exposed' = Exposed
    BY <2>1 DEF Exposed
  <2>3. Exposed # {} => marker' > clock'
    BY <1>b, <1>c, <2>1
  <2> QED
    BY <1>a, <1>b, <2>1, <2>2, <2>3 DEF MarkersInv
<1>18. CASE LockLapses
  BY <1>18 DEF LockLapses, Lapse
<1>19. CASE UNCHANGED queueVars
  BY <1>19 DEF queueVars, MarkersInv, Exposed
<1> QED
  BY <1>1, <1>2, <1>3, <1>4, <1>5, <1>6, <1>7, <1>8, <1>9, <1>10, <1>11, <1>12, <1>13, <1>14,
     <1>15, <1>16, <1>17, <1>18, <1>19 DEF QueueNext

\* A claim, an update or a renewal replaces a version it has not read only
\* after a lock lapsed, a marker failed or ended under a claim, or a recovery
\* or a renewal came in between.
THEOREM MarkersProtect == QueueSpec => []MarkersSuffice
<1>1. QueueInit => MarkersInv
  <2> SUFFICES ASSUME QueueInit PROVE MarkersInv
    OBVIOUS
  <2>1. \A w \in Client : job[w].pc = "idle" /\ ext[w] = NoExt
    BY DEF QueueInit, Idle
  <2>2. holders = {} /\ ~clobbered /\ Exposed = {}
    BY <2>1 DEF QueueInit, Init, Exposed
  <2> QED
    BY <2>1, <2>2 DEF MarkersInv, Marking, Holding
<1>2. MarkersInv => MarkersSuffice
  BY DEF MarkersInv, MarkersSuffice
<1> QED
  BY <1>1, <1>2, MarkersStep, QueueInduction, PTL DEF QueueSpec
====

---- MODULE ResourcePartitions_proofs ----
(***************************************************************************)
(* Proofs about ResourcePartitions for any number of clients, partition    *)
(* values and faults.                                                      *)
(***************************************************************************)
EXTENDS ResourcePartitions, TLAPS

----------------------------------------------------------------------------
(* Types.  What a job is about to write, or to refer to, is there to be    *)
(* written.                                                                *)

JobFits(j) ==
  /\ j.pc \in {"insert", "create"} => j.op \in {"insert", "upsert"}
  /\ j.pc \in {"insert", "put"} => j.new \in Field
  /\ j.pc \in {"create", "ref"} => j.new \in Value
  /\ j.pc = "hook" => j.op = "delete" \/ j.new \in Value
  /\ j.pc = "get" => j.op \in {"update", "patch", "conditional", "delete"}
  /\ j.pc \in {"put", "ref"} => j.op \in {"update", "patch", "conditional", "replace"}
  /\ j.pc \in {"unref", "clean"} => j.op \in {"update", "patch", "conditional"} /\ j.new \in Field
  /\ j.pc \in {"remove", "drop"} => j.op = "delete"

JobsFit == \A c \in Client : JobFits(job[c])

TypeInv == PartitionsTypeOK /\ JobsFit

----------------------------------------------------------------------------
(* A job that is undisturbed is alone, and the record and its references   *)
(* are as its next call expects them.                                      *)

Alone == \A c \in Client : ~Idle(c) /\ job[c].undisturbed => \A d \in Client \ {c} : Idle(d)

\* What lost and stale say.
Found(r, R, missing) ==
  /\ missing = "no" /\ r \in Value => r \in R
  /\ missing = "yes" => R = {}
NothingElse(r, R, others) == ~others => R \subseteq {r}

\* The partitions whose clean-up meets this one's references.
Cleaner == prefixes \cup {This}

\* What the clean-ups of an update have left and not yet found.
Swept(j, r, R) ==
  /\ j.listing \subseteq Cleaner
  /\ prefixes = {} /\ r \in Value => r \in R
  /\ r \notin j.keys[This]
  /\ This \notin j.listing => R \subseteq j.keys[This] \cup {r}
  /\ \A p \in prefixes \ j.listing : R \subseteq j.keys[p]
  /\ \A p \in Partition \ Cleaner : j.keys[p] = {}

Expected(j, r, R, missing, others) ==
  /\ j.pc \in {"insert", "get", "put", "remove", "drop"} \/ (j.pc = "hook" /\ j.op = "delete") => Found(r, R, missing)
  /\ j.pc \in {"insert", "get", "put", "remove", "create", "hook"} \/ (j.pc = "ref" /\ j.op = "replace")
       => NothingElse(r, R, others)
  /\ j.pc \in {"unref", "ref", "clean", "create"} \/ (j.pc = "hook" /\ j.op # "delete") => r = j.new
  /\ j.pc = "put" /\ j.op # "replace" => j.old = r
  /\ j.pc = "remove" => j.old = IF r = Absent THEN None ELSE r
  /\ j.pc = "hook" /\ j.op # "delete" /\ r \in Value => r \in R
  /\ j.pc \in {"drop", "hook"} /\ j.op = "delete" => r = Absent
  /\ j.pc = "drop" => j.old \in Value /\ (others \/ R \subseteq {j.old})
  /\ j.pc \notin {"idle", "clean"} => j.listing = Cleaner /\ j.keys = NoKeys
  /\ j.pc = "clean" => Swept(j, r, R)

JobsAsExpected ==
  \A c \in Client : ~Idle(c) /\ job[c].undisturbed => Expected(job[c], record, refs, lost, stale)

IndexInv == TypeInv /\ Alone /\ JobsAsExpected /\ IndexMatches
----------------------------------------------------------------------------
(* Types.                                                                  *)

PCs == {"idle", "insert", "get", "put", "unref", "ref", "clean", "create", "remove", "drop", "hook"}

LEMMA NoJobFits == NoJob \in Job /\ JobFits(NoJob) /\ NoJob.pc = "idle"
  BY DEF NoJob, NoKeys, Job, JobFits, Field, Operation

LEMMA JobTyped ==
  ASSUME TypeInv, NEW c \in Client, NEW j \in Job, JobFits(j), job' = [job EXCEPT ![c] = j]
  PROVE  job' \in [Client -> Job] /\ JobsFit'
  <1>1. \A d \in Client : job'[d] = IF d = c THEN j ELSE job[d]
    BY DEF TypeInv, PartitionsTypeOK
  <1> QED
    BY <1>1 DEF TypeInv, PartitionsTypeOK, JobsFit

LEMMA RestTyped ==
  ASSUME TypeInv, NEW c \in Client, Rest(c)
  PROVE  job' \in [Client -> Job] /\ JobsFit'
  BY JobTyped, NoJobFits DEF Rest

\* The job with another next call.
LEMMA GotoIs ==
  ASSUME TypeInv, NEW c \in Client, NEW pc \in PCs, Goto(c, pc)
  PROVE  /\ [job[c] EXCEPT !.pc = pc] \in Job
         /\ job' = [job EXCEPT ![c] = [job[c] EXCEPT !.pc = pc]]
  BY DEF TypeInv, PartitionsTypeOK, Goto, Job, PCs

LEMMA GotoTyped ==
  ASSUME TypeInv, NEW c \in Client, NEW pc \in PCs, Goto(c, pc), JobFits([job[c] EXCEPT !.pc = pc])
  PROVE  job' \in [Client -> Job] /\ JobsFit'
  BY GotoIs, JobTyped

LEMMA StorageTyped ==
  ASSUME TypeInv, NEW c \in Client, Storage(c)
  PROVE  record' \in Field \cup {Absent} /\ refs' \subseteq Value
  <1>1. JobFits(job[c]) /\ record \in Field \cup {Absent} /\ refs \subseteq Value
    BY DEF TypeInv, PartitionsTypeOK, JobsFit
  <1>2. record' \in Field \cup {Absent}
    BY <1>1 DEF Storage, Written, JobFits
  <1>3. refs' \subseteq Value
    BY <1>1 DEF Storage, Referenced, JobFits
  <1> QED
    BY <1>2, <1>3
\* The rest of the types.
Known == {"no", "perhaps", "yes"}
Others == prefixes \subseteq Other /\ faults \in 0 .. MaxFaults /\ lost \in Known /\ stale \in BOOLEAN
Store == record \in Field \cup {Absent} /\ refs \subseteq Value

LEMMA EndTyped ==
  ASSUME TypeInv, NEW c \in Client, NEW missing \in Known, NEW others \in BOOLEAN, End(c, missing, others)
  PROVE  job' \in [Client -> Job] /\ JobsFit' /\ lost' \in Known /\ stale' \in BOOLEAN
  <1>1. Rest(c)
    BY DEF End
  <1>2. job[c].undisturbed \in BOOLEAN
    BY DEF TypeInv, PartitionsTypeOK, Job
  <1>3. lost' \in Known /\ stale' \in BOOLEAN
    BY <1>2, Zenon DEF End, Known
  <1> QED
    BY <1>1, <1>3, RestTyped

\* An update's clean-ups go on, or the last one ends it.
LEMMA CleaningTyped ==
  ASSUME TypeInv, NEW c \in Client, NEW j \in Job, JobFits(j), Cleaning(c, j)
  PROVE  job' \in [Client -> Job] /\ JobsFit' /\ lost' \in Known /\ stale' \in BOOLEAN
  <1> DEFINE missing == IF prefixes = {} THEN "no" ELSE "yes"
  <1>1. lost \in Known /\ stale \in BOOLEAN /\ missing \in Known /\ FALSE \in BOOLEAN
    BY DEF TypeInv, PartitionsTypeOK, Known
  <1>2. CASE End(c, missing, FALSE)
    <2> HIDE DEF missing
    <2> QED
      BY <1>1, <1>2, EndTyped
  <1>3. CASE job' = [job EXCEPT ![c] = j] /\ UNCHANGED <<lost, stale>>
    BY <1>1, <1>3, JobTyped
  <1> QED
    BY <1>2, <1>3 DEF Cleaning

\* A job that has another listing or other keys is still one.
LEMMA CleaningFits ==
  ASSUME TypeInv, NEW c \in Client, NEW listing \in SUBSET Partition, NEW p \in Partition, NEW ks \in SUBSET Value
  PROVE  LET j == [job[c] EXCEPT !.listing = listing, !.keys[p] = ks]
         IN /\ j \in Job /\ (JobFits(job[c]) => JobFits(j))
            /\ j.pc = job[c].pc /\ j.op = job[c].op /\ j.new = job[c].new /\ j.undisturbed = job[c].undisturbed
            /\ j.listing = listing /\ j.keys = [job[c].keys EXCEPT ![p] = ks]
  BY DEF TypeInv, PartitionsTypeOK, Job, JobFits

LEMMA TypeInit == PartitionsInit => TypeInv
  <1> SUFFICES ASSUME PartitionsInit PROVE TypeInv
    OBVIOUS
  <1>1. job \in [Client -> Job] /\ JobsFit
    BY NoJobFits DEF PartitionsInit, JobsFit
  <1>2. faults \in 0 .. MaxFaults
    BY PartitionsAssumption DEF PartitionsInit
  <1>4. prefixes \subseteq Other
    BY DEF PartitionsInit
  <1>3. record \in Field \cup {Absent} /\ refs \subseteq Value /\ lost \in Known /\ stale \in BOOLEAN
    BY DEF PartitionsInit, Known
  <1> QED
    BY <1>1, <1>2, <1>3, <1>4 DEF TypeInv, PartitionsTypeOK, Known

LEMMA TypeNext == TypeInv /\ [PartitionsNext]_partitionVars => TypeInv'
  <1> SUFFICES ASSUME TypeInv, [PartitionsNext]_partitionVars PROVE TypeInv'
    OBVIOUS
  <1> DEFINE Jobs == job \in [Client -> Job] /\ JobsFit
  <1>s. ASSUME Store', Jobs', Others' PROVE TypeInv'
    BY <1>s DEF TypeInv, PartitionsTypeOK, Store, Others, Known
  <1>t. Store /\ Jobs /\ Others
    BY DEF TypeInv, PartitionsTypeOK, Store, Others, Known
  <1> prefixes' = prefixes
    BY DEF PartitionsNext, partitionVars
  <1>j. \A c \in Client : job[c] \in Job /\ JobFits(job[c])
    BY <1>t DEF JobsFit
  <1>k. ASSUME NEW c \in Client, Storage(c) PROVE Store'
    BY <1>k, StorageTyped DEF Store
  <1>e. ASSUME NEW c \in Client, NEW missing \in Known, NEW others \in BOOLEAN, End(c, missing, others)
        PROVE  Jobs' /\ lost' \in Known /\ stale' \in BOOLEAN
    BY <1>e, EndTyped
  <1>g. ASSUME NEW c \in Client, NEW pc \in PCs, Goto(c, pc), JobFits([job[c] EXCEPT !.pc = pc])
        PROVE  Jobs'
    BY <1>g, GotoTyped
  <1>1. ASSUME NEW c \in Client, NEW op \in Operation, Begin(c, op) PROVE TypeInv'
    <2>1. PICK new \in Fields(op) :
            LET j == [NoJob EXCEPT !.pc = FirstCall(op), !.op = op, !.new = new,
                                   !.listing = prefixes \cup {This}, !.undisturbed = \A d \in Client : Idle(d)]
            IN job' = [d \in Client |-> IF d = c THEN j ELSE [job[d] EXCEPT !.undisturbed = @ /\ Idle(d)]]
      BY <1>1 DEF Begin
    <2> DEFINE alone == \A d \in Client : Idle(d)
               j == [NoJob EXCEPT !.pc = FirstCall(op), !.op = op, !.new = new,
                               !.listing = prefixes \cup {This}, !.undisturbed = alone]
    <2>2. alone \in BOOLEAN
      OBVIOUS
    <2>3. j \in Job /\ JobFits(j)
      <3> HIDE DEF alone
      <3>1. prefixes \cup {This} \in SUBSET Partition
        BY <1>t DEF Others, Partition
      <3> QED
        BY <2>2, <3>1, NoJobFits DEF NoJob, Job, JobFits, FirstCall, Fields, Field, Operation
    <2>4. ASSUME NEW d \in Client
          PROVE  /\ [job[d] EXCEPT !.undisturbed = @ /\ Idle(d)] \in Job
                 /\ JobFits([job[d] EXCEPT !.undisturbed = @ /\ Idle(d)])
      <3>1. (job[d].undisturbed /\ Idle(d)) \in BOOLEAN
        OBVIOUS
      <3> QED
        BY <1>j, <3>1 DEF Job, JobFits
    <2>5. \A d \in Client : job'[d] \in Job /\ JobFits(job'[d])
      <3> HIDE DEF j
      <3> QED
        BY <2>1, <2>3, <2>4 DEF j
    <2>6. Jobs'
      BY <2>1, <2>5 DEF JobsFit
    <2> QED
      BY <1>1, <1>s, <1>t, <2>6 DEF Begin, Store, Others
  <1>2. ASSUME NEW c \in Client, Insert(c) PROVE TypeInv'
    <2>1. Store' /\ faults' = faults
      BY <1>2, <1>k DEF Insert
    <2>2. CASE record = Absent /\ job[c].new # None /\ Continues(c, "create")
      BY <1>2, <1>s, <1>t, <1>j, <1>g, <2>1, <2>2 DEF Insert, Continues, JobFits, PCs, Others, Job, Field
    <2>3. CASE End(c, "no", stale) \/ End(c, lost, stale)
      BY <1>s, <1>t, <1>e, <2>1, <2>3 DEF Others, Known
    <2>4. CASE /\ job[c].op = "upsert"
               /\ job' = [job EXCEPT ![c].pc = "get", ![c].op = "update"]
               /\ UNCHANGED <<lost, stale>>
      <3> DEFINE j == [job[c] EXCEPT !.pc = "get", !.op = "update"]
      <3>1. j \in Job /\ JobFits(j)
        BY <1>j DEF Job, JobFits, Operation
      <3>2. job' = [job EXCEPT ![c] = j]
        BY <1>t, <1>j, <2>4 DEF Job
      <3>3. Jobs'
        BY <3>1, <3>2, JobTyped
      <3> QED
        BY <1>s, <1>t, <2>1, <2>4, <3>3 DEF Others
    <2> QED
      BY <1>2, <2>2, <2>3, <2>4 DEF Insert
  <1>3. ASSUME NEW c \in Client, CreateReference(c) PROVE TypeInv'
    <2>1. Store' /\ faults' = faults
      BY <1>3, <1>k DEF CreateReference
    <2>2. CASE job[c].pc = "create" /\ Continues(c, "hook")
      BY <1>s, <1>t, <1>j, <1>g, <2>1, <2>2 DEF Continues, JobFits, PCs, Others, Job
    <2>3. CASE End(c, "no", stale)
      BY <1>s, <1>t, <1>e, <2>1, <2>3 DEF Others, Known
    <2> QED
      BY <1>3, <2>2, <2>3 DEF CreateReference
  <1>4. ASSUME NEW c \in Client, GetRecord(c) PROVE TypeInv'
    <2>1. Store' /\ faults' = faults
      BY <1>4, <1>t DEF GetRecord, Store
    <2>2. CASE End(c, lost, stale)
      BY <1>s, <1>t, <1>e, <2>1, <2>2 DEF Others
    <2>3. CASE /\ job[c].op = "delete" /\ UNCHANGED <<lost, stale>>
               /\ job' = [job EXCEPT ![c].pc = "remove", ![c].old = IF record = Absent THEN None ELSE record]
      <3> DEFINE j == [job[c] EXCEPT !.pc = "remove", !.old = IF record = Absent THEN None ELSE record]
      <3>1. j \in Job /\ JobFits(j)
        BY <1>j, <1>t, <2>3 DEF Job, JobFits, Field, Store
      <3>2. job' = [job EXCEPT ![c] = j]
        BY <1>t, <1>j, <2>3 DEF Job
      <3>3. Jobs'
        BY <3>1, <3>2, JobTyped
      <3> QED
        BY <1>s, <1>t, <2>1, <2>3, <3>3 DEF Others
    <2>4. CASE /\ job[c].op # "delete" /\ record # Absent /\ UNCHANGED <<lost, stale>>
               /\ job' = [job EXCEPT ![c].pc = "put", ![c].old = record,
                                     ![c].new = IF @ = Keep THEN record ELSE @]
      <3> DEFINE j == [job[c] EXCEPT !.pc = "put", !.old = record, !.new = IF @ = Keep THEN record ELSE @]
      <3>1. j \in Job /\ JobFits(j)
        BY <1>4, <1>j, <1>t, <2>4 DEF GetRecord, Job, JobFits, Field, Store
      <3>2. job' = [job EXCEPT ![c] = j]
        BY <1>t, <1>j, <2>4 DEF Job
      <3>3. Jobs'
        BY <3>1, <3>2, JobTyped
      <3> QED
        BY <1>s, <1>t, <2>1, <2>4, <3>3 DEF Others
    <2> QED
      BY <1>4, <2>2, <2>3, <2>4 DEF GetRecord
  <1>5. ASSUME NEW c \in Client, PutRecord(c) PROVE TypeInv'
    <2>1. Store' /\ faults' = faults
      BY <1>5, <1>k, <1>t DEF PutRecord, Store
    <2>2. CASE End(c, lost, stale)
      BY <1>s, <1>t, <1>e, <2>1, <2>2 DEF Others
    <2>3. CASE /\ job' = [job EXCEPT ![c].pc = Moving(job[c]), ![c].op = "update"]
               /\ UNCHANGED <<lost, stale>>
      <3> DEFINE j == [job[c] EXCEPT !.pc = Moving(job[c]), !.op = "update"]
      <3>1. j \in Job /\ JobFits(j)
        BY <1>5, <1>j DEF PutRecord, Moving, Job, JobFits, Operation, Field
      <3>2. job' = [job EXCEPT ![c] = j]
        BY <1>t, <1>j, <2>3 DEF Job
      <3>3. Jobs'
        BY <3>1, <3>2, JobTyped
      <3> QED
        BY <1>s, <1>t, <2>1, <2>3, <3>3 DEF Others
    <2> QED
      BY <1>5, <2>2, <2>3 DEF PutRecord
  <1>6. ASSUME NEW c \in Client, ReplaceRecord(c) PROVE TypeInv'
    <2> DEFINE others == stale \/ record \in Value \ {job[c].new}
    <2>1. Store' /\ faults' = faults /\ others \in BOOLEAN
      BY <1>6, <1>k, <1>t DEF ReplaceRecord, Others
    <2>2. CASE End(c, "no", others)
      BY <1>s, <1>t, <1>e, <2>1, <2>2 DEF Others, Known
    <2>3. CASE job[c].new # None /\ Goto(c, "ref") /\ UNCHANGED lost /\ stale' = others
      BY <1>6, <1>s, <1>t, <1>j, <1>g, <2>1, <2>3 DEF ReplaceRecord, JobFits, PCs, Others, Job, Field
    <2> QED
      BY <1>6, <2>2, <2>3 DEF ReplaceRecord
  <1>7. ASSUME NEW c \in Client, RemoveOldReference(c) PROVE TypeInv'
    BY <1>7, <1>s, <1>t, <1>j, <1>k, <1>g DEF RemoveOldReference, Continues, JobFits, PCs, Others, Job, Field
  <1>8. ASSUME NEW c \in Client, PutReference(c) PROVE TypeInv'
    <2>1. Store' /\ faults' = faults
      BY <1>8, <1>k DEF PutReference
    <2>2. CASE End(c, "no", stale)
      BY <1>s, <1>t, <1>e, <2>1, <2>2 DEF Others, Known
    <2>3. CASE job[c].op # "replace" /\ Continues(c, "clean")
      BY <1>8, <1>s, <1>t, <1>j, <1>g, <2>1, <2>3 DEF PutReference, Continues, JobFits, PCs, Others, Job, Field
    <2> QED
      BY <1>8, <2>2, <2>3 DEF PutReference
  <1>9. ASSUME NEW c \in Client, NEW p \in Partition, ListReferences(c, p) PROVE TypeInv'
    <2> DEFINE j == [job[c] EXCEPT !.listing = @ \ {p}, !.keys[p] = StaleKeys(job[c], p)]
    <2>1. Store' /\ faults' = faults /\ Cleaning(c, j)
      BY <1>9, <1>t DEF ListReferences, Store
    <2>2. job[c].listing \ {p} \in SUBSET Partition /\ StaleKeys(job[c], p) \in SUBSET Value
      BY <1>j, <1>t DEF Job, StaleKeys, Store
    <2>3. j \in Job /\ JobFits(j)
      BY <1>j, <2>2, CleaningFits
    <2> HIDE DEF j
    <2> QED
      BY <1>s, <1>t, <2>1, <2>3, CleaningTyped DEF Others
  <1>10. ASSUME NEW c \in Client, NEW p \in Partition, CleanUp(c, p) PROVE TypeInv'
    <2> DEFINE j == [job[c] EXCEPT !.keys[p] = {}]
    <2>1. Store' /\ faults' = faults /\ Cleaning(c, j)
      BY <1>10, <1>t DEF CleanUp, Store
    <2>2. j \in Job /\ JobFits(j)
      BY <1>j DEF Job, JobFits
    <2> HIDE DEF j
    <2> QED
      BY <1>s, <1>t, <2>1, <2>2, CleaningTyped DEF Others
  <1>11. ASSUME NEW c \in Client, RemoveRecord(c) PROVE TypeInv'
    <2>1. Store' /\ faults' = faults
      BY <1>11, <1>k DEF RemoveRecord
    <2>2. CASE End(c, lost, stale)
      BY <1>s, <1>t, <1>e, <2>1, <2>2 DEF Others
    <2>3. CASE Continues(c, "drop")
      BY <1>11, <1>s, <1>t, <1>j, <1>g, <2>1, <2>3 DEF RemoveRecord, Continues, JobFits, PCs, Others, Job
    <2> QED
      BY <1>11, <2>2, <2>3 DEF RemoveRecord
  <1>12. ASSUME NEW c \in Client, DropReference(c) PROVE TypeInv'
    <2>1. Store' /\ faults' = faults
      BY <1>12, <1>k DEF DropReference
    <2>2. CASE End(c, lost, stale)
      BY <1>s, <1>t, <1>e, <2>1, <2>2 DEF Others
    <2>3. CASE job[c].pc = "drop" /\ Continues(c, "hook")
      BY <1>s, <1>t, <1>j, <1>g, <2>1, <2>3 DEF Continues, JobFits, PCs, Others, Job
    <2> QED
      BY <1>12, <2>2, <2>3 DEF DropReference
  <1>f. ASSUME Fault PROVE Others'
    BY <1>f, <1>t, PartitionsAssumption DEF Fault, Others, Known
  <1>13. ASSUME NEW c \in Client, CallFails(c) PROVE TypeInv'
    <2>1. Store' /\ Others'
      BY <1>13, <1>f, <1>k, <1>t DEF CallFails, Store
    <2>2. CASE Rest(c)
      BY <1>s, <2>1, <2>2, RestTyped
    <2>3. ASSUME NEW pc \in Resumes(job[c]), pc # "idle",
                 job' = [job EXCEPT ![c].pc = pc, ![c].undisturbed = FALSE]
          PROVE  TypeInv'
      <3> DEFINE j == [job[c] EXCEPT !.pc = pc, !.undisturbed = FALSE]
      <3>1. j \in Job /\ JobFits(j)
        BY <1>j, <2>3 DEF Resumes, Job, JobFits
      <3>2. job' = [job EXCEPT ![c] = j]
        BY <1>t, <1>j, <2>3 DEF Job
      <3>3. Jobs'
        BY <3>1, <3>2, JobTyped
      <3> QED
        BY <1>s, <2>1, <3>3
    <2> QED
      BY <1>13, <2>2, <2>3 DEF CallFails
  <1>14. ASSUME NEW c \in Client, Crash(c) PROVE TypeInv'
    BY <1>14, <1>f, <1>s, <1>t, RestTyped DEF Crash, Store
  <1>15. ASSUME NEW c \in Client, NEW p \in Partition, CleanUpFails(c, p) PROVE TypeInv'
    <2> DEFINE j == [job[c] EXCEPT !.listing = @ \ {p}, !.keys[p] = {}, !.undisturbed = FALSE]
    <2>1. Store' /\ Others'
      BY <1>15, <1>f, <1>t DEF CleanUpFails, Store
    <2>2. j \in Job /\ JobFits(j)
      BY <1>j DEF Job, JobFits
    <2>3. job' = [job EXCEPT ![c] = IF CleanedUp(j) THEN NoJob ELSE j]
      BY <1>15 DEF CleanUpFails
    <2> HIDE DEF j
    <2>4. Jobs'
      BY <2>2, <2>3, JobTyped, NoJobFits
    <2> QED
      BY <1>s, <2>1, <2>4
  <1>16. CASE UNCHANGED partitionVars
    BY <1>16, <1>s, <1>t DEF partitionVars, Store, Others, JobsFit
  <1> QED
    BY <1>1, <1>2, <1>3, <1>4, <1>5, <1>6, <1>7, <1>8, <1>9, <1>10, <1>11, <1>12, <1>13, <1>14, <1>15, <1>16
       DEF PartitionsNext, Step
----------------------------------------------------------------------------
(* The references.                                                         *)

Index == Alone /\ JobsAsExpected /\ IndexMatches

\* Nothing is found yet when the clean-ups begin.
LEMMA CleaningBegins ==
  ASSUME NEW j, NEW r, NEW R, j.listing = Cleaner, j.keys = NoKeys, This \in Partition, r \in Value => r \in R
  PROVE  Swept(j, r, R)
  <1>1. \A p \in Partition : j.keys[p] = {}
    BY DEF NoKeys
  <1> QED
    BY <1>1 DEF Swept, Cleaner

\* A job goes on.
LEMMA GoesOn ==
  ASSUME TypeInv, Index, NEW c \in Client, ~Idle(c),
         NEW j \in Job, job' = [job EXCEPT ![c] = j], j.pc # "idle",
         j.undisturbed => job[c].undisturbed /\ Expected(j, record', refs', lost', stale'), prefixes' = prefixes
  PROVE  Index'
  <1>1. \A d \in Client : job'[d] = IF d = c THEN j ELSE job[d]
    BY DEF TypeInv, PartitionsTypeOK
  <1>2. \A d \in Client \ {c} : ~(~Idle(d) /\ job[d].undisturbed)
    BY DEF Index, Alone
  <1>3. Alone'
    BY <1>1, <1>2 DEF Index, Alone, Idle
  <1>4. JobsAsExpected'
    BY <1>1, <1>2 DEF JobsAsExpected, Idle, Expected, Swept, Cleaner
  <1>5. IndexMatches'
    BY <1>1 DEF IndexMatches, Quiet, Idle
  <1> QED
    BY <1>3, <1>4, <1>5 DEF Index

LEMMA GoesTo ==
  ASSUME TypeInv, Index, NEW c \in Client, ~Idle(c), NEW pc \in PCs \ {"idle"}, Goto(c, pc),
         job[c].undisturbed => Expected([job[c] EXCEPT !.pc = pc], record', refs', lost', stale'), prefixes' = prefixes
  PROVE  Index'
  <1> DEFINE j == [job[c] EXCEPT !.pc = pc]
  <1>1. j \in Job /\ job' = [job EXCEPT ![c] = j]
    BY GotoIs
  <1>2. j.pc # "idle" /\ j.undisturbed = job[c].undisturbed
    BY DEF TypeInv, PartitionsTypeOK, Job
  <1> HIDE DEF j
  <1>3. job[c].undisturbed => Expected(j, record', refs', lost', stale')
    BY DEF j
  <1> QED
    BY <1>1, <1>2, <1>3, GoesOn

\* A job ends.
LEMMA Ends ==
  ASSUME TypeInv, Index, NEW c \in Client, ~Idle(c),
         NEW missing \in Known, NEW others \in BOOLEAN, End(c, missing, others),
         job[c].undisturbed => Found(record', refs', missing) /\ NothingElse(record', refs', others)
  PROVE  Index'
  <1>1. \A d \in Client : job'[d] = IF d = c THEN NoJob ELSE job[d]
    BY DEF TypeInv, PartitionsTypeOK, End, Rest
  <1>2. \A d \in Client \ {c} : ~(~Idle(d) /\ job[d].undisturbed)
    BY DEF Index, Alone
  <1>3. \A d \in Client : ~(~Idle(d) /\ job[d].undisturbed)'
    BY <1>1, <1>2, NoJobFits DEF Idle
  <1>4. CASE job[c].undisturbed
    <2>1. lost' = missing /\ stale' = others
      BY <1>4, Zenon DEF End
    <2>2. (RecordIsFound /\ NothingElseIsFound /\ RecordIsHidden)'
      BY <1>4, <2>1 DEF RecordIsFound, NothingElseIsFound, RecordIsHidden, Found, NothingElse
    <2> QED
      BY <1>3, <2>2 DEF Index, Alone, JobsAsExpected, IndexMatches
  <1>5. CASE ~job[c].undisturbed
    <2>1. lost' = "perhaps" /\ stale'
      BY <1>5 DEF End
    <2> QED
      BY <1>3, <2>1 DEF Index, Alone, JobsAsExpected, IndexMatches, RecordIsFound, NothingElseIsFound, RecordIsHidden
  <1> QED
    BY <1>4, <1>5

\* The clean-ups of an update go on, or the last one ends it.
LEMMA CleaningGoesOn ==
  ASSUME TypeInv, Index, NEW c \in Client, ~Idle(c), prefixes' = prefixes,
         NEW j \in Job, j.pc = "clean", j.op # "delete", j.undisturbed = job[c].undisturbed, Cleaning(c, j),
         job[c].undisturbed => record' = j.new /\ Swept(j, record', refs')
  PROVE  Index'
  <1>1. CASE CleanedUp(j)
    <2> DEFINE missing == IF prefixes = {} THEN "no" ELSE "yes"
    <2>1. missing \in Known /\ FALSE \in BOOLEAN /\ End(c, missing, FALSE)
      BY <1>1 DEF Cleaning, Known
    <2>2. ASSUME job[c].undisturbed
          PROVE  Found(record', refs', missing) /\ NothingElse(record', refs', FALSE)
      <3>1. prefixes \subseteq Partition /\ This \in Partition
        BY DEF TypeInv, PartitionsTypeOK, Partition
      <3>2. j.listing = {} /\ \A p \in Partition : j.keys[p] = {}
        BY <1>1 DEF CleanedUp, NoKeys
      <3>3. Swept(j, record', refs')
        BY <2>2
      <3>4. refs' \subseteq {record'}
        BY <3>1, <3>2, <3>3 DEF Swept
      <3>5. prefixes # {} => refs' = {}
        BY <3>1, <3>2, <3>3 DEF Swept
      <3>6. prefixes = {} /\ record' \in Value => record' \in refs'
        BY <3>3 DEF Swept
      <3> QED
        BY <3>4, <3>5, <3>6 DEF Found, NothingElse
    <2> HIDE DEF missing
    <2> QED
      BY <2>1, <2>2, Ends
  <1>2. CASE ~CleanedUp(j)
    <2>1. job' = [job EXCEPT ![c] = j] /\ UNCHANGED <<lost, stale>>
      BY <1>2 DEF Cleaning
    <2>2. j.undisturbed => Expected(j, record', refs', lost', stale')
      BY <2>1 DEF Expected
    <2> QED
      BY <2>1, <2>2, GoesOn
  <1> QED
    BY <1>1, <1>2

LEMMA IndexInit == PartitionsInit => Index
  BY NoJobFits, PartitionsAssumption
     DEF PartitionsInit, Index, Alone, JobsAsExpected, IndexMatches, RecordIsFound, NothingElseIsFound, RecordIsHidden, Idle

\* After a fault nothing is known until a call has had the record to itself.
LEMMA IndexAfterFault ==
  ASSUME TypeInv, Index, NEW c \in Client, ~Idle(c), Fault,
         NEW j \in Job, job' = [job EXCEPT ![c] = j], j.pc = "idle" \/ ~j.undisturbed
  PROVE  Index'
  <1>1. \A d \in Client : job'[d] = IF d = c THEN j ELSE job[d]
    BY DEF TypeInv, PartitionsTypeOK
  <1>2. \A d \in Client \ {c} : ~(~Idle(d) /\ job[d].undisturbed)
    BY DEF Index, Alone
  <1>3. \A d \in Client : ~(~Idle(d) /\ job[d].undisturbed)'
    BY <1>1, <1>2 DEF Idle
  <1>4. lost' = "perhaps" /\ stale'
    BY DEF Fault
  <1> QED
    BY <1>3, <1>4 DEF Index, Alone, JobsAsExpected, IndexMatches, RecordIsFound, NothingElseIsFound, RecordIsHidden

LEMMA IndexBegin ==
  ASSUME TypeInv, Index, NEW c \in Client, NEW op \in Operation, Begin(c, op), prefixes' = prefixes
  PROVE  Index'
  <1> DEFINE alone == \A d \in Client : Idle(d)
             j(new) == [NoJob EXCEPT !.pc = FirstCall(op), !.op = op, !.new = new,
                                 !.listing = Cleaner, !.undisturbed = alone]
  <1>1. PICK new \in Fields(op) :
          job' = [d \in Client |-> IF d = c THEN j(new) ELSE [job[d] EXCEPT !.undisturbed = @ /\ Idle(d)]]
    BY DEF Begin, Cleaner
  <1>2. /\ j(new).pc = FirstCall(op) /\ j(new).op = op /\ (j(new).undisturbed <=> alone)
        /\ j(new).listing = Cleaner /\ j(new).keys = NoKeys
    BY DEF NoJob
  <1> HIDE DEF j
  <1>3. j(new).pc # "idle" /\ j(new).pc \in {"insert", "put", "get"} /\ (j(new).pc = "put" => op = "replace")
    BY <1>2 DEF FirstCall, Operation
  <1>4. \A d \in Client \ {c} : /\ job'[d].pc = job[d].pc
                                /\ job'[d].undisturbed => Idle(d)
    <2> SUFFICES ASSUME NEW d \in Client \ {c}
                 PROVE  job'[d].pc = job[d].pc /\ (job'[d].undisturbed => Idle(d))
      OBVIOUS
    <2>1. job[d] \in Job /\ job'[d] = [job[d] EXCEPT !.undisturbed = @ /\ Idle(d)]
      BY <1>1 DEF TypeInv, PartitionsTypeOK
    <2> QED
      BY <2>1 DEF Job
  <1>5. job'[c] = j(new)
    BY <1>1
  <1>6. Alone'
    BY <1>2, <1>4, <1>5 DEF Alone, Idle
  <1>7. IndexMatches'
    BY <1>3, <1>5 DEF IndexMatches, Quiet, Idle
  <1>8. ASSUME alone PROVE Expected(j(new), record, refs, lost, stale)
    <2>1. Found(record, refs, lost) /\ NothingElse(record, refs, stale)
      BY <1>8 DEF Index, IndexMatches, Quiet, RecordIsFound, NothingElseIsFound, RecordIsHidden, Found, NothingElse
    <2> QED
      BY <1>2, <1>3, <2>1 DEF Expected
  <1>9. JobsAsExpected'
    <2>1. UNCHANGED <<record, refs, lost, stale>>
      BY DEF Begin
    <2>2. \A d \in Client : ~Idle(d)' /\ job'[d].undisturbed => alone /\ job'[d] = j(new)
      BY <1>2, <1>4, <1>5 DEF Idle
    <2> HIDE DEF alone
    <2> QED
      BY <1>8, <2>1, <2>2 DEF JobsAsExpected, Idle, Expected, Swept, Cleaner
  <1> QED
    BY <1>6, <1>7, <1>9 DEF Index

LEMMA IndexNext == TypeInv /\ Index /\ [PartitionsNext]_partitionVars => Index'
  <1> SUFFICES ASSUME TypeInv, Index, [PartitionsNext]_partitionVars PROVE Index'
    OBVIOUS
  <1> prefixes' = prefixes
    BY DEF PartitionsNext, partitionVars
  <1>t. record \in Field \cup {Absent} /\ refs \subseteq Value /\ lost \in Known /\ stale \in BOOLEAN /\ "no" \in Known
    BY DEF TypeInv, PartitionsTypeOK, Known
  <1>j. \A c \in Client : job[c] \in Job /\ JobFits(job[c])
    BY DEF TypeInv, PartitionsTypeOK, JobsFit
  <1>x. \A c \in Client : ~Idle(c) /\ job[c].undisturbed => Expected(job[c], record, refs, lost, stale)
    BY DEF Index, JobsAsExpected
  <1>a. Absent \notin Field /\ None \in Field /\ None \notin Value /\ Value \subseteq Field /\ This \in Partition
    BY PartitionsAssumption DEF Field, Partition
  <1>1. ASSUME NEW c \in Client, NEW op \in Operation, Begin(c, op) PROVE Index'
    BY <1>1, IndexBegin
  <1>2. ASSUME NEW c \in Client, Insert(c) PROVE Index'
    <2>1. ~Idle(c) /\ job[c].pc = "insert" /\ Storage(c) /\ refs' = refs
      BY <1>2 DEF Insert, Idle, Storage, Referenced
    <2>2. CASE record = Absent /\ job[c].new # None /\ Continues(c, "create")
      <3>1. record' = job[c].new /\ UNCHANGED <<lost, stale>> /\ Goto(c, "create")
        BY <2>1, <2>2 DEF Storage, Written, Continues
      <3>2. job[c].undisturbed => Expected([job[c] EXCEPT !.pc = "create"], record', refs', lost', stale')
        BY <1>t, <1>j, <1>x, <1>a, <2>1, <2>2, <3>1 DEF Expected, Found, NothingElse, Job
      <3> QED
        BY <2>1, <3>1, <3>2, GoesTo DEF PCs
    <2>3. CASE record = Absent /\ job[c].new = None /\ End(c, "no", stale)
      <3>1. record' = None
        BY <2>1, <2>3 DEF Storage, Written
      <3>2. job[c].undisturbed => Found(record', refs', "no") /\ NothingElse(record', refs', stale)
        BY <1>t, <1>j, <1>x, <1>a, <2>1, <2>3, <3>1 DEF Expected, Found, NothingElse
      <3> QED
        BY <1>t, <2>1, <2>3, <3>2, Ends
    <2>4. CASE record # Absent /\ End(c, lost, stale)
      <3>1. record' = record
        BY <2>1, <2>4 DEF Storage, Written
      <3>2. job[c].undisturbed => Found(record', refs', lost) /\ NothingElse(record', refs', stale)
        BY <1>x, <2>1, <3>1 DEF Expected
      <3> QED
        BY <1>t, <2>1, <2>4, <3>2, Ends
    <2>5. CASE /\ record # Absent
               /\ job' = [job EXCEPT ![c].pc = "get", ![c].op = "update"]
               /\ UNCHANGED <<lost, stale>>
      <3> DEFINE j == [job[c] EXCEPT !.pc = "get", !.op = "update"]
      <3>1. record' = record
        BY <2>1, <2>5 DEF Storage, Written
      <3>2. /\ j \in Job /\ j.pc = "get" /\ j.undisturbed = job[c].undisturbed
            /\ j.listing = job[c].listing /\ j.keys = job[c].keys /\ job' = [job EXCEPT ![c] = j]
        BY <1>j, <2>5 DEF Job, Operation
      <3> HIDE DEF j
      <3>3. j.undisturbed => Expected(j, record', refs', lost', stale')
        BY <1>x, <2>1, <2>5, <3>1, <3>2 DEF Expected
      <3> QED
        BY <2>1, <3>2, <3>3, GoesOn
    <2> QED
      BY <1>2, <2>2, <2>3, <2>4, <2>5 DEF Insert
  <1>3. ASSUME NEW c \in Client, CreateReference(c) PROVE Index'
    <2>1. ~Idle(c) /\ Storage(c) /\ job[c].pc \in {"create", "hook"}
      BY <1>3 DEF CreateReference, Idle
    <2>2. CASE job[c].pc = "create" /\ Continues(c, "hook")
      <3>1. record' = record /\ refs' = refs \cup {job[c].new} /\ UNCHANGED <<lost, stale>> /\ Goto(c, "hook")
        BY <2>1, <2>2 DEF Storage, Written, Referenced, Continues
      <3>2. job[c].undisturbed => Expected([job[c] EXCEPT !.pc = "hook"], record', refs', lost', stale')
        BY <1>j, <1>x, <2>1, <2>2, <3>1 DEF Expected, NothingElse, Job, JobFits
      <3> QED
        BY <2>1, <3>1, <3>2, GoesTo DEF PCs
    <2>3. CASE job[c].pc = "hook" /\ job[c].op # "delete" /\ End(c, "no", stale)
      <3>1. record' = record /\ refs' = refs \cup {job[c].new}
        BY <2>1, <2>3 DEF Storage, Written, Referenced
      <3>2. job[c].undisturbed => Found(record', refs', "no") /\ NothingElse(record', refs', stale)
        BY <1>x, <2>1, <2>3, <3>1 DEF Expected, Found, NothingElse
      <3> QED
        BY <1>t, <2>1, <2>3, <3>2, Ends
    <2> QED
      BY <1>3, <2>2, <2>3 DEF CreateReference
  <1>4. ASSUME NEW c \in Client, GetRecord(c) PROVE Index'
    <2>1. ~Idle(c) /\ job[c].pc = "get" /\ record' = record /\ refs' = refs
      BY <1>4 DEF GetRecord, Idle
    <2>2. CASE End(c, lost, stale)
      <3>1. job[c].undisturbed => Found(record', refs', lost) /\ NothingElse(record', refs', stale)
        BY <1>x, <2>1 DEF Expected
      <3> QED
        BY <1>t, <2>1, <2>2, <3>1, Ends
    <2>3. CASE /\ job[c].op = "delete" /\ UNCHANGED <<lost, stale>>
               /\ job' = [job EXCEPT ![c].pc = "remove", ![c].old = IF record = Absent THEN None ELSE record]
      <3> DEFINE j == [job[c] EXCEPT !.pc = "remove", !.old = IF record = Absent THEN None ELSE record]
      <3>1. /\ j \in Job /\ job' = [job EXCEPT ![c] = j]
            /\ j.pc = "remove" /\ j.undisturbed = job[c].undisturbed
            /\ j.listing = job[c].listing /\ j.keys = job[c].keys
            /\ j.old = IF record = Absent THEN None ELSE record
        BY <1>j, <1>t, <2>3 DEF Job, Field
      <3> HIDE DEF j
      <3>2. j.undisturbed => Expected(j, record', refs', lost', stale')
        BY <1>x, <2>1, <2>3, <3>1 DEF Expected
      <3> QED
        BY <2>1, <3>1, <3>2, GoesOn
    <2>4. CASE /\ job[c].op # "delete" /\ record # Absent /\ UNCHANGED <<lost, stale>>
               /\ job' = [job EXCEPT ![c].pc = "put", ![c].old = record,
                                     ![c].new = IF @ = Keep THEN record ELSE @]
      <3> DEFINE j == [job[c] EXCEPT !.pc = "put", !.old = record, !.new = IF @ = Keep THEN record ELSE @]
      <3>1. /\ j \in Job /\ job' = [job EXCEPT ![c] = j]
            /\ j.pc = "put" /\ j.undisturbed = job[c].undisturbed /\ j.old = record
            /\ j.listing = job[c].listing /\ j.keys = job[c].keys
        BY <1>j, <1>t, <2>4 DEF Job, Field
      <3> HIDE DEF j
      <3>2. j.undisturbed => Expected(j, record', refs', lost', stale')
        BY <1>x, <2>1, <2>4, <3>1 DEF Expected
      <3> QED
        BY <2>1, <3>1, <3>2, GoesOn
    <2> QED
      BY <1>4, <2>2, <2>3, <2>4 DEF GetRecord
  <1>5. ASSUME NEW c \in Client, PutRecord(c) PROVE Index'
    <2>1. ~Idle(c) /\ job[c].pc = "put" /\ job[c].op # "replace"
      BY <1>5 DEF PutRecord, Idle
    <2>2. CASE /\ Storage(c) /\ Needed(job[c]) /\ UNCHANGED <<lost, stale>>
               /\ job' = [job EXCEPT ![c].pc = Moving(job[c]), ![c].op = "update"]
      <3> DEFINE pc == Moving(job[c])
                 j == [job[c] EXCEPT !.pc = pc, !.op = "update"]
      <3>1. record' = job[c].new /\ refs' = refs
        BY <2>1, <2>2 DEF Storage, Written, Referenced
      <3>2. pc \in {"unref", "ref", "clean"} /\ (pc = "clean" => job[c].new = None)
        BY DEF Moving
      <3>3. job[c].new \in Field
        BY <1>j, <2>1 DEF JobFits
      <3> HIDE DEF pc
      <3>4. /\ j \in Job /\ job' = [job EXCEPT ![c] = j]
            /\ j.pc = pc /\ j.op = "update" /\ j.new = job[c].new /\ j.undisturbed = job[c].undisturbed
            /\ j.listing = job[c].listing /\ j.keys = job[c].keys
        BY <1>j, <1>t, <2>2, <3>2 DEF Job, Operation, pc
      <3> HIDE DEF j
      <3>5. ASSUME job[c].undisturbed
            PROVE  Expected(j, record', refs', lost', stale')
        <4>1. j.listing = Cleaner /\ j.keys = NoKeys
          BY <1>x, <2>1, <3>4, <3>5 DEF Expected
        <4>2. pc = "clean" => Swept(j, record', refs')
          BY <1>a, <3>1, <3>2, <4>1, CleaningBegins
        <4> QED
          BY <3>1, <3>2, <3>4, <4>1, <4>2 DEF Expected
      <3> QED
        BY <2>1, <3>2, <3>4, <3>5, GoesOn
    <2>3. CASE End(c, lost, stale) /\ UNCHANGED <<record, refs>>
      <3>1. job[c].undisturbed => Found(record', refs', lost) /\ NothingElse(record', refs', stale)
        BY <1>x, <2>1, <2>3 DEF Expected
      <3> QED
        BY <1>t, <2>1, <2>3, <3>1, Ends
    <2> QED
      BY <1>5, <2>2, <2>3 DEF PutRecord
  <1>6. ASSUME NEW c \in Client, ReplaceRecord(c) PROVE Index'
    <2> DEFINE others == stale \/ record \in Value \ {job[c].new}
    <2>1. ~Idle(c) /\ job[c].pc = "put" /\ job[c].op = "replace" /\ others \in BOOLEAN
      BY <1>6, <1>t DEF ReplaceRecord, Idle
    <2>2. record' = job[c].new /\ refs' = refs
      BY <1>6, <2>1 DEF ReplaceRecord, Storage, Written, Referenced, Needed
    <2>3. job[c].undisturbed => NothingElse(record', refs', others)
      BY <1>t, <1>x, <2>1, <2>2 DEF Expected, NothingElse
    <2>4. CASE job[c].new = None /\ End(c, "no", others)
      <3>1. job[c].undisturbed => Found(record', refs', "no")
        BY <1>a, <2>2, <2>4 DEF Found
      <3> QED
        BY <1>t, <2>1, <2>3, <2>4, <3>1, Ends
    <2>5. CASE job[c].new # None /\ Goto(c, "ref") /\ UNCHANGED lost /\ stale' = others
      <3>1. job[c].undisturbed => Expected([job[c] EXCEPT !.pc = "ref"], record', refs', lost', stale')
        BY <1>j, <1>x, <2>1, <2>2, <2>3, <2>5 DEF Expected, Job
      <3> QED
        BY <2>1, <2>5, <3>1, GoesTo DEF PCs
    <2> QED
      BY <1>6, <2>4, <2>5 DEF ReplaceRecord
  <1>7. ASSUME NEW c \in Client, RemoveOldReference(c) PROVE Index'
    <2> DEFINE pc == IF job[c].new = None THEN "clean" ELSE "ref"
    <2>1. ~Idle(c) /\ job[c].pc = "unref" /\ job[c].op # "replace" /\ job[c].op # "delete"
      BY <1>7, <1>j DEF RemoveOldReference, Idle, JobFits
    <2>2. record' = record /\ UNCHANGED <<lost, stale>> /\ Goto(c, pc) /\ pc \in PCs \ {"idle"}
      BY <1>7, <2>1 DEF RemoveOldReference, Storage, Written, Continues, PCs
    <2>3. job[c].undisturbed => Expected([job[c] EXCEPT !.pc = pc], record', refs', lost', stale')
      <3> DEFINE j == [job[c] EXCEPT !.pc = pc]
      <3>1. /\ j.pc = pc /\ j.op = job[c].op /\ j.new = job[c].new
            /\ j.listing = job[c].listing /\ j.keys = job[c].keys
        BY <1>j DEF Job
      <3>2. pc \in {"clean", "ref"} /\ (pc = "clean" => job[c].new = None)
        OBVIOUS
      <3> HIDE DEF pc, j
      <3>3. ASSUME job[c].undisturbed PROVE Expected(j, record', refs', lost', stale')
        <4>1. record = job[c].new /\ j.listing = Cleaner /\ j.keys = NoKeys
          BY <1>x, <2>1, <3>1, <3>3 DEF Expected
        <4>2. pc = "clean" => Swept(j, record', refs')
          BY <1>a, <2>2, <3>2, <4>1, CleaningBegins
        <4> QED
          BY <1>a, <2>1, <2>2, <3>1, <3>2, <4>1, <4>2 DEF Expected
      <3> QED
        BY <3>3 DEF j
    <2> HIDE DEF pc
    <2> QED
      BY <2>1, <2>2, <2>3, GoesTo
  <1>8. ASSUME NEW c \in Client, PutReference(c) PROVE Index'
    <2>1. ~Idle(c) /\ job[c].pc = "ref" /\ record' = record /\ refs' = refs \cup {job[c].new}
      BY <1>8 DEF PutReference, Idle, Storage, Written, Referenced
    <2>2. CASE job[c].op = "replace" /\ End(c, "no", stale)
      <3>1. job[c].undisturbed => Found(record', refs', "no") /\ NothingElse(record', refs', stale)
        BY <1>x, <2>1, <2>2 DEF Expected, Found, NothingElse
      <3> QED
        BY <1>t, <2>1, <2>2, <3>1, Ends
    <2>3. CASE job[c].op # "replace" /\ Continues(c, "clean")
      <3>1. Goto(c, "clean") /\ UNCHANGED <<lost, stale>> /\ job[c].op # "delete"
        BY <1>j, <2>1, <2>3 DEF Continues, JobFits
      <3>2. job[c].undisturbed => Expected([job[c] EXCEPT !.pc = "clean"], record', refs', lost', stale')
        <4> DEFINE j == [job[c] EXCEPT !.pc = "clean"]
        <4>1. /\ j.pc = "clean" /\ j.op = job[c].op /\ j.new = job[c].new
              /\ j.listing = job[c].listing /\ j.keys = job[c].keys
          BY <1>j DEF Job
        <4> HIDE DEF j
        <4>2. ASSUME job[c].undisturbed PROVE Expected(j, record', refs', lost', stale')
          <5>1. record = job[c].new /\ j.listing = Cleaner /\ j.keys = NoKeys
            BY <1>x, <2>1, <4>1, <4>2 DEF Expected
          <5>2. Swept(j, record', refs')
            BY <1>a, <2>1, <5>1, CleaningBegins
          <5> QED
            BY <2>1, <4>1, <5>1, <5>2 DEF Expected
        <4> QED
          BY <4>2 DEF j
      <3> QED
        BY <2>1, <3>1, <3>2, GoesTo DEF PCs
    <2> QED
      BY <1>8, <2>2, <2>3 DEF PutReference
  <1>9. ASSUME NEW c \in Client, NEW p \in Partition, ListReferences(c, p) PROVE Index'
    <2> DEFINE j == [job[c] EXCEPT !.listing = @ \ {p}, !.keys[p] = StaleKeys(job[c], p)]
    <2>1. /\ ~Idle(c) /\ job[c].pc = "clean" /\ p \in job[c].listing
          /\ record' = record /\ refs' = refs /\ Cleaning(c, j)
      BY <1>9 DEF ListReferences, Idle
    <2>2. job[c].op # "delete" /\ job[c].keys \in [Partition -> SUBSET Value]
      BY <1>j, <2>1 DEF JobFits, Job
    <2>3. job[c].listing \ {p} \in SUBSET Partition /\ StaleKeys(job[c], p) \in SUBSET Value
      BY <1>j, <1>t DEF Job, StaleKeys
    <2>4. /\ j \in Job /\ j.pc = job[c].pc /\ j.op = job[c].op /\ j.new = job[c].new
          /\ j.undisturbed = job[c].undisturbed /\ j.listing = job[c].listing \ {p}
          /\ j.keys = [job[c].keys EXCEPT ![p] = StaleKeys(job[c], p)]
      BY <1>j, <2>3 DEF Job
    <2> HIDE DEF j
    <2>5. ASSUME job[c].undisturbed
          PROVE  record' = j.new /\ Swept(j, record', refs')
      <3>1. record = job[c].new /\ Swept(job[c], record, refs)
        BY <1>x, <2>1, <2>5 DEF Expected
      <3>2. \A q \in Partition : j.keys[q] = IF q = p THEN StaleKeys(job[c], p) ELSE job[c].keys[q]
        BY <2>2, <2>4
      <3>3. p \in Cleaner /\ This \in Partition /\ prefixes \subseteq Partition /\ This \notin prefixes
        BY <2>1, <3>1, PartitionsAssumption DEF Swept, TypeInv, PartitionsTypeOK, Partition
      <3> QED
        BY <2>1, <2>4, <3>1, <3>2, <3>3 DEF Swept, StaleKeys
    <2> QED
      BY <2>1, <2>2, <2>4, <2>5, CleaningGoesOn
  <1>10. ASSUME NEW c \in Client, NEW p \in Partition, CleanUp(c, p) PROVE Index'
    <2> DEFINE j == [job[c] EXCEPT !.keys[p] = {}]
    <2>1. /\ ~Idle(c) /\ job[c].pc = "clean" /\ job[c].keys[p] # {}
          /\ record' = record /\ refs' = refs \ job[c].keys[p] /\ Cleaning(c, j)
      BY <1>10 DEF CleanUp, Idle
    <2>2. job[c].op # "delete" /\ job[c].keys \in [Partition -> SUBSET Value]
      BY <1>j, <2>1 DEF JobFits, Job
    <2>4. /\ j \in Job /\ j.pc = job[c].pc /\ j.op = job[c].op /\ j.new = job[c].new
          /\ j.undisturbed = job[c].undisturbed /\ j.listing = job[c].listing
          /\ j.keys = [job[c].keys EXCEPT ![p] = {}]
      BY <1>j DEF Job
    <2> HIDE DEF j
    <2>5. ASSUME job[c].undisturbed
          PROVE  record' = j.new /\ Swept(j, record', refs')
      <3>1. record = job[c].new /\ Swept(job[c], record, refs)
        BY <1>x, <2>1, <2>5 DEF Expected
      <3>2. \A q \in Partition : j.keys[q] = IF q = p THEN {} ELSE job[c].keys[q]
        BY <2>2, <2>4
      <3>3. p \in Cleaner /\ This \in Partition /\ prefixes \subseteq Partition
        BY <2>1, <3>1 DEF Swept, TypeInv, PartitionsTypeOK, Partition
      <3>4. prefixes = {} => p = This
        BY <3>3 DEF Cleaner
      <3> QED
        BY <2>1, <2>4, <3>1, <3>2, <3>3, <3>4 DEF Swept
    <2> QED
      BY <2>1, <2>2, <2>4, <2>5, CleaningGoesOn
  <1>11. ASSUME NEW c \in Client, RemoveRecord(c) PROVE Index'
    <2>1. ~Idle(c) /\ job[c].pc = "remove" /\ record' = Absent /\ refs' = refs /\ job[c].op = "delete"
      BY <1>11, <1>j DEF RemoveRecord, Idle, Storage, Written, Referenced, JobFits
    <2>2. CASE job[c].old = None /\ End(c, lost, stale)
      <3>1. Absent \notin Value
        BY PartitionsAssumption
      <3>2. job[c].undisturbed => Found(record', refs', lost) /\ NothingElse(record', refs', stale)
        BY <1>t, <1>x, <1>a, <2>1, <2>2, <3>1 DEF Expected, Found, NothingElse
      <3> QED
        BY <1>t, <2>1, <2>2, <3>2, Ends
    <2>3. CASE job[c].old # None /\ Continues(c, "drop")
      <3>1. Goto(c, "drop") /\ UNCHANGED <<lost, stale>>
        BY <2>3 DEF Continues
      <3>2. job[c].old \in Value
        BY <1>j, <2>1, <2>3 DEF Job, Field
      <3>3. job[c].undisturbed => Expected([job[c] EXCEPT !.pc = "drop"], record', refs', lost', stale')
        <4> DEFINE j == [job[c] EXCEPT !.pc = "drop"]
        <4>1. /\ j.pc = "drop" /\ j.op = job[c].op /\ j.old = job[c].old
              /\ j.listing = job[c].listing /\ j.keys = job[c].keys
          BY <1>j DEF Job
        <4> HIDE DEF j
        <4>2. job[c].undisturbed => Expected(j, record', refs', lost', stale')
          BY <1>t, <1>x, <1>a, <2>1, <2>3, <3>1, <3>2, <4>1 DEF Expected, Found, NothingElse
        <4> QED
          BY <4>2 DEF j
      <3> QED
        BY <2>1, <3>1, <3>3, GoesTo DEF PCs
    <2> QED
      BY <1>11, <2>2, <2>3 DEF RemoveRecord
  <1>12. ASSUME NEW c \in Client, DropReference(c) PROVE Index'
    <2>1. ~Idle(c) /\ job[c].pc \in {"drop", "hook"} /\ job[c].op = "delete"
      BY <1>12, <1>j DEF DropReference, Idle, JobFits
    <2>2. record' = record /\ refs' = refs \ {job[c].old}
      BY <1>12, <2>1 DEF DropReference, Storage, Written, Referenced
    <2>3. CASE job[c].pc = "drop" /\ Continues(c, "hook")
      <3>1. Goto(c, "hook") /\ UNCHANGED <<lost, stale>>
        BY <2>3 DEF Continues
      <3>2. job[c].undisturbed => Expected([job[c] EXCEPT !.pc = "hook"], record', refs', lost', stale')
        <4> DEFINE j == [job[c] EXCEPT !.pc = "hook"]
        <4>1. /\ j.pc = "hook" /\ j.op = job[c].op /\ j.old = job[c].old
              /\ j.listing = job[c].listing /\ j.keys = job[c].keys
          BY <1>j DEF Job
        <4> HIDE DEF j
        <4>2. job[c].undisturbed => Expected(j, record', refs', lost', stale')
          BY <1>x, <1>a, <2>1, <2>2, <2>3, <3>1, <4>1 DEF Expected, Found, NothingElse
        <4> QED
          BY <4>2 DEF j
      <3> QED
        BY <2>1, <3>1, <3>2, GoesTo DEF PCs
    <2>4. CASE job[c].pc = "hook" /\ End(c, lost, stale)
      <3>1. Absent \notin Value
        BY PartitionsAssumption
      <3>2. job[c].undisturbed => Found(record', refs', lost) /\ NothingElse(record', refs', stale)
        BY <1>x, <2>1, <2>2, <2>4, <3>1 DEF Expected, Found, NothingElse
      <3> QED
        BY <1>t, <2>1, <2>4, <3>2, Ends
    <2> QED
      BY <1>12, <2>1, <2>3, <2>4 DEF DropReference
  <1>13. ASSUME NEW c \in Client, CallFails(c) PROVE Index'
    <2>1. ~Idle(c) /\ Fault
      BY <1>13 DEF CallFails, Idle
    <2>2. CASE Rest(c)
      BY <2>1, <2>2, NoJobFits, IndexAfterFault DEF Rest
    <2>3. ASSUME NEW pc \in Resumes(job[c]),
                 job' = [job EXCEPT ![c].pc = pc, ![c].undisturbed = FALSE]
          PROVE  Index'
      <3> DEFINE j == [job[c] EXCEPT !.pc = pc, !.undisturbed = FALSE]
      <3>1. j \in Job /\ ~j.undisturbed /\ job' = [job EXCEPT ![c] = j]
        BY <1>j, <2>3 DEF Resumes, Job
      <3> QED
        BY <2>1, <3>1, IndexAfterFault
    <2> QED
      BY <1>13, <2>2, <2>3 DEF CallFails
  <1>14. ASSUME NEW c \in Client, Crash(c) PROVE Index'
    BY <1>14, NoJobFits, IndexAfterFault DEF Crash, Rest
  <1>15. ASSUME NEW c \in Client, NEW p \in Partition, CleanUpFails(c, p) PROVE Index'
    <2> DEFINE j == [job[c] EXCEPT !.listing = @ \ {p}, !.keys[p] = {}, !.undisturbed = FALSE]
    <2>1. ~Idle(c) /\ Fault /\ job' = [job EXCEPT ![c] = IF CleanedUp(j) THEN NoJob ELSE j]
      BY <1>15 DEF CleanUpFails, Idle
    <2>2. j \in Job /\ ~j.undisturbed
      BY <1>j DEF Job
    <2> HIDE DEF j
    <2>3. CASE CleanedUp(j)
      BY <2>1, <2>3, NoJobFits, IndexAfterFault
    <2>4. CASE ~CleanedUp(j)
      BY <2>1, <2>2, <2>4, IndexAfterFault
    <2> QED
      BY <2>3, <2>4
  <1>16. CASE UNCHANGED partitionVars
    BY <1>16 DEF partitionVars, Index, Alone, JobsAsExpected, IndexMatches, Quiet, RecordIsFound,
                 NothingElseIsFound, RecordIsHidden, Idle, Expected, Swept, Cleaner
  <1> QED
    BY <1>1, <1>2, <1>3, <1>4, <1>5, <1>6, <1>7, <1>8, <1>9, <1>10, <1>11, <1>12, <1>13, <1>14, <1>15, <1>16
       DEF PartitionsNext, Step

\* The inductive invariant.
THEOREM IndexInvariance == PartitionsSpec => []IndexInv
  <1>1. PartitionsInit => TypeInv /\ Index
    BY TypeInit, IndexInit
  <1>2. TypeInv /\ Index /\ [PartitionsNext]_partitionVars => (TypeInv /\ Index)'
    BY TypeNext, IndexNext
  <1>3. TypeInv /\ Index => IndexInv
    BY DEF IndexInv, Index
  <1> QED
    BY <1>1, <1>2, <1>3, PTL DEF PartitionsSpec

\* Every variable stays in its type, whatever calls overlap, fail or are cut
\* short: what is read of a record is a field, and what is written of it too.
THEOREM PartitionsTypeInvariant == PartitionsSpec => []PartitionsTypeOK
  <1>1. IndexInv => PartitionsTypeOK
    BY DEF IndexInv, TypeInv
  <1> QED
    BY <1>1, IndexInvariance, PTL

\* When all calls are over, and the work on the references they have started
\* (asyncPartitions), the references are those of the record: a reference may be
\* missing or left over only since a call that overlapped with another or failed,
\* or left over by a replace() that moved the record; after it only until an update
\* has had the record to itself.  But if the name of another partition begins this
\* one's, such an update leaves no reference at all (handleReferenceUpdates).
THEOREM ReferencesMatch == PartitionsSpec => []IndexMatches
  <1>1. IndexInv => IndexMatches
    BY DEF IndexInv
  <1> QED
    BY <1>1, IndexInvariance, PTL
====

---- MODULE ResourcePartitions ----
(***************************************************************************)
(* A record of a resource with a partition (core/resource-persistence.ts,  *)
(* core/resource-partitions.ts).                                           *)
(*                                                                         *)
(* Beside the record there is an empty object for the partition it is in,  *)
(* a reference; a query by partition lists these.  No storage call writes  *)
(* both, so every call that changes the record goes on to change its       *)
(* references, one storage call after the other.  With asyncPartitions     *)
(* (the default) it has returned by then, and the work on the references   *)
(* goes on beside its caller's next call; otherwise only calls of several  *)
(* callers overlap.  A client stands for one call with the work it starts. *)
(*                                                                         *)
(* Several partitions of a resource are handled alike and beside one       *)
(* another.  Two things of the others matter to this one: their failing    *)
(* skips its clean-up, which is one of the faults; and the clean-up of one *)
(* whose name this one's begins with (byStatus and byStatusAndCountry, the *)
(* names of docs/core/partitions.md) takes this one's references for its   *)
(* own, because it lists them by a prefix that ends with the name.         *)
(***************************************************************************)
EXTENDS Naturals, FiniteSets

CONSTANTS
  Client,
  Value,      \* values of the partition's field, each with a reference of its own
  None,       \* the record has no such field, and no reference
  Keep,       \* an update does not mention the field
  Absent,     \* there is no record
  This,       \* the partition that is followed, ...
  Other,      \* ... and others of its resource
  MaxFaults   \* failing calls, lost responses and crashes

ASSUME PartitionsAssumption ==
  /\ None \notin Value /\ Absent \notin Value \cup {None} /\ Keep \notin Value \cup {None, Absent}
  /\ This \notin Other
  /\ MaxFaults \in Nat

VARIABLES
  prefixes,  \* the others whose name this one's begins with; it never changes
  record,    \* the record's field, or Absent
  refs,      \* the references of the record's id in this partition
  job        \* what each client is doing (see Job)

\* History.
VARIABLES
  faults,
  lost,      \* is the reference to the record missing: "no", "perhaps", "yes"?
  stale      \* may there be other references?

partitionVars == <<prefixes, record, refs, job, faults, lost, stale>>

Partition == Other \cup {This}
Field == Value \cup {None}
Operation == {"insert", "upsert", "update", "patch", "conditional", "replace", "delete"}

(***************************************************************************)
(* A call: the next storage call, the field as it was read and as it is to *)
(* be written; the partitions whose clean-up has its listing to do, and    *)
(* what each has found stale and not deleted; and, of history, whether it  *)
(* has overlapped with none and nothing has failed in it.                  *)
(***************************************************************************)
Job == [pc : {"idle", "insert", "get", "put", "unref", "ref", "clean", "create", "remove", "drop", "hook"},
        op : Operation, old : Field, new : Field \cup {Keep},
        listing : SUBSET Partition, keys : [Partition -> SUBSET Value], undisturbed : BOOLEAN]

NoKeys == [p \in Partition |-> {}]

NoJob == [pc |-> "idle", op |-> "insert", old |-> None, new |-> None,
          listing |-> {}, keys |-> NoKeys, undisturbed |-> TRUE]

Idle(c) == job[c].pc = "idle"
Goto(c, pc) == job' = [job EXCEPT ![c].pc = pc]
Rest(c) == job' = [job EXCEPT ![c] = NoJob]

\* The call is over, and the history is as it says; but after a call that was
\* disturbed nothing is known.
End(c, missing, others) ==
  /\ Rest(c)
  /\ lost' = IF job[c].undisturbed THEN missing ELSE "perhaps"
  /\ stale' = (others \/ ~job[c].undisturbed)

Continues(c, pc) == Goto(c, pc) /\ UNCHANGED <<lost, stale>>

----------------------------------------------------------------------------
\* What the next storage call of a job does to the record and its references.

\* patch() copies the object onto itself, and If-Match needs an object.
Needed(j) == j.op \in {"patch", "conditional"} => record # Absent

Written(j) ==
  IF (j.pc = "insert" /\ record = Absent) \/ (j.pc = "put" /\ Needed(j)) THEN j.new
  ELSE IF j.pc = "remove" THEN Absent ELSE record

Referenced(j) ==
  CASE j.pc = "unref" \/ (j.pc \in {"drop", "hook"} /\ j.op = "delete") -> refs \ {j.old}
    [] j.pc \in {"ref", "create"} \/ (j.pc = "hook" /\ j.op # "delete") -> refs \cup {j.new}
    [] OTHER -> refs

Storage(c) == record' = Written(job[c]) /\ refs' = Referenced(job[c])

----------------------------------------------------------------------------
Fields(op) == IF op = "delete" THEN {None} ELSE IF op \in {"update", "patch", "conditional"} THEN Field \cup {Keep} ELSE Field

FirstCall(op) == IF op \in {"insert", "upsert"} THEN "insert" ELSE IF op = "replace" THEN "put" ELSE "get"

Begin(c, op) ==
  /\ Idle(c)
  /\ \E new \in Fields(op) :
       LET j == [NoJob EXCEPT !.pc = FirstCall(op), !.op = op, !.new = new,
                              !.listing = prefixes \cup {This}, !.undisturbed = \A d \in Client : Idle(d)]
       IN job' = [d \in Client |-> IF d = c THEN j ELSE [job[d] EXCEPT !.undisturbed = @ /\ Idle(d)]]
  /\ UNCHANGED <<record, refs, faults, lost, stale>>

\* insert() puts with If-None-Match; upsert() turns to update() if there is a record.
Insert(c) ==
  /\ job[c].pc = "insert"
  /\ Storage(c)
  /\ \/ record = Absent /\ job[c].new # None /\ Continues(c, "create")
     \/ record = Absent /\ job[c].new = None /\ End(c, "no", stale)
     \/ record # Absent /\ job[c].op = "insert" /\ End(c, lost, stale)
     \/ /\ record # Absent /\ job[c].op = "upsert"
        /\ job' = [job EXCEPT ![c].pc = "get", ![c].op = "update"]
        /\ UNCHANGED <<lost, stale>>
  /\ UNCHANGED faults

\* createReferences(), by insert() and again by the hook of setupHooks(), which
\* insert() does not recognise.
CreateReference(c) ==
  /\ Storage(c)
  /\ \/ job[c].pc = "create" /\ Continues(c, "hook")
     \/ job[c].pc = "hook" /\ job[c].op # "delete" /\ End(c, "no", stale)
  /\ UNCHANGED faults

\* Mutant of GetRecord: update() goes on without a record.
GetRecordOrNot(c) ==
  /\ job[c].pc = "get"
  /\ job' = [job EXCEPT ![c].pc = IF job[c].op = "delete" THEN "remove" ELSE "put", ![c].old = record]
  /\ UNCHANGED <<record, refs, faults, lost, stale>>

\* update(), patch() and updateConditional() fail without a record, delete() goes on.
GetRecord(c) ==
  /\ job[c].pc = "get"
  /\ \/ /\ job[c].op = "delete"
        /\ job' = [job EXCEPT ![c].pc = "remove", ![c].old = IF record = Absent THEN None ELSE record]
        /\ UNCHANGED <<lost, stale>>
     \/ /\ job[c].op # "delete" /\ record # Absent
        /\ job' = [job EXCEPT ![c].pc = "put", ![c].old = record, ![c].new = IF @ = Keep THEN record ELSE @]
        /\ UNCHANGED <<lost, stale>>
     \/ job[c].op # "delete" /\ record = Absent /\ End(c, lost, stale)
  /\ UNCHANGED <<record, refs, faults>>

\* handleReferenceUpdate() removes the old reference before it puts the new one.
Moving(j) == IF j.old \notin {None, j.new} THEN "unref" ELSE IF j.new # None THEN "ref" ELSE "clean"

\* A PUT without a condition, but for patch() and updateConditional(), which may
\* find another version.  handleReferenceUpdates() is told the old and the new
\* data, and not which call it works for.
PutRecord(c) ==
  /\ job[c].pc = "put" /\ job[c].op # "replace"
  /\ \/ /\ Storage(c) /\ Needed(job[c])
        /\ job' = [job EXCEPT ![c].pc = Moving(job[c]), ![c].op = "update"]
        /\ UNCHANGED <<lost, stale>>
     \/ /\ job[c].op = "conditional" \/ ~Needed(job[c])
        /\ End(c, lost, stale)
        /\ UNCHANGED <<record, refs>>
  /\ UNCHANGED faults

\* replace() does not read what it replaces, and leaves its reference behind.
ReplaceRecord(c) ==
  /\ job[c].pc = "put" /\ job[c].op = "replace"
  /\ Storage(c)
  /\ LET others == stale \/ record \in Value \ {job[c].new}
     IN IF job[c].new = None THEN End(c, "no", others) ELSE Goto(c, "ref") /\ UNCHANGED lost /\ stale' = others
  /\ UNCHANGED faults

RemoveOldReference(c) ==
  /\ job[c].pc = "unref"
  /\ Storage(c)
  /\ Continues(c, IF job[c].new = None THEN "clean" ELSE "ref")
  /\ UNCHANGED faults

\* replace() passes no old data and is taken for an insert: nothing is cleaned up.
PutReference(c) ==
  /\ job[c].pc = "ref"
  /\ Storage(c)
  /\ IF job[c].op = "replace" THEN End(c, "no", stale) ELSE Continues(c, "clean")
  /\ UNCHANGED faults

\* Mutant of StaleKeys: nothing is spared.
AllKeys(j, p) == refs

\* Each clean-up spares the key that its own partition has for the record, and
\* among the references of this partition only its own clean-up has one.
StaleKeys(j, p) == IF p = This THEN refs \ {j.new} ELSE refs

CleanedUp(j) == j.listing = {} /\ j.keys = NoKeys

\* An update ends when all the clean-ups do.
Cleaning(c, j) ==
  IF CleanedUp(j) THEN End(c, IF prefixes = {} THEN "no" ELSE "yes", FALSE)
  ELSE job' = [job EXCEPT ![c] = j] /\ UNCHANGED <<lost, stale>>

\* When all partitions have moved their references, handleReferenceUpdates()
\* lists, for each, the keys that begin with its name ...
ListReferences(c, p) ==
  /\ job[c].pc = "clean" /\ p \in job[c].listing
  /\ Cleaning(c, [job[c] EXCEPT !.listing = @ \ {p}, !.keys[p] = StaleKeys(job[c], p)])
  /\ UNCHANGED <<record, refs, faults>>

\* ... and deletes those of the record that the partition's own key is not.
CleanUp(c, p) ==
  /\ job[c].pc = "clean" /\ job[c].keys[p] # {}
  /\ refs' = refs \ job[c].keys[p]
  /\ Cleaning(c, [job[c] EXCEPT !.keys[p] = {}])
  /\ UNCHANGED <<record, faults>>

RemoveRecord(c) ==
  /\ job[c].pc = "remove"
  /\ Storage(c)
  /\ IF job[c].old = None THEN End(c, lost, stale) ELSE Continues(c, "drop")
  /\ UNCHANGED faults

\* deleteReferences(), by delete() and again by the hook.
DropReference(c) ==
  /\ Storage(c)
  /\ \/ job[c].pc = "drop" /\ Continues(c, "hook")
     \/ job[c].pc = "hook" /\ job[c].op = "delete" /\ End(c, lost, stale)
  /\ UNCHANGED faults

----------------------------------------------------------------------------
Fault == faults < MaxFaults /\ faults' = faults + 1 /\ lost' = "perhaps" /\ stale' = TRUE

(***************************************************************************)
(* A storage call fails, or only its response is lost.  delete() goes on   *)
(* when it could not read the record, and also when it could not delete    *)
(* it; createReferences() and the hooks go on; the others give up.         *)
(***************************************************************************)
Resumes(j) ==
  CASE j.pc = "get" /\ j.op = "delete" -> {"remove"}
    [] j.pc = "remove" /\ j.old # None -> {"drop"}
    [] j.pc = "create" -> {"hook"}
    [] j.pc = "drop" -> {"hook", "idle"}
    [] OTHER -> {"idle"}

CallFails(c) ==
  /\ job[c].pc \notin {"idle", "clean"} /\ Fault
  /\ Storage(c) \/ UNCHANGED <<record, refs>>
  /\ \E pc \in Resumes(job[c]) :
       IF pc = "idle" THEN Rest(c) ELSE job' = [job EXCEPT ![c].pc = pc, ![c].undisturbed = FALSE]

\* One partition's clean-up fails, having deleted all, some or none; the others go on.
CleanUpFails(c, p) ==
  /\ job[c].pc = "clean" /\ Fault
  /\ p \in job[c].listing \/ job[c].keys[p] # {}
  /\ \E deleted \in SUBSET job[c].keys[p] : refs' = refs \ deleted
  /\ LET j == [job[c] EXCEPT !.listing = @ \ {p}, !.keys[p] = {}, !.undisturbed = FALSE]
     IN job' = [job EXCEPT ![c] = IF CleanedUp(j) THEN NoJob ELSE j]
  /\ UNCHANGED record

Crash(c) ==
  /\ ~Idle(c) /\ Fault
  /\ Rest(c)
  /\ UNCHANGED <<record, refs>>

PartitionsInit ==
  /\ prefixes \in SUBSET Other
  /\ record = Absent /\ refs = {}
  /\ job = [c \in Client |-> NoJob]
  /\ faults = 0 /\ lost = "no" /\ stale = FALSE

Step(c) ==
  \/ Insert(c) \/ CreateReference(c) \/ GetRecord(c) \/ PutRecord(c) \/ ReplaceRecord(c) \/ RemoveOldReference(c)
  \/ PutReference(c) \/ (\E p \in Partition : ListReferences(c, p) \/ CleanUp(c, p)) \/ RemoveRecord(c) \/ DropReference(c)

PartitionsNext ==
  /\ \E c \in Client :
       \/ \E op \in Operation : Begin(c, op)
       \/ Step(c)
       \/ CallFails(c)
       \/ \E p \in Partition : CleanUpFails(c, p)
       \/ Crash(c)
  /\ UNCHANGED prefixes

PartitionsSpec == PartitionsInit /\ [][PartitionsNext]_partitionVars

----------------------------------------------------------------------------
(* Every variable stays in its type; above all only what was read of a     *)
(* record is used as its old field, and what is written is one.            *)
PartitionsTypeOK ==
  /\ prefixes \subseteq Other
  /\ record \in Field \cup {Absent}
  /\ refs \subseteq Value
  /\ job \in [Client -> Job]
  /\ faults \in 0 .. MaxFaults
  /\ lost \in {"no", "perhaps", "yes"} /\ stale \in BOOLEAN

Quiet == \A c \in Client : Idle(c)

\* The record is found in the partition it is in, ...
RecordIsFound == lost = "no" /\ record \in Value => record \in refs

\* ... and in no other.
NothingElseIsFound == ~stale => refs \subseteq {record}

\* The clean-up of a shorter name has taken the reference away.
RecordIsHidden == lost = "yes" => refs = {}

(***************************************************************************)
(* When all calls are over, and what they have started, the references are *)
(* those of the record (handleReferenceUpdates).  A call that fails or     *)
(* overlaps with another may leave a record that is not found, or one that *)
(* is found where it is not, and a replace() that moves the record leaves  *)
(* its old reference.  One update that has the record to itself removes    *)
(* all the others, and sees to it that the record is found if this         *)
(* partition's name begins with no other's; if it does, the update leaves  *)
(* no reference at all, until an insert or a replace() puts one.           *)
(***************************************************************************)
IndexMatches == Quiet => RecordIsFound /\ NothingElseIsFound /\ RecordIsHidden
====

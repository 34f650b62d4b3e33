---- MODULE EventualConsistency_proofs ----
(***************************************************************************)
(* Proofs about EventualConsistency for any number of clients, tickets,    *)
(* transactions, retries and faults, and for any timestamps.               *)
(***************************************************************************)
EXTENDS EventualConsistency, TLAPS

----------------------------------------------------------------------------
(* Values, tickets and jobs stay in their types.                           *)

\* What the fields of a job are at each of its calls.
WellFormed(j) ==
  /\ j.pc = "idle" => j = NoJob
  /\ j.pc \in {"idle", "check", "scan", "end"} => j.txns = {} /\ j.todo = {} /\ j.base = None
  /\ j.pc = "read" => j.todo = {} /\ j.base = None /\ ~(j.way = "lock" /\ Sets(j.txns) # {})
  /\ j.pc = "write" => j.todo = {}
  /\ j.pc = "mark" => j.txns = {} /\ j.base = None /\ j.way # "recalculate"
  /\ j.way = "recalculate" => j.base = None /\ j.pc \notin {"idle", "check", "scan", "read"}
  /\ j.way = "ticket" => j.ticket \in Ticket /\ j.pc # "idle"
  /\ j.pc = "check" => j.way = "ticket"

Jobs == {j \in Job : WellFormed(j)}

JobsInv == job \in [Client -> Jobs]

LEMMA NoJobIsAJob == NoJob \in Jobs
  BY DEF NoJob, Jobs, Job, Way, Value, WellFormed

LEMMA EndingIsAJob ==
  ASSUME NEW j \in Jobs, j.pc # "idle", NEW failed \in BOOLEAN
  PROVE  Ending(j, failed) \in Jobs
  BY DEF NoJob, Jobs, Job, Way, Value, WellFormed, Ending

LEMMA PlusIsAValue ==
  ASSUME NEW value \in Value, NEW S
  PROVE  Plus(value, S) \in Value
  BY DEF Plus, Value

LEMMA BaseIsAValue ==
  ASSUME NEW j \in Jobs
  PROVE  Base(j) \in Value
  <1>1. Initial \in Value
    BY DEF Initial, Value
  <1> QED
    BY <1>1 DEF Base, Jobs, Job

LEMMA NewValuesAreValues ==
  ASSUME NEW j \in Jobs
  PROVE  NewValues(j) \subseteq Value
  BY BaseIsAValue, PlusIsAValue DEF NewValues

LEMMA TicketsAreTyped ==
  /\ NoTicket \in TicketState /\ NewTicket \in TicketState
  /\ \A ticket \in TicketState : Retried(ticket) \in TicketState
  <1>1. NoTicket \in TicketState /\ NewTicket \in TicketState
    <2>1. 0 \in 0 .. Retries
      BY ConsistencyAssumption
    <2>2. NoTicket \in TicketState
      BY <2>1 DEF NoTicket, TicketState
    <2> QED
      BY <2>2 DEF NewTicket, TicketState
  <1>2. ASSUME NEW ticket \in TicketState PROVE Retried(ticket) \in TicketState
    <2>1. CASE ticket.tries < Retries
      <3>1. ticket.tries + 1 \in 0 .. Retries
        BY <2>1, ConsistencyAssumption DEF TicketState
      <3> QED
        BY <1>1, <2>1, <3>1 DEF Retried, NewTicket, NoTicket, TicketState
    <2>2. CASE ~(ticket.tries < Retries)
      BY <1>1, <2>2 DEF Retried
    <2> QED
      BY <2>1, <2>2
  <1> QED
    BY <1>1, <1>2

\* One client's job changes.
Becomes(w, j) == job' = [job EXCEPT ![w] = j]

LEMMA JobChanges ==
  ASSUME JobsInv, NEW w \in Client, NEW j \in Jobs, Becomes(w, j)
  PROVE  JobsInv' /\ job'[w] = j /\ \A v \in Client \ {w} : job'[v] = job[v]
  BY DEF JobsInv, Becomes

LEMMA JobChangesTo ==
  ASSUME JobsInv, NEW w \in Client, \E j \in Jobs : Becomes(w, j)
  PROVE  JobsInv' /\ \A v \in Client \ {w} : job'[v] = job[v]
  BY JobChanges

LEMMA FailChanges ==
  ASSUME JobsInv, NEW w \in Client, job[w].pc # "idle", Fail(w)
  PROVE  Becomes(w, Ending(job[w], TRUE)) /\ Ending(job[w], TRUE) \in Jobs
  BY EndingIsAJob DEF JobsInv, Fail, Becomes

----------------------------------------------------------------------------
(* Every step leaves well-formed jobs.                                     *)

LEMMA ScanJobs ==
  ASSUME JobsInv, NEW w \in Client, Scan(w)
  PROVE  \E j \in Jobs : Becomes(w, j) /\ j.todo = {} /\ j.base = None /\ j.way = job[w].way /\ j.ticket = job[w].ticket
  <1>1. job[w] \in Jobs /\ job[w].pc = "scan" /\ job[w].way # "recalculate"
    BY DEF JobsInv, Jobs, WellFormed, Scan
  <1>2. PICK S \in SUBSET Pending :
          IF S = {} THEN Goto(w, "end")
          ELSE job' = [job EXCEPT ![w].txns = S, ![w].pc =
                         IF job[w].way = "lock" /\ Sets(S) # {} THEN "write" ELSE "read"]
    BY DEF Scan
  <1>3. S \subseteq Txn
    BY DEF Pending
  <1>4. CASE S = {}
    <2> DEFINE j == [job[w] EXCEPT !.pc = "end"]
    <2>1. j \in Jobs /\ j.todo = {} /\ j.base = None /\ j.way = job[w].way /\ j.ticket = job[w].ticket
      BY <1>1 DEF Jobs, Job, WellFormed
    <2>2. Becomes(w, j)
      BY <1>2, <1>4 DEF Becomes, Goto
    <2> QED
      BY <2>1, <2>2
  <1>5. CASE S # {}
    <2> DEFINE j == [job[w] EXCEPT !.txns = S, !.pc = IF job[w].way = "lock" /\ Sets(S) # {} THEN "write" ELSE "read"]
    <2>1. j \in Job
      BY <1>1, <1>3 DEF Jobs, Job, Working
    <2>2. j.todo = {} /\ j.base = None /\ j.way = job[w].way /\ j.ticket = job[w].ticket /\ j.txns = S
      BY <1>1 DEF Jobs, Job, WellFormed
    <2>3. j.pc = IF j.way = "lock" /\ Sets(j.txns) # {} THEN "write" ELSE "read"
      BY <1>1, <2>2 DEF Jobs, Job
    <2>4. WellFormed(j)
      BY <1>1, <2>2, <2>3 DEF WellFormed, Jobs
    <2>5. Becomes(w, j)
      BY <1>2, <1>5 DEF Becomes
    <2> QED
      BY <2>1, <2>2, <2>4, <2>5 DEF Jobs
  <1> QED
    BY <1>4, <1>5

LEMMA ReadJobs ==
  ASSUME ConsistencyTypeOK, JobsInv, NEW w \in Client, ReadRecord(w)
  PROVE  \E j \in Jobs : /\ Becomes(w, j) /\ j.todo = {} /\ j.way = job[w].way /\ j.ticket = job[w].ticket
                        /\ \/ j.txns = {} /\ j.base = None /\ j.pc = "end"
                           \/ j.txns = job[w].txns /\ j.base \in {record, None} /\ j.pc = "write"
  <1>1. job[w] \in Jobs /\ job[w].pc = "read" /\ job[w].way # "recalculate" /\ job[w].todo = {} /\ job[w].base = None
    BY DEF JobsInv, Jobs, WellFormed, ReadRecord
  <1>2. record \in Value \cup {None}
    BY DEF ConsistencyTypeOK
  <1>3. CASE Fail(w)
    <2>1. Becomes(w, Ending(job[w], TRUE)) /\ Ending(job[w], TRUE) \in Jobs
      BY <1>1, <1>3, FailChanges
    <2> QED
      BY <2>1 DEF Ending, NoJob
  <1>4. ASSUME NEW b \in {record, None}, job' = [job EXCEPT ![w].pc = "write", ![w].base = b]
        PROVE  \E j \in Jobs : /\ Becomes(w, j) /\ j.todo = {} /\ j.way = job[w].way /\ j.ticket = job[w].ticket
                              /\ j.txns = job[w].txns /\ j.base \in {record, None} /\ j.pc = "write"
    <2> DEFINE j == [job[w] EXCEPT !.pc = "write", !.base = b]
    <2>1. j \in Job
      BY <1>1, <1>2, <1>4 DEF Jobs, Job, Working
    <2>2. /\ j.todo = {} /\ j.way = job[w].way /\ j.ticket = job[w].ticket
          /\ j.txns = job[w].txns /\ j.base = b /\ j.pc = "write"
      BY <1>1 DEF Jobs, Job
    <2>3. WellFormed(j)
      BY <1>1, <2>2 DEF WellFormed, Jobs
    <2>4. Becomes(w, j)
      BY <1>4 DEF Becomes
    <2> QED
      BY <2>1, <2>2, <2>3, <2>4 DEF Jobs
  <1>5. Goto(w, "write") => job' = [job EXCEPT ![w].pc = "write", ![w].base = None]
    <2>1. [job[w] EXCEPT !.pc = "write", !.base = None] = [job[w] EXCEPT !.pc = "write"]
      BY <1>1 DEF Jobs, Job
    <2> QED
      BY <2>1, <1>1 DEF Goto, JobsInv
  <1>6. \/ Fail(w) \/ Goto(w, "write")
        \/ job' = [job EXCEPT ![w].pc = "write", ![w].base = record]
    BY DEF ReadRecord
  <1> QED
    BY <1>3, <1>4, <1>5, <1>6

\* The same lock or ticket as before, nothing left to be written.
Follows(w, j) ==
  Becomes(w, j) /\ j.way = job[w].way /\ j.ticket = job[w].ticket /\ j.txns = {} /\ j.base = None

Stored(w) == Writable(job[w]) /\ record' \in NewValues(job[w])

LEMMA WriteJobs ==
  ASSUME JobsInv, NEW w \in Client, WriteRecord(w)
  PROVE  \E j \in Jobs :
           /\ Follows(w, j)
           /\ \/ j.pc = "end" /\ j.todo = {} /\ UNCHANGED <<record, doubtful>>
              \/ j.pc = "end" /\ j.todo = {} /\ Stored(w) /\ doubtful' = doubtful \cup (job[w].txns \cap Pending)
              \/ /\ j.pc = "mark" /\ j.todo = job[w].txns /\ Stored(w) /\ UNCHANGED doubtful
                 /\ job[w].way # "recalculate"
  <1> DEFINE old == job[w]
  <1>1. old \in Jobs /\ old.pc = "write" /\ old.todo = {}
    BY DEF JobsInv, Jobs, WellFormed, WriteRecord
  <1>2. \A failed \in BOOLEAN :
          /\ Ending(old, failed) \in Jobs
          /\ Ending(old, failed).pc = "end" /\ Ending(old, failed).todo = {}
          /\ Becomes(w, Ending(old, failed)) => Follows(w, Ending(old, failed))
    BY <1>1, EndingIsAJob DEF Ending, NoJob, Follows
  <1>3. CASE Fail(w) /\ UNCHANGED <<record, doubtful>>
    BY <1>2, <1>3 DEF Fail, Becomes
  <1>4. CASE Fail(w) /\ Stored(w) /\ doubtful' = doubtful \cup (old.txns \cap Pending)
    BY <1>2, <1>4 DEF Fail, Becomes
  <1>5. CASE /\ Stored(w) /\ job' = [job EXCEPT ![w] = AfterWrite(old)]
             /\ doubtful' = IF old.way = "recalculate" THEN doubtful \cup (old.txns \cap Pending) ELSE doubtful
    <2>1. CASE old.way = "recalculate"
      <3>1. Becomes(w, Ending(old, FALSE))
        BY <1>5, <2>1 DEF AfterWrite, Becomes
      <3> QED
        BY <1>2, <1>5, <2>1, <3>1
    <2>2. CASE old.way # "recalculate"
      <3> DEFINE j == [old EXCEPT !.pc = "mark", !.todo = old.txns, !.txns = {}, !.base = None]
      <3>1. j \in Job
        BY <1>1 DEF Jobs, Job, Working
      <3>2. /\ j.pc = "mark" /\ j.todo = old.txns /\ j.way = old.way /\ j.ticket = old.ticket
            /\ j.txns = {} /\ j.base = None
        BY <1>1 DEF Jobs, Job
      <3>3. WellFormed(j)
        BY <1>1, <2>2, <3>2 DEF WellFormed, Jobs
      <3>4. Becomes(w, j)
        BY <1>5, <2>2 DEF AfterWrite, Becomes
      <3> QED
        BY <1>5, <2>2, <3>1, <3>2, <3>3, <3>4 DEF Jobs, Follows
    <2> QED
      BY <2>1, <2>2
  <1> QED
    BY <1>3, <1>4, <1>5 DEF WriteRecord, Stored

LEMMA MarkJobs ==
  ASSUME JobsInv, NEW w \in Client, MarkApplied(w)
  PROVE  \E t \in job[w].todo : \E j \in Jobs :
           /\ Follows(w, j) /\ j.pc \in {"mark", "end"} /\ j.todo = job[w].todo \ {t}
           /\ \/ tx' = [tx EXCEPT ![t] = "applied"] /\ UNCHANGED doubtful
              \/ tx[t] = "deleted" /\ UNCHANGED <<tx, doubtful>>
              \/ UNCHANGED tx /\ doubtful' = doubtful \cup {t}
  <1> DEFINE old == job[w]
  <1>1. old \in Jobs /\ old.pc = "mark" /\ old.way # "recalculate" /\ old.txns = {} /\ old.base = None
    BY DEF JobsInv, Jobs, WellFormed, MarkApplied
  <1> DEFINE Marked(t, failed) ==
        job' = [job EXCEPT ![w] = IF old.todo \ {t} = {} THEN Ending(old, old.failed \/ failed)
                                  ELSE [old EXCEPT !.todo = old.todo \ {t}, !.failed = old.failed \/ failed]]
  <1>2. PICK t \in old.todo, failed \in BOOLEAN :
          /\ Marked(t, failed)
          /\ \/ tx' = [tx EXCEPT ![t] = "applied"] /\ UNCHANGED doubtful
             \/ tx[t] = "deleted" /\ UNCHANGED <<tx, doubtful>>
             \/ UNCHANGED tx /\ doubtful' = doubtful \cup {t}
    BY DEF MarkApplied
  <1>3. old.failed \in BOOLEAN
    BY <1>1 DEF Jobs, Job
  <1>4. CASE old.todo \ {t} = {}
    <2> DEFINE j == Ending(old, old.failed \/ failed)
    <2>1. (old.failed \/ failed) \in BOOLEAN
      OBVIOUS
    <2>2. j \in Jobs
      BY <1>1, <2>1, EndingIsAJob
    <2>3. Becomes(w, j)
      BY <1>2, <1>4 DEF Becomes, JobsInv
    <2>4. j.pc = "end" /\ j.todo = {} /\ j.way = old.way /\ j.ticket = old.ticket /\ j.txns = {} /\ j.base = None
      BY DEF Ending, NoJob
    <2> QED
      BY <1>2, <1>4, <2>2, <2>3, <2>4 DEF Follows
  <1>5. CASE old.todo \ {t} # {}
    <2> DEFINE j == [old EXCEPT !.todo = old.todo \ {t}, !.failed = old.failed \/ failed]
    <2>1. j \in Job
      BY <1>1 DEF Jobs, Job
    <2>2. /\ j.pc = "mark" /\ j.todo = old.todo \ {t} /\ j.way = old.way /\ j.ticket = old.ticket
          /\ j.txns = {} /\ j.base = None
      BY <1>1 DEF Jobs, Job
    <2>3. WellFormed(j)
      BY <1>1, <2>2 DEF WellFormed, Jobs
    <2>4. Becomes(w, j)
      BY <1>2, <1>5 DEF Becomes, JobsInv
    <2> QED
      BY <1>2, <2>1, <2>2, <2>3, <2>4 DEF Jobs, Follows
  <1> QED
    BY <1>4, <1>5

LEMMA RecalculateJobs ==
  ASSUME JobsInv, NEW w \in Client, Recalculate(w)
  PROVE  \E j \in Jobs : /\ Becomes(w, j) /\ j.pc = "write" /\ j.way = "recalculate" /\ j.todo = {} /\ j.base = None
                        /\ j.txns = {t \in Txn : tx[t] \in {"pending", "applied"}}
  <1> DEFINE S == {t \in Txn : tx[t] \in {"pending", "applied"}}
             j == [NoJob EXCEPT !.pc = "write", !.way = "recalculate", !.txns = S]
  <1>1. /\ j.pc = "write" /\ j.way = "recalculate" /\ j.todo = {} /\ j.base = None /\ j.txns = S
    BY DEF NoJob
  <1>2. j \in Jobs
    BY DEF NoJob, Jobs, Job, Way, Working, WellFormed
  <1>3. Becomes(w, j)
    BY DEF Recalculate, Becomes
  <1> QED
    BY <1>1, <1>2, <1>3

----------------------------------------------------------------------------
(* The kinds of steps.                                                     *)

\* A client takes up its work, or lays it down: what was still to be marked
\* stays in doubt.
Turns(w) ==
  /\ \E j \in Jobs : Becomes(w, j) /\ j.pc \in {"idle", "check", "scan", "end"}
  /\ doubtful' \subseteq Txn /\ doubtful \cup job[w].todo \subseteq doubtful'
  /\ UNCHANGED <<tx, record, lossy, reordered>>

\* A step of tickets, leases and locks alone.
Aside == UNCHANGED <<tx, record, job, doubtful, lossy, reordered>>

\* A step of the record and its transactions.
Works(w) == Scan(w) \/ Recalculate(w) \/ ReadRecord(w) \/ WriteRecord(w) \/ MarkApplied(w)

Kinds ==
  \/ \E w \in Client : Works(w) \/ Turns(w)
  \/ \E t \in Txn : Insert(t) \/ CollectGarbage(t)
  \/ Aside

LEMMA RestTurns ==
  ASSUME ConsistencyTypeOK, JobsInv, NEW w \in Client, Rest(w),
         job[w].todo = {}, UNCHANGED <<tx, record, doubtful, lossy, reordered>>
  PROVE  Turns(w)
  <1>1. Becomes(w, NoJob) /\ NoJob \in Jobs /\ NoJob.pc = "idle"
    BY NoJobIsAJob DEF Rest, Becomes, NoJob
  <1> QED
    BY <1>1 DEF Turns, ConsistencyTypeOK

LEMMA GotoScanTurns ==
  ASSUME ConsistencyTypeOK, JobsInv, NEW w \in Client, Goto(w, "scan"),
         job[w] = NoJob \/ job[w].pc = "check", UNCHANGED <<tx, record, doubtful, lossy, reordered>>
  PROVE  Turns(w)
  <1> DEFINE j == [job[w] EXCEPT !.pc = "scan"]
  <1>1. job[w] \in Jobs
    BY DEF JobsInv
  <1>2. job[w].todo = {} /\ job[w].txns = {} /\ job[w].base = None /\ job[w].way # "recalculate"
    BY <1>1 DEF NoJob, Jobs, WellFormed
  <1>3. j \in Job /\ j.pc = "scan" /\ j.todo = {} /\ j.txns = {} /\ j.base = None /\ j.way = job[w].way
        /\ j.ticket = job[w].ticket
    BY <1>1, <1>2 DEF Jobs, Job
  <1>4. WellFormed(j)
    BY <1>1, <1>2, <1>3 DEF WellFormed, Jobs, NoJob
  <1>5. Becomes(w, j)
    BY DEF Goto, Becomes
  <1> QED
    BY <1>2, <1>3, <1>4, <1>5 DEF Turns, Jobs, ConsistencyTypeOK

LEMMA IdleIsNoJob ==
  ASSUME JobsInv, NEW w \in Client, Idle(w)
  PROVE  job[w] = NoJob
  BY DEF JobsInv, Jobs, WellFormed, Idle

LEMMA StepsHaveKinds ==
  ASSUME ConsistencyTypeOK, JobsInv, [ConsistencyNext]_consistencyVars
  PROVE  Kinds
  <1> USE DEF Kinds
  <1>1. ASSUME NEW w \in Client, StartConsolidation(w) PROVE Turns(w)
    BY <1>1, IdleIsNoJob, GotoScanTurns DEF StartConsolidation
  <1>2. ASSUME NEW w \in Client, NEW k \in Ticket, ClaimTicket(w, k) PROVE Turns(w) \/ Aside
    <2> DEFINE j == [NoJob EXCEPT !.pc = "check", !.way = "ticket", !.ticket = k]
    <2>1. CASE job' = [job EXCEPT ![w] = j]
      <3>1. j \in Jobs /\ j.pc = "check"
        BY DEF NoJob, Jobs, Job, Way, WellFormed
      <3>2. job[w].todo = {}
        BY <1>2, IdleIsNoJob DEF ClaimTicket, NoJob
      <3> QED
        BY <1>2, <2>1, <3>1, <3>2 DEF ClaimTicket, Turns, Becomes, ConsistencyTypeOK
    <2>2. CASE job' = job
      BY <1>2, <2>2 DEF ClaimTicket, Aside
    <2> QED
      BY <1>2, <2>1, <2>2 DEF ClaimTicket
  <1>3. ASSUME NEW w \in Client, CheckTicket(w) PROVE Turns(w)
    <2>1. job[w].todo = {}
      BY <1>3 DEF CheckTicket, JobsInv, Jobs, WellFormed
    <2>2. Goto(w, "scan") \/ Rest(w)
      BY <1>3 DEF CheckTicket
    <2>3. job[w].pc = "check" /\ UNCHANGED <<tx, record, doubtful, lossy, reordered>>
      BY <1>3 DEF CheckTicket
    <2> QED
      BY <2>1, <2>2, <2>3, RestTurns, GotoScanTurns
  <1>4. ASSUME NEW w \in Client, EndConsolidation(w) \/ EndRecalculation(w) \/ EndTicket(w) PROVE Turns(w)
    <2>1. job[w].todo = {}
      BY <1>4 DEF EndConsolidation, EndRecalculation, EndTicket, JobsInv, Jobs, WellFormed
    <2>2. Rest(w) /\ UNCHANGED <<tx, record, doubtful, lossy, reordered>>
      BY <1>4 DEF EndConsolidation, EndRecalculation, EndTicket, pastVars
    <2> QED
      BY <2>1, <2>2, RestTurns
  <1>5. ASSUME NEW w \in Client, Crash(w) PROVE Turns(w)
    <2>1. Becomes(w, NoJob) /\ NoJob \in Jobs /\ NoJob.pc = "idle"
      BY <1>5, NoJobIsAJob DEF Crash, Rest, Becomes, NoJob
    <2>2. job[w].todo \subseteq Txn /\ doubtful \subseteq Txn
      BY DEF ConsistencyTypeOK, Job
    <2> QED
      BY <1>5, <2>1, <2>2 DEF Turns, Crash
  <1>6. ASSUME Coordinate \/ LockLapses \/ UNCHANGED consistencyVars PROVE Aside
    BY <1>6 DEF Coordinate, ListAvailable, ListProcessing, CreateTicket, LockLapses, Aside, consistencyVars,
                workVars, pastVars
  <1>7. ASSUME NEW k \in Ticket, ReclaimTicket(k) \/ LeaseRunsOut(k) \/ TicketExpires(k) PROVE Aside
    BY <1>7 DEF ReclaimTicket, LeaseRunsOut, TicketExpires, Aside
  <1>8. Worker \subseteq Client /\ Caller \subseteq Client
    BY ConsistencyAssumption
  <1> QED
    BY <1>1, <1>2, <1>3, <1>4, <1>5, <1>6, <1>7, <1>8 DEF ConsistencyNext, Work, Works

----------------------------------------------------------------------------
(* Types.                                                                  *)

LEMMA JobsStep ==
  ASSUME ConsistencyTypeOK, JobsInv, [ConsistencyNext]_consistencyVars
  PROVE  JobsInv'
  <1>1. ASSUME NEW w \in Client, Works(w) PROVE JobsInv'
    <2>1. CASE Scan(w)
      BY <2>1, ScanJobs, JobChangesTo
    <2>2. CASE Recalculate(w)
      BY <2>2, RecalculateJobs, JobChangesTo
    <2>3. CASE ReadRecord(w)
      BY <2>3, ReadJobs, JobChangesTo
    <2>4. CASE WriteRecord(w)
      BY <2>4, WriteJobs, JobChangesTo DEF Follows
    <2>5. CASE MarkApplied(w)
      BY <2>5, MarkJobs, JobChangesTo DEF Follows
    <2> QED
      BY <1>1, <2>1, <2>2, <2>3, <2>4, <2>5 DEF Works
  <1>2. ASSUME NEW w \in Client, Turns(w) PROVE JobsInv'
    BY <1>2, JobChangesTo DEF Turns
  <1>3. ASSUME NEW t \in Txn, Insert(t) \/ CollectGarbage(t) PROVE JobsInv'
    BY <1>3 DEF Insert, CollectGarbage, JobsInv
  <1>4. CASE Aside
    BY <1>4 DEF Aside, JobsInv
  <1> QED
    BY <1>1, <1>2, <1>3, <1>4, StepsHaveKinds DEF Kinds

\* Of what a step does to the record and its transactions.
DataTypes ==
  /\ tx \in [Txn -> {"new", "pending", "applied", "deleted"}]
  /\ record \in Value \cup {None}
  /\ doubtful \subseteq Txn /\ reordered \subseteq Txn
  /\ lossy \in BOOLEAN

LEMMA OverlapIsTyped ==
  ASSUME DataTypes, NEW w \in Client, Overlap(w)
  PROVE  doubtful' \subseteq Txn /\ lossy' \in BOOLEAN
  BY DEF DataTypes, Overlap, Pending

LEMMA DataStep ==
  ASSUME ConsistencyTypeOK, JobsInv, [ConsistencyNext]_consistencyVars
  PROVE  DataTypes'
  <1>0. DataTypes
    BY DEF ConsistencyTypeOK, DataTypes
  <1>1. ASSUME NEW w \in Client, Works(w) PROVE DataTypes'
    <2>1. CASE Scan(w)
      <3>1. UNCHANGED <<tx, record>>
        BY <2>1 DEF Scan
      <3>2. reordered' \subseteq Txn
        BY <1>0, <2>1 DEF Scan, DataTypes, Overtaken, Sets, Pending
      <3>3. doubtful' \subseteq Txn /\ lossy' \in BOOLEAN
        BY <1>0, <2>1, OverlapIsTyped DEF Scan, DataTypes
      <3> QED
        BY <1>0, <3>1, <3>2, <3>3 DEF DataTypes
    <2>2. CASE Recalculate(w)
      BY <1>0, <2>2, OverlapIsTyped DEF Recalculate, DataTypes
    <2>3. CASE ReadRecord(w)
      <3>1. UNCHANGED <<tx, record, doubtful, reordered>> /\ lossy' \in BOOLEAN
        BY <1>0, <2>3 DEF ReadRecord, DataTypes
      <3> QED
        BY <1>0, <3>1 DEF DataTypes
    <2>4. CASE WriteRecord(w)
      <3>1. record' = record \/ record' \in NewValues(job[w])
        BY <2>4 DEF WriteRecord
      <3>2. NewValues(job[w]) \subseteq Value
        BY NewValuesAreValues DEF JobsInv
      <3>3. doubtful' \subseteq Txn
        BY <1>0, <2>4, WriteJobs DEF DataTypes, Pending
      <3>4. UNCHANGED <<tx, lossy, reordered>>
        BY <2>4 DEF WriteRecord
      <3> QED
        BY <1>0, <3>1, <3>2, <3>3, <3>4 DEF DataTypes
    <2>5. CASE MarkApplied(w)
      <3>1. job[w].todo \subseteq Txn
        BY DEF JobsInv, Jobs, Job
      <3>2. doubtful' \subseteq Txn /\ tx' \in [Txn -> {"new", "pending", "applied", "deleted"}]
        BY <1>0, <2>5, <3>1, MarkJobs DEF DataTypes
      <3>3. UNCHANGED <<record, lossy, reordered>>
        BY <2>5 DEF MarkApplied
      <3> QED
        BY <1>0, <3>2, <3>3 DEF DataTypes
    <2> QED
      BY <1>1, <2>1, <2>2, <2>3, <2>4, <2>5 DEF Works
  <1>2. ASSUME NEW w \in Client, Turns(w) PROVE DataTypes'
    BY <1>0, <1>2 DEF Turns, DataTypes
  <1>3. ASSUME NEW t \in Txn, Insert(t) \/ CollectGarbage(t) PROVE DataTypes'
    <2>1. CASE Insert(t)
      <3>1. tx' \in [Txn -> {"new", "pending", "applied", "deleted"}]
        BY <1>0, <2>1 DEF Insert, DataTypes
      <3>2. reordered' \subseteq Txn
        BY <1>0, <2>1 DEF Insert, DataTypes, Overtaken, Sets
      <3> QED
        BY <1>0, <2>1, <3>1, <3>2 DEF Insert, DataTypes
    <2>2. CASE CollectGarbage(t)
      BY <1>0, <2>2 DEF CollectGarbage, DataTypes, pastVars
    <2> QED
      BY <1>3, <2>1, <2>2
  <1>4. CASE Aside
    BY <1>0, <1>4 DEF Aside, DataTypes
  <1> QED
    BY <1>1, <1>2, <1>3, <1>4, StepsHaveKinds DEF Kinds

LEMMA LockStep ==
  ASSUME ConsistencyTypeOK, [ConsistencyNext]_consistencyVars
  PROVE  holders' \subseteq Client /\ lapsed' \in BOOLEAN
  <1>1. CASE UNCHANGED <<holders, lapsed>>
    BY <1>1 DEF ConsistencyTypeOK
  <1>2. ASSUME NEW w \in Client, Enter(w) \/ EnterLate(w) \/ Leave(w) PROVE holders' \subseteq Client /\ lapsed' \in BOOLEAN
    BY <1>2 DEF ConsistencyTypeOK, Enter, EnterLate, Leave
  <1>3. ASSUME NEW w \in Client, Crash(w) PROVE holders' \subseteq Client /\ lapsed' \in BOOLEAN
    BY <1>3 DEF ConsistencyTypeOK, Crash
  <1>4. ASSUME LockLapses PROVE holders' \subseteq Client /\ lapsed' \in BOOLEAN
    BY <1>4 DEF ConsistencyTypeOK, LockLapses, Lapse
  <1>5. Worker \subseteq Client /\ Caller \subseteq Client
    BY ConsistencyAssumption
  <1>6. ASSUME NEW w \in Client, StartConsolidation(w) PROVE Enter(w) \/ EnterLate(w)
    BY <1>6 DEF StartConsolidation
  <1>7. ASSUME NEW w \in Client, Work(w) PROVE UNCHANGED <<holders, lapsed>> \/ Leave(w)
    BY <1>7 DEF Work, CheckTicket, Scan, ReadRecord, WriteRecord, MarkApplied, EndConsolidation, EndRecalculation, EndTicket
  <1>8. ASSUME Coordinate \/ (\E t \in Txn : Insert(t) \/ CollectGarbage(t)) \/ UNCHANGED consistencyVars
        PROVE  UNCHANGED <<holders, lapsed>>
    BY <1>8 DEF Coordinate, ListAvailable, ListProcessing, CreateTicket, Insert, CollectGarbage, consistencyVars, workVars
  <1>9. ASSUME NEW k \in Ticket, ReclaimTicket(k) \/ LeaseRunsOut(k) \/ TicketExpires(k) \/ \E w \in Client : ClaimTicket(w, k)
        PROVE  UNCHANGED <<holders, lapsed>>
    BY <1>9 DEF ReclaimTicket, LeaseRunsOut, TicketExpires, ClaimTicket
  <1>10. ASSUME NEW w \in Client, Recalculate(w) PROVE UNCHANGED <<holders, lapsed>>
    BY <1>10 DEF Recalculate
  <1> QED
    BY <1>1, <1>2, <1>3, <1>4, <1>5, <1>6, <1>7, <1>8, <1>9, <1>10 DEF ConsistencyNext

\* A ticket that changes keeps its type.
LEMMA TicketChanges ==
  ASSUME ConsistencyTypeOK, NEW k \in Ticket, NEW ticket \in TicketState, tickets' = [tickets EXCEPT ![k] = ticket]
  PROVE  tickets' \in [Ticket -> TicketState]
  BY DEF ConsistencyTypeOK

LEMMA TicketStep ==
  ASSUME ConsistencyTypeOK, JobsInv, [ConsistencyNext]_consistencyVars
  PROVE  tickets' \in [Ticket -> TicketState]
  <1>1. CASE UNCHANGED tickets
    BY <1>1 DEF ConsistencyTypeOK
  <1>2. ASSUME NEW w \in Worker, NEW k \in Ticket, ClaimTicket(w, k) PROVE tickets' \in [Ticket -> TicketState]
    <2>0. tickets[k] \in TicketState /\ w \in Client
      BY ConsistencyAssumption DEF ConsistencyTypeOK
    <2>1. [tickets[k] EXCEPT !.status = "processing", !.by = w, !.over = FALSE] \in TicketState
      BY <2>0 DEF TicketState
    <2>2. tickets' = [tickets EXCEPT ![k] = [tickets[k] EXCEPT !.status = "processing", !.by = w, !.over = FALSE]]
      BY <1>2 DEF ClaimTicket, ConsistencyTypeOK
    <2> QED
      BY <2>1, <2>2, TicketChanges
  <1>3. ASSUME NEW w \in Client, EndTicket(w) PROVE tickets' \in [Ticket -> TicketState]
    <2> DEFINE k == job[w].ticket
    <2>1. k \in Ticket
      <3>1. job[w].way = "ticket"
        BY <1>3 DEF EndTicket
      <3>2. job[w] \in Jobs
        BY DEF JobsInv
      <3> QED
        BY <3>1, <3>2 DEF Jobs, WellFormed
    <2>2. [tickets[k] EXCEPT !.expired = FALSE] \in TicketState
      <3>1. tickets[k] \in TicketState
        BY <2>1 DEF ConsistencyTypeOK
      <3> QED
        BY <3>1 DEF TicketState
    <2>3. Retried([tickets[k] EXCEPT !.expired = FALSE]) \in TicketState
      BY <2>2, TicketsAreTyped
    <2>4. \/ UNCHANGED tickets
          \/ tickets' = [tickets EXCEPT ![k] = NoTicket]
          \/ tickets' = [tickets EXCEPT ![k] = Retried([tickets[k] EXCEPT !.expired = FALSE])]
      BY <1>3 DEF EndTicket
    <2> QED
      BY <1>1, <2>1, <2>3, <2>4, TicketsAreTyped, TicketChanges
  <1>4. ASSUME CreateTicket PROVE tickets' \in [Ticket -> TicketState]
    <2>1. CASE UNCHANGED tickets
      BY <1>1, <2>1
    <2>2. CASE \E k \in FreshTickets : tickets' = [tickets EXCEPT ![k] = NewTicket]
      BY <2>2, TicketsAreTyped, TicketChanges DEF FreshTickets
    <2> QED
      BY <1>4, <2>1, <2>2 DEF CreateTicket
  <1>5. ASSUME NEW k \in Ticket, ReclaimTicket(k) PROVE tickets' \in [Ticket -> TicketState]
    <2>1. tickets[k] \in TicketState
      BY DEF ConsistencyTypeOK
    <2> QED
      BY <1>5, <2>1, TicketsAreTyped, TicketChanges DEF ReclaimTicket
  <1>6. ASSUME NEW k \in Ticket, LeaseRunsOut(k) PROVE tickets' \in [Ticket -> TicketState]
    <2>1. [tickets[k] EXCEPT !.over = TRUE] \in TicketState
      BY DEF ConsistencyTypeOK, TicketState
    <2>2. tickets' = [tickets EXCEPT ![k] = [tickets[k] EXCEPT !.over = TRUE]]
      BY <1>6 DEF LeaseRunsOut, ConsistencyTypeOK
    <2> QED
      BY <2>1, <2>2, TicketChanges
  <1>7. ASSUME NEW k \in Ticket, TicketExpires(k) PROVE tickets' \in [Ticket -> TicketState]
    <2>1. [tickets[k] EXCEPT !.expired = TRUE] \in TicketState
      BY DEF ConsistencyTypeOK, TicketState
    <2>2. tickets' = [tickets EXCEPT ![k] = [tickets[k] EXCEPT !.expired = TRUE]]
      BY <1>7 DEF TicketExpires, ConsistencyTypeOK
    <2> QED
      BY <2>1, <2>2, TicketChanges
  <1>8. ASSUME \/ ListAvailable \/ ListProcessing \/ LockLapses \/ UNCHANGED consistencyVars
               \/ \E t \in Txn : Insert(t) \/ CollectGarbage(t)
               \/ \E w \in Client : StartConsolidation(w) \/ Recalculate(w) \/ Crash(w)
        PROVE  UNCHANGED tickets
    BY <1>8 DEF ListAvailable, ListProcessing, LockLapses, consistencyVars, workVars, Insert, CollectGarbage,
                StartConsolidation, Recalculate, Crash
  <1>9. ASSUME NEW w \in Client, Work(w) PROVE UNCHANGED tickets \/ EndTicket(w)
    BY <1>9 DEF Work, CheckTicket, Scan, ReadRecord, WriteRecord, MarkApplied, EndConsolidation, EndRecalculation
  <1>10. Caller \subseteq Client
    BY ConsistencyAssumption
  <1> QED
    BY <1>1, <1>2, <1>3, <1>4, <1>5, <1>6, <1>7, <1>8, <1>9, <1>10 DEF ConsistencyNext, Coordinate

LEMMA FaultStep ==
  ASSUME ConsistencyTypeOK, [ConsistencyNext]_consistencyVars
  PROVE  faults' \in 0 .. MaxFaults
  <1>1. UNCHANGED faults \/ Fault
    <2>1. ASSUME NEW w \in Client, Work(w) \/ Crash(w) PROVE UNCHANGED faults \/ Fault
      <3>1. CASE CheckTicket(w)
        BY <3>1 DEF CheckTicket
      <3>2. CASE Scan(w)
        BY <3>2 DEF Scan
      <3>3. CASE ReadRecord(w)
        BY <3>3 DEF ReadRecord
      <3>4. CASE WriteRecord(w)
        BY <3>4 DEF WriteRecord
      <3>5. CASE MarkApplied(w)
        BY <3>5 DEF MarkApplied
      <3>6. CASE EndConsolidation(w) \/ EndRecalculation(w) \/ Crash(w)
        BY <3>6 DEF EndConsolidation, EndRecalculation, Crash, pastVars
      <3>7. CASE EndTicket(w)
        BY <3>7 DEF EndTicket
      <3> QED
        BY <2>1, <3>1, <3>2, <3>3, <3>4, <3>5, <3>6, <3>7 DEF Work
    <2>2. ASSUME NEW w \in Caller, StartConsolidation(w) \/ Recalculate(w) PROVE UNCHANGED faults \/ Fault
      BY <2>2 DEF StartConsolidation, Recalculate
    <2>3. ASSUME NEW k \in Ticket, \/ ReclaimTicket(k) \/ LeaseRunsOut(k) \/ TicketExpires(k)
                                   \/ \E w \in Worker : ClaimTicket(w, k)
          PROVE  UNCHANGED faults \/ Fault
      BY <2>3 DEF ReclaimTicket, LeaseRunsOut, TicketExpires, ClaimTicket
    <2>4. ASSUME \/ Coordinate \/ LockLapses \/ UNCHANGED consistencyVars
                 \/ \E t \in Txn : Insert(t) \/ CollectGarbage(t)
          PROVE  UNCHANGED faults \/ Fault
      BY <2>4 DEF Coordinate, ListAvailable, ListProcessing, CreateTicket, LockLapses, Insert, CollectGarbage,
                  consistencyVars, pastVars
    <2> QED
      BY <2>1, <2>2, <2>3, <2>4 DEF ConsistencyNext
  <1>2. MaxFaults \in Nat /\ faults \in 0 .. MaxFaults
    BY ConsistencyAssumption DEF ConsistencyTypeOK
  <1>3. Fault => faults + 1 \in 0 .. MaxFaults /\ faults' = faults + 1
    BY <1>2 DEF Fault
  <1> QED
    BY <1>1, <1>2, <1>3

LEMMA ListingStep ==
  ASSUME ConsistencyTypeOK, [ConsistencyNext]_consistencyVars
  PROVE  leader' \in {"idle", "next", "create"} /\ blurred' \in BOOLEAN
  <1> DEFINE Goal == leader' \in {"idle", "next", "create"} /\ blurred' \in BOOLEAN
  <1>0. leader \in {"idle", "next", "create"} /\ blurred \in BOOLEAN
    BY DEF ConsistencyTypeOK
  <1>1. ASSUME NEW w \in Client, Work(w) \/ Crash(w) PROVE Goal
    <2>1. leader' = leader
      BY <1>1 DEF Work, CheckTicket, Scan, ReadRecord, WriteRecord, MarkApplied, EndConsolidation,
                  EndRecalculation, EndTicket, Crash
    <2>2. blurred' = blurred \/ EndTicket(w)
      BY <1>1 DEF Work, CheckTicket, Scan, ReadRecord, WriteRecord, MarkApplied, EndConsolidation,
                  EndRecalculation, Crash, pastVars
    <2>3. EndTicket(w) => blurred' \in BOOLEAN
      BY <1>0 DEF EndTicket, Unlisted
    <2> QED
      BY <1>0, <2>1, <2>2, <2>3
  <1>2. ASSUME NEW w \in Caller, StartConsolidation(w) \/ Recalculate(w) PROVE Goal
    BY <1>0, <1>2 DEF StartConsolidation, Recalculate
  <1>3. ASSUME NEW k \in Ticket, NEW w \in Worker, ClaimTicket(w, k) PROVE Goal
    BY <1>0, <1>3 DEF ClaimTicket
  <1>4. ASSUME NEW k \in Ticket, ReclaimTicket(k) \/ LeaseRunsOut(k) \/ TicketExpires(k) PROVE Goal
    BY <1>0, <1>4 DEF ReclaimTicket, LeaseRunsOut, TicketExpires, Unlisted
  <1>5. ASSUME Coordinate PROVE Goal
    BY <1>0, <1>5 DEF Coordinate, ListAvailable, ListProcessing, CreateTicket, pastVars
  <1>6. ASSUME LockLapses \/ UNCHANGED consistencyVars \/ \E t \in Txn : Insert(t) \/ CollectGarbage(t) PROVE Goal
    BY <1>0, <1>6 DEF LockLapses, Insert, CollectGarbage, consistencyVars, workVars, pastVars
  <1> QED
    BY <1>1, <1>2, <1>3, <1>4, <1>5, <1>6 DEF ConsistencyNext

TypeInv == ConsistencyTypeOK /\ JobsInv

LEMMA TypeInit == ConsistencyInit => TypeInv
  <1> SUFFICES ASSUME ConsistencyInit PROVE TypeInv
    OBVIOUS
  <1>1. JobsInv
    BY NoJobIsAJob DEF ConsistencyInit, JobsInv
  <1>2. Initial \in Value
    BY DEF Initial, Value
  <1>3. tickets \in [Ticket -> TicketState]
    BY TicketsAreTyped DEF ConsistencyInit
  <1>4. faults \in 0 .. MaxFaults
    BY ConsistencyAssumption DEF ConsistencyInit
  <1>5. job \in [Client -> Job]
    BY <1>1 DEF JobsInv, Jobs
  <1> QED
    BY <1>1, <1>2, <1>3, <1>4, <1>5 DEF ConsistencyInit, Init, TypeInv, ConsistencyTypeOK

LEMMA TypeStep == TypeInv /\ [ConsistencyNext]_consistencyVars => TypeInv'
  <1> SUFFICES ASSUME ConsistencyTypeOK, JobsInv, [ConsistencyNext]_consistencyVars PROVE TypeInv'
    BY DEF TypeInv
  <1>1. JobsInv'
    BY JobsStep
  <1>2. job' \in [Client -> Job]
    BY <1>1 DEF JobsInv, Jobs
  <1> QED
    BY <1>1, <1>2, DataStep, LockStep, TicketStep, FaultStep, ListingStep DEF TypeInv, ConsistencyTypeOK, DataTypes

(* Every variable stays in its type, and no ticket is retried more often   *)
(* than ticketMaxRetries.                                                  *)
THEOREM ConsistencyIsTyped == ConsistencySpec => []ConsistencyTypeOK
  <1>1. ConsistencySpec => []TypeInv
    BY TypeInit, TypeStep, PTL DEF ConsistencySpec
  <1>2. TypeInv => ConsistencyTypeOK
    BY DEF TypeInv
  <1> QED
    BY <1>1, <1>2, PTL

----------------------------------------------------------------------------
(* Why a transaction is counted twice only if it is doubtful.              *)

\* The transactions that a job will mark.
Mine(w) == IF job[w].way = "recalculate" THEN {} ELSE job[w].txns \cup job[w].todo

\* A job has them from the store.
TakenInv == \A w \in Client : \A t \in job[w].txns \cup job[w].todo : tx[t] # "new"

\* Two jobs have a transaction at the same time only if it is doubtful, and so
\* has one a transaction that is marked already.
SharedInv ==
  \A w \in Client : \A t \in Mine(w) :
    t \in doubtful \/ (tx[t] = "pending" /\ \A v \in Client \ {w} : t \notin Mine(v))

\* There is a reason why t is in the record and not marked.
Excused(t) == t \in doubtful \/ \E w \in Client : t \in job[w].todo

Unmarked(t) == tx[t] \in {"new", "pending"}

CountedInv ==
  record # None => \A t \in Txn : /\ record[t] > 0 /\ Unmarked(t) => Excused(t)
                                  /\ record[t] > 1 => t \in doubtful

\* The same of a value that has been read and not yet written back.
BaseInv ==
  \A w \in Client :
    job[w].base # None =>
      \A t \in Txn : /\ job[w].base[t] > 0 /\ Unmarked(t) => Excused(t)
                     /\ job[w].base[t] > 0 /\ t \in job[w].txns => t \in doubtful
                     /\ job[w].base[t] > 1 => t \in doubtful

CountInv == TakenInv /\ SharedInv /\ CountedInv /\ BaseInv


LEMMA CountInit == ConsistencyInit => CountInv
  <1> SUFFICES ASSUME ConsistencyInit PROVE CountInv
    OBVIOUS
  <1>1. \A w \in Client : job[w].txns = {} /\ job[w].todo = {} /\ job[w].base = None
    BY DEF ConsistencyInit, NoJob
  <1>2. record # None => \A t \in Txn : record[t] = 0
    BY DEF ConsistencyInit, Initial
  <1>3. TakenInv /\ SharedInv /\ BaseInv
    BY <1>1 DEF TakenInv, SharedInv, BaseInv, Mine
  <1>4. CountedInv
    BY <1>2 DEF CountedInv
  <1> QED
    BY <1>3, <1>4 DEF CountInv

\* What counts of a batch is in the batch, and what does not count of it is
\* earlier than a set() that counts, or as early.
Stands(C, S) ==
  /\ C \subseteq S
  /\ \A t \in S \ C : \E s \in C : s \in Sets(Txn) /\ Stamp[s] >= Stamp[t]
  /\ Sets(S) # {} => \E s \in C : s \in Sets(S)

LEMMA CountingIsSound ==
  ASSUME NEW S \in SUBSET Txn, NEW way, NEW C \in Counting(S, way)
  PROVE  Stands(C, S)
  <1> USE DEF Stands
  <1>0. \A t \in S : Op[t] \in {"add", "set"} /\ Stamp[t] \in Nat
    BY ConsistencyAssumption
  <1>1. CASE Sets(S) = {}
    BY <1>1 DEF Counting
  <1>2. CASE Sets(S) # {}
    <2>1. PICK s \in LastSets(S) :
            \E kept \in SUBSET {t \in S : Op[t] = "add" /\ Stamp[t] = Stamp[s]} :
              C = {s} \cup {t \in S : Op[t] = "add" /\ Stamp[t] > Stamp[s]} \cup kept
      BY <1>2 DEF Counting
    <2>2. s \in Sets(S) /\ s \in Sets(Txn) /\ s \in C /\ \A r \in Sets(S) : Stamp[r] <= Stamp[s]
      BY <2>1 DEF LastSets, Sets
    <2>3. C \subseteq S
      BY <2>1, <2>2 DEF Sets
    <2>4. ASSUME NEW t \in S \ C PROVE Stamp[s] >= Stamp[t]
      <3>1. CASE Op[t] = "set"
        BY <1>0, <2>2, <3>1 DEF Sets
      <3>2. CASE Op[t] = "add"
        <4>1. ~(Stamp[t] > Stamp[s])
          BY <2>1, <3>2
        <4>2. s \in S
          BY <2>2 DEF Sets
        <4> QED
          BY <1>0, <4>1, <4>2
      <3> QED
        BY <1>0, <3>1, <3>2
    <2> QED
      BY <2>2, <2>3, <2>4
  <1> QED
    BY <1>1, <1>2

\* The value that a job writes.
LEMMA NewValuesAre ==
  ASSUME NEW j \in Jobs, NEW value \in NewValues(j)
  PROVE  \E S \in Counting(j.txns, j.way) :
           /\ \A t \in Txn \ S : value[t] = Base(j)[t]
           /\ \A t \in Txn \cap S : value[t] > 0 /\ (value[t] > 1 => Base(j)[t] > 0)
  <1>1. PICK S \in Counting(j.txns, j.way) : value = Plus(Base(j), S)
    BY DEF NewValues
  <1>2. Base(j) \in [Txn -> 0 .. 2]
    BY BaseIsAValue DEF Value
  <1> QED
    BY <1>1, <1>2 DEF Plus

\* Where it comes from.
LEMMA BaseComesFrom ==
  ASSUME NEW j \in Jobs, NEW t \in Txn, Base(j)[t] > 0
  PROVE  j.base # None /\ Base(j) = j.base
  BY DEF Base, Initial

\* Doubts stay, a reason is gone only when the transaction is marked.
Growing ==
  /\ doubtful \subseteq doubtful'
  /\ \A t \in Txn : Unmarked(t)' => Unmarked(t)
  /\ \A t \in Txn : Excused(t) /\ Unmarked(t)' => Excused(t)'

LEMMA StillExcused ==
  ASSUME JobsInv, NEW w \in Client, doubtful \subseteq doubtful', UNCHANGED tx,
         \A v \in Client \ {w} : job'[v] = job[v],
         \A t \in job[w].todo : t \in doubtful' \/ t \in job'[w].todo
  PROVE  Growing
  BY DEF Growing, Excused, Unmarked

LEMMA StepsGrow ==
  ASSUME TypeInv, [ConsistencyNext]_consistencyVars
  PROVE  Growing
  <1> USE DEF TypeInv
  <1>1. ASSUME NEW w \in Client, Works(w) PROVE Growing
    <2>1. CASE Scan(w)
      <3>1. job[w].todo = {} /\ doubtful \subseteq doubtful' /\ UNCHANGED tx
        BY <2>1 DEF Scan, Overlap, JobsInv, Jobs, WellFormed
      <3> QED
        BY <2>1, <3>1, ScanJobs, JobChangesTo, StillExcused
    <2>2. CASE Recalculate(w)
      <3>1. job[w].todo = {} /\ doubtful \subseteq doubtful' /\ UNCHANGED tx
        BY <2>2, IdleIsNoJob DEF Recalculate, Overlap, NoJob
      <3> QED
        BY <2>2, <3>1, RecalculateJobs, JobChangesTo, StillExcused
    <2>3. CASE ReadRecord(w)
      <3>1. job[w].todo = {} /\ doubtful \subseteq doubtful' /\ UNCHANGED tx
        BY <2>3 DEF ReadRecord, JobsInv, Jobs, WellFormed
      <3> QED
        BY <2>3, <3>1, ReadJobs, JobChangesTo, StillExcused
    <2>4. CASE WriteRecord(w)
      <3>1. job[w].todo = {} /\ doubtful \subseteq doubtful' /\ UNCHANGED tx
        BY <2>4 DEF WriteRecord, JobsInv, Jobs, WellFormed
      <3>2. \A v \in Client \ {w} : job'[v] = job[v]
        BY <2>4, WriteJobs, JobChangesTo DEF Follows
      <3> QED
        BY <3>1, <3>2, StillExcused
    <2>5. CASE MarkApplied(w)
      <3>1. PICK t \in job[w].todo, j \in Jobs :
              /\ Follows(w, j) /\ j.todo = job[w].todo \ {t}
              /\ \/ tx' = [tx EXCEPT ![t] = "applied"] /\ UNCHANGED doubtful
                 \/ tx[t] = "deleted" /\ UNCHANGED <<tx, doubtful>>
                 \/ UNCHANGED tx /\ doubtful' = doubtful \cup {t}
        BY <2>5, MarkJobs
      <3>2. job'[w] = j /\ \A v \in Client \ {w} : job'[v] = job[v]
        BY <3>1, JobChanges DEF Follows
      <3>3. tx \in [Txn -> {"new", "pending", "applied", "deleted"}] /\ t \in Txn
        BY DEF ConsistencyTypeOK, Job
      <3>4. \A u \in Txn : Unmarked(u)' => Unmarked(u) /\ (u # t \/ u \in doubtful')
        BY <3>1, <3>3 DEF Unmarked
      <3> QED
        BY <3>1, <3>2, <3>4 DEF Growing, Excused
    <2> QED
      BY <1>1, <2>1, <2>2, <2>3, <2>4, <2>5 DEF Works
  <1>2. ASSUME NEW w \in Client, Turns(w) PROVE Growing
    <2>1. job[w].todo \subseteq doubtful' /\ doubtful \subseteq doubtful' /\ UNCHANGED tx
      BY <1>2 DEF Turns
    <2> QED
      BY <1>2, <2>1, JobChangesTo, StillExcused DEF Turns
  <1>3. ASSUME NEW t \in Txn, Insert(t) \/ CollectGarbage(t) PROVE Growing
    BY <1>3 DEF Insert, CollectGarbage, pastVars, Growing, Excused, Unmarked, ConsistencyTypeOK
  <1>4. CASE Aside
    BY <1>4 DEF Aside, Growing, Excused, Unmarked
  <1> QED
    BY <1>1, <1>2, <1>3, <1>4, StepsHaveKinds DEF Kinds

\* A job that has no transactions, or had these before.
LEMMA TakenStays ==
  ASSUME JobsInv, TakenInv, NEW w \in Client,
         \A v \in Client \ {w} : job'[v] = job[v],
         \A t \in job'[w].txns \cup job'[w].todo : t \in job[w].txns \cup job[w].todo \/ tx'[t] # "new",
         \A t \in Txn : tx[t] # "new" => tx'[t] # "new"
  PROVE  TakenInv'
  BY DEF TakenInv, JobsInv, Jobs, Job

LEMMA TakenStep ==
  ASSUME TypeInv, TakenInv, [ConsistencyNext]_consistencyVars
  PROVE  TakenInv'
  <1> USE DEF TypeInv
  <1>1. ASSUME NEW w \in Client, Works(w) PROVE TakenInv'
    <2>1. CASE Scan(w)
      <3>1. UNCHANGED tx /\ job'[w].todo = {} /\ \A v \in Client \ {w} : job'[v] = job[v]
        BY <2>1, ScanJobs, JobChanges DEF Scan
      <3>2. job'[w].txns \subseteq Pending
        <4>1. job[w].txns = {}
          BY <2>1 DEF Scan, JobsInv, Jobs, WellFormed
        <4>2. PICK S \in SUBSET Pending :
                IF S = {} THEN Goto(w, "end")
                ELSE job' = [job EXCEPT ![w].txns = S, ![w].pc =
                               IF job[w].way = "lock" /\ Sets(S) # {} THEN "write" ELSE "read"]
          BY <2>1 DEF Scan
        <4> QED
          BY <4>1, <4>2 DEF Goto, JobsInv, Jobs, Job
      <3>3. \A t \in job'[w].txns : tx'[t] # "new"
        BY <3>1, <3>2 DEF Pending
      <3> QED
        BY <3>1, <3>3, TakenStays
    <2>2. CASE Recalculate(w)
      <3>1. UNCHANGED tx
        BY <2>2 DEF Recalculate
      <3>2. /\ job'[w].todo = {} /\ job'[w].txns = {t \in Txn : tx[t] \in {"pending", "applied"}}
            /\ \A v \in Client \ {w} : job'[v] = job[v]
        BY <2>2, RecalculateJobs, JobChanges
      <3> QED
        BY <3>1, <3>2, TakenStays
    <2>3. CASE ReadRecord(w)
      <3>1. UNCHANGED tx
        BY <2>3 DEF ReadRecord
      <3>2. job'[w].todo = {} /\ job'[w].txns \subseteq job[w].txns /\ \A v \in Client \ {w} : job'[v] = job[v]
        BY <2>3, ReadJobs, JobChanges
      <3> QED
        BY <3>1, <3>2, TakenStays
    <2>4. CASE WriteRecord(w)
      <3>1. UNCHANGED tx
        BY <2>4 DEF WriteRecord
      <3>2. PICK j \in Jobs : Follows(w, j) /\ j.todo \subseteq job[w].txns
        BY <2>4, WriteJobs
      <3>3. job'[w] = j /\ \A v \in Client \ {w} : job'[v] = job[v]
        BY <3>2, JobChanges DEF Follows
      <3> QED
        BY <3>1, <3>2, <3>3, TakenStays DEF Follows
    <2>5. CASE MarkApplied(w)
      <3>1. PICK t \in job[w].todo, j \in Jobs :
              Follows(w, j) /\ j.todo = job[w].todo \ {t} /\ (UNCHANGED tx \/ tx' = [tx EXCEPT ![t] = "applied"])
        BY <2>5, MarkJobs
      <3>2. job'[w] = j /\ \A v \in Client \ {w} : job'[v] = job[v]
        BY <3>1, JobChanges DEF Follows
      <3>3. \A u \in Txn : tx[u] # "new" => tx'[u] # "new"
        BY <3>1 DEF ConsistencyTypeOK
      <3> QED
        BY <3>1, <3>2, <3>3, TakenStays DEF Follows
    <2> QED
      BY <1>1, <2>1, <2>2, <2>3, <2>4, <2>5 DEF Works
  <1>2. ASSUME NEW w \in Client, Turns(w) PROVE TakenInv'
    <2>1. PICK j \in Jobs : Becomes(w, j) /\ j.txns = {} /\ j.todo = {}
      BY <1>2 DEF Turns, Jobs, WellFormed
    <2>2. job'[w] = j /\ \A v \in Client \ {w} : job'[v] = job[v]
      BY <2>1, JobChanges
    <2>3. UNCHANGED tx
      BY <1>2 DEF Turns
    <2> QED
      BY <2>1, <2>2, <2>3, TakenStays
  <1>3. ASSUME NEW t \in Txn, Insert(t) \/ CollectGarbage(t) PROVE TakenInv'
    <2>1. UNCHANGED job /\ \A u \in Txn : tx[u] # "new" => tx'[u] # "new"
      BY <1>3 DEF Insert, CollectGarbage, ConsistencyTypeOK
    <2> QED
      BY <2>1 DEF TakenInv, JobsInv, Jobs, Job
  <1>4. CASE Aside
    BY <1>4 DEF Aside, TakenInv
  <1> QED
    BY <1>1, <1>2, <1>3, <1>4, StepsHaveKinds DEF Kinds

\* Consolidation starts from nothing if there is a set() among its transactions.
FromScratch(j) == j.way = "lock" /\ Sets(j.txns) # {}

\* Who has transactions to mark is at work.
LEMMA MineIsWork ==
  ASSUME JobsInv, NEW w \in Client, Mine(w) # {}
  PROVE  job[w].pc \in Working
  BY DEF JobsInv, Jobs, Job, WellFormed, Mine, Working

\* What a scan finds, and whom it meets.
LEMMA ScanFinds ==
  ASSUME JobsInv, NEW w \in Client, Scan(w)
  PROVE  /\ \A v \in Client \ {w} : job'[v] = job[v]
         /\ UNCHANGED <<tx, record>> /\ job'[w].todo = {} /\ job'[w].base = None /\ job'[w].way = job[w].way
         /\ job'[w].txns \subseteq Pending /\ job'[w].way # "recalculate"
         /\ reordered' = reordered \cup Overtaken(Pending \ job'[w].txns, job'[w].txns)
         /\ \/ job'[w].txns = {} /\ job'[w].pc = "end" /\ UNCHANGED <<doubtful, lossy>>
            \/ job'[w].txns # {} /\ job'[w].pc \in {"read", "write"} /\ Overlap(w)
         /\ job'[w].pc = "write" => FromScratch(job'[w])
  <1>1. PICK j \in Jobs : Becomes(w, j) /\ j.todo = {} /\ j.base = None /\ j.way = job[w].way
    BY ScanJobs
  <1>2. job'[w] = j /\ \A v \in Client \ {w} : job'[v] = job[v]
    BY <1>1, JobChanges
  <1>3. job[w] \in Jobs /\ job[w].txns = {} /\ job[w].way # "recalculate"
    BY DEF Scan, JobsInv, Jobs, WellFormed
  <1>4. PICK S \in SUBSET Pending :
          /\ reordered' = reordered \cup Overtaken(Pending \ S, S)
          /\ IF S = {} THEN Goto(w, "end") /\ UNCHANGED <<doubtful, lossy>>
             ELSE /\ job' = [job EXCEPT ![w].txns = S, ![w].pc =
                               IF job[w].way = "lock" /\ Sets(S) # {} THEN "write" ELSE "read"]
                  /\ Overlap(w)
    BY DEF Scan
  <1>5. /\ job'[w].txns = S
        /\ S = {} => job'[w].pc = "end"
        /\ S # {} => job'[w].pc = IF job[w].way = "lock" /\ Sets(S) # {} THEN "write" ELSE "read"
    <2>1. CASE S = {}
      BY <1>3, <1>4, <2>1 DEF Goto, JobsInv, Jobs, Job
    <2>2. CASE S # {}
      BY <1>3, <1>4, <2>2 DEF JobsInv, Jobs, Job
    <2> QED
      BY <2>1, <2>2
  <1>6. UNCHANGED <<tx, record>>
    BY DEF Scan
  <1>7. job'[w].pc = "write" => FromScratch(job'[w])
    BY <1>1, <1>2, <1>5 DEF FromScratch
  <1>8. \/ job'[w].txns = {} /\ job'[w].pc = "end" /\ UNCHANGED <<doubtful, lossy>>
        \/ job'[w].txns # {} /\ job'[w].pc \in {"read", "write"} /\ Overlap(w)
    BY <1>4, <1>5
  <1> QED
    BY <1>1, <1>2, <1>3, <1>4, <1>5, <1>6, <1>7, <1>8

\* What marking does.
LEMMA MarkDoes ==
  ASSUME TypeInv, NEW w \in Client, MarkApplied(w)
  PROVE  \E t \in Txn :
           /\ \A v \in Client \ {w} : job'[v] = job[v]
           /\ t \in job[w].todo /\ job'[w].todo = job[w].todo \ {t} /\ job[w].txns = {} /\ job'[w].txns = {}
           /\ job'[w].base = None /\ job[w].way # "recalculate" /\ job'[w].way = job[w].way
           /\ job[w].pc = "mark" /\ job'[w].pc \in {"mark", "end"}
           /\ UNCHANGED <<record, lossy, reordered>> /\ doubtful \subseteq doubtful'
           /\ \A u \in Txn \ {t} : tx'[u] = tx[u]
           /\ tx'[t] = "applied" \/ (tx[t] = "deleted" /\ tx'[t] = "deleted") \/ (tx'[t] = tx[t] /\ t \in doubtful')
  <1> USE DEF TypeInv
  <1>1. PICK t \in job[w].todo, j \in Jobs :
          /\ Follows(w, j) /\ j.pc \in {"mark", "end"} /\ j.todo = job[w].todo \ {t}
          /\ \/ tx' = [tx EXCEPT ![t] = "applied"] /\ UNCHANGED doubtful
             \/ tx[t] = "deleted" /\ UNCHANGED <<tx, doubtful>>
             \/ UNCHANGED tx /\ doubtful' = doubtful \cup {t}
    BY MarkJobs
  <1>2. job'[w] = j /\ \A v \in Client \ {w} : job'[v] = job[v]
    BY <1>1, JobChanges DEF Follows
  <1>3. job[w].pc = "mark" /\ job[w].way # "recalculate" /\ job[w].txns = {} /\ UNCHANGED <<record, lossy, reordered>>
    BY DEF MarkApplied, JobsInv, Jobs, WellFormed
  <1>4. t \in Txn /\ tx \in [Txn -> {"new", "pending", "applied", "deleted"}]
    BY DEF ConsistencyTypeOK, Job
  <1>5. /\ doubtful \subseteq doubtful' /\ \A u \in Txn \ {t} : tx'[u] = tx[u]
        /\ tx'[t] = "applied" \/ (tx[t] = "deleted" /\ tx'[t] = "deleted") \/ (tx'[t] = tx[t] /\ t \in doubtful')
    BY <1>1, <1>4
  <1> QED
    BY <1>1, <1>2, <1>3, <1>4, <1>5 DEF Follows

LEMMA RecalculateMarksNone ==
  ASSUME TypeInv, NEW w \in Client, Recalculate(w)
  PROVE  UNCHANGED tx /\ Mine(w)' = {} /\ \A v \in Client \ {w} : job'[v] = job[v]
  <1>1. PICK j \in Jobs : Becomes(w, j) /\ j.way = "recalculate"
    BY RecalculateJobs DEF TypeInv
  <1>2. job'[w] = j /\ \A v \in Client \ {w} : job'[v] = job[v]
    BY <1>1, JobChanges DEF TypeInv
  <1>3. UNCHANGED tx
    BY DEF Recalculate
  <1> QED
    BY <1>1, <1>2, <1>3 DEF Mine

LEMMA SharedStays ==
  ASSUME JobsInv, SharedInv, NEW w \in Client, doubtful \subseteq doubtful', UNCHANGED tx,
         \A v \in Client \ {w} : job'[v] = job[v], Mine(w)' \subseteq Mine(w)
  PROVE  SharedInv'
  <1>1. \A v \in Client : Mine(v)' \subseteq Mine(v)
    BY DEF Mine
  <1> QED
    BY <1>1 DEF SharedInv

LEMMA SharedStep ==
  ASSUME TypeInv, SharedInv, [ConsistencyNext]_consistencyVars
  PROVE  SharedInv'
  <1> USE DEF TypeInv
  <1>0. doubtful \subseteq doubtful'
    BY StepsGrow DEF Growing
  <1>1. ASSUME NEW w \in Client, Works(w) PROVE SharedInv'
    <2>1. CASE Scan(w)
      <3>1. /\ \A v \in Client \ {w} : job'[v] = job[v] /\ Mine(v)' = Mine(v)
            /\ UNCHANGED tx /\ Mine(w)' = job'[w].txns /\ Mine(w)' \subseteq Pending
            /\ Mine(w)' = {} \/ Overlap(w)
        BY <2>1, ScanFinds DEF Mine
      <3>2. CASE Mine(w)' = {}
        BY <1>0, <3>1, <3>2, SharedStays
      <3>3. CASE Overlap(w)
        <4>1. \A v \in Client \ {w} : Mine(v) # {} => Pending \subseteq doubtful'
          BY <3>3, MineIsWork DEF Overlap
        <4>2. \A t \in Pending : tx'[t] = "pending"
          BY <3>1 DEF Pending
        <4>3. ASSUME NEW t \in Mine(w)', t \notin doubtful'
              PROVE  tx'[t] = "pending" /\ \A v \in Client \ {w} : t \notin Mine(v)'
          BY <3>1, <4>1, <4>2, <4>3
        <4>4. ASSUME NEW v \in Client \ {w}, NEW t \in Mine(v)', t \notin doubtful'
              PROVE  tx'[t] = "pending" /\ \A u \in Client \ {v} : t \notin Mine(u)'
          <5>1. t \in Mine(v) /\ t \notin doubtful
            BY <1>0, <3>1, <4>4
          <5>2. tx[t] = "pending" /\ \A u \in Client \ {v} : t \notin Mine(u)
            BY <5>1 DEF SharedInv
          <5>3. t \notin Mine(w)'
            BY <3>1, <4>1, <4>4, <5>1
          <5> QED
            BY <3>1, <5>2, <5>3
        <4> QED
          BY <4>3, <4>4 DEF SharedInv
      <3> QED
        BY <3>1, <3>2, <3>3
    <2>2. CASE Recalculate(w)
      <3>1. UNCHANGED tx /\ Mine(w)' = {} /\ \A v \in Client \ {w} : job'[v] = job[v]
        BY <2>2, RecalculateMarksNone
      <3> QED
        BY <1>0, <3>1, SharedStays
    <2>3. CASE ReadRecord(w)
      <3>1. PICK j \in Jobs : Becomes(w, j) /\ j.todo = {} /\ j.way = job[w].way /\ (j.txns = {} \/ j.txns = job[w].txns)
        BY <2>3, ReadJobs
      <3>2. job'[w] = j /\ \A v \in Client \ {w} : job'[v] = job[v]
        BY <3>1, JobChanges
      <3>3. UNCHANGED tx
        BY <2>3 DEF ReadRecord
      <3>4. Mine(w)' \subseteq Mine(w)
        BY <3>1, <3>2 DEF Mine
      <3> QED
        BY <1>0, <3>2, <3>3, <3>4, SharedStays
    <2>4. CASE WriteRecord(w)
      <3>1. PICK j \in Jobs : Follows(w, j) /\ j.todo \subseteq job[w].txns
        BY <2>4, WriteJobs
      <3>2. job'[w] = j /\ \A v \in Client \ {w} : job'[v] = job[v]
        BY <3>1, JobChanges DEF Follows
      <3>3. UNCHANGED tx
        BY <2>4 DEF WriteRecord
      <3>4. Mine(w)' \subseteq Mine(w)
        BY <3>1, <3>2 DEF Mine, Follows
      <3> QED
        BY <1>0, <3>2, <3>3, <3>4, SharedStays
    <2>5. CASE MarkApplied(w)
      <3>1. PICK t \in Txn :
              /\ \A v \in Client \ {w} : job'[v] = job[v]
              /\ t \in job[w].todo /\ job'[w].todo = job[w].todo \ {t} /\ job[w].txns = {} /\ job'[w].txns = {}
              /\ job[w].way # "recalculate" /\ job'[w].way = job[w].way
              /\ \A u \in Txn \ {t} : tx'[u] = tx[u]
        BY <2>5, MarkDoes
      <3>2. /\ t \in Mine(w) /\ Mine(w)' = Mine(w) \ {t}
            /\ \A v \in Client \ {w} : Mine(v)' = Mine(v)
            /\ \A v \in Client : Mine(v) \subseteq Txn
        BY <3>1 DEF Mine, JobsInv, Jobs, Job
      <3>3. ASSUME NEW v \in Client, NEW u \in Mine(v)', u \notin doubtful'
            PROVE  tx'[u] = "pending" /\ \A x \in Client \ {v} : u \notin Mine(x)'
        <4>1. u \in Mine(v) /\ u \notin doubtful /\ u \in Txn
          BY <1>0, <3>2, <3>3
        <4>2. tx[u] = "pending" /\ \A x \in Client \ {v} : u \notin Mine(x)
          BY <4>1 DEF SharedInv
        <4>3. u # t
          BY <3>2, <3>3, <4>2
        <4> QED
          BY <3>1, <3>2, <4>1, <4>2, <4>3
      <3> QED
        BY <3>3 DEF SharedInv
    <2> QED
      BY <1>1, <2>1, <2>2, <2>3, <2>4, <2>5 DEF Works
  <1>2. ASSUME NEW w \in Client, Turns(w) PROVE SharedInv'
    <2>1. PICK j \in Jobs : Becomes(w, j) /\ j.txns = {} /\ j.todo = {}
      BY <1>2 DEF Turns, Jobs, WellFormed
    <2>2. job'[w] = j /\ \A v \in Client \ {w} : job'[v] = job[v]
      BY <2>1, JobChanges
    <2>3. UNCHANGED tx /\ Mine(w)' = {}
      BY <1>2, <2>1, <2>2 DEF Turns, Mine
    <2> QED
      BY <1>0, <2>2, <2>3, SharedStays
  <1>3. ASSUME NEW t \in Txn, Insert(t) \/ CollectGarbage(t) PROVE SharedInv'
    <2>1. \A w \in Client : Mine(w)' = Mine(w) /\ Mine(w) \subseteq Txn
      BY <1>3 DEF Insert, CollectGarbage, Mine, JobsInv, Jobs, Job
    <2>2. \A u \in Txn : tx[u] = "pending" => tx'[u] = "pending"
      BY <1>3 DEF Insert, CollectGarbage, ConsistencyTypeOK
    <2> QED
      BY <1>0, <2>1, <2>2 DEF SharedInv
  <1>4. CASE Aside
    BY <1>4 DEF Aside, SharedInv, Mine
  <1> QED
    BY <1>1, <1>2, <1>3, <1>4, StepsHaveKinds DEF Kinds

\* What a job adds to the record it had, or will mark, or there is a reason.
LEMMA WrittenValue ==
  ASSUME TypeInv, BaseInv, NEW w \in Client, NEW value \in NewValues(job[w]), NEW t \in Txn
  PROVE  /\ value[t] > 0 /\ Unmarked(t) => t \in job[w].txns \/ Excused(t)
         /\ value[t] > 1 => t \in doubtful
  <1> DEFINE j == job[w]
  <1>1. j \in Jobs /\ j.txns \subseteq Txn /\ value \in NewValues(j)
    BY DEF TypeInv, JobsInv, Jobs, Job
  <1> HIDE DEF j
  <1>2. PICK S \in Counting(j.txns, j.way) :
          /\ \A u \in Txn \ S : value[u] = Base(j)[u]
          /\ \A u \in Txn \cap S : value[u] > 0 /\ (value[u] > 1 => Base(j)[u] > 0)
    BY <1>1, NewValuesAre
  <1>3. S \subseteq j.txns
    BY <1>1, CountingIsSound DEF Stands
  <1>4. Base(j)[t] > 0 => j.base # None /\ Base(j) = j.base
    BY <1>1, BaseComesFrom
  <1>5. Base(j)[t] \in 0 .. 2
    BY <1>1, BaseIsAValue DEF Value
  <1>6. Base(j)[t] > 0 /\ Unmarked(t) => Excused(t)
    BY <1>4 DEF BaseInv, j
  <1>7. Base(j)[t] > 0 /\ t \in j.txns => t \in doubtful
    BY <1>4 DEF BaseInv, j
  <1>8. ASSUME Base(j)[t] > 1 PROVE t \in doubtful
    <2>1. Base(j)[t] > 0
      BY <1>5, <1>8
    <2>2. j.base # None /\ j.base[t] > 1
      BY <1>4, <1>8, <2>1
    <2> QED
      BY <2>2 DEF BaseInv, j
  <1>9. CASE t \in S
    <2>1. t \in j.txns /\ (value[t] > 1 => Base(j)[t] > 0)
      BY <1>2, <1>3, <1>9
    <2>2. value[t] > 1 => t \in doubtful
      BY <1>7, <2>1
    <2> QED
      BY <2>1, <2>2 DEF j
  <1>10. CASE t \notin S
    <2>1. value[t] = Base(j)[t]
      BY <1>2, <1>10
    <2>2. value[t] > 0 /\ Unmarked(t) => Excused(t)
      BY <1>6, <2>1
    <2>3. value[t] > 1 => t \in doubtful
      BY <1>8, <2>1
    <2> QED
      BY <2>2, <2>3
  <1> QED
    BY <1>9, <1>10

LEMMA OnlyWritesChange ==
  ASSUME TypeInv, [ConsistencyNext]_consistencyVars
  PROVE  UNCHANGED record \/ \E w \in Client : WriteRecord(w)
  <1> USE DEF TypeInv
  <1>1. ASSUME NEW w \in Client, Works(w) PROVE UNCHANGED record \/ WriteRecord(w)
    BY <1>1 DEF Works, Scan, Recalculate, ReadRecord, MarkApplied
  <1>2. ASSUME NEW w \in Client, Turns(w) PROVE UNCHANGED record
    BY <1>2 DEF Turns
  <1>3. ASSUME Aside \/ \E t \in Txn : Insert(t) \/ CollectGarbage(t) PROVE UNCHANGED record
    BY <1>3 DEF Aside, Insert, CollectGarbage
  <1> QED
    BY <1>1, <1>2, <1>3, StepsHaveKinds DEF Kinds

LEMMA CountedStep ==
  ASSUME TypeInv, CountInv, [ConsistencyNext]_consistencyVars
  PROVE  CountedInv'
  <1>0. Growing
    BY StepsGrow
  <1>1. CASE UNCHANGED record
    BY <1>0, <1>1 DEF CountInv, CountedInv, Growing
  <1>2. ASSUME NEW w \in Client, WriteRecord(w), record' # record PROVE CountedInv'
    <2>1. PICK j \in Jobs :
            /\ Follows(w, j) /\ record' \in NewValues(job[w])
            /\ \/ doubtful' = doubtful \cup (job[w].txns \cap Pending)
               \/ j.todo = job[w].txns
      BY <1>2, WriteJobs DEF TypeInv, Stored
    <2>2. job'[w] = j
      BY <2>1, JobChanges DEF Follows, TypeInv
    <2>3. UNCHANGED tx
      BY <1>2 DEF WriteRecord
    <2>4. ASSUME NEW t \in Txn PROVE /\ record'[t] > 0 /\ Unmarked(t) => t \in job[w].txns \/ Excused(t)
                                     /\ record'[t] > 1 => t \in doubtful
      BY <2>1, WrittenValue DEF CountInv
    <2>5. ASSUME NEW t \in job[w].txns, t \in Txn, Unmarked(t) PROVE Excused(t)'
      <3>1. t \in Pending
        BY <2>5 DEF CountInv, TakenInv, Unmarked, Pending
      <3> QED
        BY <2>1, <2>2, <2>5, <3>1 DEF Excused
    <2> QED
      BY <1>0, <2>4, <2>5 DEF CountedInv, Growing
  <1> QED
    BY <1>1, <1>2, OnlyWritesChange

\* A job whose value is no longer there, or as it was.
LEMMA BaseStays ==
  ASSUME Growing, BaseInv, NEW w \in Client,
         \A v \in Client \ {w} : job'[v] = job[v],
         job'[w].base # None => job'[w].base = job[w].base /\ job'[w].txns = job[w].txns
  PROVE  BaseInv'
  <1>1. ASSUME NEW v \in Client, job'[v].base # None
        PROVE  job'[v].base = job[v].base /\ job'[v].txns = job[v].txns
    BY <1>1
  <1> QED
    BY <1>1 DEF BaseInv, Growing

LEMMA ReadValue ==
  ASSUME TypeInv, CountInv, NEW w \in Client, job[w].todo = {}, job[w].way # "recalculate", record # None,
         NEW t \in job[w].txns, record[t] > 0
  PROVE  t \in doubtful
  <1>0. t \in Txn /\ t \in Mine(w)
    BY DEF TypeInv, JobsInv, Jobs, Job, Mine
  <1>1. ASSUME t \notin doubtful PROVE FALSE
    <2>1. tx[t] = "pending" /\ \A v \in Client \ {w} : t \notin Mine(v)
      BY <1>0, <1>1 DEF CountInv, SharedInv
    <2>2. PICK v \in Client : t \in job[v].todo
      BY <1>0, <1>1, <2>1 DEF CountInv, CountedInv, Unmarked, Excused
    <2>3. t \in Mine(v)
      BY <2>2 DEF Mine, TypeInv, JobsInv, Jobs, Job, WellFormed, Working
    <2> QED
      BY <2>1, <2>2, <2>3
  <1> QED
    BY <1>1

LEMMA BaseStep ==
  ASSUME TypeInv, CountInv, [ConsistencyNext]_consistencyVars
  PROVE  BaseInv'
  <1>0. Growing /\ BaseInv /\ JobsInv
    BY StepsGrow DEF CountInv, TypeInv
  <1>1. ASSUME NEW w \in Client, Works(w) PROVE BaseInv'
    <2>1. CASE Scan(w)
      BY <1>0, <2>1, ScanFinds, BaseStays
    <2>2. CASE Recalculate(w)
      BY <1>0, <2>2, RecalculateJobs, JobChanges, BaseStays
    <2>3. CASE ReadRecord(w)
      <3>1. PICK j \in Jobs : /\ Becomes(w, j)
                              /\ \/ j.base = None
                                 \/ j.txns = job[w].txns /\ j.base \in {record, None}
        BY <2>3, ReadJobs DEF TypeInv
      <3>2. job'[w] = j /\ \A v \in Client \ {w} : job'[v] = job[v]
        BY <1>0, <3>1, JobChanges
      <3>3. CASE j.base = None
        BY <1>0, <3>2, <3>3, BaseStays
      <3>4. CASE j.txns = job[w].txns /\ j.base = record /\ record # None
        <4>1. job[w].todo = {} /\ job[w].way # "recalculate"
          BY <1>0, <2>3 DEF ReadRecord, JobsInv, Jobs, WellFormed
        <4>2. ASSUME NEW t \in Txn
              PROVE  /\ job'[w].base[t] > 0 /\ Unmarked(t) => Excused(t)
                     /\ job'[w].base[t] > 0 /\ t \in job'[w].txns => t \in doubtful
                     /\ job'[w].base[t] > 1 => t \in doubtful
          BY <3>2, <3>4, <4>1, ReadValue DEF CountInv, CountedInv
        <4>3. ASSUME NEW v \in Client \ {w}, job'[v].base # None, NEW t \in Txn
              PROVE  /\ job'[v].base[t] > 0 /\ Unmarked(t) => Excused(t)
                     /\ job'[v].base[t] > 0 /\ t \in job'[v].txns => t \in doubtful
                     /\ job'[v].base[t] > 1 => t \in doubtful
          BY <1>0, <3>2, <4>3 DEF BaseInv
        <4> QED
          BY <1>0, <4>2, <4>3 DEF BaseInv, Growing
      <3> QED
        BY <3>1, <3>3, <3>4
    <2>4. CASE WriteRecord(w)
      <3>1. PICK j \in Jobs : Follows(w, j)
        BY <1>0, <2>4, WriteJobs
      <3> QED
        BY <1>0, <3>1, JobChanges, BaseStays DEF Follows
    <2>5. CASE MarkApplied(w)
      <3>1. PICK t \in Txn : job'[w].base = None /\ \A v \in Client \ {w} : job'[v] = job[v]
        BY <2>5, MarkDoes
      <3> QED
        BY <1>0, <3>1, BaseStays
    <2> QED
      BY <1>1, <2>1, <2>2, <2>3, <2>4, <2>5 DEF Works
  <1>2. ASSUME NEW w \in Client, Turns(w) PROVE BaseInv'
    <2>1. PICK j \in Jobs : Becomes(w, j) /\ j.base = None
      BY <1>2 DEF Turns, Jobs, WellFormed
    <2> QED
      BY <1>0, <2>1, JobChanges, BaseStays
  <1>3. ASSUME UNCHANGED job PROVE BaseInv'
    BY <1>0, <1>3 DEF BaseInv, Growing
  <1>4. ASSUME Aside \/ \E t \in Txn : Insert(t) \/ CollectGarbage(t) PROVE UNCHANGED job
    BY <1>4 DEF Insert, CollectGarbage, Aside
  <1> QED
    BY <1>0, <1>1, <1>2, <1>3, <1>4, StepsHaveKinds DEF Kinds, TypeInv

LEMMA CountStep == TypeInv /\ CountInv /\ [ConsistencyNext]_consistencyVars => CountInv'
  BY TakenStep, SharedStep, CountedStep, BaseStep DEF CountInv

(* A transaction is counted twice only if a job that wrote it did not mark *)
(* it, or if it was pending while two jobs worked on the record at once.   *)
THEOREM CountedTwiceIsDoubtful == ConsistencySpec => []CountedOnce
  <1>1. ConsistencySpec => [](TypeInv /\ CountInv)
    BY TypeInit, TypeStep, CountInit, CountStep, PTL DEF ConsistencySpec
  <1>2. CountInv => CountedOnce
    BY DEF CountInv, CountedInv, CountedOnce
  <1> QED
    BY <1>1, <1>2, PTL

----------------------------------------------------------------------------
(* Why nothing is lost.                                                    *)

\* Of a set() and a later transaction that one job has, or that is marked
\* already: the set() is with it, or it came late.
OrderInv ==
  \A s \in Sets(Txn), t \in Txn :
    tx[s] = "pending" /\ Stamp[s] < Stamp[t] =>
      /\ tx[t] = "applied" => Excused(s) \/ s \in reordered
      /\ \A w \in Client : t \in Mine(w) => s \in Mine(w) \cup reordered \cup doubtful

AtWork(w) == job[w].pc \in Working

OneAtWork == \A v, w \in Client : AtWork(v) /\ AtWork(w) => v = w

Kept(t) == record # None /\ (record[t] > 0 \/ Superseded(t))

KeptInv == \A t \in Txn : tx[t] = "applied" \/ (\E w \in Client : t \in job[w].todo) => Kept(t)

\* What the job is about to write rests on the record as it is.
CurrentInv ==
  \A w \in Client :
    job[w].pc = "write" =>
      IF job[w].way = "recalculate" THEN \A t \in Txn : tx[t] = "applied" => t \in job[w].txns
      ELSE \/ FromScratch(job[w])
           \/ job[w].base = record
           \/ job[w].way = "ticket" /\ job[w].base = None /\ record # None

LossInv == OrderInv /\ (~lossy => OneAtWork /\ KeptInv /\ CurrentInv)


LEMMA LossInit == ConsistencyInit => LossInv
  <1> SUFFICES ASSUME ConsistencyInit PROVE LossInv
    OBVIOUS
  <1>1. \A t \in Txn : tx[t] = "new"
    BY DEF ConsistencyInit
  <1>2. \A w \in Client : job[w].pc = "idle" /\ job[w].todo = {}
    BY DEF ConsistencyInit, NoJob
  <1>3. OrderInv
    BY <1>1 DEF OrderInv, Sets
  <1>4. OneAtWork /\ KeptInv /\ CurrentInv
    BY <1>1, <1>2 DEF OneAtWork, AtWork, Working, KeptInv, CurrentInv
  <1> QED
    BY <1>3, <1>4 DEF LossInv

\* What the history remembers is not forgotten.
Remembers == reordered \subseteq reordered' /\ (lossy => lossy')

LEMMA OverlapRemembers ==
  ASSUME NEW w, Overlap(w)
  PROVE  lossy => lossy'
  <1>1. lossy' = TRUE \/ lossy' = lossy
    BY DEF Overlap
  <1> QED
    BY <1>1

LEMMA HistoryGrows ==
  ASSUME TypeInv, [ConsistencyNext]_consistencyVars
  PROVE  Remembers
  <1>1. ASSUME NEW w \in Client, Works(w) PROVE Remembers
    <2>1. CASE Scan(w)
      <3>1. reordered \subseteq reordered' /\ (Overlap(w) \/ lossy' = lossy)
        BY <2>1, ScanFinds DEF TypeInv
      <3> QED
        BY <3>1, OverlapRemembers DEF Remembers
    <2>2. CASE Recalculate(w)
      <3>1. reordered' = reordered /\ Overlap(w)
        BY <2>2 DEF Recalculate
      <3> QED
        BY <3>1, OverlapRemembers DEF Remembers
    <2>3. CASE ReadRecord(w)
      <3>1. reordered' = reordered /\ (lossy' = lossy \/ lossy' = (lossy \/ job[w].way = "lock"))
        BY <2>3 DEF ReadRecord
      <3>2. lossy => lossy'
        <4>1. CASE lossy' = lossy
          BY <4>1
        <4>2. CASE lossy' = (lossy \/ job[w].way = "lock")
          BY <4>2, Zenon
        <4> QED
          BY <3>1, <4>1, <4>2
      <3> QED
        BY <3>1, <3>2 DEF Remembers
    <2>4. CASE WriteRecord(w) \/ MarkApplied(w)
      <3>1. reordered' = reordered /\ lossy' = lossy
        BY <2>4 DEF WriteRecord, MarkApplied
      <3> QED
        BY <3>1 DEF Remembers
    <2> QED
      BY <1>1, <2>1, <2>2, <2>3, <2>4 DEF Works
  <1>2. ASSUME NEW w \in Client, Turns(w) PROVE Remembers
    BY <1>2 DEF Turns, Remembers
  <1>3. CASE Aside
    BY <1>3 DEF Aside, Remembers
  <1>4. ASSUME NEW t \in Txn, Insert(t) \/ CollectGarbage(t) PROVE Remembers
    <2>1. reordered \subseteq reordered' /\ lossy' = lossy
      BY <1>4 DEF Insert, CollectGarbage, pastVars
    <2> QED
      BY <2>1 DEF Remembers
  <1> QED
    BY <1>1, <1>2, <1>3, <1>4, StepsHaveKinds DEF Kinds, TypeInv

\* A job that keeps its transactions, or gives them up.
LEMMA OrderStays ==
  ASSUME Growing, OrderInv, reordered \subseteq reordered', UNCHANGED tx, NEW w \in Client,
         \A v \in Client \ {w} : job'[v] = job[v], Mine(w)' \in {Mine(w), {}}
  PROVE  OrderInv'
  <1>1. ASSUME NEW s \in Sets(Txn), NEW t \in Txn, tx'[s] = "pending", Stamp[s] < Stamp[t]
        PROVE  /\ tx'[t] = "applied" => Excused(s)' \/ s \in reordered'
               /\ \A v \in Client : t \in Mine(v)' => s \in Mine(v)' \cup reordered' \cup doubtful'
    <2>1. s \in Txn /\ tx[s] = "pending" /\ Unmarked(s)'
      BY <1>1 DEF Sets, Unmarked
    <2>2. tx'[t] = "applied" => Excused(s)' \/ s \in reordered'
      BY <1>1, <2>1 DEF OrderInv, Growing
    <2>3. \A v \in Client : Mine(v)' = Mine(v) \/ Mine(v)' = {}
      BY DEF Mine
    <2>4. \A v \in Client : t \in Mine(v)' => s \in Mine(v)' \cup reordered' \cup doubtful'
      BY <1>1, <2>1, <2>3 DEF OrderInv, Growing
    <2> QED
      BY <2>2, <2>4
  <1> QED
    BY <1>1 DEF OrderInv

LEMMA OrderStep ==
  ASSUME TypeInv, TakenInv, OrderInv, [ConsistencyNext]_consistencyVars
  PROVE  OrderInv'
  <1> USE DEF TypeInv
  <1>0. Growing /\ reordered \subseteq reordered' /\ \A s \in Sets(Txn) : s \in Txn
    BY StepsGrow, HistoryGrows DEF Sets, Remembers
  <1>1. ASSUME NEW w \in Client, Works(w) PROVE OrderInv'
    <2>1. CASE Scan(w)
      <3>1. /\ \A v \in Client \ {w} : job'[v] = job[v] /\ Mine(v)' = Mine(v)
            /\ UNCHANGED tx /\ Mine(w)' = job'[w].txns
            /\ Overtaken(Pending \ Mine(w)', Mine(w)') \subseteq reordered'
        BY <2>1, ScanFinds DEF Mine
      <3>2. ASSUME NEW s \in Sets(Txn), NEW t \in Txn, tx'[s] = "pending", Stamp[s] < Stamp[t]
            PROVE  /\ tx'[t] = "applied" => Excused(s)' \/ s \in reordered'
                   /\ \A v \in Client : t \in Mine(v)' => s \in Mine(v)' \cup reordered' \cup doubtful'
        <4>1. tx[s] = "pending" /\ Unmarked(s)' /\ s \in Pending
          BY <1>0, <3>1, <3>2 DEF Unmarked, Pending
        <4>2. tx'[t] = "applied" => Excused(s)' \/ s \in reordered'
          BY <1>0, <3>1, <3>2, <4>1 DEF OrderInv, Growing
        <4>3. \A v \in Client \ {w} : t \in Mine(v)' => s \in Mine(v)' \cup reordered' \cup doubtful'
          BY <1>0, <3>1, <3>2, <4>1 DEF OrderInv, Growing
        <4>4. t \in Mine(w)' /\ s \notin Mine(w)' => s \in Overtaken(Pending \ Mine(w)', Mine(w)')
          <5>1. Stamp[t] > Stamp[s] /\ Op[s] = "set"
            BY <3>2, ConsistencyAssumption DEF Sets
          <5> QED
            BY <4>1, <5>1 DEF Overtaken, Sets
        <4> QED
          BY <3>1, <4>2, <4>3, <4>4
      <3> QED
        BY <3>2 DEF OrderInv
    <2>2. CASE Recalculate(w)
      <3>1. UNCHANGED tx /\ Mine(w)' = {} /\ \A v \in Client \ {w} : job'[v] = job[v]
        BY <2>2, RecalculateMarksNone
      <3> QED
        BY <1>0, <3>1, OrderStays
    <2>3. CASE ReadRecord(w)
      <3>1. PICK j \in Jobs : Becomes(w, j) /\ j.todo = {} /\ j.way = job[w].way /\ (j.txns = {} \/ j.txns = job[w].txns)
        BY <2>3, ReadJobs
      <3>2. job'[w] = j /\ \A v \in Client \ {w} : job'[v] = job[v]
        BY <3>1, JobChanges
      <3>3. UNCHANGED tx /\ job[w].todo = {}
        BY <2>3 DEF ReadRecord, JobsInv, Jobs, WellFormed
      <3>4. Mine(w)' \in {Mine(w), {}}
        BY <3>1, <3>2, <3>3 DEF Mine
      <3> QED
        BY <1>0, <3>2, <3>3, <3>4, OrderStays
    <2>4. CASE WriteRecord(w)
      <3>1. PICK j \in Jobs : Follows(w, j) /\ (j.todo = {} \/ j.todo = job[w].txns)
        BY <2>4, WriteJobs
      <3>2. job'[w] = j /\ \A v \in Client \ {w} : job'[v] = job[v]
        BY <3>1, JobChanges DEF Follows
      <3>3. UNCHANGED tx /\ job[w].todo = {}
        BY <2>4 DEF WriteRecord, JobsInv, Jobs, WellFormed
      <3>4. Mine(w)' \in {Mine(w), {}}
        BY <3>1, <3>2, <3>3 DEF Mine, Follows
      <3> QED
        BY <1>0, <3>2, <3>3, <3>4, OrderStays
    <2>5. CASE MarkApplied(w)
      <3>1. PICK u \in Txn :
              /\ \A v \in Client \ {w} : job'[v] = job[v]
              /\ u \in job[w].todo /\ job'[w].todo = job[w].todo \ {u} /\ job[w].txns = {} /\ job'[w].txns = {}
              /\ job[w].way # "recalculate" /\ job'[w].way = job[w].way
              /\ \A x \in Txn \ {u} : tx'[x] = tx[x]
              /\ tx'[u] = "applied" \/ (tx[u] = "deleted" /\ tx'[u] = "deleted") \/ (tx'[u] = tx[u] /\ u \in doubtful')
        BY <2>5, MarkDoes
      <3>2. /\ u \in Mine(w) /\ Mine(w) = job[w].todo /\ Mine(w)' = Mine(w) \ {u}
            /\ \A v \in Client \ {w} : Mine(v)' = Mine(v)
        BY <3>1 DEF Mine
      <3>3. ASSUME NEW s \in Sets(Txn), NEW t \in Txn, tx'[s] = "pending", Stamp[s] < Stamp[t]
            PROVE  /\ tx'[t] = "applied" => Excused(s)' \/ s \in reordered'
                   /\ \A v \in Client : t \in Mine(v)' => s \in Mine(v)' \cup reordered' \cup doubtful'
        <4>1. tx[s] = "pending" /\ Unmarked(s)' /\ (s # u \/ s \in doubtful')
          BY <1>0, <3>1, <3>3 DEF Unmarked
        <4>2. s # t
          BY <1>0, <3>3, ConsistencyAssumption
        <4>3. ASSUME tx'[t] = "applied", tx[t] = "applied" PROVE Excused(s)' \/ s \in reordered'
          <5>1. Excused(s) \/ s \in reordered
            BY <3>3, <4>1, <4>3 DEF OrderInv
          <5> QED
            BY <1>0, <3>3, <4>1, <5>1 DEF Growing
        <4>4. ASSUME tx'[t] = "applied", tx[t] # "applied" PROVE Excused(s)' \/ s \in reordered'
          <5>1. t = u
            BY <3>1, <4>4
          <5>2. s \in Mine(w) \cup reordered \cup doubtful
            BY <3>2, <3>3, <4>1, <5>1 DEF OrderInv
          <5>3. s \in Mine(w) => s \in job'[w].todo
            BY <3>1, <3>2, <4>2, <5>1
          <5>4. s \in job'[w].todo \/ s \in reordered' \/ s \in doubtful'
            BY <1>0, <5>2, <5>3 DEF Growing
          <5> QED
            BY <5>4 DEF Excused
        <4>5. ASSUME NEW v \in Client, t \in Mine(v)' PROVE s \in Mine(v)' \cup reordered' \cup doubtful'
          <5>1. t \in Mine(v)
            BY <3>2, <4>5
          <5>2. s \in Mine(v) \cup reordered \cup doubtful
            BY <3>3, <4>1, <5>1 DEF OrderInv
          <5>3. s \in Mine(v) => s \in Mine(v)' \cup doubtful'
            BY <3>2, <4>1
          <5> QED
            BY <1>0, <5>2, <5>3 DEF Growing
        <4> QED
          BY <4>3, <4>4, <4>5
      <3> QED
        BY <3>3 DEF OrderInv
    <2> QED
      BY <1>1, <2>1, <2>2, <2>3, <2>4, <2>5 DEF Works
  <1>2. ASSUME NEW w \in Client, Turns(w) PROVE OrderInv'
    <2>1. PICK j \in Jobs : Becomes(w, j) /\ j.txns = {} /\ j.todo = {}
      BY <1>2 DEF Turns, Jobs, WellFormed
    <2>2. job'[w] = j /\ \A v \in Client \ {w} : job'[v] = job[v]
      BY <2>1, JobChanges
    <2>3. UNCHANGED tx /\ Mine(w)' = {}
      BY <1>2, <2>1, <2>2 DEF Turns, Mine
    <2> QED
      BY <1>0, <2>2, <2>3, OrderStays
  <1>3. ASSUME NEW x \in Txn, Insert(x) PROVE OrderInv'
    <2>1. /\ \A w \in Client : Mine(w)' = Mine(w) /\ Mine(w) \subseteq job[w].txns \cup job[w].todo
          /\ tx[x] = "new" /\ tx' = [tx EXCEPT ![x] = "pending"]
          /\ Overtaken({x}, {u \in Txn : tx[u] # "new"}) \subseteq reordered'
      BY <1>3 DEF Insert, Mine
    <2>2. tx \in [Txn -> {"new", "pending", "applied", "deleted"}]
      BY DEF ConsistencyTypeOK
    <2>3. ASSUME NEW s \in Sets(Txn), NEW t \in Txn, tx'[s] = "pending", Stamp[s] < Stamp[t]
          PROVE  /\ tx'[t] = "applied" => Excused(s)' \/ s \in reordered'
                 /\ \A v \in Client : t \in Mine(v)' => s \in Mine(v)' \cup reordered' \cup doubtful'
      <3>1. (tx'[t] = "applied" => tx[t] = "applied") /\ Unmarked(s)'
        BY <2>1, <2>2, <2>3 DEF Unmarked
      <3>2. CASE s # x
        <4>1. tx[s] = "pending"
          BY <1>0, <2>1, <2>2, <2>3, <3>2
        <4> QED
          BY <1>0, <2>1, <2>3, <3>1, <4>1 DEF OrderInv, Growing
      <3>3. CASE s = x
        <4>1. tx[t] # "new" => s \in Overtaken({x}, {u \in Txn : tx[u] # "new"})
          <5>1. Stamp[t] > Stamp[s] /\ Op[s] = "set"
            BY <1>0, <2>3, ConsistencyAssumption DEF Sets
          <5> QED
            BY <3>3, <5>1 DEF Overtaken, Sets
        <4>2. \A v \in Client : t \in Mine(v)' => tx[t] # "new"
          BY <2>1 DEF TakenInv
        <4> QED
          BY <2>1, <3>1, <4>1, <4>2
      <3> QED
        BY <3>2, <3>3
    <2> QED
      BY <2>3 DEF OrderInv
  <1>4. ASSUME NEW x \in Txn, CollectGarbage(x) PROVE OrderInv'
    <2>1. /\ \A w \in Client : Mine(w)' = Mine(w)
          /\ \A u \in Txn : tx'[u] = tx[u] \/ (tx[u] = "applied" /\ tx'[u] = "deleted")
          /\ UNCHANGED <<job, doubtful, reordered>>
      BY <1>4 DEF CollectGarbage, Mine, pastVars, ConsistencyTypeOK
    <2>2. \A s \in Txn : Excused(s)' = Excused(s)
      BY <2>1 DEF Excused
    <2> QED
      BY <1>0, <2>1, <2>2 DEF OrderInv
  <1>5. CASE Aside
    BY <1>5 DEF Aside, OrderInv, Mine, Excused
  <1> QED
    BY <1>1, <1>2, <1>3, <1>4, <1>5, StepsHaveKinds DEF Kinds

\* Who goes to work alone stays alone, and a job that is not at work does not count.
LEMMA AloneStays ==
  ASSUME OneAtWork, NEW w \in Client, \A v \in Client \ {w} : job'[v] = job[v],
         AtWork(w)' => AtWork(w) \/ \A v \in Client \ {w} : ~AtWork(v)
  PROVE  OneAtWork'
  <1>1. \A v \in Client \ {w} : AtWork(v)' = AtWork(v)
    BY DEF AtWork
  <1> QED
    BY <1>1 DEF OneAtWork

LEMMA AloneStep ==
  ASSUME TypeInv, OneAtWork, ~lossy', [ConsistencyNext]_consistencyVars
  PROVE  OneAtWork'
  <1> USE DEF TypeInv
  <1>0. ASSUME NEW w \in Client, Overlap(w) PROVE \A v \in Client \ {w} : ~AtWork(v)
    BY <1>0 DEF Overlap, AtWork
  <1>1. ASSUME NEW w \in Client, Works(w) PROVE OneAtWork'
    <2>1. CASE Scan(w)
      <3>1. AtWork(w)' => Overlap(w)
        BY <2>1, ScanFinds DEF AtWork, Working
      <3>2. \A v \in Client \ {w} : job'[v] = job[v]
        BY <2>1, ScanFinds
      <3> QED
        BY <1>0, <3>1, <3>2, AloneStays
    <2>2. CASE Recalculate(w)
      <3>1. Overlap(w)
        BY <2>2 DEF Recalculate
      <3>2. \A v \in Client \ {w} : job'[v] = job[v]
        BY <2>2, RecalculateJobs, JobChanges
      <3> QED
        BY <1>0, <3>1, <3>2, AloneStays
    <2>3. CASE ReadRecord(w) \/ WriteRecord(w) \/ MarkApplied(w)
      <3>1. AtWork(w)
        BY <2>3 DEF ReadRecord, WriteRecord, MarkApplied, AtWork, Working
      <3>2. \A v \in Client \ {w} : job'[v] = job[v]
        BY <2>3, ReadJobs, WriteJobs, MarkJobs, JobChanges DEF Follows
      <3> QED
        BY <3>1, <3>2, AloneStays
    <2> QED
      BY <1>1, <2>1, <2>2, <2>3 DEF Works
  <1>2. ASSUME NEW w \in Client, Turns(w) PROVE OneAtWork'
    <2>1. ~AtWork(w)' /\ \A v \in Client \ {w} : job'[v] = job[v]
      BY <1>2, JobChanges DEF Turns, AtWork, Working
    <2> QED
      BY <2>1, AloneStays
  <1>3. ASSUME UNCHANGED job PROVE OneAtWork'
    BY <1>3 DEF OneAtWork, AtWork
  <1>4. ASSUME Aside \/ \E t \in Txn : Insert(t) \/ CollectGarbage(t) PROVE UNCHANGED job
    BY <1>4 DEF Insert, CollectGarbage, Aside
  <1> QED
    BY <1>1, <1>2, <1>3, <1>4, StepsHaveKinds DEF Kinds

\* A transaction that must be in the record, or have been overwritten.
Due(t) == tx[t] = "applied" \/ \E w \in Client : t \in job[w].todo

LEMMA KeptStays ==
  ASSUME KeptInv, UNCHANGED record, doubtful \subseteq doubtful', reordered \subseteq reordered',
         \A t \in Txn : Due(t)' => Due(t)
  PROVE  KeptInv'
  <1>1. \A t \in Txn : Superseded(t) => Superseded(t)'
    BY DEF Superseded
  <1> QED
    BY <1>1 DEF KeptInv, Due, Kept

LEMMA DueStays ==
  ASSUME UNCHANGED tx, NEW w \in Client, \A v \in Client \ {w} : job'[v] = job[v], job'[w].todo \subseteq job[w].todo
  PROVE  \A t \in Txn : Due(t)' => Due(t)
  BY DEF Due

\* What a job writes while no other is at work.
LEMMA WrittenIsKept ==
  ASSUME TypeInv, SharedInv, OrderInv, OneAtWork, KeptInv, CurrentInv,
         doubtful \subseteq doubtful', reordered \subseteq reordered',
         NEW w \in Client, WriteRecord(w), Stored(w),
         NEW t \in Txn, tx[t] = "applied" \/ t \in job[w].txns
  PROVE  Kept(t)'
  <1> DEFINE j == job[w]
  <1>1. /\ j \in Jobs /\ j.txns \subseteq Txn /\ j.pc = "write" /\ j.todo = {} /\ j.way \in Way
        /\ j.way = "recalculate" => j.base = None
    BY DEF TypeInv, JobsInv, Jobs, Job, WellFormed, WriteRecord
  <1>2. record' \in NewValues(j) /\ Writable(j)
    BY DEF Stored
  <1> HIDE DEF j
  <1>3. record' # None
    BY <1>1, <1>2, NewValuesAreValues, ConsistencyAssumption DEF Value
  <1>4. PICK S \in Counting(j.txns, j.way) :
          /\ \A u \in Txn \ S : record'[u] = Base(j)[u]
          /\ \A u \in Txn \cap S : record'[u] > 0 /\ (record'[u] > 1 => Base(j)[u] > 0)
    BY <1>1, <1>2, NewValuesAre
  <1>5. /\ S \subseteq j.txns
        /\ \A u \in j.txns \ S : \E s \in S : s \in Sets(Txn) /\ Stamp[s] >= Stamp[u]
        /\ Sets(j.txns) # {} => \E s \in S : s \in Sets(j.txns)
    <2>1. Stands(S, j.txns)
      BY <1>1, CountingIsSound
    <2> QED
      BY <2>1 DEF Stands
  <1>6. CASE t \in S
    BY <1>3, <1>4, <1>6 DEF Kept
  <1>7. CASE t \in j.txns \ S
    <2>1. PICK s \in S : s \in Sets(Txn) /\ Stamp[s] >= Stamp[t]
      BY <1>5, <1>7
    <2>2. record'[s] > 0
      BY <1>4, <2>1 DEF Sets
    <2> QED
      BY <1>3, <2>1, <2>2 DEF Kept, Superseded
  <1>8. CASE t \notin j.txns
    <2>1. tx[t] = "applied" /\ j.way # "recalculate"
      BY <1>1, <1>8 DEF CurrentInv, j
    <2>2. CASE FromScratch(j)
      <3>1. PICK s \in S : s \in Sets(j.txns)
        BY <1>5, <2>2 DEF FromScratch
      <3>2. s \in Sets(Txn) /\ s \in Txn /\ s \in Mine(w) /\ record'[s] > 0
        BY <1>1, <1>4, <2>1, <3>1 DEF Sets, Mine, j
      <3>3. CASE Stamp[s] >= Stamp[t] \/ s \in doubtful \/ s \in reordered
        BY <1>3, <3>2, <3>3 DEF Kept, Superseded
      <3>4. CASE Stamp[s] < Stamp[t] /\ s \notin doubtful /\ s \notin reordered
        <4>1. tx[s] = "pending"
          BY <3>2, <3>4 DEF SharedInv
        <4>2. Excused(s)
          BY <2>1, <3>2, <3>4, <4>1 DEF OrderInv
        <4>3. PICK v \in Client : s \in job[v].todo
          BY <3>4, <4>2 DEF Excused
        <4>4. AtWork(v) /\ AtWork(w)
          BY <1>1, <4>3 DEF AtWork, TypeInv, JobsInv, Jobs, Job, WellFormed, Working, j
        <4>5. v = w
          BY <4>4 DEF OneAtWork
        <4> QED
          BY <1>1, <4>3, <4>5 DEF j
      <3>5. Stamp[s] \in Nat /\ Stamp[t] \in Nat
        BY <3>2, ConsistencyAssumption
      <3> QED
        BY <3>3, <3>4, <3>5
    <2>3. CASE ~FromScratch(j)
      <3>1. Kept(t)
        BY <2>1 DEF KeptInv
      <3>2. j.base = record
        BY <1>1, <1>2, <2>1, <2>3 DEF CurrentInv, Writable, j
      <3>3. Base(j) = record
        BY <1>1, <2>1, <2>3, <3>1, <3>2 DEF Base, Kept, FromScratch, Way
      <3>4. \A u \in Txn : record[u] > 0 => record'[u] > 0
        BY <1>4, <3>3
      <3>5. CASE record[t] > 0
        BY <1>3, <3>4, <3>5 DEF Kept
      <3>6. CASE Superseded(t)
        BY <1>3, <3>4, <3>6 DEF Kept, Superseded, Sets
      <3> QED
        BY <3>1, <3>5, <3>6 DEF Kept
    <2> QED
      BY <2>2, <2>3
  <1> QED
    BY <1>6, <1>7, <1>8

\* While one job is at work, what it rests on stays.
LEMMA CurrentStep ==
  ASSUME TypeInv, ~lossy', OneAtWork, CurrentInv, [ConsistencyNext]_consistencyVars
  PROVE  CurrentInv'
  <1> USE DEF TypeInv
  <1> DEFINE Rests(v) ==
        job[v].pc = "write" =>
          IF job[v].way = "recalculate" THEN \A t \in Txn : tx[t] = "applied" => t \in job[v].txns
          ELSE \/ FromScratch(job[v])
               \/ job[v].base = record
               \/ job[v].way = "ticket" /\ job[v].base = None /\ record # None
  <1>0. \A v \in Client : Rests(v)
    BY DEF CurrentInv
  <1>1. ASSUME NEW w \in Client, Works(w) PROVE CurrentInv'
    <2>1. ASSUME \A v \in Client \ {w} : job'[v] = job[v],
                 UNCHANGED <<tx, record>> \/ AtWork(w)
          PROVE  \A v \in Client \ {w} : Rests(v)'
      <3>1. SUFFICES ASSUME NEW v \in Client \ {w}, job[v].pc = "write" PROVE Rests(v)'
        BY <2>1
      <3>2. UNCHANGED <<tx, record>>
        BY <2>1, <3>1 DEF OneAtWork, AtWork, Working
      <3> QED
        BY <1>0, <2>1, <3>1, <3>2 DEF FromScratch
    <2>2. CASE Scan(w)
      <3>1. /\ \A v \in Client \ {w} : job'[v] = job[v]
            /\ UNCHANGED <<tx, record>> /\ job'[w].way # "recalculate" /\ (job'[w].pc = "write" => FromScratch(job'[w]))
        BY <2>2, ScanFinds
      <3>2. Rests(w)'
        BY <3>1 DEF FromScratch
      <3> QED
        BY <2>1, <3>1, <3>2 DEF CurrentInv
    <2>3. CASE Recalculate(w)
      <3>1. /\ \A v \in Client \ {w} : job'[v] = job[v]
            /\ job'[w].way = "recalculate" /\ job'[w].txns = {t \in Txn : tx[t] \in {"pending", "applied"}}
        BY <2>3, RecalculateJobs, JobChanges
      <3>2. UNCHANGED <<tx, record>>
        BY <2>3 DEF Recalculate
      <3>3. Rests(w)'
        BY <3>1, <3>2
      <3> QED
        BY <2>1, <3>1, <3>2, <3>3 DEF CurrentInv
    <2>4. CASE ReadRecord(w)
      <3>1. \A v \in Client \ {w} : job'[v] = job[v]
        BY <2>4, ReadJobs, JobChanges
      <3>2. UNCHANGED <<tx, record>>
        BY <2>4 DEF ReadRecord
      <3>3. job[w] \in Jobs /\ job[w].base = None /\ job[w].way \in {"lock", "ticket"}
        BY <2>4 DEF JobsInv, Jobs, Job, Way, WellFormed, ReadRecord
      <3>4. Rests(w)'
        <4>1. CASE Fail(w)
          <5>1. job'[w].pc = "end"
            BY <3>3, <4>1 DEF Fail, Ending, JobsInv
          <5> QED
            BY <5>1
        <4>2. CASE job' = [job EXCEPT ![w].pc = "write", ![w].base = record]
          <5>1. job'[w].base = record /\ job'[w].way = job[w].way
            BY <3>3, <4>2 DEF JobsInv, Jobs, Job
          <5> QED
            BY <3>2, <3>3, <5>1
        <4>3. CASE Goto(w, "write") /\ record # None /\ job[w].way # "lock"
          <5>1. job'[w].base = None /\ job'[w].way = "ticket"
            BY <3>3, <4>3 DEF Goto, JobsInv, Jobs, Job
          <5> QED
            BY <3>2, <4>3, <5>1
        <4>4. \/ Fail(w) \/ job' = [job EXCEPT ![w].pc = "write", ![w].base = record]
              \/ Goto(w, "write") /\ record # None /\ lossy' = (lossy \/ job[w].way = "lock")
          BY <2>4 DEF ReadRecord
        <4>5. lossy' = (lossy \/ job[w].way = "lock") => job[w].way # "lock"
          BY Zenon
        <4> QED
          BY <4>1, <4>2, <4>3, <4>4, <4>5
      <3> QED
        BY <2>1, <3>1, <3>2, <3>4 DEF CurrentInv
    <2>5. CASE WriteRecord(w) \/ MarkApplied(w)
      <3>1. \A v \in Client \ {w} : job'[v] = job[v]
        BY <2>5, WriteJobs, MarkJobs, JobChanges DEF Follows
      <3>2. job'[w].pc # "write"
        BY <2>5, WriteJobs, MarkJobs, JobChanges DEF Follows
      <3>3. AtWork(w)
        BY <2>5 DEF WriteRecord, MarkApplied, AtWork, Working
      <3> QED
        BY <2>1, <3>1, <3>2, <3>3 DEF CurrentInv
    <2> QED
      BY <1>1, <2>2, <2>3, <2>4, <2>5 DEF Works
  <1>2. ASSUME NEW w \in Client, Turns(w) PROVE CurrentInv'
    <2>1. job'[w].pc # "write" /\ \A v \in Client \ {w} : job'[v] = job[v]
      BY <1>2, JobChanges DEF Turns
    <2>2. UNCHANGED <<tx, record>>
      BY <1>2 DEF Turns
    <2> QED
      BY <1>0, <2>1, <2>2 DEF CurrentInv
  <1>3. ASSUME UNCHANGED <<job, record>>, \A t \in Txn : tx'[t] = "applied" => tx[t] = "applied" PROVE CurrentInv'
    BY <1>0, <1>3 DEF CurrentInv
  <1>4. ASSUME NEW x \in Txn, Insert(x) \/ CollectGarbage(x) PROVE CurrentInv'
    <2>1. UNCHANGED <<job, record>> /\ \A t \in Txn : tx'[t] = "applied" => tx[t] = "applied"
      BY <1>4 DEF Insert, CollectGarbage, ConsistencyTypeOK
    <2> QED
      BY <1>3, <2>1
  <1>5. CASE Aside
    BY <1>3, <1>5 DEF Aside
  <1> QED
    BY <1>1, <1>2, <1>4, <1>5, StepsHaveKinds DEF Kinds

LEMMA KeptStep ==
  ASSUME TypeInv, SharedInv, OrderInv, OneAtWork, KeptInv, CurrentInv, [ConsistencyNext]_consistencyVars
  PROVE  KeptInv'
  <1> USE DEF TypeInv
  <1>0. doubtful \subseteq doubtful' /\ reordered \subseteq reordered'
    BY StepsGrow, HistoryGrows DEF Growing, Remembers
  <1>1. ASSUME NEW w \in Client, Works(w) PROVE KeptInv'
    <2>1. CASE Scan(w) \/ Recalculate(w) \/ ReadRecord(w)
      <3>1. job'[w].todo = {} /\ \A v \in Client \ {w} : job'[v] = job[v]
        BY <2>1, ScanJobs, RecalculateJobs, ReadJobs, JobChanges
      <3>2. UNCHANGED <<tx, record>>
        BY <2>1 DEF Scan, Recalculate, ReadRecord
      <3> QED
        BY <1>0, <3>1, <3>2, DueStays, KeptStays
    <2>2. CASE WriteRecord(w)
      <3>1. PICK j \in Jobs :
              /\ Follows(w, j)
              /\ \/ j.todo = {} /\ UNCHANGED record
                 \/ j.todo = {} /\ Stored(w)
                 \/ j.todo = job[w].txns /\ Stored(w)
        BY <2>2, WriteJobs
      <3>2. job'[w].todo = j.todo /\ \A v \in Client \ {w} : job'[v] = job[v]
        BY <3>1, JobChanges DEF Follows
      <3>3. UNCHANGED tx /\ AtWork(w)
        BY <2>2 DEF WriteRecord, AtWork, Working
      <3>4. CASE j.todo = {} /\ UNCHANGED record
        BY <1>0, <3>2, <3>3, <3>4, DueStays, KeptStays
      <3>5. CASE Stored(w) /\ j.todo \subseteq job[w].txns
        <4>1. ASSUME NEW t \in Txn, Due(t)' PROVE tx[t] = "applied" \/ t \in job[w].txns
          <5>1. ASSUME NEW v \in Client \ {w}, t \in job'[v].todo PROVE FALSE
            <6>1. AtWork(v)
              BY <3>2, <5>1 DEF AtWork, JobsInv, Jobs, Job, WellFormed, Working
            <6> QED
              BY <3>3, <6>1 DEF OneAtWork
          <5> QED
            BY <3>2, <3>3, <3>5, <4>1, <5>1 DEF Due
        <4>2. ASSUME NEW t \in Txn, tx[t] = "applied" \/ t \in job[w].txns PROVE Kept(t)'
          BY <1>0, <2>2, <3>5, <4>2, WrittenIsKept
        <4> QED
          BY <4>1, <4>2 DEF KeptInv, Due
      <3> QED
        BY <3>1, <3>4, <3>5
    <2>3. CASE MarkApplied(w)
      <3>1. PICK u \in Txn :
              /\ \A v \in Client \ {w} : job'[v] = job[v]
              /\ u \in job[w].todo /\ job'[w].todo = job[w].todo \ {u}
              /\ UNCHANGED record /\ \A x \in Txn \ {u} : tx'[x] = tx[x]
        BY <2>3, MarkDoes
      <3>2. \A t \in Txn : Due(t)' => Due(t)
        BY <3>1 DEF Due
      <3> QED
        BY <1>0, <3>1, <3>2, KeptStays
    <2> QED
      BY <1>1, <2>1, <2>2, <2>3 DEF Works
  <1>2. ASSUME NEW w \in Client, Turns(w) PROVE KeptInv'
    <2>1. job'[w].todo = {} /\ \A v \in Client \ {w} : job'[v] = job[v]
      BY <1>2, JobChanges DEF Turns, Jobs, WellFormed
    <2>2. UNCHANGED <<tx, record>>
      BY <1>2 DEF Turns
    <2> QED
      BY <1>0, <2>1, <2>2, DueStays, KeptStays
  <1>3. ASSUME NEW x \in Txn, Insert(x) \/ CollectGarbage(x) PROVE KeptInv'
    <2>1. UNCHANGED <<job, record>> /\ \A t \in Txn : tx'[t] = "applied" => tx[t] = "applied"
      BY <1>3 DEF Insert, CollectGarbage, ConsistencyTypeOK
    <2>2. \A t \in Txn : Due(t)' => Due(t)
      BY <2>1 DEF Due
    <2> QED
      BY <1>0, <2>1, <2>2, KeptStays
  <1>4. CASE Aside
    <2>1. \A t \in Txn : Due(t)' => Due(t)
      BY <1>4 DEF Aside, Due
    <2> QED
      BY <1>0, <1>4, <2>1, KeptStays DEF Aside
  <1> QED
    BY <1>1, <1>2, <1>3, <1>4, StepsHaveKinds DEF Kinds

LEMMA LossStep == TypeInv /\ CountInv /\ LossInv /\ [ConsistencyNext]_consistencyVars => LossInv'
  <1> SUFFICES ASSUME TypeInv, CountInv, LossInv, [ConsistencyNext]_consistencyVars PROVE LossInv'
    OBVIOUS
  <1>1. OrderInv'
    BY OrderStep DEF CountInv, LossInv
  <1>2. ASSUME ~lossy' PROVE OneAtWork' /\ KeptInv' /\ CurrentInv'
    <2>1. ~lossy
      BY <1>2, HistoryGrows DEF Remembers
    <2>2. SharedInv /\ OrderInv /\ OneAtWork /\ KeptInv /\ CurrentInv
      BY <2>1 DEF CountInv, LossInv
    <2> QED
      BY <1>2, <2>2, AloneStep, KeptStep, CurrentStep
  <1> QED
    BY <1>1, <1>2 DEF LossInv

(* What is marked as applied is in the record, or a set() that is later,   *)
(* late or still unmarked has overwritten it, unless two jobs worked on    *)
(* the record at once or a failing read counted as an absent record.       *)
THEOREM AppliedIsNotLost == ConsistencySpec => []NothingIsLost
  <1>1. ConsistencySpec => [](TypeInv /\ CountInv /\ LossInv)
    BY TypeInit, TypeStep, CountInit, CountStep, LossInit, LossStep, PTL DEF ConsistencySpec
  <1>2. LossInv => NothingIsLost
    BY DEF LossInv, KeptInv, Kept, NothingIsLost
  <1> QED
    BY <1>1, <1>2, PTL

----------------------------------------------------------------------------
(* Why two jobs of one way do not meet.                                    *)

LockInv ==
  ~lapsed => /\ \A v, w \in holders : v = w
             /\ \A w \in Client : job[w].way = "lock" /\ job[w].pc # "idle" => w \in holders

Outstanding(k) == tickets[k].status # "absent" /\ ~tickets[k].expired

TicketInv ==
  ~blurred =>
    /\ \A k \in Ticket : \A w \in On(k) : Valid(w, k)
    /\ \A k, l \in Ticket : Outstanding(k) /\ Outstanding(l) => k = l
    /\ leader = "next" => \A k \in Ticket : Outstanding(k) => tickets[k].status = "processing"
    /\ leader = "create" => \A k \in Ticket : ~Outstanding(k)

MeetInv == LockInv /\ TicketInv

LEMMA MeetInit == ConsistencyInit => MeetInv
  <1> SUFFICES ASSUME ConsistencyInit PROVE MeetInv
    OBVIOUS
  <1>1. holders = {} /\ \A w \in Client : job[w].pc = "idle" /\ job[w].way = "lock"
    BY DEF ConsistencyInit, Init, NoJob
  <1>2. leader = "idle" /\ \A k \in Ticket : tickets[k].status = "absent"
    BY DEF ConsistencyInit, NoTicket
  <1>3. LockInv
    BY <1>1 DEF LockInv
  <1>4. TicketInv
    BY <1>1, <1>2 DEF TicketInv, On, Outstanding
  <1> QED
    BY <1>3, <1>4 DEF MeetInv

\* A job goes on in its way, with its ticket.
Continues(w) ==
  /\ job[w].pc # "idle" /\ job'[w].way = job[w].way /\ job'[w].ticket = job[w].ticket
  /\ \A v \in Client \ {w} : job'[v] = job[v]

\* A client has a job no more.
Stops(w) == job'[w] = NoJob /\ \A v \in Client \ {w} : job'[v] = job[v]

LEMMA WorkContinues ==
  ASSUME JobsInv, NEW w \in Client, Scan(w) \/ ReadRecord(w) \/ WriteRecord(w) \/ MarkApplied(w), ConsistencyTypeOK
  PROVE  Continues(w)
  <1>1. job[w].pc # "idle"
    BY DEF Scan, ReadRecord, WriteRecord, MarkApplied
  <1>2. PICK j \in Jobs : Becomes(w, j) /\ j.way = job[w].way /\ j.ticket = job[w].ticket
    BY ScanJobs, ReadJobs, WriteJobs, MarkJobs DEF Follows
  <1> QED
    BY <1>1, <1>2, JobChanges DEF Continues

LEMMA RestStops ==
  ASSUME JobsInv, NEW w \in Client, Rest(w)
  PROVE  Stops(w)
  BY NoJobIsAJob, JobChanges DEF Rest, Becomes, Stops

LEMMA CheckGoesOn ==
  ASSUME JobsInv, NEW w \in Client, CheckTicket(w)
  PROVE  Continues(w) \/ Stops(w)
  <1>1. CASE Rest(w)
    BY <1>1, RestStops
  <1>2. CASE Goto(w, "scan")
    <2>1. job[w] \in Job /\ job[w].pc = "check"
      BY DEF JobsInv, Jobs, CheckTicket
    <2>2. job'[w] = [job[w] EXCEPT !.pc = "scan"] /\ \A v \in Client \ {w} : job'[v] = job[v]
      BY <1>2 DEF Goto, JobsInv
    <2> QED
      BY <2>1, <2>2 DEF Job, Continues
  <1> QED
    BY <1>1, <1>2 DEF CheckTicket

\* No client takes up the lock.
LEMMA LockStays ==
  ASSUME LockInv, UNCHANGED <<holders, lapsed>>, NEW w \in Client, Continues(w) \/ Stops(w)
  PROVE  LockInv'
  BY DEF LockInv, Continues, Stops, NoJob

LEMMA MeetLock ==
  ASSUME TypeInv, LockInv, [ConsistencyNext]_consistencyVars
  PROVE  LockInv'
  <1> USE DEF TypeInv
  <1>1. ASSUME NEW w \in Client, StartConsolidation(w) PROVE LockInv'
    <2>1. CASE EnterLate(w)
      BY <2>1 DEF EnterLate, LockInv
    <2>2. CASE Enter(w)
      <3>1. SUFFICES ASSUME ~lapsed' PROVE (\A v, x \in holders' : v = x) /\
                     \A v \in Client : job'[v].way = "lock" /\ job'[v].pc # "idle" => v \in holders'
        BY DEF LockInv
      <3>2. ~lapsed /\ holders = {} /\ holders' = {w}
        BY <2>2, <3>1 DEF Enter
      <3>3. \A v \in Client \ {w} : job'[v] = job[v]
        BY <1>1 DEF StartConsolidation, Goto, JobsInv
      <3> QED
        BY <3>2, <3>3 DEF LockInv
    <2> QED
      BY <1>1, <2>1, <2>2 DEF StartConsolidation
  <1>2. ASSUME NEW w \in Client, EndConsolidation(w) \/ Crash(w) PROVE LockInv'
    <2>1. Stops(w)
      BY <1>2, RestStops DEF EndConsolidation, Crash
    <2>2. holders' = holders \ {w} /\ lapsed' = lapsed
      BY <1>2 DEF EndConsolidation, Crash, Leave
    <2> QED
      BY <2>1, <2>2 DEF LockInv, Stops, NoJob
  <1>3. ASSUME NEW w \in Client, Recalculate(w) PROVE LockInv'
    <2>1. job'[w].way = "recalculate" /\ \A v \in Client \ {w} : job'[v] = job[v]
      BY <1>3, RecalculateJobs, JobChanges
    <2>2. UNCHANGED <<holders, lapsed>>
      BY <1>3 DEF Recalculate
    <2> QED
      BY <2>1, <2>2 DEF LockInv
  <1>4. ASSUME NEW w \in Client, NEW k \in Ticket, ClaimTicket(w, k) PROVE LockInv'
    <2>1. job' = job \/ (job'[w].way = "ticket" /\ \A v \in Client \ {w} : job'[v] = job[v])
      BY <1>4 DEF ClaimTicket, JobsInv, NoJob
    <2>2. UNCHANGED <<holders, lapsed>>
      BY <1>4 DEF ClaimTicket
    <2> QED
      BY <2>1, <2>2 DEF LockInv
  <1>5. ASSUME NEW w \in Client, Scan(w) \/ ReadRecord(w) \/ WriteRecord(w) \/ MarkApplied(w) PROVE LockInv'
    <2>1. UNCHANGED <<holders, lapsed>>
      BY <1>5 DEF Scan, ReadRecord, WriteRecord, MarkApplied
    <2> QED
      BY <1>5, <2>1, WorkContinues, LockStays
  <1>6. ASSUME NEW w \in Client, CheckTicket(w) \/ EndRecalculation(w) \/ EndTicket(w) PROVE LockInv'
    <2>1. UNCHANGED <<holders, lapsed>>
      BY <1>6 DEF CheckTicket, EndRecalculation, EndTicket
    <2>2. Continues(w) \/ Stops(w)
      BY <1>6, CheckGoesOn, RestStops DEF EndRecalculation, EndTicket
    <2> QED
      BY <2>1, <2>2, LockStays
  <1>7. ASSUME LockLapses PROVE LockInv'
    BY <1>7 DEF LockLapses, Lapse, LockInv
  <1>8. ASSUME UNCHANGED <<holders, lapsed, job>> PROVE LockInv'
    BY <1>8 DEF LockInv
  <1>9. ASSUME \/ Coordinate \/ UNCHANGED consistencyVars
               \/ \E t \in Txn : Insert(t) \/ CollectGarbage(t)
               \/ \E k \in Ticket : ReclaimTicket(k) \/ LeaseRunsOut(k) \/ TicketExpires(k)
        PROVE  UNCHANGED <<holders, lapsed, job>>
    BY <1>9 DEF Coordinate, ListAvailable, ListProcessing, CreateTicket, Insert, CollectGarbage, ReclaimTicket,
                LeaseRunsOut, TicketExpires, consistencyVars, workVars
  <1>10. Worker \subseteq Client /\ Caller \subseteq Client
    BY ConsistencyAssumption
  <1> QED
    BY <1>1, <1>2, <1>3, <1>4, <1>5, <1>6, <1>7, <1>8, <1>9, <1>10 DEF ConsistencyNext, Work

Listed ==
  /\ \A k \in Ticket : \A w \in On(k) : Valid(w, k)
  /\ \A k, l \in Ticket : Outstanding(k) /\ Outstanding(l) => k = l
  /\ leader = "next" => \A k \in Ticket : Outstanding(k) => tickets[k].status = "processing"
  /\ leader = "create" => \A k \in Ticket : ~Outstanding(k)

\* No client takes up a ticket, and no ticket changes.
LEMMA ListedStays ==
  ASSUME Listed, UNCHANGED <<tickets, leader>>, NEW w \in Client, Continues(w) \/ Stops(w)
  PROVE  Listed'
  <1>1. \A k \in Ticket : On(k)' \subseteq On(k)
    BY DEF On, Continues, Stops, NoJob
  <1>2. \A k \in Ticket : Outstanding(k)' = Outstanding(k) /\ \A v \in Client : Valid(v, k)' = Valid(v, k)
    BY DEF Outstanding, Valid
  <1>3. \A k \in Ticket : On(k) \subseteq Client
    BY DEF On
  <1> QED
    BY <1>1, <1>2, <1>3 DEF Listed

\* One ticket changes.  It is not outstanding unless it was, and if it is
\* available then not between the two queries of a listing.
LEMMA ListedChanges ==
  ASSUME TypeInv, Listed, NEW k \in Ticket, NEW ticket, tickets' = [tickets EXCEPT ![k] = ticket], UNCHANGED leader,
         \A l \in Ticket \ {k} : On(l)' \subseteq On(l),
         \A w \in On(k)' : Valid(w, k)',
         ticket.status # "absent" /\ ~ticket.expired =>
           Outstanding(k) /\ (ticket.status = "processing" \/ leader # "next")
  PROVE  Listed'
  <1>1. tickets'[k] = ticket /\ \A l \in Ticket \ {k} : tickets'[l] = tickets[l]
    BY DEF TypeInv, ConsistencyTypeOK
  <1>2. \A l \in Ticket \ {k} : Outstanding(l)' = Outstanding(l) /\ \A v \in Client : Valid(v, l)' = Valid(v, l)
    BY <1>1 DEF Outstanding, Valid
  <1>3. Outstanding(k)' => Outstanding(k) /\ (tickets'[k].status = "processing" \/ leader # "next")
    BY <1>1 DEF Outstanding
  <1>4. \A l \in Ticket : On(l) \subseteq Client
    BY DEF On
  <1>5. ASSUME NEW l \in Ticket, NEW w \in On(l)' PROVE Valid(w, l)'
    BY <1>2, <1>4, <1>5 DEF Listed
  <1>6. \A l \in Ticket : Outstanding(l)' => Outstanding(l)
    BY <1>2, <1>3
  <1>7. leader' = "next" => \A l \in Ticket : Outstanding(l)' => tickets'[l].status = "processing"
    BY <1>1, <1>2, <1>3 DEF Listed
  <1> QED
    BY <1>5, <1>6, <1>7 DEF Listed

\* Who works with a ticket holds it, alone.
LEMMA OnIsMine ==
  ASSUME TypeInv, Listed, NEW w \in Client, job[w].way = "ticket"
  PROVE  /\ job[w].ticket \in Ticket /\ w \in On(job[w].ticket) /\ On(job[w].ticket) = {w}
         /\ Valid(w, job[w].ticket) /\ Outstanding(job[w].ticket)
  <1> DEFINE k == job[w].ticket
  <1>1. k \in Ticket /\ w \in On(k)
    BY DEF TypeInv, JobsInv, Jobs, WellFormed, On
  <1>2. \A v \in On(k) : Valid(v, k)
    BY <1>1 DEF Listed
  <1>3. \A v \in On(k) : v = w
    BY <1>1, <1>2 DEF Valid
  <1> QED
    BY <1>1, <1>2, <1>3 DEF Valid, Outstanding

LEMMA RetriedIs ==
  ASSUME NEW ticket \in TicketState
  PROVE  \/ Retried(ticket).status = "absent"
         \/ Retried(ticket).status = "available" /\ Retried(ticket).expired = ticket.expired
  BY DEF Retried, NewTicket, NoTicket

LEMMA ClaimListed ==
  ASSUME TypeInv, Listed, NEW w \in Client, NEW k \in Ticket, ClaimTicket(w, k)
  PROVE  Listed'
  <1> DEFINE ticket == [tickets[k] EXCEPT !.status = "processing", !.by = w, !.over = FALSE]
             j == [NoJob EXCEPT !.pc = "check", !.way = "ticket", !.ticket = k]
  <1>1. tickets[k] \in TicketState /\ tickets[k].status = "available" /\ ~tickets[k].expired
    BY DEF TypeInv, ConsistencyTypeOK, ClaimTicket
  <1>2. tickets' = [tickets EXCEPT ![k] = ticket]
    BY DEF ClaimTicket, TypeInv, ConsistencyTypeOK
  <1>3. ticket.status = "processing" /\ ticket.by = w /\ ticket.over = FALSE /\ ticket.expired = tickets[k].expired
    BY <1>1 DEF TicketState
  <1>4. On(k) = {}
    BY <1>1 DEF Listed, Valid
  <1>5. job' = job \/ (job'[w] = j /\ \A v \in Client \ {w} : job'[v] = job[v])
    BY DEF ClaimTicket, TypeInv, JobsInv
  <1>6. On(k)' \subseteq {w} /\ \A l \in Ticket \ {k} : On(l)' \subseteq On(l)
    <2>1. j.ticket = k
      BY DEF NoJob
    <2>2. \A v \in Client \ {w} : job'[v] = job[v]
      BY <1>5
    <2>3. job'[w] = job[w] \/ job'[w].ticket = k
      BY <1>5, <2>1
    <2>4. \A l \in Ticket : \A v \in On(l)' : v \in On(l) \/ (v = w /\ l = k)
      BY <2>2, <2>3 DEF On
    <2> QED
      BY <1>4, <2>4
  <1>7. tickets'[k] = ticket
    BY <1>2 DEF TypeInv, ConsistencyTypeOK
  <1>8. Valid(w, k)'
    BY <1>1, <1>3, <1>7 DEF Valid
  <1>9. Outstanding(k)
    BY <1>1 DEF Outstanding
  <1>10. leader' = leader
    BY DEF ClaimTicket
  <1> HIDE DEF ticket
  <1> QED
    BY <1>2, <1>3, <1>6, <1>8, <1>9, <1>10, ListedChanges

LEMMA UnlistedMeans ==
  ASSUME NEW k, Unlisted(k), ~blurred'
  PROVE  ~(leader = "next" /\ tickets'[k].status = "available")
  BY Zenon DEF Unlisted

LEMMA EndListed ==
  ASSUME TypeInv, Listed, ~blurred', NEW w \in Client, EndTicket(w)
  PROVE  Listed'
  <1>1. job[w].way = "ticket" /\ Stops(w) /\ leader' = leader
    BY RestStops DEF EndTicket, TypeInv
  <1>2. PICK k \in Ticket : k = job[w].ticket
    BY <1>1, OnIsMine
  <1> DEFINE again == Retried([tickets[k] EXCEPT !.expired = FALSE])
  <1>3. On(k) = {w} /\ Valid(w, k) /\ Outstanding(k)
    BY <1>1, <1>2, OnIsMine
  <1>4. On(k)' = {} /\ \A l \in Ticket \ {k} : On(l)' \subseteq On(l)
    BY <1>1, <1>3 DEF On, Stops, NoJob
  <1>5. Unlisted(k)
    <2>1. EndTicket(w) => Unlisted(job[w].ticket)
      BY DEF EndTicket
    <2>2. blurred' = (blurred \/ (leader = "next" /\ tickets'[k].status = "available"))
      BY <1>2, <2>1 DEF Unlisted
    <2> QED
      BY <2>2 DEF Unlisted
  <1>6. leader = "next" => tickets'[k].status # "available"
    BY <1>5, UnlistedMeans
  <1>7. CASE UNCHANGED tickets
    BY <1>1, <1>7, ListedStays
  <1>8. CASE tickets' = [tickets EXCEPT ![k] = NoTicket]
    <2>1. NoTicket.status = "absent"
      BY DEF NoTicket
    <2> QED
      BY <1>1, <1>4, <1>8, <2>1, ListedChanges
  <1>9. CASE tickets' = [tickets EXCEPT ![k] = again]
    <2>1. tickets'[k] = again
      BY <1>9 DEF TypeInv, ConsistencyTypeOK
    <2>2. [tickets[k] EXCEPT !.expired = FALSE] \in TicketState
      BY DEF TypeInv, ConsistencyTypeOK, TicketState
    <2>3. again.status = "absent" \/ again.status = "available"
      BY <2>2, RetriedIs
    <2>4. again.status # "absent" => leader # "next"
      BY <1>6, <2>1, <2>3
    <2> HIDE DEF again
    <2> QED
      BY <1>1, <1>3, <1>4, <1>9, <2>4, ListedChanges
  <1>10. \/ UNCHANGED tickets
         \/ tickets' = [tickets EXCEPT ![k] = NoTicket]
         \/ tickets' = [tickets EXCEPT ![k] = again]
    BY <1>2 DEF EndTicket
  <1> QED
    BY <1>7, <1>8, <1>9, <1>10

LEMMA ReclaimListed ==
  ASSUME TypeInv, Listed, ~blurred', NEW k \in Ticket, ReclaimTicket(k)
  PROVE  Listed'
  <1> DEFINE ticket == IF tickets[k].expired THEN NoTicket ELSE Retried(tickets[k])
  <1>1. tickets' = [tickets EXCEPT ![k] = ticket] /\ UNCHANGED <<job, leader>> /\ tickets[k].status # "absent"
    BY DEF ReclaimTicket
  <1>2. tickets'[k] = ticket /\ tickets[k] \in TicketState
    BY <1>1 DEF TypeInv, ConsistencyTypeOK
  <1>3. On(k) = {}
    BY DEF Listed, ReclaimTicket, Valid
  <1>4. On(k)' = {} /\ \A l \in Ticket \ {k} : On(l)' \subseteq On(l)
    BY <1>1, <1>3 DEF On
  <1>5. Unlisted(k)
    BY DEF ReclaimTicket
  <1>6. leader = "next" => ticket.status # "available"
    BY <1>2, <1>5, UnlistedMeans
  <1>7. CASE tickets[k].expired
    <2>1. ticket.status = "absent"
      BY <1>7 DEF NoTicket
    <2> HIDE DEF ticket
    <2> QED
      BY <1>1, <1>4, <2>1, ListedChanges
  <1>8. CASE ~tickets[k].expired
    <2>1. Outstanding(k)
      BY <1>1, <1>8 DEF Outstanding
    <2>2. ticket.status = "absent" \/ ticket.status = "available"
      BY <1>2, <1>8, RetriedIs
    <2> HIDE DEF ticket
    <2> QED
      BY <1>1, <1>4, <1>6, <2>1, <2>2, ListedChanges
  <1> QED
    BY <1>7, <1>8

\* A lease or a ticket that runs out under its worker blurs the promise.
LEMMA RunOutListed ==
  ASSUME TypeInv, Listed, ~blurred', NEW k \in Ticket, LeaseRunsOut(k) \/ TicketExpires(k)
  PROVE  Listed'
  <1>1. UNCHANGED <<job, leader>>
    BY DEF LeaseRunsOut, TicketExpires
  <1>2. On(k) = {}
    <2>1. CASE LeaseRunsOut(k)
      BY <2>1 DEF LeaseRunsOut
    <2>2. CASE TicketExpires(k)
      <3>1. blurred' = (blurred \/ On(k) # {})
        BY <2>2 DEF TicketExpires
      <3> QED
        BY <3>1, Zenon
    <2> QED
      BY <2>1, <2>2
  <1>3. On(k)' = {} /\ \A l \in Ticket \ {k} : On(l)' \subseteq On(l)
    BY <1>1, <1>2 DEF On
  <1>4. tickets[k] \in TicketState
    BY DEF TypeInv, ConsistencyTypeOK
  <1>5. CASE LeaseRunsOut(k)
    <2> DEFINE ticket == [tickets[k] EXCEPT !.over = TRUE]
    <2>1. tickets' = [tickets EXCEPT ![k] = ticket] /\ tickets[k].status = "processing"
      BY <1>5 DEF LeaseRunsOut
    <2>2. ticket.status = "processing" /\ ticket.expired = tickets[k].expired
      BY <1>4, <2>1 DEF TicketState
    <2>3. ~ticket.expired => Outstanding(k)
      BY <2>1, <2>2 DEF Outstanding
    <2> HIDE DEF ticket
    <2> QED
      BY <1>1, <1>3, <2>1, <2>2, <2>3, ListedChanges
  <1>6. CASE TicketExpires(k)
    <2> DEFINE ticket == [tickets[k] EXCEPT !.expired = TRUE]
    <2>1. tickets' = [tickets EXCEPT ![k] = ticket]
      BY <1>6 DEF TicketExpires
    <2>2. ticket.expired
      BY <1>4 DEF TicketState
    <2> HIDE DEF ticket
    <2> QED
      BY <1>1, <1>3, <2>1, <2>2, ListedChanges
  <1> QED
    BY <1>5, <1>6

\* A listing that sees no active ticket, if no query failed, means that none
\* is outstanding.
LEMMA CoordinateListed ==
  ASSUME TypeInv, Listed, ~blurred', Coordinate
  PROVE  Listed'
  <1>1. \A k \in Ticket : Outstanding(k) => tickets[k].status \in {"available", "processing"}
    BY DEF TypeInv, ConsistencyTypeOK, TicketState, Outstanding
  <1>2. CASE ListAvailable
    <2>1. ~Active("available") /\ UNCHANGED <<tickets, job>> /\ leader' = "next"
      BY <1>2 DEF ListAvailable
    <2>2. \A k \in Ticket : Outstanding(k) => tickets[k].status = "processing"
      BY <1>1, <2>1 DEF Active, Outstanding
    <2> QED
      BY <2>1, <2>2 DEF Listed, On, Valid, Outstanding
  <1>3. CASE ListProcessing
    <2>1. UNCHANGED <<tickets, job>> /\ leader = "next"
      BY <1>3 DEF ListProcessing
    <2>2. leader' = "idle" \/ (leader' = "create" /\ ~Active("processing"))
      BY <1>3 DEF ListProcessing
    <2>3. leader' = "create" => \A k \in Ticket : ~Outstanding(k)
      BY <2>1, <2>2 DEF Listed, Active, Outstanding
    <2>4. leader' # "next"
      BY <2>2
    <2> QED
      BY <2>1, <2>3, <2>4 DEF Listed, On, Valid, Outstanding
  <1>4. CASE CreateTicket
    <2>1. job' = job /\ leader' = "idle" /\ \A k \in Ticket : ~Outstanding(k)
      BY <1>4 DEF CreateTicket, Listed
    <2>2. \A k \in Ticket : On(k) = {}
      BY <2>1 DEF Listed, Valid, Outstanding
    <2>3. \A k \in Ticket : On(k)' = {}
      BY <2>1, <2>2 DEF On
    <2>4. \/ tickets' = tickets
          \/ \E k \in Ticket : tickets' = [tickets EXCEPT ![k] = NewTicket]
      BY <1>4 DEF CreateTicket, FreshTickets
    <2>5. \A k, l \in Ticket : Outstanding(k)' /\ Outstanding(l)' => k = l
      BY <2>1, <2>4 DEF Outstanding, TypeInv, ConsistencyTypeOK
    <2> QED
      BY <2>1, <2>3, <2>5 DEF Listed
  <1> QED
    BY <1>2, <1>3, <1>4 DEF Coordinate

\* What has been blurred stays so.
LEMMA BlurStays ==
  ASSUME ConsistencyTypeOK, [ConsistencyNext]_consistencyVars, ~blurred'
  PROVE  ~blurred
  <1>1. ASSUME NEW k \in Ticket, Unlisted(k) PROVE ~blurred
    <2>1. blurred' = (blurred \/ (leader = "next" /\ tickets'[k].status = "available"))
      BY <1>1 DEF Unlisted
    <2> QED
      BY <2>1, Zenon
  <1>2. ASSUME NEW w \in Client, EndTicket(w) PROVE ~blurred
    <2>1. blurred' = (blurred \/ (leader = "next" /\ tickets'[job[w].ticket].status = "available"))
      BY <1>2 DEF EndTicket, Unlisted
    <2> QED
      BY <2>1, Zenon
  <1>3. ASSUME NEW w \in Client, Work(w) \/ Crash(w) PROVE ~blurred
    <2>1. blurred' = blurred \/ EndTicket(w)
      BY <1>3, Zenon DEF Work, CheckTicket, Scan, ReadRecord, WriteRecord, MarkApplied, EndConsolidation,
                  EndRecalculation, Crash, pastVars
    <2> QED
      BY <1>2, <2>1
  <1>4. ASSUME NEW k \in Ticket, ReclaimTicket(k) PROVE ~blurred
    BY <1>1, <1>4 DEF ReclaimTicket
  <1>5. ASSUME NEW k \in Ticket, LeaseRunsOut(k) PROVE ~blurred
    BY <1>5 DEF LeaseRunsOut
  <1>6. ASSUME NEW k \in Ticket, TicketExpires(k) PROVE ~blurred
    <2>1. blurred' = (blurred \/ On(k) # {})
      BY <1>6 DEF TicketExpires
    <2> QED
      BY <2>1, Zenon
  <1>7. ASSUME Coordinate PROVE ~blurred
    BY <1>7 DEF Coordinate, ListAvailable, ListProcessing, CreateTicket, pastVars
  <1>8. ASSUME NEW w \in Client, StartConsolidation(w) \/ Recalculate(w) PROVE ~blurred
    BY <1>8 DEF StartConsolidation, Recalculate
  <1>9. ASSUME NEW w \in Client, NEW k \in Ticket, ClaimTicket(w, k) PROVE ~blurred
    BY <1>9 DEF ClaimTicket
  <1>10. ASSUME LockLapses \/ UNCHANGED consistencyVars \/ \E t \in Txn : Insert(t) \/ CollectGarbage(t)
         PROVE  ~blurred
    BY <1>10, Zenon DEF LockLapses, Insert, CollectGarbage, consistencyVars, pastVars
  <1>11. Worker \subseteq Client /\ Caller \subseteq Client
    BY ConsistencyAssumption
  <1> QED
    BY <1>3, <1>4, <1>5, <1>6, <1>7, <1>8, <1>9, <1>10, <1>11 DEF ConsistencyNext

LEMMA MeetTickets ==
  ASSUME TypeInv, TicketInv, [ConsistencyNext]_consistencyVars
  PROVE  TicketInv'
  <1> SUFFICES ASSUME ~blurred' PROVE Listed'
    BY DEF TicketInv, Listed
  <1>1. Listed
    BY BlurStays DEF TicketInv, Listed, TypeInv
  <1>2. ASSUME NEW w \in Client, Scan(w) \/ ReadRecord(w) \/ WriteRecord(w) \/ MarkApplied(w) PROVE Listed'
    <2>1. UNCHANGED <<tickets, leader>>
      BY <1>2, Zenon DEF Scan, ReadRecord, WriteRecord, MarkApplied
    <2>2. Continues(w)
      BY <1>2, WorkContinues DEF TypeInv
    <2> QED
      BY <1>1, <2>1, <2>2, ListedStays
  <1>3. ASSUME NEW w \in Client, CheckTicket(w) \/ EndConsolidation(w) \/ EndRecalculation(w) \/ Crash(w)
        PROVE  Listed'
    <2>1. UNCHANGED <<tickets, leader>>
      BY <1>3 DEF CheckTicket, EndConsolidation, EndRecalculation, Crash
    <2>2. Continues(w) \/ Stops(w)
      BY <1>3, CheckGoesOn, RestStops DEF EndConsolidation, EndRecalculation, Crash, TypeInv
    <2> QED
      BY <1>1, <2>1, <2>2, ListedStays
  <1>4. ASSUME NEW w \in Client, EndTicket(w) PROVE Listed'
    BY <1>1, <1>4, EndListed
  <1>5. ASSUME NEW w \in Client, StartConsolidation(w) PROVE Listed'
    <2>1. job[w].way = "lock"
      BY <1>5, IdleIsNoJob DEF TypeInv, StartConsolidation, NoJob
    <2>2. job'[w].way = "lock" /\ \A v \in Client \ {w} : job'[v] = job[v]
      BY <1>5, <2>1 DEF StartConsolidation, Goto, TypeInv, JobsInv, Jobs, Job
    <2>3. UNCHANGED <<tickets, leader>>
      BY <1>5 DEF StartConsolidation
    <2>4. \A k \in Ticket : On(k)' \subseteq On(k)
      BY <2>2 DEF On
    <2> QED
      BY <1>1, <2>3, <2>4 DEF Listed, Valid, Outstanding
  <1>6. ASSUME NEW w \in Client, Recalculate(w) PROVE Listed'
    <2>1. job'[w].way = "recalculate" /\ \A v \in Client \ {w} : job'[v] = job[v]
      BY <1>6, RecalculateJobs, JobChanges DEF TypeInv
    <2>2. UNCHANGED <<tickets, leader>>
      BY <1>6 DEF Recalculate
    <2>3. \A k \in Ticket : On(k)' \subseteq On(k)
      BY <2>1 DEF On
    <2> QED
      BY <1>1, <2>2, <2>3 DEF Listed, Valid, Outstanding
  <1>7. ASSUME NEW w \in Client, NEW k \in Ticket, ClaimTicket(w, k) PROVE Listed'
    BY <1>1, <1>7, ClaimListed
  <1>8. ASSUME NEW k \in Ticket, ReclaimTicket(k) \/ LeaseRunsOut(k) \/ TicketExpires(k) PROVE Listed'
    BY <1>1, <1>8, ReclaimListed, RunOutListed
  <1>9. ASSUME Coordinate PROVE Listed'
    BY <1>1, <1>9, CoordinateListed
  <1>10. ASSUME LockLapses \/ UNCHANGED consistencyVars \/ \E t \in Txn : Insert(t) \/ CollectGarbage(t)
         PROVE  Listed'
    <2>1. UNCHANGED <<tickets, leader, job>>
      BY <1>10 DEF LockLapses, Insert, CollectGarbage, consistencyVars, workVars
    <2> QED
      BY <1>1, <2>1 DEF Listed, On, Valid, Outstanding
  <1>11. Worker \subseteq Client /\ Caller \subseteq Client
    BY ConsistencyAssumption
  <1> QED
    BY <1>2, <1>3, <1>4, <1>5, <1>6, <1>7, <1>8, <1>9, <1>10, <1>11 DEF ConsistencyNext, Work

LEMMA MeetStep == TypeInv /\ MeetInv /\ [ConsistencyNext]_consistencyVars => MeetInv'
  BY MeetLock, MeetTickets DEF MeetInv

LEMMA MeetIsAlone == TypeInv /\ MeetInv => JobsAreAlone
  <1> SUFFICES ASSUME TypeInv, LockInv, TicketInv PROVE JobsAreAlone
    BY DEF MeetInv
  <1>1. ASSUME ~lapsed PROVE Alone("lock")
    BY <1>1 DEF LockInv, Alone, Working
  <1>2. ASSUME ~blurred PROVE Alone("ticket")
    <2>1. Listed
      BY <1>2 DEF TicketInv, Listed
    <2>2. SUFFICES ASSUME NEW v \in Client, NEW w \in Client, job[v].way = "ticket", job[w].way = "ticket"
                   PROVE  v = w
      BY DEF Alone
    <2>3. job[v].ticket = job[w].ticket
      BY <2>1, <2>2, OnIsMine DEF Listed
    <2> QED
      BY <2>1, <2>2, <2>3, OnIsMine
  <1> QED
    BY <1>1, <1>2 DEF JobsAreAlone

(* Two consolidations work on the record at once only if a lock has        *)
(* lapsed, and two tickets only if one ran out under its worker or a       *)
(* listing missed one: a ticket is outstanding until it expires, there is  *)
(* one at a time, and who works with it holds it.                          *)
THEOREM JobsMeetOnlyWhenLeasesEnd == ConsistencySpec => []JobsAreAlone
  <1>1. ConsistencySpec => [](TypeInv /\ MeetInv)
    BY TypeInit, TypeStep, MeetInit, MeetStep, PTL DEF ConsistencySpec
  <1> QED
    BY <1>1, MeetIsAlone, PTL

----------------------------------------------------------------------------
(* Of its lock the consolidation needs no more than LeasedMutex promises:  *)
(* tickets, recalculations, the coordinator and dying processes are not in *)
(* its way.                                                                *)

LEMMA MutexStep == [ConsistencyNext]_consistencyVars => [Next]_vars
  <1> DEFINE Same == UNCHANGED <<holders, lapsed>>
  <1>1. ASSUME NEW t \in Txn, Insert(t) \/ CollectGarbage(t) PROVE Same
    BY <1>1 DEF Insert, CollectGarbage
  <1>2. ASSUME NEW w \in Caller, StartConsolidation(w) PROVE Enter(w) \/ EnterLate(w)
    BY <1>2 DEF StartConsolidation
  <1>3. ASSUME NEW w, Recalculate(w) PROVE Same
    BY <1>3 DEF Recalculate
  <1>4. ASSUME NEW w, NEW k, ClaimTicket(w, k) PROVE Same
    BY <1>4 DEF ClaimTicket
  <1>5. ASSUME NEW w, CheckTicket(w) \/ Scan(w) \/ ReadRecord(w) PROVE Same
    BY <1>5 DEF CheckTicket, Scan, ReadRecord
  <1>6. ASSUME NEW w, WriteRecord(w) \/ MarkApplied(w) PROVE Same
    BY <1>6 DEF WriteRecord, MarkApplied
  <1>7. ASSUME NEW w, EndRecalculation(w) \/ EndTicket(w) PROVE Same
    BY <1>7 DEF EndRecalculation, EndTicket
  <1>8. ASSUME NEW w, EndConsolidation(w) PROVE Leave(w)
    BY <1>8 DEF EndConsolidation
  <1>9. ASSUME NEW w, Crash(w) PROVE Leave(w) \/ Same
    BY <1>9 DEF Crash, Leave
  <1>10. ASSUME Coordinate PROVE Same
    BY <1>10 DEF Coordinate, ListAvailable, ListProcessing, CreateTicket
  <1>11. ASSUME NEW k, ReclaimTicket(k) \/ LeaseRunsOut(k) \/ TicketExpires(k) PROVE Same
    BY <1>11 DEF ReclaimTicket, LeaseRunsOut, TicketExpires
  <1>12. ASSUME LockLapses PROVE Lapse
    BY <1>12 DEF LockLapses
  <1>13. ASSUME UNCHANGED consistencyVars PROVE Same
    BY <1>13 DEF consistencyVars, workVars
  <1>14. Caller \subseteq Client
    BY ConsistencyAssumption
  <1>15. Same => UNCHANGED vars
    BY DEF vars
  <1> HIDE DEF Same
  <1>16. ASSUME NEW w, Work(w) PROVE Leave(w) \/ Same
    BY <1>5, <1>6, <1>7, <1>8, <1>16 DEF Work
  <1> QED
    BY <1>1, <1>2, <1>3, <1>4, <1>9, <1>10, <1>11, <1>12, <1>13, <1>14, <1>15, <1>16 DEF ConsistencyNext, Next

\* Every behaviour of the three ways is one of the leased mutex that
\* runConsolidation() takes, which DistributedLock is proved to implement.
THEOREM ConsolidationKeepsTheMutex == ConsistencySpec => Spec
  <1>1. ConsistencyInit => Init
    BY DEF ConsistencyInit
  <1> QED
    BY <1>1, MutexStep, PTL DEF ConsistencySpec, Spec
====

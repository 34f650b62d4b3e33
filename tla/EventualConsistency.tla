---- MODULE EventualConsistency ----
(***************************************************************************)
(* The EventualConsistency plugin                                          *)
(* (src/src/plugins/eventual-consistency/): add() and set() only write     *)
(* transactions, and one field of one record is brought up to date later.  *)
(* That happens along three ways, which know nothing of each other:        *)
(*   - consolidation (a timer, or resource.consolidate()), under a lock    *)
(*     that LeasedMutex stands for;                                        *)
(*   - tickets, which a coordinator creates and workers claim;             *)
(*   - recalculation, on demand.                                           *)
(* Each reads transactions, writes the record and marks the transactions   *)
(* as applied, one storage call after the other.                           *)
(*                                                                         *)
(* A value of the field is the bag of transactions that are in it, so that *)
(* one that is counted twice or not at all can be told.  A lease or a TTL  *)
(* that runs out is a step of its own; no clock is needed.  Failing calls, *)
(* lost responses, crashes and leases that run out under a worker are      *)
(* faults, and there are at most MaxFaults of them.                        *)
(***************************************************************************)
EXTENDS LeasedMutex, Naturals, FiniteSets

CONSTANTS
  Worker,     \* the clients that claim tickets
  Caller,     \* the clients that consolidate and recalculate
  Txn,        \* the transactions of the record
  Op,         \* the operation of each: "add" (or sub()), or "set"
  Stamp,      \* the timestamp of each, taken before it is inserted
  Ticket,     \* ticket ids; see FreshTickets
  None,
  Retries,    \* ticketMaxRetries
  MaxFaults

ASSUME ConsistencyAssumption ==
  /\ Worker \cup Caller = Client
  /\ Op \in [Txn -> {"add", "set"}]
  /\ Stamp \in [Txn -> Nat]
  /\ None \notin Client \cup Ticket
  /\ None \notin [Txn -> 0 .. 2]
  /\ Retries \in Nat /\ MaxFaults \in Nat

VARIABLES
  tx,       \* each transaction: not inserted yet, applied: false, applied: true, or deleted
  record,   \* the record's field, None if there is no record
  job,      \* what each client is doing (see NoJob)
  tickets,  \* the tickets in the store
  leader    \* how far createTicketsForHandler() has come

\* History.
VARIABLES
  faults,    \* the number of faults so far
  doubtful,  \* transactions written by a job that then did not mark them, or pending while two jobs overlapped
  lossy,     \* have two jobs overlapped, or has a read that failed counted as the initial value?
  blurred,   \* has a lease or a ticket run out under its worker, or a listing missed an active ticket?
  reordered  \* set() transactions that were inserted, or listed, after a later one

workVars == <<holders, lapsed, tx, record, job, tickets, leader>>
pastVars == <<faults, doubtful, lossy, blurred, reordered>>
consistencyVars == <<workVars, pastVars>>

Way == {"lock", "ticket", "recalculate"}
Working == {"read", "write", "mark"}

Value == [Txn -> 0 .. 2]
Initial == [t \in Txn |-> 0]

(***************************************************************************)
(* A job: the next storage call, the way it goes, its ticket, the          *)
(* transactions it has read, those it has still to mark, the field as it   *)
(* was read (None: there was no record), and whether an error occurred.    *)
(***************************************************************************)
Job == [pc : {"idle", "check", "scan", "end"} \cup Working, way : Way, ticket : Ticket \cup {None},
        txns : SUBSET Txn, todo : SUBSET Txn, base : Value \cup {None}, failed : BOOLEAN]

NoJob == [pc |-> "idle", way |-> "lock", ticket |-> None, txns |-> {}, todo |-> {}, base |-> None, failed |-> FALSE]

TicketState == [status : {"absent", "available", "processing"}, by : Client \cup {None},
                tries : 0 .. Retries, over : BOOLEAN, expired : BOOLEAN]
NoTicket == [status |-> "absent", by |-> None, tries |-> 0, over |-> FALSE, expired |-> FALSE]
NewTicket == [NoTicket EXCEPT !.status = "available"]

\* Mutant of Pending: the query does not ask for applied: false.
PendingOrApplied == {t \in Txn : tx[t] \in {"pending", "applied"}}

Pending == {t \in Txn : tx[t] = "pending"}
Idle(w) == job[w].pc = "idle"

Rest(w) == job' = [job EXCEPT ![w] = NoJob]
Goto(w, pc) == job' = [job EXCEPT ![w].pc = pc]
\* The job is done but for its lock or its ticket.
Ending(j, failed) == [NoJob EXCEPT !.pc = "end", !.way = j.way, !.ticket = j.ticket, !.failed = failed]
Fail(w) == job' = [job EXCEPT ![w] = Ending(job[w], TRUE)]

Fault == faults < MaxFaults /\ faults' = faults + 1

----------------------------------------------------------------------------
\* What a batch of transactions amounts to.

Sets(S) == {s \in S : Op[s] = "set"}
LastSets(S) == {s \in Sets(S) : \A r \in Sets(S) : Stamp[r] <= Stamp[s]}

(***************************************************************************)
(* The transactions of a batch that count.  Of equal timestamps either may *)
(* be sorted last.  consolidateRecord() drops the additions that have the  *)
(* timestamp of the last set(), processTicket() those sorted before it.    *)
(***************************************************************************)
Counting(S, way) ==
  IF Sets(S) = {} THEN {S}
  ELSE UNION {LET adds == {t \in S : Op[t] = "add" /\ Stamp[t] > Stamp[s]}
                  ties == {t \in S : Op[t] = "add" /\ Stamp[t] = Stamp[s]}
              IN {{s} \cup adds \cup kept : kept \in IF way = "ticket" THEN SUBSET ties ELSE {{}}}
              : s \in LastSets(S)}

Plus(value, S) == [t \in Txn |-> IF t \in S /\ value[t] < 2 THEN value[t] + 1 ELSE value[t]]

\* Mutant of Base: consolidation does not start from the record's value.
BaseIgnored(j) == Initial

\* processTicket() adds to the record's value even if there is a set().
Base(j) == IF j.base = None \/ (j.way # "ticket" /\ Sets(j.txns) # {}) THEN Initial ELSE j.base

NewValues(j) == {Plus(Base(j), S) : S \in Counting(j.txns, j.way)}

----------------------------------------------------------------------------
\* The set() transactions of S that some transaction of T is later than.
Overtaken(S, T) == {s \in Sets(S) : \E t \in T : Stamp[t] > Stamp[s]}

\* createTransaction(): queries find it from now on, as its partition references
\* are there; they may come after those of a later call.
Insert(t) ==
  /\ tx[t] = "new"
  /\ tx' = [tx EXCEPT ![t] = "pending"]
  /\ reordered' = reordered \cup Overtaken({t}, {u \in Txn : tx[u] # "new"})
  /\ UNCHANGED <<holders, lapsed, record, job, tickets, leader, faults, doubtful, lossy, blurred>>

\* runConsolidation(): without the lock nothing is done.
StartConsolidation(w) ==
  /\ Idle(w)
  /\ \/ Enter(w) /\ UNCHANGED faults
     \/ EnterLate(w) /\ Fault
  /\ Goto(w, "scan")
  /\ UNCHANGED <<tx, record, tickets, leader, doubtful, lossy, blurred, reordered>>

\* claimTickets(); the lease is the worker's although the response is lost.
ClaimTicket(w, k) ==
  /\ Idle(w)
  /\ tickets[k].status = "available" /\ ~tickets[k].expired
  /\ tickets' = [tickets EXCEPT ![k].status = "processing", ![k].by = w, ![k].over = FALSE]
  /\ \/ /\ job' = [job EXCEPT ![w] = [NoJob EXCEPT !.pc = "check", !.way = "ticket", !.ticket = k]]
        /\ UNCHANGED faults
     \/ Fault /\ UNCHANGED job
  /\ UNCHANGED <<holders, lapsed, tx, record, leader, doubtful, lossy, blurred, reordered>>

Valid(w, k) ==
  /\ tickets[k].status = "processing" /\ tickets[k].by = w
  /\ ~tickets[k].over /\ ~tickets[k].expired

\* processTicket() validates its ticket once, before it starts.
CheckTicket(w) ==
  /\ job[w].pc = "check"
  /\ \/ Valid(w, job[w].ticket) /\ Goto(w, "scan") /\ UNCHANGED faults
     \/ ~Valid(w, job[w].ticket) /\ Rest(w) /\ UNCHANGED faults
     \/ Fault /\ Rest(w)
  /\ UNCHANGED <<holders, lapsed, tx, record, tickets, leader, doubtful, lossy, blurred, reordered>>

\* w starts to work on the record, perhaps while another job does.
Overlap(w) ==
  IF \E v \in Client \ {w} : job[v].pc \in Working THEN doubtful' = doubtful \cup Pending /\ lossy' = TRUE
  ELSE UNCHANGED <<doubtful, lossy>>

\* The transactions with applied: false; a page that cannot be read is left out.
Scan(w) ==
  /\ job[w].pc = "scan"
  /\ \E S \in SUBSET Pending :
       /\ \/ S = Pending /\ UNCHANGED faults
          \/ S # Pending /\ Fault
       /\ reordered' = reordered \cup Overtaken(Pending \ S, S)
       /\ IF S = {} THEN Goto(w, "end") /\ UNCHANGED <<doubtful, lossy>>
          ELSE /\ job' = [job EXCEPT ![w].txns = S, ![w].pc =
                            IF job[w].way = "lock" /\ Sets(S) # {} THEN "write" ELSE "read"]
               /\ Overlap(w)
  /\ UNCHANGED <<holders, lapsed, tx, record, tickets, leader, blurred>>

\* A record that cannot be read counts as the initial value in
\* consolidateRecord(), and as absent in processTicket() if there is a set().
ReadRecord(w) ==
  /\ job[w].pc = "read"
  /\ LET j == job[w]
         needed == j.way = "ticket" /\ Sets(j.txns) = {}
     IN \/ /\ ~(record = None /\ needed)
           /\ job' = [job EXCEPT ![w].pc = "write", ![w].base = record]
           /\ UNCHANGED <<faults, lossy>>
        \/ record = None /\ needed /\ Fail(w) /\ UNCHANGED <<faults, lossy>>
        \/ /\ Fault /\ record # None
           /\ IF needed THEN Fail(w) ELSE Goto(w, "write")
           /\ lossy' = (lossy \/ j.way = "lock")
  /\ UNCHANGED <<holders, lapsed, tx, record, tickets, leader, doubtful, blurred, reordered>>

\* The update or insert, with the transactions it counts.  recalculateRecord()
\* creates no record, and processTicket() does not update one it found absent.
Writable(j) ==
  /\ j.way = "recalculate" => record # None
  /\ j.way = "ticket" /\ j.base = None => record = None

AfterWrite(j) ==
  IF j.way = "recalculate" THEN Ending(j, FALSE)
  ELSE [j EXCEPT !.pc = "mark", !.todo = j.txns, !.txns = {}, !.base = None]

WriteRecord(w) ==
  /\ job[w].pc = "write"
  /\ LET j == job[w]
         unmarked == j.txns \cap Pending
     IN \/ /\ Writable(j) /\ record' \in NewValues(j)
           /\ job' = [job EXCEPT ![w] = AfterWrite(j)]
           /\ doubtful' = IF j.way = "recalculate" THEN doubtful \cup unmarked ELSE doubtful
           /\ UNCHANGED faults
        \/ ~Writable(j) /\ Fail(w) /\ UNCHANGED <<record, faults, doubtful>>
        \/ Fault /\ Fail(w) /\ UNCHANGED <<record, doubtful>>
        \/ /\ Fault /\ Fail(w)
           /\ Writable(j) /\ record' \in NewValues(j)
           /\ doubtful' = doubtful \cup unmarked
  /\ UNCHANGED <<holders, lapsed, tx, tickets, leader, lossy, blurred, reordered>>

\* One of the updates that mark the transactions; consolidateRecord() ignores
\* those that fail.
MarkApplied(w) ==
  /\ job[w].pc = "mark"
  /\ \E t \in job[w].todo :
       LET j == job[w]
           todo == j.todo \ {t}
           Marked(failed) ==
             job' = [job EXCEPT ![w] = IF todo = {} THEN Ending(j, j.failed \/ failed)
                                       ELSE [j EXCEPT !.todo = todo, !.failed = j.failed \/ failed]]
       IN \/ /\ tx[t] # "deleted" /\ tx' = [tx EXCEPT ![t] = "applied"]
             /\ Marked(FALSE) /\ UNCHANGED <<faults, doubtful>>
          \/ tx[t] = "deleted" /\ Marked(TRUE) /\ UNCHANGED <<tx, faults, doubtful>>
          \/ Fault /\ Marked(TRUE) /\ doubtful' = doubtful \cup {t} /\ UNCHANGED tx
  /\ UNCHANGED <<holders, lapsed, record, tickets, leader, lossy, blurred, reordered>>

\* runConsolidation() releases its lock.
EndConsolidation(w) ==
  /\ job[w].pc = "end" /\ job[w].way = "lock"
  /\ Leave(w)
  /\ Rest(w)
  /\ UNCHANGED <<tx, record, tickets, leader, pastVars>>

EndRecalculation(w) ==
  /\ job[w].pc = "end" /\ job[w].way = "recalculate"
  /\ Rest(w)
  /\ UNCHANGED <<holders, lapsed, tx, record, tickets, leader, pastVars>>

\* Mutant of Retried: without a limit.
RetriedForever(ticket) == [NewTicket EXCEPT !.tries = ticket.tries + 1, !.expired = ticket.expired]

\* A ticket that is given up becomes available again, a limited number of times.
Retried(ticket) ==
  IF ticket.tries < Retries THEN [NewTicket EXCEPT !.tries = ticket.tries + 1, !.expired = ticket.expired]
  ELSE NoTicket

\* A ticket becomes available between the two queries of a listing.
Unlisted(k) == blurred' = (blurred \/ (leader = "next" /\ tickets'[k].status = "available"))

\* After an error releaseTicketForRetry(), which extends the ticket, otherwise
\* the ticket is deleted, whosever it is.
EndTicket(w) ==
  /\ job[w].pc = "end" /\ job[w].way = "ticket"
  /\ LET k == job[w].ticket
         mine == tickets[k].status = "processing" /\ tickets[k].by = w
     IN \/ ~job[w].failed /\ tickets' = [tickets EXCEPT ![k] = NoTicket] /\ UNCHANGED faults
        \/ /\ job[w].failed /\ mine /\ UNCHANGED faults
           /\ tickets' = [tickets EXCEPT ![k] = Retried([tickets[k] EXCEPT !.expired = FALSE])]
        \/ job[w].failed /\ ~mine /\ UNCHANGED <<tickets, faults>>
        \/ Fault /\ UNCHANGED tickets
  /\ Rest(w)
  /\ Unlisted(job[w].ticket)
  /\ UNCHANGED <<holders, lapsed, tx, record, leader, doubtful, lossy, reordered>>

\* recalculateRecord() replays all transactions, without a lock and without
\* marking them; if it cannot read them all it does nothing.
Recalculate(w) ==
  LET S == {t \in Txn : tx[t] \in {"pending", "applied"}}
  IN /\ Idle(w) /\ S # {}
     /\ job' = [job EXCEPT ![w] = [NoJob EXCEPT !.pc = "write", !.way = "recalculate", !.txns = S]]
     /\ Overlap(w)
     /\ UNCHANGED <<holders, lapsed, tx, record, tickets, leader, faults, blurred, reordered>>

----------------------------------------------------------------------------
\* The coordinator.

Active(status) == \E k \in Ticket : tickets[k].status = status /\ ~tickets[k].expired

\* getActiveTicketRecords() asks for one status after the other; a query that
\* fails counts as empty.
ListAvailable ==
  /\ leader = "idle"
  /\ \/ ~Active("available") /\ UNCHANGED <<faults, blurred>>
     \/ Active("available") /\ Fault /\ blurred' = TRUE
  /\ leader' = "next"
  /\ UNCHANGED <<holders, lapsed, tx, record, job, tickets, doubtful, lossy, reordered>>

\* Mutant of ListProcessing: only available tickets are looked at.
ListProcessingBlindly ==
  /\ leader = "next" /\ leader' = "create"
  /\ UNCHANGED <<holders, lapsed, tx, record, job, tickets, pastVars>>

ListProcessing ==
  /\ leader = "next"
  /\ \/ ~Active("processing") /\ leader' = "create" /\ UNCHANGED <<faults, blurred>>
     \/ Active("processing") /\ leader' = "idle" /\ UNCHANGED <<faults, blurred>>
     \/ Active("processing") /\ Fault /\ leader' = "create" /\ blurred' = TRUE
  /\ UNCHANGED <<holders, lapsed, tx, record, job, tickets, doubtful, lossy, reordered>>

\* An id that nobody remembers cannot be told from a new one.
FreshTickets == {k \in Ticket : tickets[k] = NoTicket /\ \A w \in Client : job[w].ticket # k}

CreateTicket ==
  /\ leader = "create"
  /\ leader' = "idle"
  /\ IF Pending = {} THEN UNCHANGED tickets
     ELSE \E k \in FreshTickets : tickets' = [tickets EXCEPT ![k] = NewTicket]
  /\ UNCHANGED <<holders, lapsed, tx, record, job, pastVars>>

\* Mutant of ReclaimTicket: only tickets that nobody has claimed are removed
\* when they expire.
ReclaimUnclaimed(k) ==
  /\ tickets[k].status = "available" /\ tickets[k].expired
  /\ tickets' = [tickets EXCEPT ![k] = NoTicket]
  /\ UNCHANGED <<holders, lapsed, tx, record, job, leader, pastVars>>

\* reclaimStaleTickets() on one ticket.
ReclaimTicket(k) ==
  /\ tickets[k].status # "absent"
  /\ tickets[k].expired \/ (tickets[k].status = "processing" /\ tickets[k].over)
  /\ tickets' = [tickets EXCEPT ![k] = IF tickets[k].expired THEN NoTicket ELSE Retried(tickets[k])]
  /\ Unlisted(k)
  /\ UNCHANGED <<holders, lapsed, tx, record, job, leader, faults, doubtful, lossy, reordered>>

\* Workers that are at work with the ticket.
On(k) == {w \in Client : job[w].way = "ticket" /\ job[w].ticket = k}

\* ticketProcessingUntil passes: a fault only if the worker is still there.
LeaseRunsOut(k) ==
  /\ tickets[k].status = "processing" /\ ~tickets[k].over
  /\ tickets' = [tickets EXCEPT ![k].over = TRUE]
  /\ IF On(k) = {} THEN UNCHANGED <<faults, blurred>> ELSE Fault /\ blurred' = TRUE
  /\ UNCHANGED <<holders, lapsed, tx, record, job, leader, doubtful, lossy, reordered>>

\* ticketExpiresAt passes.
TicketExpires(k) ==
  /\ tickets[k].status # "absent" /\ ~tickets[k].expired
  /\ tickets' = [tickets EXCEPT ![k].expired = TRUE]
  /\ Fault /\ blurred' = (blurred \/ On(k) # {})
  /\ UNCHANGED <<holders, lapsed, tx, record, job, leader, doubtful, lossy, reordered>>

\* runGarbageCollection(), which has a lock of its own.
CollectGarbage(t) ==
  /\ tx[t] = "applied"
  /\ tx' = [tx EXCEPT ![t] = "deleted"]
  /\ UNCHANGED <<holders, lapsed, record, job, tickets, leader, pastVars>>

\* A process dies.  Its lock is removed when it has expired.
Crash(w) ==
  /\ ~Idle(w) /\ Fault
  /\ Rest(w)
  /\ holders' = holders \ {w}
  /\ doubtful' = doubtful \cup job[w].todo
  /\ UNCHANGED <<lapsed, tx, record, tickets, leader, lossy, blurred, reordered>>

\* The 300 seconds of the lock pass.
LockLapses ==
  /\ Lapse /\ Fault
  /\ UNCHANGED <<tx, record, job, tickets, leader, doubtful, lossy, blurred, reordered>>

----------------------------------------------------------------------------
ConsistencyInit ==
  /\ Init
  /\ tx = [t \in Txn |-> "new"]
  /\ record \in {None, Initial}
  /\ job = [w \in Client |-> NoJob]
  /\ tickets = [k \in Ticket |-> NoTicket]
  /\ leader = "idle"
  /\ faults = 0 /\ doubtful = {} /\ lossy = FALSE /\ blurred = FALSE /\ reordered = {}

\* One step of a job under way.
Work(w) ==
  \/ CheckTicket(w) \/ Scan(w) \/ ReadRecord(w) \/ WriteRecord(w) \/ MarkApplied(w)
  \/ EndConsolidation(w) \/ EndRecalculation(w) \/ EndTicket(w)

Coordinate == ListAvailable \/ ListProcessing \/ CreateTicket

ConsistencyNext ==
  \/ \E t \in Txn : Insert(t) \/ CollectGarbage(t)
  \/ \E w \in Caller : StartConsolidation(w) \/ Recalculate(w)
  \/ \E w \in Worker, k \in Ticket : ClaimTicket(w, k)
  \/ \E w \in Client : Work(w) \/ Crash(w)
  \/ Coordinate
  \/ \E k \in Ticket : ReclaimTicket(k) \/ LeaseRunsOut(k) \/ TicketExpires(k)
  \/ LockLapses

ConsistencySpec == ConsistencyInit /\ [][ConsistencyNext]_consistencyVars

(***************************************************************************)
(* The coordinator and the workers run on intervals; a call they have      *)
(* begun ends; time passes.  Consolidation and recalculation need not be   *)
(* called at all.                                                          *)
(***************************************************************************)
Fairness ==
  /\ WF_consistencyVars(Coordinate)
  /\ \A w \in Client : WF_consistencyVars(Work(w))
  /\ \A w \in Worker : WF_consistencyVars(\E k \in Ticket : ClaimTicket(w, k))
  /\ \A k \in Ticket : WF_consistencyVars(ReclaimTicket(k)) /\ WF_consistencyVars(LeaseRunsOut(k))

FairConsistencySpec == ConsistencySpec /\ Fairness

----------------------------------------------------------------------------
(* Every variable stays in its type; above all no ticket is retried more   *)
(* often than ticketMaxRetries.                                            *)
ConsistencyTypeOK ==
  /\ holders \subseteq Client /\ lapsed \in BOOLEAN
  /\ tx \in [Txn -> {"new", "pending", "applied", "deleted"}]
  /\ record \in Value \cup {None}
  /\ job \in [Client -> Job]
  /\ tickets \in [Ticket -> TicketState]
  /\ leader \in {"idle", "next", "create"}
  /\ faults \in 0 .. MaxFaults
  /\ doubtful \subseteq Txn /\ reordered \subseteq Txn
  /\ lossy \in BOOLEAN /\ blurred \in BOOLEAN

(***************************************************************************)
(* A transaction is in the record's field twice only if a job that wrote   *)
(* it did not mark it, by a crash or a call that failed, or if it was      *)
(* pending while two jobs worked on the record at once (two ways of        *)
(* consolidation, or a lapsed lock or ticket).                             *)
(***************************************************************************)
CountedOnce == record # None => \A t \in Txn : record[t] > 1 => t \in doubtful

\* A set() has overwritten t: a later one, or one that came late to the record
\* or stayed unmarked and is applied again.
Superseded(t) ==
  \E s \in Sets(Txn) : record[s] > 0 /\ (Stamp[s] >= Stamp[t] \/ s \in reordered \cup doubtful)

(***************************************************************************)
(* A transaction that is marked as applied is in the record's field, or a  *)
(* set() has overwritten it that is later, came late or was left unmarked, *)
(* whatever fails or crashes; unless two jobs worked on the record at once *)
(* or a failing read was taken for an absent record.  (What is collected   *)
(* as garbage is lost to the next recalculation.)                          *)
(***************************************************************************)
NothingIsLost ==
  ~lossy => \A t \in Txn : tx[t] = "applied" => record # None /\ (record[t] > 0 \/ Superseded(t))

Alone(way) ==
  \A v, w \in Client : {job[v].pc, job[w].pc} \subseteq Working /\ job[v].way = way /\ job[w].way = way => v = w

(***************************************************************************)
(* Two consolidations work on the record at once only if a lock has        *)
(* lapsed, and two tickets for it are worked on only if one ran out under  *)
(* its worker or the coordinator's listing missed one.                     *)
(***************************************************************************)
JobsAreAlone == (Alone("lock") \/ lapsed) /\ (Alone("ticket") \/ blurred)

(***************************************************************************)
(* A transaction in the store is applied in the end by way of tickets      *)
(* (doWorkerWork, coordinatorWork), in spite of a crash or failing calls,  *)
(* if its record exists or it is a set(), which creates the record.        *)
(***************************************************************************)
PendingIsApplied ==
  \A t \in Txn : (tx[t] = "pending" /\ (record # None \/ Op[t] = "set")) ~> tx[t] # "pending"
====

---- MODULE IncrementalSequence ----
(***************************************************************************)
(* The incremental id generator of src/src/concerns/incremental-sequence.ts*)
(* (and, with a batch of one, DistributedSequence): a counter object that  *)
(* is read and rewritten under a DistributedLock, and, in fast mode, a     *)
(* batch of ids that each process reserves there and hands out locally.    *)
(*                                                                         *)
(* A client of the lock is one call of next() or reset() in the process    *)
(* Home[c].  Its storage adapter is SequenceStorage, which offers no       *)
(* isLocked(), so the lock's Probe is not used.                            *)
(***************************************************************************)
EXTENDS DistributedLock

CONSTANTS
  Process,    \* the processes that share the sequence
  Home,       \* [Client -> Process]
  Fast,       \* the processes with config.mode = 'fast'
  Start,      \* config.start
  BatchSize,  \* config.batchSize
  Increment,  \* config.increment
  ResetTo,    \* the arguments of reset() in use
  MaxValue    \* no call starts once the counter is past this value

ASSUME SequenceAssumption ==
  /\ Home \in [Client -> Process]
  /\ Fast \subseteq Process
  /\ Start \in Nat
  /\ BatchSize \in Nat \ {0}
  /\ Increment \in Nat \ {0}
  /\ ResetTo \subseteq Nat
  /\ MaxValue \in Nat

VARIABLES
  value,     \* the counter object; an absent object counts as Start
  batch,     \* localBatches of each process: the ids current .. end - 1
  goal,      \* what each client was called for
  stage,     \* how far its callback has come
  seen,      \* the counter as the callback read it
  issued,    \* history: the ids handed out
  repeated,  \* history: an id has been handed out twice
  rewound    \* history: a reset() has moved the counter down

seqVars == <<value, batch, goal, stage, seen, issued, repeated, rewound>>

NoBatch == [current |-> 0, end |-> 0]
HasIds(p) == batch[p].current < batch[p].end

\* How many numbers a call takes from the counter.
Step(c) == IF Home[c] \in Fast THEN BatchSize ELSE Increment

SeqTypeOK ==
  /\ value \in Nat
  /\ batch \in [Process -> [current : Nat, end : Nat]]
  /\ goal \in [Client -> {"none", "next", "reset"}]
  /\ stage \in [Client -> {"none", "read", "wrote"}]
  /\ seen \in [Client -> Nat]
  /\ issued \subseteq Nat
  /\ repeated \in BOOLEAN
  /\ rewound \in BOOLEAN

SeqInit ==
  /\ Init
  /\ value = Start
  /\ batch = [p \in Process |-> NoBatch]
  /\ goal = [c \in Client |-> "none"]
  /\ stage = [c \in Client |-> "none"]
  /\ seen = [c \in Client |-> 0]
  /\ issued = {}
  /\ repeated = FALSE
  /\ rewound = FALSE

Issue(id) ==
  /\ issued' = issued \cup {id}
  /\ repeated' = (repeated \/ id \in issued)

\* nextValueFast() with ids left in the batch: no storage call, no await.
NextLocal(c) ==
  /\ Home[c] \in Fast
  /\ pc[c] = "idle"
  /\ HasIds(Home[c])
  /\ Issue(batch[Home[c]].current)
  /\ batch' = [batch EXCEPT ![Home[c]].current = @ + 1]
  /\ UNCHANGED <<vars, value, goal, stage, seen, rewound>>

\* next() that needs the counter, in fast mode through reserveBatch().
CallNext(c) ==
  /\ value <= MaxValue
  /\ Home[c] \in Fast => ~HasIds(Home[c])
  /\ StartAcquire(c)
  /\ goal' = [goal EXCEPT ![c] = "next"]
  /\ UNCHANGED <<value, batch, stage, seen, issued, repeated, rewound>>

\* reset() forgets its own process' batch before it waits for the lock.
CallReset(c) ==
  /\ value <= MaxValue
  /\ StartAcquire(c)
  /\ goal' = [goal EXCEPT ![c] = "reset"]
  /\ batch' = [batch EXCEPT ![Home[c]] = NoBatch]
  /\ UNCHANGED <<value, stage, seen, issued, repeated, rewound>>

ReadCounter(c) ==
  /\ pc[c] = "held" /\ stage[c] = "none"
  /\ seen' = [seen EXCEPT ![c] = value]
  /\ stage' = [stage EXCEPT ![c] = "read"]
  /\ UNCHANGED <<vars, value, batch, goal, issued, repeated, rewound>>

\* Mutants of WriteCounter: the numbers are taken the wrong way, and a batch
\* advances the counter by one id.
WriteDown(c) ==
  /\ pc[c] = "held" /\ stage[c] = "read"
  /\ value' = seen[c] - Step(c)
  /\ stage' = [stage EXCEPT ![c] = "wrote"]
  /\ UNCHANGED <<vars, batch, goal, seen, issued, repeated, rewound>>

WriteOne(c) ==
  /\ pc[c] = "held" /\ stage[c] = "read"
  /\ IF goal[c] = "next"
       THEN value' = seen[c] + Increment /\ UNCHANGED rewound
       ELSE \E v \in ResetTo : value' = v /\ rewound' = (rewound \/ v < value)
  /\ stage' = [stage EXCEPT ![c] = "wrote"]
  /\ UNCHANGED <<vars, batch, goal, seen, issued, repeated>>

\* The new counter, and whether the response to the PUT gets through.
WriteCounter(c) ==
  /\ pc[c] = "held" /\ stage[c] = "read"
  /\ IF goal[c] = "next"
       THEN value' = seen[c] + Step(c) /\ UNCHANGED rewound
       ELSE \E v \in ResetTo : value' = v /\ rewound' = (rewound \/ v < value)
  /\ stage' = [stage EXCEPT ![c] = "wrote"]
  /\ UNCHANGED <<vars, batch, goal, seen, issued, repeated>>

\* The callback returns, or throws where it stands (then it returns no id:
\* the response to its last call may have been an error or may be lost).
EndCallback(c) ==
  /\ StartRelease(c)
  /\ stage' \in {stage, [stage EXCEPT ![c] = "none"]}
  /\ UNCHANGED <<value, batch, goal, seen, issued, repeated, rewound>>

\* Mutant of Return: the batch still holds the id that next() returns.
ReturnAndKeep(c) ==
  /\ IF goal[c] = "next" /\ stage[c] = "wrote"
       THEN /\ Issue(seen[c])
            /\ batch' = IF Home[c] \in Fast
                          THEN [batch EXCEPT ![Home[c]] =
                                  [current |-> seen[c], end |-> seen[c] + Step(c)]]
                          ELSE batch
       ELSE UNCHANGED <<batch, issued, repeated>>
  /\ goal' = [goal EXCEPT ![c] = "none"]
  /\ stage' = [stage EXCEPT ![c] = "none"]
  /\ seen' = [seen EXCEPT ![c] = 0]
  /\ UNCHANGED <<value, rewound>>

\* withLock() has returned: next() hands out the first id it reserved and, in
\* fast mode, replaces whatever batch the process has by now.
Return(c) ==
  /\ IF goal[c] = "next" /\ stage[c] = "wrote"
       THEN /\ Issue(seen[c])
            /\ batch' = IF Home[c] \in Fast
                          THEN [batch EXCEPT ![Home[c]] =
                                  [current |-> seen[c] + 1, end |-> seen[c] + Step(c)]]
                          ELSE batch
       ELSE UNCHANGED <<batch, issued, repeated>>
  /\ goal' = [goal EXCEPT ![c] = "none"]
  /\ stage' = [stage EXCEPT ![c] = "none"]
  /\ seen' = [seen EXCEPT ![c] = 0]
  /\ UNCHANGED <<value, rewound>>

\* The storage calls of withLock() before and after the callback.
LockCall(c) ==
  /\ \/ PutWins(c) \/ PutLoses(c) \/ GetLock(c) \/ ClearLock(c) \/ WakeUp(c)
     \/ CheckToken(c) \/ DeleteLock(c)
     \/ ReadFails(c) /\ pc[c] # "idle"
  /\ IF pc'[c] = "idle" THEN Return(c) ELSE UNCHANGED seqVars

\* The call dies with its process, or throws.
DropCall(c) ==
  /\ Abandon(c)
  /\ goal' = [goal EXCEPT ![c] = "none"]
  /\ stage' = [stage EXCEPT ![c] = "none"]
  /\ seen' = [seen EXCEPT ![c] = 0]
  /\ UNCHANGED <<value, batch, issued, repeated, rewound>>

\* releaseBatch(), or the process restarts.
DropBatch(p) ==
  /\ HasIds(p)
  /\ batch' = [batch EXCEPT ![p] = NoBatch]
  /\ UNCHANGED <<vars, value, goal, stage, seen, issued, repeated, rewound>>

SeqNext ==
  \/ \E c \in Client :
       \/ NextLocal(c) \/ CallNext(c) \/ CallReset(c)
       \/ ReadCounter(c) \/ WriteCounter(c) \/ EndCallback(c)
       \/ LockCall(c) \/ DropCall(c)
  \/ \E p \in Process : DropBatch(p)
  \/ Tick /\ UNCHANGED seqVars

SeqSpec == SeqInit /\ [][SeqNext]_<<vars, seqVars>>

----------------------------------------------------------------------------
(* As long as no lock has lapsed and no reset() has moved the counter      *)
(* down, no id is handed out twice, whichever processes and modes it goes  *)
(* through and whichever calls die on the way.                             *)
UniqueIds == ~lapsed /\ ~rewound => ~repeated

(* Under the same conditions the batches the processes still have to hand  *)
(* out are disjoint, hold no id that was handed out before, and lie below  *)
(* the counter, so that the next reservation cannot reach them.            *)
BatchesAreReserved ==
  ~lapsed /\ ~rewound =>
    \A p \in Process : HasIds(p) =>
      /\ batch[p].end <= value
      /\ \A id \in issued : id \notin batch[p].current .. batch[p].end - 1
      /\ \A q \in Process \ {p} :
           HasIds(q) => batch[p].end <= batch[q].current \/ batch[q].end <= batch[p].current

(* The counter object never goes down but through a reset(): a callback    *)
(* never writes back a value it read before somebody else's write.         *)
CounterNeverFallsBack == [][~lapsed' /\ ~rewound' => value' >= value]_<<vars, seqVars>>
====

---- MODULE QueuedMessage ----
(***************************************************************************)
(* What S3Queue promises about a message, as long as no PUT replaces an    *)
(* entry that its caller has not read.  A message waits, or it is claimed, *)
(* or it is settled for good.  It is claimed by one worker at a time and   *)
(* at most Limit times, and a worker keeps its claim until it settles the  *)
(* message, lets go of it or lets its time pass; then the claim is taken   *)
(* back or, if it was the last one, the message is written off.            *)
(***************************************************************************)
EXTENDS Naturals

CONSTANTS Worker, Limit

VARIABLES
  status,
  attempts,  \* the number of claims so far
  holder,    \* the worker the claim is with, if it knows of it and has not let go
  owners,    \* those that have a claim of the message before its end
  broken     \* is nothing promised any more?

messageVars == <<status, attempts, holder, owners, broken>>

Settled == {"completed", "failed", "dead"}

Init ==
  /\ status = "pending" /\ attempts = 0
  /\ holder = {} /\ owners = {}
  /\ broken = FALSE

\* The claim's worker may never hear of it, or hear of it when it is over.
Claim(w) ==
  /\ status = "pending" /\ owners = {}
  /\ attempts < Limit \/ attempts = 0
  /\ status' = "processing" /\ attempts' = attempts + 1
  /\ holder' \in {{}, {w}} /\ owners' \subseteq holder'

\* The worker is done, in time or late, or it asks for a retry.
Settle(w) ==
  /\ status = "processing" /\ holder = {w}
  /\ status' \in Settled \cup {"pending"}
  /\ status' = "pending" => attempts < Limit
  /\ holder' = {} /\ owners' = {}
  /\ UNCHANGED attempts

\* Nobody has the message, so it waits again.
TakeBack ==
  /\ status = "processing" /\ owners = {} /\ attempts < Limit
  /\ status' = "pending"
  /\ holder' = {}
  /\ UNCHANGED <<attempts, owners>>

\* The last claim was over when it was looked at; its worker may have renewed it since.
WriteOff ==
  /\ status = "processing" /\ attempts >= Limit
  /\ status' \in {"failed", "dead"}
  /\ holder' = {}
  /\ UNCHANGED <<attempts, owners>>

Renew(w) ==
  /\ status = "processing" /\ holder = {w}
  /\ owners' \subseteq {w}
  /\ UNCHANGED <<status, attempts, holder>>

LetGo ==
  /\ holder' \subseteq holder /\ owners' \subseteq owners
  /\ UNCHANGED <<status, attempts>>

Next ==
  \/ /\ (\E w \in Worker : Claim(w) \/ Settle(w) \/ Renew(w)) \/ TakeBack \/ WriteOff \/ LetGo
     /\ UNCHANGED broken
  \/ broken'

Spec == Init /\ [][Next]_messageVars
====

---------------------------- MODULE JobProtocol ----------------------------
(***************************************************************************)
(* What the job engine promises of every job, whatever fails: its row only  *)
(* moves along the valid transitions, a final row stays as it is until it   *)
(* is deleted, a row is handed to the scheduler at most once and launched   *)
(* at most once, and only a launched job is ever running or completed.      *)
(* Several rows may move in one step (a batch is claimed in one             *)
(* transaction, a crash drops all of a batch).                              *)
(***************************************************************************)
EXTENDS JobStatus

CONSTANT Row
VARIABLES status,  \* as in the table; "none" before the insert, "deleted" after
          ticket   \* "granted": claimed and not launched yet; "used": launched

vars == <<status, ticket>>

Tickets == {"none", "granted", "used"}

Init == /\ status = [r \in Row |-> "none"]
        /\ ticket = [r \in Row |-> "none"]

\* A legal move of the status column.
StatusMove(s, t) ==
  \/ s = "none" /\ t = "pending"
  \/ s \in JobStatuses /\ t = "deleted"
  \/ s \in DOMAIN ValidTransitions /\ t \in ValidTransitions[s]

\* A ticket is granted by the claim, used by the launch, or lost.
TicketMove(r) ==
  \/ ticket[r] = "none" /\ ticket'[r] = "granted"
       /\ status[r] = "pending" /\ status'[r] = "claimed"
  \/ ticket[r] = "granted" /\ ticket'[r] \in {"used", "none"}

RowStep(r) ==
  /\ status'[r] = status[r] \/ StatusMove(status[r], status'[r])
  /\ ticket'[r] = ticket[r] \/ TicketMove(r)
  /\ status[r] = "pending" /\ status'[r] = "claimed" => ticket'[r] = "granted"
  /\ status'[r] # status[r] /\ status'[r] \in {"running", "completed"} => ticket[r] = "used"

Next == /\ status' \in [Row -> JobStatuses \cup {"none", "deleted"}]
        /\ ticket' \in [Row -> Tickets]
        /\ \A r \in Row : RowStep(r)

Spec == Init /\ [][Next]_vars
=============================================================================

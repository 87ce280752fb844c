----------------------------- MODULE JobStatus -----------------------------
(***************************************************************************)
(* The status column of a job_executions row and the guarded transition     *)
(* every writer of it goes through (common/models/job_execution.py).        *)
(***************************************************************************)
EXTENDS Naturals, Sequences

JobStatuses == {"pending", "claimed", "running", "completed", "error",
                "cancel_requested", "canceled"}

\* What exec_job, the runners and the CLI call a final status.
FinalStatuses == {"completed", "error", "canceled"}

\* Mutant: a cancellation request does not keep a job from completing.
TransitionsCompleteLate ==
  [pending          |-> {"claimed", "cancel_requested"},
   claimed          |-> {"running", "error", "cancel_requested"},
   running          |-> {"completed", "error", "cancel_requested"},
   cancel_requested |-> {"canceled", "cancel_requested", "completed"}]

\* The keys of the table are the sources; a status without an entry is final.
ValidTransitions ==
  [pending          |-> {"claimed", "cancel_requested"},
   claimed          |-> {"running", "error", "cancel_requested"},
   running          |-> {"completed", "error", "cancel_requested"},
   cancel_requested |-> {"canceled", "cancel_requested"}]

ValidFrom(target) ==
  {s \in DOMAIN ValidTransitions : target \in ValidTransitions[s]}

\* The guard of the UPDATE: the current status is a source of some target.
Allows(s, targets) == \E i \in DOMAIN targets : s \in ValidFrom(targets[i])

\* Mutant: the UPDATE has no status guard, so an unmatched CASE WHEN yields NULL.
TransitionUnguarded(s, targets) ==
  IF Allows(s, targets)
  THEN targets[CHOOSE i \in DOMAIN targets : s \in ValidFrom(targets[i])]
  ELSE "null"

\* The CASE WHEN of the UPDATE: the earliest target that accepts the current
\* status wins, and a row the guard rejects keeps its status.
Transition(s, targets) ==
  IF Allows(s, targets)
  THEN targets[CHOOSE i \in DOMAIN targets :
                 /\ s \in ValidFrom(targets[i])
                 /\ \A h \in DOMAIN targets : h < i => s \notin ValidFrom(targets[h])]
  ELSE s

\* Mutant: a cancellation is final at once.
CancelAskedFinal == <<"error", "cancel_requested">>

\* The targets each method of the model passes to _transition.
Running     == <<"running">>
Canceled    == <<"canceled">>
CancelAsked == <<"cancel_requested">>
Completed   == <<"completed">>
Interrupted == <<"error", "canceled">>

\* Mutants: find_stale overlooks claimed rows; claim_actionable overlooks
\* cancellations, or picks up claimed rows again.
StaleLaunched  == {"pending", "running", "cancel_requested"}
PendingOnly    == {"pending"}
ReclaimClaimed == {"pending", "claimed", "cancel_requested"}

\* find_stale and claim_actionable select on these.
StaleStatuses      == {"pending", "claimed", "running", "cancel_requested"}
ActionableStatuses == {"pending", "cancel_requested"}
=============================================================================

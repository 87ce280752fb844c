----------------------------- MODULE JobEngine -----------------------------
(***************************************************************************)
(* The job engine: clients insert and cancel job_executions rows, one       *)
(* scheduler process polls the table, launches an exec-job subprocess per   *)
(* claimed row and watches it from a wrapper thread, and the subprocess     *)
(* drives the row to a final status and fires the final callbacks.          *)
(*                                                                          *)
(* Sources: common/models/job_execution.py, scheduler/cli_scheduler.py,     *)
(* commands/exec_job.py, commands/job_registry.py and the submit, cancel    *)
(* and delete entry points of the UI, the API and MCP.                      *)
(*                                                                          *)
(* Every action is one committed transaction or one thread step. A          *)
(* transaction that calls back before it commits is split at those calls;   *)
(* Locked(r) holds while it keeps the row lock. What dies with the          *)
(* scheduler process is sched, stale, batch, skipWait, pollTx, running and  *)
(* wrap; the subprocesses (start_new_session) and the rows survive it.      *)
(***************************************************************************)
EXTENDS JobStatus, FiniteSets

CONSTANTS
  Job,         \* the jobs clients may submit
  ClientKeys,  \* the job keys they submit them with
  BatchSize,   \* _poll_batch_size
  Hanging,     \* the jobs whose handlers may hang on their target database
  Faults,      \* the kinds of fault that may occur
  MaxFaults    \* bound on how many of them do

JobKeys   == {"run-tests", "run-monitors", "run-score-update", "unregistered"}
FaultKinds == {"crash",   \* the scheduler process is killed
               "signal",  \* SIGINT or SIGTERM reaches the scheduler
               "kill",    \* an exec-job process is killed or exits 1
               "popen",   \* subprocess.Popen raises
               "thread",  \* the wrapper thread cannot be started
               "txn"}     \* a transaction fails, loudly or by a silent ROLLBACK

ASSUME EngineAssumption ==
  /\ BatchSize \in Nat \ {0}
  /\ MaxFaults \in Nat
  /\ Faults \subseteq FaultKinds
  /\ ClientKeys \subseteq JobKeys
  /\ Hanging \subseteq Job

\* A client row, and the score update the engine itself enqueues for it.
Row == Job \X {"client", "score"}
ScoreOf(r) == <<r[1], "score">>

Registered(k) == k # "unregistered"               \* k in JOB_DISPATCH
HasRun(k)     == k \in {"run-tests", "run-monitors"}
Enqueues(k)   == k = "run-tests"                  \* _enqueue_score_update registered

VARIABLES
  status,    \* committed status of each row; "none" before it exists
  key,       \* job_key
  created,   \* created_at as a rank, 0 before the row exists
  clock,     \* the next rank
  run,       \* status of the run record the handler keeps for the row
  sched,     \* phase of the scheduler process
  stale,     \* rows of find_stale() still to cancel
  skipWait,  \* skip_wait of _poll_loop
  batch,     \* what the poll thread read for each row it still has to process
  pollTx,    \* progress of the poll thread on the oldest row of the batch
  running,   \* keys of _running_jobs
  wrap,      \* program counter of the row's _proc_wrapper thread
  proc,      \* program counter of the row's exec-job process
  notified,  \* notification rounds sent for the row
  faults     \* faults so far

rowVars   == <<status, key, created, clock, run>>
schedVars == <<sched, stale, skipWait>>
pollVars  == <<batch, pollTx>>
wrapVars  == <<running, wrap>>
vars == <<status, key, created, clock, run, sched, stale, skipWait, batch, pollTx,
          running, wrap, proc, notified, faults>>

RunStatuses == {"none", "Running", "Complete", "Error", "Cancelled", "deleted"}
SchedPhases == {"down", "stale", "up", "stopping", "draining", "ended"}
WrapStates  == {"none", "registering", "waiting", "interrupting", "marked", "notified",
                "retry", "remarked", "renotified", "cleanup"}
AliveStates == {"boot", "handler", "saved", "returned", "raised",
                "notifyCompleted", "notifyInterrupted", "enqueue"}
ProcStates  == {"none", "exit0", "dead"} \cup AliveStates

Alive(r)   == proc[r] \in AliveStates
Stored(r)  == status[r] \in JobStatuses
HasRecord(r) == run[r] \notin {"none", "deleted"}

\* The row the poll thread is processing: the batch is in created_at order.
Current(r) == /\ batch[r] # "none"
              /\ \A s \in Row : batch[s] # "none" => created[r] <= created[s]

\* A transaction has updated the row and not committed yet.
WrapTx(r) == wrap[r] \in {"marked", "notified", "remarked", "renotified"}
PollTx(r) == pollTx \in {"marked", "notified"} /\ Current(r)

LockedNever(r) == FALSE  \* mutant: the callbacks run after their commit

Locked(r) == WrapTx(r) \/ PollTx(r)

Fault(kind) == kind \in Faults /\ faults < MaxFaults /\ faults' = faults + 1

\* One guarded UPDATE, committed at once.
Update(r, targets) ==
  status' = [status EXCEPT ![r] = Transition(@, targets)]

Init ==
  /\ status = [r \in Row |-> "none"]
  /\ key = [r \in Row |-> "none"]
  /\ created = [r \in Row |-> 0]
  /\ clock = 1
  /\ run = [r \in Row |-> "none"]
  /\ sched = "down"
  /\ stale = {}
  /\ skipWait = FALSE
  /\ batch = [r \in Row |-> "none"]
  /\ pollTx = "none"
  /\ running = {}
  /\ wrap = [r \in Row |-> "none"]
  /\ proc = [r \in Row |-> "none"]
  /\ notified = [r \in Row |-> 0]
  /\ faults = 0

-----------------------------------------------------------------------------
(* Clients: JobExecution.submit, request_cancel and the deletion of runs.   *)

Insert(r, k) ==
  /\ status' = [status EXCEPT ![r] = "pending"]
  /\ key' = [key EXCEPT ![r] = k]
  /\ created' = [created EXCEPT ![r] = clock]
  /\ clock' = clock + 1

Submit(j, k) ==
  /\ status[<<j, "client">>] = "none"
  /\ Insert(<<j, "client">>, k)
  /\ UNCHANGED <<run, schedVars, pollVars, wrapVars, proc, notified, faults>>

\* The UI also writes "Cancelled" into the run record; the API and MCP do not.
RequestCancel(r, fromUI) ==
  /\ Stored(r) /\ ~Locked(r)
  /\ Allows(status[r], CancelAsked)
  /\ Update(r, CancelAsked)
  /\ run' = IF fromUI /\ HasRecord(r) THEN [run EXCEPT ![r] = "Cancelled"] ELSE run
  /\ UNCHANGED <<key, created, clock, schedVars, pollVars, wrapVars, proc, notified, faults>>

\* request_cancel, cascade_delete and delete share one transaction, so only
\* the deletion is ever visible to the scheduler.
DeleteRun(r) ==
  /\ Stored(r) /\ HasRun(key[r]) /\ ~Locked(r)
  /\ status' = [status EXCEPT ![r] = "deleted"]
  /\ run' = IF HasRecord(r) THEN [run EXCEPT ![r] = "deleted"] ELSE run
  /\ UNCHANGED <<key, created, clock, schedVars, pollVars, wrapVars, proc, notified, faults>>

-----------------------------------------------------------------------------
(* run_scheduler, shutdown and the death of the process.                    *)

StartScheduler ==
  /\ sched = "down"
  /\ sched' = "stale"
  /\ stale' = {r \in Row : status[r] \in StaleStatuses}
  /\ skipWait' = FALSE
  /\ UNCHANGED <<rowVars, pollVars, wrapVars, proc, notified, faults>>

CancelStale(r) ==
  /\ sched = "stale" /\ r \in stale
  /\ stale' = stale \ {r}
  /\ Update(r, CancelAsked)
  /\ UNCHANGED <<key, created, clock, run, sched, skipWait, pollVars, wrapVars, proc,
                 notified, faults>>

StartPolling ==
  /\ sched = "stale" /\ stale = {}
  /\ sched' = "up"
  /\ UNCHANGED <<rowVars, stale, skipWait, pollVars, wrapVars, proc, notified, faults>>

StartUp == StartScheduler \/ StartPolling \/ \E r \in Row : CancelStale(r)

FirstSignal ==
  /\ sched = "up" /\ Fault("signal")
  /\ sched' = "stopping"
  /\ UNCHANGED <<rowVars, stale, skipWait, pollVars, wrapVars, proc, notified>>

\* Later signals go to every process the scheduler has registered.
NextSignal ==
  /\ sched \in {"stopping", "draining", "ended"} /\ Fault("signal")
  /\ proc' = [r \in Row |-> IF r \in running /\ Alive(r) THEN "dead" ELSE proc[r]]
  /\ UNCHANGED <<rowVars, schedVars, pollVars, wrapVars, notified>>

\* run() waits for the poll thread, then for _running_jobs to be empty; the
\* interpreter then waits for the threads that are left.
Drained ==
  /\ sched = "draining" /\ running = {}
  /\ sched' = "ended"
  /\ UNCHANGED <<rowVars, stale, skipWait, pollVars, wrapVars, proc, notified, faults>>

ProcessExits ==
  /\ sched = "ended" /\ \A r \in Row : wrap[r] = "none"
  /\ sched' = "down"
  /\ UNCHANGED <<rowVars, stale, skipWait, pollVars, wrapVars, proc, notified, faults>>

ShutDown == Drained \/ ProcessExits

Crash ==
  /\ sched # "down" /\ Fault("crash")
  /\ sched' = "down"
  /\ stale' = {}
  /\ skipWait' = FALSE
  /\ batch' = [r \in Row |-> "none"]
  /\ pollTx' = "none"
  /\ running' = {}
  /\ wrap' = [r \in Row |-> "none"]
  /\ UNCHANGED <<rowVars, proc, notified>>

-----------------------------------------------------------------------------
(* The poll thread: _poll_loop, _dispatch and _handle_cancellation.         *)

Actionable == {r \in Row : status[r] \in ActionableStatuses /\ ~Locked(r)}

\* Polls while up; after shutdown() only when the last batch was full.
Polls == sched = "up" \/ (sched = "stopping" /\ skipWait)

BatchEmpty == \A r \in Row : batch[r] = "none"
ClearBatch(r) == batch' = [batch EXCEPT ![r] = "none"]

Claimed(s) == IF s = "pending" THEN "claimed" ELSE s

\* claim_actionable: the oldest rows that are not locked, at most BatchSize.
Claim ==
  /\ Polls /\ BatchEmpty
  /\ \E S \in SUBSET Actionable :
       /\ Cardinality(S) = BatchSize \/ (S = Actionable /\ Cardinality(S) < BatchSize)
       /\ \A r \in S, s \in Actionable \ S : created[r] < created[s]
       /\ status' = [r \in Row |-> IF r \in S THEN Claimed(status[r]) ELSE status[r]]
       /\ batch' = [r \in Row |-> IF r \in S THEN Claimed(status[r]) ELSE "none"]
       /\ skipWait' = (Cardinality(S) >= BatchSize)
  /\ UNCHANGED <<key, created, clock, run, sched, stale, pollTx, wrapVars, proc,
                 notified, faults>>

ClaimFails ==
  /\ Polls /\ BatchEmpty /\ Fault("txn")
  /\ skipWait' = FALSE
  /\ UNCHANGED <<rowVars, sched, stale, pollVars, wrapVars, proc, notified>>

PollLoopEnds ==
  /\ sched = "stopping" /\ ~skipWait /\ BatchEmpty
  /\ sched' = "draining"
  /\ UNCHANGED <<rowVars, stale, skipWait, pollVars, wrapVars, proc, notified, faults>>

DispatchUnknown(r) ==
  /\ Current(r) /\ pollTx = "none" /\ batch[r] = "claimed" /\ ~Registered(key[r])
  /\ ~WrapTx(r)
  /\ Update(r, Interrupted)
  /\ ClearBatch(r)
  /\ UNCHANGED <<key, created, clock, run, schedVars, pollTx, wrapVars, proc, notified, faults>>

\* Popen, then the wrapper thread is started; it has not registered yet.
Dispatch(r) ==
  /\ Current(r) /\ pollTx = "none" /\ batch[r] = "claimed" /\ Registered(key[r])
  /\ proc' = [proc EXCEPT ![r] = "boot"]
  /\ wrap' = [wrap EXCEPT ![r] = "registering"]
  /\ ClearBatch(r)
  /\ UNCHANGED <<rowVars, schedVars, pollTx, running, notified, faults>>

PopenFails(r) ==
  /\ Current(r) /\ pollTx = "none" /\ batch[r] = "claimed" /\ Registered(key[r])
  /\ Fault("popen")
  /\ pollTx' = "failed"
  /\ UNCHANGED <<rowVars, schedVars, batch, wrapVars, proc, notified>>

ThreadFails(r) ==
  /\ Current(r) /\ pollTx = "none" /\ batch[r] = "claimed" /\ Registered(key[r])
  /\ Fault("thread")
  /\ proc' = [proc EXCEPT ![r] = "boot"]
  /\ pollTx' = "failed"
  /\ UNCHANGED <<rowVars, schedVars, batch, wrapVars, notified>>

\* A registered process gets SIGTERM; exec-job does not handle it.
Terminate(r) ==
  /\ Current(r) /\ pollTx = "none" /\ batch[r] = "cancel_requested" /\ r \in running
  /\ proc' = IF Alive(r) THEN [proc EXCEPT ![r] = "dead"] ELSE proc
  /\ ClearBatch(r)
  /\ UNCHANGED <<rowVars, schedVars, pollTx, wrapVars, notified, faults>>

NoProcess(r) ==
  /\ Current(r) /\ pollTx = "none" /\ batch[r] = "cancel_requested" /\ r \notin running
  /\ pollTx' = "noproc"
  /\ UNCHANGED <<rowVars, schedVars, batch, wrapVars, proc, notified, faults>>

\* mark_canceled; when it takes effect the callbacks run before the commit.
MarkCanceled(r) ==
  /\ Current(r) /\ pollTx = "noproc" /\ ~WrapTx(r)
  /\ IF Allows(status[r], Canceled)
     THEN pollTx' = "marked" /\ UNCHANGED batch
     ELSE pollTx' = "none" /\ ClearBatch(r)
  /\ UNCHANGED <<rowVars, schedVars, wrapVars, proc, notified, faults>>

\* One round of run_final_callbacks for a row that was not completed.
Notify(r) ==
  notified' = IF HasRun(key[r]) /\ HasRecord(r)
              THEN [notified EXCEPT ![r] = @ + 1] ELSE notified

PollNotify(r) ==
  /\ Current(r) /\ pollTx = "marked"
  /\ pollTx' = "notified"
  /\ Notify(r)
  /\ UNCHANGED <<rowVars, schedVars, batch, wrapVars, proc, faults>>

PollCommit(r) ==
  /\ Current(r) /\ pollTx = "notified"
  /\ pollTx' = "none"
  /\ ClearBatch(r)
  /\ Update(r, Canceled)
  /\ UNCHANGED <<key, created, clock, run, schedVars, wrapVars, proc, notified, faults>>

PollTxFails(r) ==
  /\ Current(r) /\ pollTx \in {"noproc", "marked", "notified"} /\ Fault("txn")
  /\ pollTx' = "failed"
  /\ UNCHANGED <<rowVars, schedVars, batch, wrapVars, proc, notified>>

\* A query of the callback fails: the exception is swallowed, the aborted
\* transaction is committed, and the server rolls it back.
PollTxLost(r) ==
  /\ Current(r) /\ pollTx = "marked" /\ HasRun(key[r]) /\ Fault("txn")
  /\ pollTx' = "none"
  /\ ClearBatch(r)
  /\ UNCHANGED <<rowVars, schedVars, wrapVars, proc, notified>>

\* "Processing failed": the row is forced final, without callbacks.
ForceInterrupted(r) ==
  /\ Current(r) /\ pollTx = "failed" /\ ~WrapTx(r)
  /\ pollTx' = "none"
  /\ ClearBatch(r)
  /\ Update(r, Interrupted)
  /\ UNCHANGED <<key, created, clock, run, schedVars, wrapVars, proc, notified, faults>>

ForceFails(r) ==
  /\ Current(r) /\ pollTx = "failed" /\ Fault("txn")
  /\ pollTx' = "none"
  /\ ClearBatch(r)
  /\ UNCHANGED <<rowVars, schedVars, wrapVars, proc, notified>>

PollRow(r) ==
  \/ DispatchUnknown(r) \/ Dispatch(r) \/ Terminate(r) \/ NoProcess(r) \/ MarkCanceled(r)
  \/ PollNotify(r) \/ PollCommit(r) \/ ForceInterrupted(r)

PollFault(r) ==
  \/ PopenFails(r) \/ ThreadFails(r) \/ PollTxFails(r) \/ PollTxLost(r) \/ ForceFails(r)

PollThread == Claim \/ PollLoopEnds \/ \E r \in Row : PollRow(r)

-----------------------------------------------------------------------------
(* _proc_wrapper, one thread per launched subprocess.                       *)

Register(r) ==
  /\ wrap[r] = "registering"
  /\ wrap' = [wrap EXCEPT ![r] = "waiting"]
  /\ running' = running \cup {r}
  /\ UNCHANGED <<rowVars, schedVars, pollVars, proc, notified, faults>>

\* Mutant: the exit code is not looked at.
FailedNever(pc) == FALSE

\* ret_code != 0
Failed(pc) == pc = "dead"

\* proc.wait() returned: only a nonzero code makes the wrapper intervene.
Reap(r) ==
  /\ wrap[r] = "waiting" /\ proc[r] \in {"exit0", "dead"}
  /\ wrap' = [wrap EXCEPT ![r] = IF Failed(proc[r]) THEN "interrupting" ELSE "cleanup"]
  /\ UNCHANGED <<rowVars, schedVars, pollVars, running, proc, notified, faults>>

\* mark_interrupted, in the try block or again in its except block.
WrapMark(r) ==
  /\ wrap[r] \in {"interrupting", "retry"} /\ ~PollTx(r)
  /\ wrap' = [wrap EXCEPT ![r] = IF ~Allows(status[r], Interrupted) THEN "cleanup"
                                 ELSE IF @ = "interrupting" THEN "marked" ELSE "remarked"]
  /\ UNCHANGED <<rowVars, schedVars, pollVars, running, proc, notified, faults>>

WrapNotify(r) ==
  /\ wrap[r] \in {"marked", "remarked"}
  /\ wrap' = [wrap EXCEPT ![r] = IF @ = "marked" THEN "notified" ELSE "renotified"]
  /\ Notify(r)
  /\ UNCHANGED <<rowVars, schedVars, pollVars, running, proc, faults>>

WrapCommit(r) ==
  /\ wrap[r] \in {"notified", "renotified"}
  /\ wrap' = [wrap EXCEPT ![r] = "cleanup"]
  /\ Update(r, Interrupted)
  /\ UNCHANGED <<key, created, clock, run, schedVars, pollVars, running, proc, notified, faults>>

WrapTxFails(r) ==
  /\ wrap[r] \in {"interrupting", "notified", "retry", "renotified"} /\ Fault("txn")
  /\ wrap' = [wrap EXCEPT ![r] = IF @ \in {"interrupting", "notified"} THEN "retry" ELSE "cleanup"]
  /\ UNCHANGED <<rowVars, schedVars, pollVars, running, proc, notified>>

\* As PollTxLost.
WrapTxLost(r) ==
  /\ wrap[r] \in {"marked", "remarked"} /\ HasRun(key[r]) /\ Fault("txn")
  /\ wrap' = [wrap EXCEPT ![r] = "cleanup"]
  /\ UNCHANGED <<rowVars, schedVars, pollVars, running, proc, notified>>

\* Mutant: the finally block forgets the entry of _running_jobs.
UnregisterKeeps(r) ==
  /\ wrap[r] = "cleanup"
  /\ wrap' = [wrap EXCEPT ![r] = "none"]
  /\ UNCHANGED <<rowVars, schedVars, pollVars, running, proc, notified, faults>>

Unregister(r) ==
  /\ wrap[r] = "cleanup"
  /\ wrap' = [wrap EXCEPT ![r] = "none"]
  /\ running' = running \ {r}
  /\ UNCHANGED <<rowVars, schedVars, pollVars, proc, notified, faults>>

Wrapper(r) ==
  Register(r) \/ Reap(r) \/ WrapMark(r) \/ WrapNotify(r) \/ WrapCommit(r) \/ Unregister(r)

-----------------------------------------------------------------------------
(* exec_job in the subprocess, and the handler it calls.                    *)

Becomes(r, pc) == proc' = [proc EXCEPT ![r] = pc]

\* The first transaction. (The dispatcher has checked the key already.)
Boot(r) ==
  /\ proc[r] = "boot" /\ ~Locked(r)
  /\ \/ /\ ~Stored(r)
        /\ Becomes(r, "dead")
        /\ UNCHANGED status
     \/ /\ Stored(r)
        /\ Becomes(r, IF Allows(status[r], Running) THEN "handler" ELSE "exit0")
        /\ Update(r, Running)
  /\ UNCHANGED <<key, created, clock, run, schedVars, pollVars, wrapVars, notified, faults>>

\* The handler commits its run record before it does anything else.
CreateRun(r) ==
  /\ proc[r] = "handler" /\ HasRun(key[r]) /\ run[r] = "none"
  /\ run' = [run EXCEPT ![r] = "Running"]
  /\ UNCHANGED <<status, key, created, clock, schedVars, pollVars, wrapVars, proc, notified, faults>>

\* The final save of a successful run overwrites what cancel_run wrote; a
\* deleted record can no longer be saved.
CompleteRun(r) ==
  /\ proc[r] = "handler" /\ run[r] \in {"Running", "Cancelled"}
  /\ run' = [run EXCEPT ![r] = "Complete"]
  /\ Becomes(r, "saved")
  /\ UNCHANGED <<status, key, created, clock, schedVars, pollVars, wrapVars, notified, faults>>

HandlerReturns(r) ==
  /\ proc[r] = IF HasRun(key[r]) THEN "saved" ELSE "handler"
  /\ Becomes(r, "returned")
  /\ UNCHANGED <<rowVars, schedVars, pollVars, wrapVars, notified, faults>>

\* Raising before the final save records "Error" over whatever is there;
\* raising after it leaves the record alone.
HandlerRaises(r) ==
  /\ proc[r] \in {"handler", "saved"}
  /\ Becomes(r, "raised")
  /\ run' = IF proc[r] = "handler" /\ HasRecord(r) THEN [run EXCEPT ![r] = "Error"] ELSE run
  /\ UNCHANGED <<status, key, created, clock, schedVars, pollVars, wrapVars, notified, faults>>

Handler(r) == CreateRun(r) \/ CompleteRun(r) \/ HandlerReturns(r) \/ HandlerRaises(r)

\* mark_completed on a deleted row raises, like any failure of the handler.
MarkCompleted(r) ==
  /\ proc[r] = "returned" /\ ~Locked(r)
  /\ Becomes(r, CASE ~Stored(r) -> "raised"
                  [] Stored(r) /\ Allows(status[r], Completed) -> "notifyCompleted"
                  [] OTHER -> "exit0")
  /\ Update(r, Completed)
  /\ UNCHANGED <<key, created, clock, run, schedVars, pollVars, wrapVars, notified, faults>>

MarkInterrupted(r) ==
  /\ proc[r] = "raised" /\ ~Locked(r)
  /\ Becomes(r, CASE ~Stored(r) -> "dead"
                  [] Stored(r) /\ Allows(status[r], Interrupted) -> "notifyInterrupted"
                  [] OTHER -> "exit0")
  /\ Update(r, Interrupted)
  /\ UNCHANGED <<key, created, clock, run, schedVars, pollVars, wrapVars, notified, faults>>

\* Mutants: the status check of _enqueue_score_update is dropped, or made on
\* the status the row had before the transition.
AfterNotifyAlways(pc, k) == IF Enqueues(k) THEN "enqueue" ELSE "exit0"
AfterNotifyNever(pc, k)  == "exit0"

\* _enqueue_score_update follows for a completed row whose key registers it.
AfterNotify(pc, k) == IF pc = "notifyCompleted" /\ Enqueues(k) THEN "enqueue" ELSE "exit0"

\* The callbacks of the subprocess run after its commit.
ExecNotify(r) ==
  /\ proc[r] \in {"notifyCompleted", "notifyInterrupted"}
  /\ Becomes(r, AfterNotify(proc[r], key[r]))
  /\ Notify(r)
  /\ UNCHANGED <<rowVars, schedVars, pollVars, wrapVars, faults>>

EnqueueScoreUpdate(r) ==
  /\ proc[r] = "enqueue"
  /\ Becomes(r, "exit0")
  /\ Insert(ScoreOf(r), "run-score-update")
  /\ UNCHANGED <<run, schedVars, pollVars, wrapVars, notified, faults>>

Exec(r) ==
  Boot(r) \/ MarkCompleted(r) \/ MarkInterrupted(r) \/ ExecNotify(r) \/ EnqueueScoreUpdate(r)

ProcessDies(r) ==
  /\ Alive(r) /\ Fault("kill")
  /\ Becomes(r, "dead")
  /\ UNCHANGED <<rowVars, schedVars, pollVars, wrapVars, notified>>

-----------------------------------------------------------------------------
Client ==
  \/ \E j \in Job, k \in ClientKeys : Submit(j, k)
  \/ \E r \in Row : DeleteRun(r) \/ \E fromUI \in BOOLEAN : RequestCancel(r, fromUI)

Environment ==
  FirstSignal \/ NextSignal \/ Crash \/ ClaimFails
    \/ \E r \in Row : PollFault(r) \/ WrapTxFails(r) \/ WrapTxLost(r) \/ ProcessDies(r)

Next ==
  \/ Client \/ StartUp \/ ShutDown \/ PollThread \/ Environment
  \/ \E r \in Row : Wrapper(r) \/ Handler(r) \/ Exec(r)

Spec == Init /\ [][Next]_vars

\* The threads of the scheduler and the engine's part of a subprocess keep
\* running; the container restarts a scheduler that has gone (restart: always).
EngineFairness ==
  /\ WF_vars(StartUp) /\ WF_vars(ShutDown) /\ WF_vars(PollThread)
  /\ \A r \in Row : WF_vars(Wrapper(r)) /\ WF_vars(Exec(r))

\* The handlers of all other jobs end.
Ending == {r \in Row : r[1] \notin Hanging}
FairSpec == Spec /\ EngineFairness /\ \A r \in Ending : WF_vars(Handler(r))

-----------------------------------------------------------------------------
(* Properties.                                                              *)

TypeOK ==
  /\ status \in [Row -> JobStatuses \cup {"none", "deleted"}]
  /\ key \in [Row -> JobKeys \cup {"none"}]
  /\ created \in [Row -> Nat] /\ clock \in Nat
  /\ run \in [Row -> RunStatuses]
  /\ sched \in SchedPhases /\ stale \subseteq Row /\ skipWait \in BOOLEAN
  /\ batch \in [Row -> {"none", "claimed", "cancel_requested"}]
  /\ pollTx \in {"none", "noproc", "marked", "notified", "failed"}
  /\ running \subseteq Row
  /\ wrap \in [Row -> WrapStates]
  /\ proc \in [Row -> ProcStates]
  /\ notified \in [Row -> Nat]
  /\ faults \in 0..MaxFaults

\* The engine implements the protocol: the ticket of a row is used once a
\* process was launched for it and granted while it waits in the batch.
Protocol == INSTANCE JobProtocol WITH
  ticket <- [r \in Row |-> IF proc[r] # "none" THEN "used"
                           ELSE IF batch[r] = "claimed" THEN "granted" ELSE "none"]
ImplementsProtocol == Protocol!Spec

\* No job is launched twice: a row waiting in the batch has no process, unless
\* its wrapper thread could not be started and the poll thread is about to
\* force the row final.
OneLaunch ==
  \A r \in Row : batch[r] = "claimed" /\ proc[r] # "none" => pollTx = "failed" /\ Current(r)

\* A score update is enqueued only for a row that was committed as completed,
\* and the row can then only be deleted.
ScoreAfterCompletion ==
  \A j \in Job : status[<<j, "score">>] # "none"
                   => status[<<j, "client">>] \in {"completed", "deleted"}

\* Each job is notified at most once, although the poll thread, the wrapper
\* thread and the subprocess each run the callbacks after their own update.
NotifiedAtMostOnce == \A r \in Row : notified[r] <= 1

\* An error is only ever recorded for a job whose process is over or never
\* started; a live process always decides its own outcome.
Working(r) == proc[r] \in {"boot", "handler", "saved", "returned"}
ErrorMeansStopped == \A r \in Row : status[r] = "error" => ~Working(r)

\* A completed job has a complete run record: a cancellation that marks the
\* record "Cancelled" also keeps the job from completing.
CompletedRunIsComplete ==
  \A r \in Row : status[r] = "completed" /\ HasRun(key[r]) => run[r] = "Complete"

\* When the scheduler has shut down in order, no row is left that claims
\* work is going on, and no process is.
CleanShutdown ==
  sched = "down" => \A r \in Row : status[r] \notin {"claimed", "running"} /\ ~Alive(r)

\* Every submitted job reaches a final status or is deleted, even when the
\* handlers of other jobs hang, unless its own does.
JobSettles ==
  \A r \in Ending : status[r] = "pending" ~> status[r] \in FinalStatuses \cup {"deleted"}

\* Every completed test or profiling run gets its score update, unless its
\* process is killed before it has enqueued it.
CompletedIsScored ==
  \A r \in Row : (status[r] = "completed" /\ Enqueues(key[r]) /\ Alive(r))
                   ~> (status[ScoreOf(r)] # "none" \/ proc[r] = "dead")

\* Once a shutdown has begun it comes to an end.
ShutdownEnds == sched = "stopping" ~> sched = "down"

\* A cancellation that the poll thread has yet to read stops a registered
\* process, even one whose handler hangs, unless the row is deleted first.
CancelStopsProcess ==
  \A r \in Row : (status[r] = "cancel_requested" /\ r \in running /\ batch[r] = "none")
                   ~> (~Alive(r) \/ status[r] = "deleted")

\* "Any running processes will be canceled" (the dialog that deletes runs).
DeleteStopsProcess ==
  \A r \in Row : (status[r] = "deleted" /\ proc[r] = "handler") ~> ~Alive(r)
=============================================================================

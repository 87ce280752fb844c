-------------------------- MODULE JobEngine_proofs --------------------------
(***************************************************************************)
(* Proofs about the job engine, for any set of jobs, any batch size and any *)
(* number and kind of faults.                                               *)
(***************************************************************************)
EXTENDS JobEngine, JobStatus_proofs

LEMMA ScoreRows == \A r \in Row : ScoreOf(r) \in Row
BY DEF Row, ScoreOf

LEMMA TransitionType ==
  ASSUME NEW s \in Stati
  PROVE  \A t \in {Running, Canceled, CancelAsked, Completed, Interrupted} :
           Transition(s, t) \in Stati
BY TransitionValues DEF Stati, JobStatuses

LEMMA InitType == Init => TypeOK
<1> SUFFICES ASSUME Init PROVE TypeOK
  OBVIOUS
<1>1. /\ status \in [Row -> JobStatuses \cup {"none", "deleted"}]
      /\ key \in [Row -> JobKeys \cup {"none"}]
      /\ created \in [Row -> Nat] /\ clock \in Nat
      /\ run \in [Row -> RunStatuses]
      /\ notified \in [Row -> Nat]
  BY DEF Init, RunStatuses
<1>2. sched \in SchedPhases /\ stale \subseteq Row /\ skipWait \in BOOLEAN /\ running \subseteq Row
  BY Zenon DEF Init, SchedPhases
<1>4. faults \in 0..MaxFaults
  BY EngineAssumption DEF Init
<1>3. /\ batch \in [Row -> {"none", "claimed", "cancel_requested"}]
      /\ pollTx \in {"none", "noproc", "marked", "notified", "failed"}
      /\ wrap \in [Row -> WrapStates] /\ proc \in [Row -> ProcStates]
  BY DEF Init, WrapStates, ProcStates
<1> QED BY <1>1, <1>2, <1>3, <1>4 DEF TypeOK

\* Type correctness is inductive by itself.
LEMMA TypeStep == TypeOK /\ [Next]_vars => TypeOK'
<1> SUFFICES ASSUME TypeOK, [Next]_vars PROVE TypeOK'
  OBVIOUS
<1> USE EngineAssumption DEF TypeOK, rowVars, schedVars, pollVars, wrapVars
<1>1. CASE Client
  <2>1. ASSUME NEW j \in Job, NEW k \in ClientKeys, Submit(j, k) PROVE TypeOK'
    BY <2>1 DEF Submit, Insert, Row, JobStatuses
  <2>2. ASSUME NEW r \in Row, DeleteRun(r) PROVE TypeOK'
    BY <2>2 DEF DeleteRun, RunStatuses
  <2>3. ASSUME NEW r \in Row, NEW fromUI \in BOOLEAN, RequestCancel(r, fromUI) PROVE TypeOK'
    BY <2>3, TransitionType DEF RequestCancel, RunStatuses, Update, Stati
  <2> QED BY <1>1, <2>1, <2>2, <2>3 DEF Client
<1>2. CASE StartUp
  <2>1. CASE StartScheduler
    BY <2>1 DEF StartScheduler, SchedPhases
  <2>2. CASE StartPolling
    BY <2>2 DEF StartPolling, SchedPhases
  <2>3. ASSUME NEW r \in Row, CancelStale(r) PROVE TypeOK'
    BY <2>3, TransitionType DEF CancelStale, Update, Stati
  <2> QED BY <1>2, <2>1, <2>2, <2>3 DEF StartUp
<1>3. CASE ShutDown
  BY <1>3 DEF ShutDown, Drained, ProcessExits, SchedPhases
<1>4. CASE PollThread
  <2>1. CASE Claim
    <3>1. PICK S \in SUBSET Actionable :
            /\ status' = [r \in Row |-> IF r \in S THEN Claimed(status[r]) ELSE status[r]]
            /\ batch' = [r \in Row |-> IF r \in S THEN Claimed(status[r]) ELSE "none"]
            /\ skipWait' = (Cardinality(S) >= BatchSize)
      BY <2>1 DEF Claim
    <3>2. \A r \in S : Claimed(status[r]) \in {"claimed", "cancel_requested"}
      BY DEF Actionable, ActionableStatuses, Claimed
    <3> QED BY <2>1, <3>1, <3>2 DEF Claim, JobStatuses
  <2>2. CASE PollLoopEnds
    BY <2>2 DEF PollLoopEnds, SchedPhases
  <2>3. ASSUME NEW r \in Row, PollRow(r) PROVE TypeOK'
    <3>1. CASE DispatchUnknown(r) \/ PollCommit(r) \/ ForceInterrupted(r)
      BY <3>1, TransitionType
         DEF DispatchUnknown, PollCommit, ForceInterrupted, Update, ClearBatch, Stati
    <3>2. CASE Dispatch(r) \/ Terminate(r)
      BY <3>2 DEF Dispatch, Terminate, ClearBatch, ProcStates, AliveStates, WrapStates
    <3>3. CASE NoProcess(r) \/ MarkCanceled(r) \/ PollNotify(r)
      BY <3>3 DEF NoProcess, MarkCanceled, PollNotify, ClearBatch, Notify
    <3> QED BY <2>3, <3>1, <3>2, <3>3 DEF PollRow
  <2> QED BY <1>4, <2>1, <2>2, <2>3 DEF PollThread
<1>5. CASE Environment
  <2>1. CASE FirstSignal \/ NextSignal \/ Crash \/ ClaimFails
    <3>1. CASE FirstSignal
      BY <3>1 DEF FirstSignal, Fault, SchedPhases
    <3>4. CASE ClaimFails
      <4>1. faults' \in 0..MaxFaults
        BY <3>4 DEF ClaimFails, Fault
      <4>2. skipWait' \in BOOLEAN
        BY <3>4, Zenon DEF ClaimFails
      <4> QED BY <3>4, <4>1, <4>2 DEF ClaimFails
    <3>2. CASE NextSignal
      BY <3>2 DEF NextSignal, Fault, ProcStates
    <3>3. CASE Crash
      <4>1. faults' \in 0..MaxFaults
        BY <3>3 DEF Crash, Fault
      <4>2. skipWait' \in BOOLEAN
        BY <3>3, Zenon DEF Crash
      <4> QED BY <3>3, <4>1, <4>2 DEF Crash, SchedPhases, WrapStates
    <3> QED BY <2>1, <3>1, <3>2, <3>3, <3>4
  <2>2. ASSUME NEW r \in Row, PollFault(r) PROVE TypeOK'
    BY <2>2 DEF PollFault, PopenFails, ThreadFails, PollTxFails, PollTxLost, ForceFails, Fault,
                ClearBatch, ProcStates, AliveStates
  <2>3. ASSUME NEW r \in Row, WrapTxFails(r) \/ WrapTxLost(r) \/ ProcessDies(r) PROVE TypeOK'
    BY <2>3 DEF WrapTxFails, WrapTxLost, ProcessDies, Becomes, Fault, WrapStates, ProcStates
  <2> QED BY <1>5, <2>1, <2>2, <2>3 DEF Environment
<1>6. ASSUME NEW r \in Row, Wrapper(r) PROVE TypeOK'
  <2>1. CASE Register(r) \/ Reap(r) \/ WrapMark(r) \/ Unregister(r)
    BY <2>1 DEF Register, Reap, WrapMark, Unregister, WrapStates
  <2>2. CASE WrapNotify(r)
    BY <2>2 DEF WrapNotify, Notify, WrapStates
  <2>3. CASE WrapCommit(r)
    BY <2>3, TransitionType DEF WrapCommit, Update, Stati, WrapStates
  <2> QED BY <1>6, <2>1, <2>2, <2>3 DEF Wrapper
<1>7. ASSUME NEW r \in Row, Handler(r) PROVE TypeOK'
  BY <1>7 DEF Handler, CreateRun, CompleteRun, HandlerReturns, HandlerRaises, Becomes,
              RunStatuses, ProcStates, AliveStates
<1>8. ASSUME NEW r \in Row, Exec(r) PROVE TypeOK'
  <2>1. CASE Boot(r) \/ MarkCompleted(r) \/ MarkInterrupted(r)
    BY <2>1, TransitionType
       DEF Boot, MarkCompleted, MarkInterrupted, Update, Becomes, ProcStates, AliveStates, Stati
  <2>2. CASE ExecNotify(r)
    BY <2>2 DEF ExecNotify, AfterNotify, Notify, Becomes, ProcStates, AliveStates
  <2>3. CASE EnqueueScoreUpdate(r)
    BY <2>3, ScoreRows DEF EnqueueScoreUpdate, Insert, Becomes, ProcStates, JobKeys, JobStatuses
  <2> QED BY <1>8, <2>1, <2>2, <2>3 DEF Exec
<1>9. CASE UNCHANGED vars
  BY <1>9 DEF vars
<1> QED BY <1>1, <1>2, <1>3, <1>4, <1>5, <1>6, <1>7, <1>8, <1>9 DEF Next

\* THEOREM: every variable of the engine keeps its type.
THEOREM TypeCorrect == Spec => []TypeOK
<1> QED BY InitType, TypeStep, PTL DEF Spec

-----------------------------------------------------------------------------
(* The inductive invariant.                                                 *)

\* Rows are ranked in the order of their insertion, no two alike.
Ranks ==
  /\ \A r \in Row : created[r] < clock /\ (created[r] = 0 <=> status[r] = "none")
  /\ \A r, s \in Row : created[r] = created[s] /\ created[r] # 0 => r = s

\* A row has a process, or is in the batch, only once it was claimed or
\* its cancellation was requested.
Fresh ==
  \A r \in Row : status[r] \in {"none", "pending"} => proc[r] = "none" /\ batch[r] = "none"

\* A score row belongs to a process that has enqueued it and is gone; only a
\* completed run-tests row gets that far.
Scored ==
  /\ \A j \in Job : status[<<j, "score">>] # "none"
                      => key[<<j, "score">>] = "run-score-update" /\ proc[<<j, "client">>] = "exit0"
  /\ \A r \in Row : proc[r] = "enqueue" => key[r] = "run-tests"
  /\ \A r \in Row : proc[r] \in {"notifyCompleted", "enqueue"} => status[r] \in {"completed", "deleted"}

IInv == TypeOK /\ Ranks /\ Fresh /\ OneLaunch /\ Scored /\ ScoreAfterCompletion

LEMMA InitInv == Init => IInv
BY InitType DEF Init, IInv, Ranks, Fresh, OneLaunch, Scored, ScoreAfterCompletion, Row

\* What a step may do to one row's status: a single notion for all actions.
Moves(r) ==
  \/ status'[r] = status[r]
  \/ status[r] = "pending" /\ status'[r] = "claimed" /\ batch'[r] = "claimed"
  \/ status[r] \in StaleStatuses /\ status'[r] = "cancel_requested"
  \/ status[r] \in {"claimed", "running"} /\ status'[r] = "error"
  \/ status[r] = "cancel_requested" /\ status'[r] = "canceled"
  \/ status[r] = "claimed" /\ status'[r] = "running" /\ proc[r] # "none"
  \/ status[r] = "running" /\ status'[r] = "completed" /\ proc[r] # "none"
  \/ status[r] # "none" /\ status'[r] = "deleted"

\* Two kinds of step: one row is inserted, or every row moves and the ranks
\* and keys stay.
LEMMA StatusStep ==
  ASSUME TypeOK, Next
  PROVE  \/ /\ UNCHANGED <<key, created, clock>>
            /\ \A r \in Row : Moves(r)
         \/ \E r \in Row, k \in JobKeys :
              /\ Insert(r, k)
              /\ \/ r[2] = "client" /\ status[r] = "none" /\ UNCHANGED <<batch, proc, pollTx>>
                 \/ /\ k = "run-score-update" /\ UNCHANGED <<batch, pollTx>>
                    /\ \E s \in Row : /\ r = ScoreOf(s) /\ proc[s] = "enqueue"
                                      /\ proc' = [proc EXCEPT ![s] = "exit0"]
<1> DEFINE Goal == UNCHANGED <<key, created, clock>> /\ \A r \in Row : Moves(r)
<1> USE DEF TypeOK, rowVars, schedVars, pollVars, wrapVars
<1>0. ASSUME UNCHANGED <<status, key, created, clock>> PROVE Goal
  BY <1>0 DEF Moves
<1>1. ASSUME NEW r \in Row, NEW t \in {Running, Canceled, CancelAsked, Completed, Interrupted},
             Update(r, t), t \in {Running, Completed} => proc[r] # "none",
             UNCHANGED <<key, created, clock>>
      PROVE  Goal
  BY <1>1, TransitionValues DEF Update, Moves, Stati, StaleStatuses
<1>2. CASE Client
  <2>1. ASSUME NEW j \in Job, NEW k \in ClientKeys, Submit(j, k)
        PROVE  \E r \in Row : /\ Insert(r, k) /\ k \in JobKeys
                              /\ r[2] = "client" /\ status[r] = "none" /\ UNCHANGED <<batch, proc, pollTx>>
    BY <2>1, EngineAssumption DEF Submit, Row
  <2>2. ASSUME NEW r \in Row, DeleteRun(r) PROVE Goal
    BY <2>2 DEF DeleteRun, Stored, Moves, JobStatuses
  <2>3. ASSUME NEW r \in Row, NEW fromUI \in BOOLEAN, RequestCancel(r, fromUI) PROVE Goal
    BY <2>3, <1>1 DEF RequestCancel, CancelAsked, Running, Completed
  <2> QED BY <1>2, <2>1, <2>2, <2>3 DEF Client
<1>3. CASE StartUp
  <2>1. CASE StartScheduler \/ StartPolling
    BY <2>1, <1>0 DEF StartScheduler, StartPolling
  <2>2. ASSUME NEW r \in Row, CancelStale(r) PROVE Goal
    BY <2>2, <1>1 DEF CancelStale, CancelAsked, Running, Completed
  <2> QED BY <1>3, <2>1, <2>2 DEF StartUp
<1>4. CASE ShutDown
  BY <1>4, <1>0 DEF ShutDown, Drained, ProcessExits
<1>5. CASE PollThread
  <2>1. CASE Claim
    BY <2>1 DEF Claim, Claimed, Moves, BatchEmpty
  <2>2. CASE PollLoopEnds
    BY <2>2, <1>0 DEF PollLoopEnds
  <2>3. ASSUME NEW r \in Row, PollRow(r) PROVE Goal
    <3>1. CASE DispatchUnknown(r) \/ PollCommit(r) \/ ForceInterrupted(r)
      BY <3>1, <1>1 DEF DispatchUnknown, PollCommit, ForceInterrupted, Canceled, Interrupted, Running, Completed
    <3>2. CASE Dispatch(r) \/ Terminate(r) \/ NoProcess(r) \/ MarkCanceled(r) \/ PollNotify(r)
      BY <3>2, <1>0 DEF Dispatch, Terminate, NoProcess, MarkCanceled, PollNotify
    <3> QED BY <2>3, <3>1, <3>2 DEF PollRow
  <2> QED BY <1>5, <2>1, <2>2, <2>3 DEF PollThread
<1>6. CASE Environment
  BY <1>6, <1>0 DEF Environment, FirstSignal, NextSignal, Crash, ClaimFails, PollFault, PopenFails,
     ThreadFails, PollTxFails, PollTxLost, ForceFails, WrapTxFails, WrapTxLost, ProcessDies
<1>7. ASSUME NEW r \in Row, Wrapper(r) PROVE Goal
  <2>1. CASE WrapCommit(r)
    BY <2>1, <1>1 DEF WrapCommit, Interrupted, Running, Completed
  <2> QED BY <1>7, <2>1, <1>0 DEF Wrapper, Register, Reap, WrapMark, WrapNotify, Unregister
<1>8. ASSUME NEW r \in Row, Handler(r) PROVE Goal
  BY <1>8, <1>0 DEF Handler, CreateRun, CompleteRun, HandlerReturns, HandlerRaises
<1>9. ASSUME NEW r \in Row, Exec(r)
      PROVE  \/ Goal
             \/ EnqueueScoreUpdate(r)
  <2>1. CASE Boot(r)
    BY <2>1, <1>0, <1>1 DEF Boot
  <2>2. CASE MarkCompleted(r) \/ MarkInterrupted(r)
    BY <2>2, <1>1 DEF MarkCompleted, MarkInterrupted, Interrupted, Running, Completed
  <2>3. CASE ExecNotify(r)
    BY <2>3, <1>0 DEF ExecNotify
  <2> QED BY <1>9, <2>1, <2>2, <2>3 DEF Exec
<1>10. ASSUME NEW s \in Row, EnqueueScoreUpdate(s)
       PROVE  /\ Insert(ScoreOf(s), "run-score-update") /\ UNCHANGED <<batch, pollTx>>
              /\ ScoreOf(s) \in Row /\ proc[s] = "enqueue" /\ proc' = [proc EXCEPT ![s] = "exit0"]
  BY <1>10, ScoreRows DEF EnqueueScoreUpdate, Becomes
<1> HIDE DEF Goal, TypeOK
<1>11. CASE \E r \in Row : Wrapper(r) \/ Handler(r)
  BY <1>11, <1>7, <1>8 DEF Goal
<1>12. CASE \E r \in Row : Exec(r) /\ Goal
  BY <1>12 DEF Goal
<1>13. CASE \E s \in Row : EnqueueScoreUpdate(s)
  <2>1. PICK s \in Row : EnqueueScoreUpdate(s)
    BY <1>13
  <2>2. "run-score-update" \in JobKeys
    BY DEF JobKeys
  <2> QED BY <2>1, <2>2, <1>10
<1> QED BY <1>2, <1>3, <1>4, <1>5, <1>6, <1>9, <1>11, <1>12, <1>13 DEF Next

\* The ranks stay distinct and below the clock.
LEMMA RankStep == TypeOK /\ Ranks /\ Next => Ranks'
<1> SUFFICES ASSUME TypeOK, Ranks, Next PROVE Ranks'
  OBVIOUS
<1>1. CASE UNCHANGED <<key, created, clock>> /\ \A r \in Row : Moves(r)
  BY <1>1 DEF Ranks, Moves, StaleStatuses
<1>2. ASSUME NEW r \in Row, NEW k \in JobKeys, Insert(r, k) PROVE Ranks'
  BY <1>2 DEF Insert, Ranks, TypeOK
<1> QED BY <1>1, <1>2, StatusStep

\* The poll thread processes one row at a time.
LEMMA OneCurrent ==
  ASSUME TypeOK, Ranks, Fresh, NEW r \in Row, NEW s \in Row, Current(r), Current(s)
  PROVE  r = s
BY DEF TypeOK, Ranks, Fresh, Current

\* How processes and the batch change: a process starts only for the current
\* row of the batch, and rows enter the batch only by a claim.
LEMMA LaunchStep ==
  ASSUME TypeOK, Next
  PROVE  /\ \A r \in Row :
              \/ proc'[r] = proc[r]
              \/ /\ proc[r] \in AliveStates /\ proc'[r] \in ProcStates \ {"none", "boot"}
                 /\ Working(r)' => Working(r)
              \/ /\ proc'[r] = "boot" /\ Current(r) /\ batch[r] = "claimed" /\ pollTx = "none"
                 /\ \/ batch'[r] = "none"
                    \/ "thread" \in Faults /\ batch' = batch /\ pollTx' = "failed" /\ created' = created
         /\ \/ batch' = batch /\ (pollTx = "failed" => pollTx' = "failed")
            \/ \E r \in Row : Current(r) /\ batch' = [batch EXCEPT ![r] = "none"]
            \/ /\ \A r \in Row : batch'[r] # "none" => status'[r] \notin {"none", "pending"}
               /\ \A r \in Row : batch'[r] = "claimed" => status[r] = "pending" /\ status'[r] = "claimed"
               /\ \A r \in Row : batch'[r] = "cancel_requested" => status'[r] = "cancel_requested"
               /\ proc' = proc
<1> DEFINE P == \A r \in Row :
                  \/ proc'[r] = proc[r]
                  \/ /\ proc[r] \in AliveStates /\ proc'[r] \in ProcStates \ {"none", "boot"}
                     /\ Working(r)' => Working(r)
                  \/ /\ proc'[r] = "boot" /\ Current(r) /\ batch[r] = "claimed" /\ pollTx = "none"
                     /\ \/ batch'[r] = "none"
                        \/ "thread" \in Faults /\ batch' = batch /\ pollTx' = "failed" /\ created' = created
           B == \/ batch' = batch /\ (pollTx = "failed" => pollTx' = "failed")
                \/ \E r \in Row : Current(r) /\ batch' = [batch EXCEPT ![r] = "none"]
                \/ /\ \A r \in Row : batch'[r] # "none" => status'[r] \notin {"none", "pending"}
                   /\ \A r \in Row : batch'[r] = "claimed" => status[r] = "pending" /\ status'[r] = "claimed"
                   /\ \A r \in Row : batch'[r] = "cancel_requested" => status'[r] = "cancel_requested"
                   /\ proc' = proc
<1> SUFFICES P /\ B
  OBVIOUS
<1> USE DEF TypeOK, rowVars, schedVars, pollVars, wrapVars
<1>0. ASSUME UNCHANGED <<proc, pollVars>> PROVE P /\ B
  BY <1>0
<1>1. CASE Client \/ StartUp \/ ShutDown
  BY <1>0, <1>1 DEF Client, Submit, DeleteRun, RequestCancel, StartUp, StartScheduler, StartPolling,
                    CancelStale, ShutDown, Drained, ProcessExits
<1>2. CASE Claim
  BY <1>2 DEF Claim, Claimed, Actionable, ActionableStatuses
<1>3. CASE PollLoopEnds
  BY <1>0, <1>3 DEF PollLoopEnds
<1>4. ASSUME NEW r \in Row, PollRow(r) PROVE P /\ B
  <2>1. CASE DispatchUnknown(r) \/ PollCommit(r) \/ ForceInterrupted(r)
    BY <2>1 DEF DispatchUnknown, PollCommit, ForceInterrupted, ClearBatch
  <2>2. CASE Dispatch(r)
    BY <2>2 DEF Dispatch, ClearBatch
  <2>3. CASE Terminate(r)
    BY <2>3 DEF Terminate, ClearBatch, Alive, Working, ProcStates, AliveStates
  <2>4. CASE NoProcess(r) \/ MarkCanceled(r) \/ PollNotify(r)
    BY <2>4 DEF NoProcess, MarkCanceled, PollNotify, ClearBatch
  <2> QED BY <1>4, <2>1, <2>2, <2>3, <2>4 DEF PollRow
<1>5. CASE FirstSignal \/ ClaimFails
  BY <1>0, <1>5 DEF FirstSignal, ClaimFails
<1>6. CASE NextSignal
  BY <1>6 DEF NextSignal, Alive, Working, ProcStates, AliveStates
<1>7. CASE Crash
  BY <1>7 DEF Crash
<1>8. ASSUME NEW r \in Row, PollFault(r) PROVE P /\ B
  <2>1. CASE ThreadFails(r)
    BY <2>1 DEF ThreadFails, Fault
  <2>2. CASE PopenFails(r) \/ PollTxFails(r)
    BY <2>2 DEF PopenFails, PollTxFails
  <2>3. CASE PollTxLost(r) \/ ForceFails(r)
    BY <2>3 DEF PollTxLost, ForceFails, ClearBatch
  <2> QED BY <1>8, <2>1, <2>2, <2>3 DEF PollFault
<1>9. ASSUME NEW r \in Row, WrapTxFails(r) \/ WrapTxLost(r) \/ Wrapper(r) PROVE P /\ B
  BY <1>0, <1>9 DEF WrapTxFails, WrapTxLost, Wrapper, Register, Reap, WrapMark, WrapNotify,
                    WrapCommit, Unregister
<1>10. ASSUME NEW r \in Row, ProcessDies(r) \/ Handler(r) PROVE P /\ B
  BY <1>10 DEF ProcessDies, Handler, CreateRun, CompleteRun, HandlerReturns, HandlerRaises, Becomes,
               Alive, Working, ProcStates, AliveStates
<1>11. ASSUME NEW r \in Row, Exec(r) PROVE P /\ B
  <2>1. CASE Boot(r)
    BY <2>1 DEF Boot, Becomes, Working, ProcStates, AliveStates
  <2>2. CASE MarkCompleted(r) \/ MarkInterrupted(r)
    BY <2>2 DEF MarkCompleted, MarkInterrupted, Becomes, Working, ProcStates, AliveStates
  <2>3. CASE ExecNotify(r) \/ EnqueueScoreUpdate(r)
    BY <2>3 DEF ExecNotify, EnqueueScoreUpdate, Becomes, AfterNotify, Working, ProcStates, AliveStates
  <2> QED BY <1>11, <2>1, <2>2, <2>3 DEF Exec
<1> HIDE DEF P, B
<1> QED BY <1>1, <1>2, <1>3, <1>4, <1>5, <1>6, <1>7, <1>8, <1>9, <1>10, <1>11
        DEF Next, PollThread, Environment

\* Only a client row enqueues a score update, and the score row is new.
LEMMA EnqueuedIsNew ==
  ASSUME TypeOK, Fresh, Scored, NEW s \in Row, proc[s] = "enqueue"
  PROVE  s = <<s[1], "client">> /\ s[1] \in Job /\ status[ScoreOf(s)] = "none"
<1>1. s = <<s[1], s[2]>> /\ s[1] \in Job /\ s[2] \in {"client", "score"}
  BY DEF Row
<1>2. status[s] # "none" /\ key[s] = "run-tests"
  BY DEF Fresh, Scored
<1>3. s[2] # "score"
  BY <1>1, <1>2 DEF Scored
<1> QED BY <1>1, <1>3 DEF Scored, ScoreOf

LEMMA FreshStep == TypeOK /\ Fresh /\ Scored /\ Next => Fresh'
<1> SUFFICES ASSUME TypeOK, Fresh, Scored, Next, NEW r \in Row, status'[r] \in {"none", "pending"}
             PROVE  proc'[r] = "none" /\ batch'[r] = "none"
  BY DEF Fresh
<1>1. status[r] \in {"none", "pending"}
  <2>1. CASE \A q \in Row : Moves(q)
    BY <2>1 DEF Moves
  <2>2. ASSUME NEW q \in Row, NEW k \in JobKeys, Insert(q, k), status[q] = "none"
        PROVE  status[r] \in {"none", "pending"}
    BY <2>2 DEF Insert, TypeOK
  <2> QED BY <2>1, <2>2, StatusStep, EnqueuedIsNew
<1>2. proc[r] = "none" /\ batch[r] = "none"
  BY <1>1 DEF Fresh
<1> QED BY <1>2, LaunchStep DEF TypeOK, AliveStates

LEMMA OneLaunchStep == TypeOK /\ Ranks /\ Fresh /\ Scored /\ OneLaunch /\ Next => OneLaunch'
<1> SUFFICES ASSUME TypeOK, Ranks, Fresh, Scored, OneLaunch, Next,
                    NEW r \in Row, batch'[r] = "claimed", proc'[r] # "none"
             PROVE  pollTx' = "failed" /\ Current(r)'
  BY DEF OneLaunch
<1>1. CASE batch' = batch /\ (pollTx = "failed" => pollTx' = "failed")
  <2>1. \A q \in Row : batch[q] # "none" => created'[q] = created[q]
    <3>1. CASE created' = created
      BY <3>1
    <3>2. ASSUME NEW q \in Row, NEW k \in JobKeys, Insert(q, k), status[q] = "none"
          PROVE  \A p \in Row : batch[p] # "none" => created'[p] = created[p]
      BY <3>2 DEF Insert, TypeOK, Fresh
    <3> QED BY <3>1, <3>2, StatusStep, EnqueuedIsNew
  <2>2. Current(r) => Current(r)'
    BY <1>1, <2>1 DEF Current
  <2>3. CASE proc[r] # "none"
    BY <1>1, <2>2, <2>3 DEF OneLaunch
  <2>4. CASE proc[r] = "none"
    BY <1>1, <2>2, <2>4, LaunchStep DEF AliveStates
  <2> QED BY <2>3, <2>4
<1>2. ASSUME NEW q \in Row, Current(q), batch' = [batch EXCEPT ![q] = "none"]
      PROVE  FALSE
  <2>1. r # q /\ batch[r] = "claimed"
    BY <1>2 DEF TypeOK
  <2>2. ~Current(r)
    BY <1>2, <2>1, OneCurrent
  <2>3. proc[r] = "none"
    BY <2>1, <2>2 DEF OneLaunch
  <2> QED BY <2>2, <2>3, LaunchStep DEF AliveStates
<1>3. CASE /\ \A q \in Row : batch'[q] = "claimed" => status[q] = "pending"
           /\ proc' = proc
  BY <1>3 DEF Fresh
<1> QED BY <1>1, <1>2, <1>3, LaunchStep

\* How a process comes to hold a completed row, and to enqueue.
LEMMA DecisionStep ==
  ASSUME TypeOK, Next, NEW r \in Row
  PROVE  /\ proc'[r] = "notifyCompleted" => proc[r] = "notifyCompleted" \/ status'[r] = "completed"
         /\ proc'[r] = "enqueue" => proc[r] = "enqueue"
                                      \/ (proc[r] = "notifyCompleted" /\ key[r] = "run-tests")
         /\ proc[r] = "exit0" => proc'[r] = "exit0" \/ (batch[r] = "claimed" /\ pollTx = "none")
<1> USE DEF TypeOK, rowVars, schedVars, pollVars, wrapVars
<1> DEFINE D == /\ proc'[r] = "notifyCompleted" => proc[r] = "notifyCompleted" \/ status'[r] = "completed"
                /\ proc'[r] = "enqueue" => proc[r] = "enqueue"
                                             \/ (proc[r] = "notifyCompleted" /\ key[r] = "run-tests")
                /\ proc[r] = "exit0" => proc'[r] = "exit0" \/ (batch[r] = "claimed" /\ pollTx = "none")
<1> SUFFICES D
  OBVIOUS
<1>0. CASE proc' = proc
  BY <1>0
<1>1. ASSUME NEW s \in Row, Dispatch(s) \/ ThreadFails(s) \/ Terminate(s) \/ ProcessDies(s) PROVE D
  BY <1>1 DEF Dispatch, ThreadFails, Terminate, ProcessDies, Becomes, Alive, AliveStates
<1>2. CASE NextSignal
  BY <1>2 DEF NextSignal, Alive, AliveStates
<1>3. ASSUME NEW s \in Row, Handler(s) PROVE D
  BY <1>3, <1>0 DEF Handler, CreateRun, CompleteRun, HandlerReturns, HandlerRaises, Becomes
<1>4. ASSUME NEW s \in Row, Exec(s) PROVE D
  <2>1. CASE Boot(s)
    BY <2>1 DEF Boot, Becomes
  <2>2. CASE MarkCompleted(s)
    <3>1. Allows(status[s], Completed) => Transition(status[s], Completed) = "completed"
      BY TransitionValues DEF Stati
    <3> QED BY <2>2, <3>1 DEF MarkCompleted, Becomes, Update
  <2>3. CASE MarkInterrupted(s)
    BY <2>3 DEF MarkInterrupted, Becomes
  <2>4. CASE ExecNotify(s)
    BY <2>4 DEF ExecNotify, AfterNotify, Enqueues, Becomes
  <2>5. CASE EnqueueScoreUpdate(s)
    BY <2>5 DEF EnqueueScoreUpdate, Becomes
  <2> QED BY <1>4, <2>1, <2>2, <2>3, <2>4, <2>5 DEF Exec
<1>5. CASE Client \/ StartUp \/ ShutDown \/ Claim \/ PollLoopEnds \/ FirstSignal \/ Crash \/ ClaimFails
  BY <1>0, <1>5 DEF Client, Submit, DeleteRun, RequestCancel, StartUp, StartScheduler, StartPolling,
     CancelStale, ShutDown, Drained, ProcessExits, Claim, PollLoopEnds, FirstSignal, Crash, ClaimFails
<1>6. ASSUME NEW s \in Row, PollRow(s) PROVE D
  BY <1>0, <1>1, <1>6 DEF PollRow, DispatchUnknown, NoProcess, MarkCanceled, PollNotify, PollCommit,
     ForceInterrupted
<1>7. ASSUME NEW s \in Row, PollFault(s) PROVE D
  BY <1>0, <1>1, <1>7 DEF PollFault, PopenFails, PollTxFails, PollTxLost, ForceFails
<1>8. ASSUME NEW s \in Row, WrapTxFails(s) \/ WrapTxLost(s) \/ Wrapper(s) PROVE D
  BY <1>0, <1>8 DEF WrapTxFails, WrapTxLost, Wrapper, Register, Reap, WrapMark, WrapNotify,
                    WrapCommit, Unregister
<1> HIDE DEF D
<1> QED BY <1>1, <1>2, <1>3, <1>4, <1>5, <1>6, <1>7, <1>8 DEF Next, PollThread, Environment

LEMMA ScoredStep ==
  TypeOK /\ Fresh /\ OneLaunch /\ Scored /\ ScoreAfterCompletion /\ Next
    => Scored' /\ ScoreAfterCompletion'
<1> SUFFICES ASSUME TypeOK, Fresh, OneLaunch, Scored, ScoreAfterCompletion, Next
             PROVE  Scored' /\ ScoreAfterCompletion'
  OBVIOUS
<1>0. \A j \in Job : <<j, "client">> \in Row /\ <<j, "score">> \in Row
  BY DEF Row
\* A completed or deleted row stays so.
<1>1. \A r \in Row : status[r] \in {"completed", "deleted"} => status'[r] \in {"completed", "deleted"}
  <2>1. CASE \A r \in Row : Moves(r)
    BY <2>1 DEF Moves, StaleStatuses
  <2>2. ASSUME NEW q \in Row, NEW k \in JobKeys, Insert(q, k), status[q] = "none"
        PROVE  \A r \in Row : status[r] \in {"completed", "deleted"}
                                => status'[r] \in {"completed", "deleted"}
    BY <2>2 DEF Insert, TypeOK
  <2> QED BY <2>1, <2>2, StatusStep, EnqueuedIsNew
\* The key of a row with a process does not change.
<1>2. \A r \in Row : status[r] # "none" => key'[r] = key[r] /\ status'[r] # "none"
  <2>1. CASE key' = key /\ \A r \in Row : Moves(r)
    BY <2>1 DEF Moves
  <2>2. ASSUME NEW q \in Row, NEW k \in JobKeys, Insert(q, k), status[q] = "none"
        PROVE  \A r \in Row : status[r] # "none" => key'[r] = key[r] /\ status'[r] # "none"
    BY <2>2 DEF Insert, TypeOK
  <2> QED BY <2>1, <2>2, StatusStep, EnqueuedIsNew
<1>3. ASSUME NEW r \in Row, proc'[r] = "enqueue" PROVE key'[r] = "run-tests"
  BY <1>2, <1>3, DecisionStep DEF Scored, Fresh
<1>4. ASSUME NEW r \in Row, proc'[r] \in {"notifyCompleted", "enqueue"}
      PROVE  status'[r] \in {"completed", "deleted"}
  BY <1>1, <1>4, DecisionStep DEF Scored
<1>5. ASSUME NEW j \in Job, status'[<<j, "score">>] # "none"
      PROVE  /\ key'[<<j, "score">>] = "run-score-update" /\ proc'[<<j, "client">>] = "exit0"
             /\ status'[<<j, "client">>] \in {"completed", "deleted"}
  <2>1. CASE status[<<j, "score">>] # "none"
    <3>1. proc[<<j, "client">>] = "exit0" /\ key[<<j, "score">>] = "run-score-update"
      BY <2>1 DEF Scored
    <3>2. proc'[<<j, "client">>] = "exit0"
      BY <3>1, <1>0, DecisionStep DEF OneLaunch
    <3> QED BY <2>1, <3>1, <3>2, <1>0, <1>1, <1>2 DEF ScoreAfterCompletion
  <2>2. CASE status[<<j, "score">>] = "none"
    <3>1. ASSUME NEW s \in Row, Insert(ScoreOf(s), "run-score-update"), proc[s] = "enqueue",
                 proc' = [proc EXCEPT ![s] = "exit0"]
          PROVE  /\ key'[<<j, "score">>] = "run-score-update" /\ proc'[<<j, "client">>] = "exit0"
                 /\ status'[<<j, "client">>] \in {"completed", "deleted"}
      <4>1. s = <<j, "client">>
        BY <2>2, <3>1, <1>0, <1>5, EnqueuedIsNew DEF Insert, ScoreOf, TypeOK
      <4>2. status[s] \in {"completed", "deleted"}
        BY <3>1 DEF Scored
      <4> QED BY <3>1, <4>1, <4>2, <1>0, <1>1 DEF Insert, ScoreOf, TypeOK
    <3>2. ASSUME NEW r \in Row, NEW k \in JobKeys, Insert(r, k), r[2] = "client" PROVE FALSE
      BY <2>2, <3>2, <1>0, <1>5 DEF Insert, TypeOK
    <3>3. CASE \A r \in Row : Moves(r)
      BY <2>2, <3>3, <1>0, <1>5 DEF Moves, StaleStatuses
    <3> QED BY <3>1, <3>2, <3>3, StatusStep
  <2> QED BY <2>1, <2>2
<1> QED BY <1>3, <1>4, <1>5 DEF Scored, ScoreAfterCompletion

LEMMA InvStep == IInv /\ [Next]_vars => IInv'
<1>1. IInv /\ Next => IInv'
  BY TypeStep, RankStep, FreshStep, OneLaunchStep, ScoredStep DEF IInv
<1>2. IInv /\ UNCHANGED vars => IInv'
  BY DEF IInv, vars, TypeOK, Ranks, Fresh, OneLaunch, Scored, ScoreAfterCompletion, Current
<1> QED BY <1>1, <1>2

LEMMA Invariance == Spec => []IInv
BY InitInv, InvStep, PTL DEF Spec

\* THEOREM: no job is launched twice, whatever crashes, signals or fails.
THEOREM LaunchedOnce == Spec => []OneLaunch
<1>1. IInv => OneLaunch
  BY DEF IInv
<1> QED BY <1>1, Invariance, PTL

\* THEOREM: a score update exists only for a job that was completed.
THEOREM ScoresFollowCompletion == Spec => []ScoreAfterCompletion
<1>1. IInv => ScoreAfterCompletion
  BY DEF IInv
<1> QED BY <1>1, Invariance, PTL

-----------------------------------------------------------------------------
(* The run record. Of the two tables a job is written to, the record is     *)
(* saved first, and only a row that is still "running" may complete.        *)

\* A completed row is past mark_completed, and a handler that has saved its
\* record still has it when nobody has asked for a cancellation.
Decided(r) == status[r] = "completed"
                => proc[r] \in {"notifyCompleted", "enqueue", "exit0", "dead"}
Saved(r)   == status[r] = "running" /\ HasRun(key[r]) /\ proc[r] \in {"saved", "returned"}
                => run[r] = "Complete"
Recorded(r) == status[r] = "completed" /\ HasRun(key[r]) => run[r] = "Complete"

RecordInv == \A r \in Row : Decided(r) /\ Saved(r) /\ Recorded(r)

\* A step that starts no row, completes none and leaves the records and the
\* processes of live rows alone.
LEMMA QuietStep ==
  ASSUME RecordInv, NEW r \in Row,
         status'[r] \in {"running", "completed"} => status'[r] = status[r]
                                                    /\ key'[r] = key[r] /\ run'[r] = run[r],
         proc'[r] \in {proc[r], "dead", "exit0"}
  PROVE  (Decided(r) /\ Saved(r) /\ Recorded(r))'
BY DEF RecordInv, Decided, Saved, Recorded

LEMMA RecordStep == IInv /\ RecordInv /\ Next => RecordInv'
<1> SUFFICES ASSUME IInv, RecordInv, Next, NEW r \in Row
             PROVE  (Decided(r) /\ Saved(r) /\ Recorded(r))'
  BY DEF RecordInv
<1> DEFINE Goal == (Decided(r) /\ Saved(r) /\ Recorded(r))'
<1> SUFFICES Goal
  OBVIOUS
<1> TypeOK
  BY DEF IInv
<1> USE DEF TypeOK, rowVars, schedVars, pollVars, wrapVars
<1>0. ASSUME UNCHANGED <<key, run>>, proc'[r] \in {proc[r], "dead"},
             \/ status' = status
             \/ \E q \in Row, t \in {Canceled, CancelAsked, Interrupted} : Update(q, t)
      PROVE  Goal
  <2>1. status'[r] \in {"running", "completed"} => status'[r] = status[r]
    BY <1>0, TransitionValues DEF Update, Stati, StaleStatuses
  <2> QED BY <1>0, <2>1, QuietStep
<1>1. CASE Client
  <2>1. ASSUME NEW j \in Job, NEW k \in ClientKeys, Submit(j, k) PROVE Goal
    BY <2>1, QuietStep DEF Submit, Insert
  <2>2. ASSUME NEW q \in Row, DeleteRun(q) PROVE Goal
    BY <2>2, QuietStep DEF DeleteRun
  <2>3. ASSUME NEW q \in Row, NEW fromUI \in BOOLEAN, RequestCancel(q, fromUI) PROVE Goal
    <3>1. status[q] \in StaleStatuses /\ status' = [status EXCEPT ![q] = "cancel_requested"]
      BY <2>3, SourcesOfTargets, SingleTarget, TransitionValues
         DEF RequestCancel, Update, CancelAsked, StaleStatuses, Stati
    <3> QED BY <2>3, <3>1, QuietStep DEF RequestCancel
  <2> QED BY <1>1, <2>1, <2>2, <2>3 DEF Client
<1>2. CASE StartUp \/ ShutDown
  BY <1>0, <1>2 DEF StartUp, StartScheduler, StartPolling, CancelStale, ShutDown, Drained, ProcessExits
<1>3. CASE Claim
  BY <1>3, QuietStep DEF Claim, Claimed
<1>4. CASE PollLoopEnds
  BY <1>0, <1>4 DEF PollLoopEnds
<1>5. ASSUME NEW q \in Row, Dispatch(q) \/ ThreadFails(q) PROVE Goal
  <2>1. proc[q] = "none" /\ UNCHANGED <<status, key, run>> /\ proc' = [proc EXCEPT ![q] = "boot"]
    BY <1>5 DEF Dispatch, ThreadFails, IInv, OneLaunch
  <2>2. CASE q = r
    BY <2>1, <2>2 DEF RecordInv, Decided, Saved, Recorded
  <2>3. CASE q # r
    BY <2>1, <2>3, QuietStep
  <2> QED BY <2>2, <2>3
<1>6. ASSUME NEW q \in Row, PollRow(q) PROVE Goal
  <2>1. CASE Terminate(q)
    BY <2>1, <1>0 DEF Terminate
  <2> QED BY <1>6, <2>1, <1>0, <1>5
          DEF PollRow, DispatchUnknown, NoProcess, MarkCanceled, PollNotify, PollCommit, ForceInterrupted
<1>7. CASE Environment
  <2>1. CASE FirstSignal \/ NextSignal \/ Crash \/ ClaimFails
    BY <1>0, <2>1 DEF FirstSignal, NextSignal, Crash, ClaimFails
  <2>2. ASSUME NEW q \in Row, PollFault(q) PROVE Goal
    BY <1>0, <1>5, <2>2 DEF PollFault, PopenFails, PollTxFails, PollTxLost, ForceFails
  <2>3. ASSUME NEW q \in Row, WrapTxFails(q) \/ WrapTxLost(q) \/ ProcessDies(q) PROVE Goal
    BY <1>0, <2>3 DEF WrapTxFails, WrapTxLost, ProcessDies, Becomes
  <2> QED BY <1>7, <2>1, <2>2, <2>3 DEF Environment
<1>8. ASSUME NEW q \in Row, Wrapper(q) PROVE Goal
  BY <1>0, <1>8 DEF Wrapper, Register, Reap, WrapMark, WrapNotify, WrapCommit, Unregister
<1>9. ASSUME NEW q \in Row, Handler(q) PROVE Goal
  BY <1>9, QuietStep DEF Handler, CreateRun, CompleteRun, HandlerReturns, HandlerRaises, Becomes,
                         RecordInv, Decided, Saved, Recorded
<1>10. ASSUME NEW q \in Row, Exec(q) PROVE Goal
  <2>1. CASE Boot(q)
    <3>1. status'[q] \in {status[q], "running"} /\ (status'[q] # status[q] => status[q] = "claimed")
      BY <2>1, TransitionValues DEF Boot, Update, Stati
    <3>2. proc' \in {[proc EXCEPT ![q] = pc] : pc \in {"handler", "exit0", "dead"}}
      BY <2>1 DEF Boot, Becomes
    <3>3. \A s \in Row \ {q} : status'[s] = status[s]
      BY <2>1 DEF Boot, Update
    <3> QED BY <2>1, <3>1, <3>2, <3>3 DEF Boot, RecordInv, Decided, Saved, Recorded
  <2>2. CASE MarkCompleted(q)
    <3>1. status[q] = "running" => status'[q] = "completed" /\ proc'[q] = "notifyCompleted"
      BY <2>2, TransitionValues DEF MarkCompleted, Update, Becomes, Stored, Stati, JobStatuses
    <3>2. status[q] # "running" => status'[q] = status[q] /\ proc'[q] \in {"raised", "exit0"}
      BY <2>2, TransitionValues DEF MarkCompleted, Update, Becomes, Stored, Stati
    <3>3. \A s \in Row \ {q} : status'[s] = status[s] /\ proc'[s] = proc[s]
      BY <2>2 DEF MarkCompleted, Update, Becomes
    <3> QED BY <2>2, <3>1, <3>2, <3>3 DEF MarkCompleted, RecordInv, Decided, Saved, Recorded
  <2>3. CASE MarkInterrupted(q)
    <3>1. status'[q] \in {"running", "completed"} => status'[q] = status[q]
      BY <2>3, TransitionValues DEF MarkInterrupted, Update, Stati
    <3>2. proc'[q] \in {"dead", "notifyInterrupted", "exit0"}
      BY <2>3 DEF MarkInterrupted, Becomes
    <3>3. \A s \in Row \ {q} : status'[s] = status[s] /\ proc'[s] = proc[s]
      BY <2>3 DEF MarkInterrupted, Update, Becomes
    <3> QED BY <2>3, <3>1, <3>2, <3>3 DEF MarkInterrupted, RecordInv, Decided, Saved, Recorded
  <2>4. CASE ExecNotify(q)
    BY <2>4 DEF ExecNotify, AfterNotify, Becomes, RecordInv, Decided, Saved, Recorded
  <2>5. CASE EnqueueScoreUpdate(q)
    BY <2>5, QuietStep DEF EnqueueScoreUpdate, Insert, Becomes
  <2> QED BY <1>10, <2>1, <2>2, <2>3, <2>4, <2>5 DEF Exec
<1> HIDE DEF Goal, TypeOK
<1> QED BY <1>1, <1>2, <1>3, <1>4, <1>6, <1>7, <1>8, <1>9, <1>10 DEF Next, PollThread

\* THEOREM: a job that completed has a complete run record, although the record
\* and the row are written in separate transactions and a cancellation writes both.
THEOREM CompletedHasRecord == Spec => []CompletedRunIsComplete
<1>1. Init => RecordInv
  BY DEF Init, RecordInv, Decided, Saved, Recorded
<1>2. IInv /\ RecordInv /\ [Next]_vars => RecordInv'
  <2>1. RecordInv /\ UNCHANGED vars => RecordInv'
    BY DEF vars, RecordInv, Decided, Saved, Recorded
  <2> QED BY <2>1, RecordStep
<1>3. RecordInv => CompletedRunIsComplete
  BY DEF RecordInv, Recorded, CompletedRunIsComplete
<1> QED BY <1>1, <1>2, <1>3, Invariance, PTL DEF Spec

-----------------------------------------------------------------------------
(* The engine implements the protocol.                                      *)

LEMMA InitProtocol == Init => Protocol!Init
BY DEF Init, Protocol!Init

LEMMA ProtocolStep == IInv /\ Next => Protocol!Next
<1> SUFFICES ASSUME IInv, Next PROVE Protocol!Next
  OBVIOUS
<1> DEFINE t == [r \in Row |-> IF proc[r] # "none" THEN "used"
                               ELSE IF batch[r] = "claimed" THEN "granted" ELSE "none"]
<1>1. TypeOK /\ TypeOK' /\ Fresh /\ Fresh' /\ Scored
  BY TypeStep, InvStep DEF IInv
<1>2. ASSUME NEW r \in Row
      PROVE  /\ t'[r] = t[r] \/ Protocol!TicketMove(r)
             /\ status[r] = "pending" /\ status'[r] = "claimed" /\ batch'[r] = "claimed"
                  => t'[r] = "granted"
  <2>1. proc[r] # "none" => proc'[r] # "none"
    BY <1>1, LaunchStep DEF AliveStates
  <2>2. proc[r] = "none" /\ proc'[r] # "none" => batch[r] = "claimed"
    BY <1>1, LaunchStep DEF AliveStates
  <2>3. batch'[r] = "claimed" => \/ batch[r] = "claimed"
                                 \/ status[r] = "pending" /\ status'[r] = "claimed"
    BY <1>1, LaunchStep DEF TypeOK
  <2>4. status[r] = "pending" => proc[r] = "none" /\ batch[r] = "none"
    BY <1>1 DEF Fresh
  <2> QED BY <2>1, <2>2, <2>3, <2>4 DEF Protocol!TicketMove
<1>3. ASSUME NEW r \in Row PROVE Protocol!RowStep(r)
  <2>1. CASE Moves(r)
    <3>1. status'[r] = status[r] \/ Protocol!StatusMove(status[r], status'[r])
      BY <1>1, <2>1, TransitionTable
         DEF Moves, Protocol!StatusMove, Protocol!JobStatuses, Protocol!ValidTransitions,
             ValidTransitions, StaleStatuses, TypeOK, JobStatuses
    <3>2. status'[r] # status[r] /\ status'[r] \in {"running", "completed"} => t[r] = "used"
      BY <2>1 DEF Moves
    <3>3. status[r] = "pending" /\ status'[r] = "claimed" => batch'[r] = "claimed"
      BY <2>1 DEF Moves, StaleStatuses
    <3> QED BY <1>2, <3>1, <3>2, <3>3 DEF Protocol!RowStep
  <2>2. ASSUME NEW q \in Row, NEW k \in JobKeys, Insert(q, k), status[q] = "none"
        PROVE  Protocol!RowStep(r)
    <3>1. status'[r] = IF r = q THEN "pending" ELSE status[r]
      BY <2>2, <1>1 DEF Insert, TypeOK
    <3> QED BY <3>1, <2>2, <1>2 DEF Protocol!RowStep, Protocol!StatusMove
  <2> QED BY <1>1, <2>1, <2>2, StatusStep, EnqueuedIsNew
<1>4. /\ status' \in [Row -> Protocol!JobStatuses \cup {"none", "deleted"}]
      /\ t' \in [Row -> Protocol!Tickets]
  BY <1>1 DEF TypeOK, Protocol!JobStatuses, JobStatuses, Protocol!Tickets
<1> QED BY <1>3, <1>4 DEF Protocol!Next

\* THEOREM: whatever clients, threads, processes, crashes and failures do, the
\* rows follow the protocol: final rows stay final, a job is granted and
\* launched at most once, and only a launched job runs or completes.
THEOREM EngineImplementsProtocol == Spec => ImplementsProtocol
<1>1. IInv /\ [Next]_vars => [Protocol!Next]_Protocol!vars
  <2>1. UNCHANGED vars => UNCHANGED Protocol!vars
    BY DEF vars, Protocol!vars
  <2> QED BY <2>1, ProtocolStep
<1> QED BY <1>1, InitProtocol, Invariance, PTL DEF Spec, ImplementsProtocol, Protocol!Spec

-----------------------------------------------------------------------------
(* An error is recorded only for a process that is over.                    *)

Gone == {"exit0", "dead"}
LateStates == WrapStates \ {"none", "registering", "waiting"}

\* A row in the batch has no process or is being canceled, and a wrapper thread
\* past proc.wait() has seen its process end.
Stopped ==
  \A r \in Row :
    /\ batch[r] = "claimed" => proc[r] = "none" /\ status[r] # "error"
    /\ batch[r] = "cancel_requested" => status[r] \in {"cancel_requested", "canceled", "deleted"}
    /\ wrap[r] \in LateStates => proc[r] \in Gone
    /\ status[r] = "error" => ~Working(r)

\* Who records an error.
LEMMA ErrorStep ==
  ASSUME TypeOK, Next, NEW r \in Row, status[r] # "error", status'[r] = "error"
  PROVE  DispatchUnknown(r) \/ ForceInterrupted(r) \/ WrapCommit(r) \/ MarkInterrupted(r)
<1> DEFINE Goal == DispatchUnknown(r) \/ ForceInterrupted(r) \/ WrapCommit(r) \/ MarkInterrupted(r)
<1> SUFFICES ASSUME ~Goal PROVE FALSE
  OBVIOUS
<1> USE DEF TypeOK, rowVars, schedVars, pollVars, wrapVars
<1>0. ASSUME status' = status PROVE FALSE
  BY <1>0
<1>1. ASSUME NEW q \in Row, NEW t \in {Running, Canceled, CancelAsked, Completed, Interrupted},
             Update(q, t), t = Interrupted => q # r
      PROVE  FALSE
  BY <1>1, TransitionValues DEF Update, Stati
<1>2. CASE Client
  BY <1>2, <1>1 DEF Client, Submit, Insert, DeleteRun, RequestCancel, CancelAsked, Interrupted
<1>3. CASE StartUp \/ ShutDown
  BY <1>0, <1>1, <1>3 DEF StartUp, StartScheduler, StartPolling, CancelStale, CancelAsked, Interrupted,
                          ShutDown, Drained, ProcessExits
<1>4. CASE Claim
  BY <1>4 DEF Claim, Claimed
<1>5. CASE PollLoopEnds
  BY <1>0, <1>5 DEF PollLoopEnds
<1>6. ASSUME NEW q \in Row, PollRow(q) PROVE FALSE
  <2>1. CASE DispatchUnknown(q) \/ ForceInterrupted(q)
    BY <2>1, <1>1 DEF DispatchUnknown, ForceInterrupted
  <2>2. CASE PollCommit(q)
    BY <2>2, <1>1 DEF PollCommit, Canceled, Interrupted
  <2> QED BY <1>0, <1>6, <2>1, <2>2
          DEF PollRow, Dispatch, Terminate, NoProcess, MarkCanceled, PollNotify
<1>7. CASE Environment
  BY <1>7, <1>0 DEF Environment, FirstSignal, NextSignal, Crash, ClaimFails, PollFault, PopenFails,
     ThreadFails, PollTxFails, PollTxLost, ForceFails, WrapTxFails, WrapTxLost, ProcessDies
<1>8. ASSUME NEW q \in Row, Wrapper(q) PROVE FALSE
  <2>1. CASE WrapCommit(q)
    BY <2>1, <1>1 DEF WrapCommit
  <2> QED BY <1>0, <1>8, <2>1 DEF Wrapper, Register, Reap, WrapMark, WrapNotify, Unregister
<1>9. ASSUME NEW q \in Row, Handler(q) PROVE FALSE
  BY <1>0, <1>9 DEF Handler, CreateRun, CompleteRun, HandlerReturns, HandlerRaises
<1>10. ASSUME NEW q \in Row, Exec(q) PROVE FALSE
  <2>1. CASE Boot(q)
    BY <2>1, <1>0, <1>1 DEF Boot, Running, Interrupted
  <2>2. CASE MarkCompleted(q)
    BY <2>2, <1>1 DEF MarkCompleted, Completed, Interrupted
  <2>3. CASE MarkInterrupted(q)
    BY <2>3, <1>1 DEF MarkInterrupted
  <2>4. CASE ExecNotify(q)
    BY <2>4, <1>0 DEF ExecNotify
  <2>5. CASE EnqueueScoreUpdate(q)
    BY <2>5 DEF EnqueueScoreUpdate, Insert
  <2> QED BY <1>10, <2>1, <2>2, <2>3, <2>4, <2>5 DEF Exec
<1> HIDE DEF Goal, TypeOK
<1> QED BY <1>2, <1>3, <1>4, <1>5, <1>6, <1>7, <1>8, <1>9, <1>10 DEF Next, PollThread

\* A wrapper thread gets past proc.wait() only when the process is over.
LEMMA ReapStep ==
  ASSUME TypeOK, Next, NEW r \in Row, wrap'[r] \in LateStates
  PROVE  wrap[r] \in LateStates \/ proc[r] \in Gone
<1> USE DEF TypeOK, rowVars, schedVars, pollVars, wrapVars
<1>0. ASSUME UNCHANGED wrap PROVE wrap[r] \in LateStates
  BY <1>0
<1>1. CASE Client \/ StartUp \/ ShutDown
  BY <1>0, <1>1 DEF Client, Submit, DeleteRun, RequestCancel, StartUp, StartScheduler, StartPolling,
                    CancelStale, ShutDown, Drained, ProcessExits
<1>2. CASE PollThread
  BY <1>0, <1>2 DEF PollThread, Claim, PollLoopEnds, PollRow, DispatchUnknown, Dispatch, Terminate,
                    NoProcess, MarkCanceled, PollNotify, PollCommit, ForceInterrupted, LateStates
<1>3. CASE Environment
  BY <1>0, <1>3 DEF Environment, FirstSignal, NextSignal, Crash, ClaimFails, PollFault, PopenFails,
     ThreadFails, PollTxFails, PollTxLost, ForceFails, WrapTxFails, WrapTxLost, ProcessDies,
     LateStates, WrapStates
<1>4. ASSUME NEW q \in Row, Wrapper(q) PROVE wrap[r] \in LateStates \/ proc[r] \in Gone
  BY <1>4 DEF Wrapper, Register, Reap, WrapMark, WrapNotify, WrapCommit, Unregister,
              LateStates, WrapStates, Gone
<1>5. ASSUME NEW q \in Row, Handler(q) \/ Exec(q) PROVE wrap[r] \in LateStates
  BY <1>0, <1>5 DEF Handler, CreateRun, CompleteRun, HandlerReturns, HandlerRaises, Exec, Boot,
                    MarkCompleted, MarkInterrupted, ExecNotify, EnqueueScoreUpdate
<1> QED BY <1>1, <1>2, <1>3, <1>4, <1>5 DEF Next

LEMMA StoppedStep ==
  ASSUME "thread" \notin Faults, IInv, Stopped, Next
  PROVE  Stopped'
<1> TypeOK /\ Ranks /\ Fresh /\ Scored
  BY DEF IInv
<1> SUFFICES ASSUME NEW r \in Row
             PROVE  /\ batch'[r] = "claimed" => proc'[r] = "none" /\ status'[r] # "error"
                    /\ batch'[r] = "cancel_requested" => status'[r] \in {"cancel_requested", "canceled", "deleted"}
                    /\ wrap'[r] \in LateStates => proc'[r] \in Gone
                    /\ status'[r] = "error" => ~Working(r)'
  BY DEF Stopped
<1>1. \/ proc'[r] = proc[r]
      \/ proc[r] \in AliveStates /\ proc'[r] \in ProcStates \ {"none", "boot"} /\ (Working(r)' => Working(r))
      \/ proc'[r] = "boot" /\ batch[r] = "claimed" /\ batch'[r] = "none"
  BY LaunchStep
<1>2. \/ batch'[r] = batch[r] \/ batch'[r] = "none"
      \/ /\ batch'[r] = "claimed" => status[r] = "pending" /\ status'[r] = "claimed"
         /\ batch'[r] = "cancel_requested" => status'[r] = "cancel_requested"
         /\ proc' = proc
  BY LaunchStep DEF TypeOK
<1>3. status[r] = "pending" => proc[r] = "none" /\ batch[r] = "none"
  BY DEF Fresh
<1>4. batch'[r] = "claimed" => proc'[r] = "none"
  BY <1>1, <1>2, <1>3 DEF Stopped, AliveStates
<1>5. batch'[r] = "cancel_requested" => status'[r] \in {"cancel_requested", "canceled", "deleted"}
  <2>1. ASSUME status[r] \in {"cancel_requested", "canceled", "deleted"}
        PROVE  status'[r] \in {"cancel_requested", "canceled", "deleted"}
    <3>1. CASE \A q \in Row : Moves(q)
      BY <2>1, <3>1 DEF Moves
    <3>2. ASSUME NEW q \in Row, NEW k \in JobKeys, Insert(q, k), status[q] = "none"
          PROVE  status'[r] = status[r]
      BY <2>1, <3>2 DEF Insert, TypeOK
    <3> QED BY <2>1, <3>1, <3>2, StatusStep, EnqueuedIsNew
  <2> QED BY <1>2, <2>1 DEF Stopped
<1>6. wrap'[r] \in LateStates => proc'[r] \in Gone
  BY <1>1, ReapStep DEF Stopped, Gone, AliveStates
<1>7. ASSUME status'[r] = "error", status[r] # "error"
      PROVE  batch'[r] # "claimed" /\ ~Working(r)'
  <2>1. CASE DispatchUnknown(r)
    BY <2>1 DEF DispatchUnknown, ClearBatch, Stopped, Working, TypeOK, wrapVars
  <2>2. CASE ForceInterrupted(r)
    <3>1. batch[r] = "claimed"
      BY <1>7, <2>2, TransitionValues DEF ForceInterrupted, Current, Update, Stopped, TypeOK, Stati
    <3> QED BY <2>2, <3>1 DEF ForceInterrupted, ClearBatch, Stopped, Working, TypeOK
  <2>3. CASE WrapCommit(r)
    BY <2>3 DEF WrapCommit, Stopped, LateStates, WrapStates, Gone, Working, pollVars
  <2>4. CASE MarkInterrupted(r)
    BY <2>4 DEF MarkInterrupted, Becomes, Stopped, Working, pollVars, TypeOK
  <2> QED BY <1>7, <2>1, <2>2, <2>3, <2>4, ErrorStep
<1>8. ASSUME status[r] = "error" PROVE batch'[r] # "claimed" /\ ~Working(r)'
  BY <1>1, <1>2, <1>8 DEF Stopped, Working
<1> QED BY <1>4, <1>5, <1>6, <1>7, <1>8

\* THEOREM: an error is recorded only for a job whose process is over or never
\* started, unless a wrapper thread could not be started.
THEOREM ErrorsAreOver ==
  ASSUME "thread" \notin Faults
  PROVE  Spec => []ErrorMeansStopped
<1>1. Init => Stopped
  BY DEF Init, Stopped, LateStates, WrapStates
<1>2. IInv /\ Stopped /\ [Next]_vars => Stopped'
  <2>1. Stopped /\ UNCHANGED vars => Stopped'
    BY DEF vars, Stopped, Working
  <2> QED BY <2>1, StoppedStep
<1>3. Stopped => ErrorMeansStopped
  BY DEF Stopped, ErrorMeansStopped
<1> QED BY <1>1, <1>2, <1>3, Invariance, PTL DEF Spec

-----------------------------------------------------------------------------
(* Notifications: whoever runs the callbacks holds the row or has decided it. *)

Over == FinalStatuses \cup {"deleted"}

\* A notified row is over, or the transaction that notified it is still open;
\* an open transaction of a scheduler thread is the only one on its row, and
\* a process about to notify has just made its row final.
ToldRow(r) ==
  /\ notified[r] <= 1
  /\ notified[r] # 0 => \/ status[r] \in Over
                        \/ wrap[r] \in {"notified", "renotified"}
                        \/ pollTx = "notified" /\ Current(r)
  /\ PollTx(r) => status[r] = "cancel_requested" /\ ~WrapTx(r)
  /\ WrapTx(r) => status[r] \in {"claimed", "running", "cancel_requested"}
  /\ proc[r] \in {"notifyCompleted", "notifyInterrupted"} => notified[r] = 0 /\ status[r] \in Over
  /\ wrap[r] # "none" => proc[r] # "none"

Told == (pollTx # "none" => ~BatchEmpty) /\ \A r \in Row : ToldRow(r)

\* A step that leaves the batch alone also leaves its oldest row alone.
LEMMA CurrentStays ==
  ASSUME TypeOK, Fresh, Scored, Next, batch' = batch, NEW r \in Row
  PROVE  Current(r)' = Current(r)
<1>1. \A q \in Row : batch[q] # "none" => created'[q] = created[q]
  <2>1. CASE created' = created
    BY <2>1
  <2>2. ASSUME NEW q \in Row, NEW k \in JobKeys, Insert(q, k), status[q] = "none"
        PROVE  \A p \in Row : batch[p] # "none" => created'[p] = created[p]
    BY <2>2 DEF Insert, TypeOK, Fresh
  <2> QED BY <2>1, <2>2, StatusStep, EnqueuedIsNew
<1> QED BY <1>1 DEF Current

LEMMA ToldStep ==
  ASSUME "crash" \notin Faults, "txn" \notin Faults, IInv, Told, Next
  PROVE  Told'
<1> TypeOK /\ Ranks /\ Fresh /\ Scored /\ OneLaunch
  BY DEF IInv
<1> DEFINE Rows == \A r \in Row : ToldRow(r)'
<1>0. ASSUME NEW r \in Row, batch' = batch PROVE Current(r)' = Current(r)
  BY <1>0, CurrentStays
<1> HIDE DEF Rows
<1>k. ASSUME pollTx' = "none" \/ (batch' = batch /\ (pollTx' = pollTx \/ \E q \in Row : Current(q))), Rows
      PROVE  Told'
  BY <1>k DEF Told, BatchEmpty, Rows, Current
<1> USE DEF TypeOK, rowVars, schedVars, pollVars, wrapVars, WrapTx, PollTx, Stati
<1>1. ASSUME UNCHANGED <<status, pollVars, wrap, proc, notified>> PROVE Told'
  <2>1. Rows
    BY <1>0, <1>1 DEF Rows, Told, ToldRow
  <2> QED BY <1>k, <1>1, <2>1
\* A method of the model on a row no scheduler thread holds.
<1>2. ASSUME NEW q \in Row, NEW t \in {Running, Canceled, CancelAsked, Completed, Interrupted},
             Update(q, t), UNCHANGED <<pollVars, wrap, proc, notified>>,
             t = CancelAsked
      PROVE  Told'
  <2>1. \A r \in Row : /\ status[r] \in Over => status'[r] \in Over
                       /\ status'[r] # status[r] => status'[r] = "cancel_requested"
    BY <1>2, TransitionValues DEF Update, Over, FinalStatuses, StaleStatuses
  <2>2. Rows
    <3> SUFFICES ASSUME NEW r \in Row PROVE ToldRow(r)'
      BY DEF Rows
    <3> QED BY <1>0, <1>2, <2>1 DEF Told, ToldRow
  <2> QED BY <1>k, <1>2, <2>2
<1>3. CASE Client
  <2>1. ASSUME NEW q \in Row, NEW k \in JobKeys, Insert(q, k), status[q] = "none",
               UNCHANGED <<pollVars, wrap, proc, notified>>
        PROVE  Told'
    <3>1. Rows
      BY <1>0, <2>1 DEF Rows, Told, ToldRow, Insert, Over, FinalStatuses
    <3> QED BY <1>k, <2>1, <3>1
  <2>2. ASSUME NEW j \in Job, NEW k \in ClientKeys, Submit(j, k) PROVE Told'
    BY <2>1, <2>2, EngineAssumption DEF Submit, Row
  <2>3. ASSUME NEW r \in Row, DeleteRun(r) PROVE Told'
    <3>1. Rows
      BY <1>0, <2>3 DEF Rows, Told, ToldRow, DeleteRun, Over, Locked
    <3> QED BY <1>k, <2>3, <3>1 DEF DeleteRun
  <2>4. ASSUME NEW r \in Row, NEW fromUI \in BOOLEAN, RequestCancel(r, fromUI) PROVE Told'
    BY <2>4, <1>2 DEF RequestCancel
  <2> QED BY <1>3, <2>2, <2>3, <2>4 DEF Client
<1>4. CASE StartUp \/ ShutDown
  <2>1. ASSUME NEW r \in Row, CancelStale(r) PROVE Told'
    BY <2>1, <1>2 DEF CancelStale
  <2> QED BY <1>4, <1>1, <2>1 DEF StartUp, StartScheduler, StartPolling, ShutDown, Drained, ProcessExits
<1>5. CASE PollThread
  <2>1. CASE Claim
    <3>1. pollTx = "none" /\ pollTx' = "none"
      BY <2>1 DEF Claim, Told
    <3>2. \A r \in Row : status'[r] # status[r] => status[r] = "pending" /\ status'[r] = "claimed"
      BY <2>1 DEF Claim, Claimed
    <3>3. Rows
      <4> SUFFICES ASSUME NEW r \in Row PROVE ToldRow(r)'
        BY DEF Rows
      <4> QED BY <2>1, <3>1, <3>2 DEF Claim, Told, ToldRow, Over, FinalStatuses
    <3> QED BY <1>k, <3>1, <3>3
  <2>2. CASE PollLoopEnds
    BY <1>1, <2>2 DEF PollLoopEnds
  <2>3. ASSUME NEW r \in Row, DispatchUnknown(r) \/ ForceInterrupted(r) PROVE Told'
    <3>1. \A q \in Row : /\ status[q] \in Over => status'[q] \in Over
                         /\ status'[q] # status[q] => q = r /\ status'[q] \in Over
      BY <2>3, TransitionValues DEF DispatchUnknown, ForceInterrupted, Update, Over, FinalStatuses
    <3>2. Rows
      <4> SUFFICES ASSUME NEW q \in Row PROVE ToldRow(q)'
        BY DEF Rows
      <4> QED BY <2>3, <3>1 DEF DispatchUnknown, ForceInterrupted, Told, ToldRow
    <3> QED BY <1>k, <2>3, <3>2 DEF DispatchUnknown, ForceInterrupted
  <2>4. ASSUME NEW r \in Row, Dispatch(r) PROVE Told'
    <3>1. wrap[r] = "none"
      BY <2>4 DEF Dispatch, OneLaunch, Told, ToldRow
    <3>2. Rows
      BY <2>4, <3>1 DEF Rows, Dispatch, Told, ToldRow
    <3> QED BY <1>k, <2>4, <3>2 DEF Dispatch
  <2>5. ASSUME NEW r \in Row, Terminate(r) PROVE Told'
    <3>1. Rows
      BY <2>5 DEF Rows, Terminate, Told, ToldRow
    <3> QED BY <1>k, <2>5, <3>1 DEF Terminate
  <2>6. ASSUME NEW r \in Row, NoProcess(r) PROVE Told'
    <3>1. Rows
      BY <1>0, <2>6 DEF Rows, NoProcess, Told, ToldRow
    <3> QED BY <1>k, <2>6, <3>1 DEF NoProcess
  <2>7. ASSUME NEW r \in Row, MarkCanceled(r) PROVE Told'
    <3>1. Allows(status[r], Canceled) => status[r] = "cancel_requested"
      BY SourcesOfTargets, SingleTarget DEF Canceled
    <3>2. Rows
      <4> SUFFICES ASSUME NEW q \in Row PROVE ToldRow(q)'
        BY DEF Rows
      <4>1. CASE pollTx' = "none"
        BY <2>7, <4>1 DEF MarkCanceled, Told, ToldRow
      <4>2. CASE pollTx' = "marked" /\ batch' = batch /\ status[r] = "cancel_requested"
        <5>1. Current(q)' => q = r
          BY <1>0, <2>7, <4>2, OneCurrent DEF MarkCanceled
        <5> QED BY <2>7, <4>2, <5>1 DEF MarkCanceled, Told, ToldRow
      <4> QED BY <2>7, <3>1, <4>1, <4>2 DEF MarkCanceled
    <3> QED BY <1>k, <2>7, <3>2 DEF MarkCanceled
  <2>8. ASSUME NEW r \in Row, PollNotify(r) PROVE Told'
    <3>1. notified[r] = 0
      BY <2>8 DEF PollNotify, Told, ToldRow, Over, FinalStatuses
    <3>2. Rows
      <4> SUFFICES ASSUME NEW q \in Row PROVE ToldRow(q)'
        BY DEF Rows
      <4>1. Current(q)' = Current(q)
        BY <1>0, <2>8 DEF PollNotify
      <4>2. CASE q = r
        BY <2>8, <3>1, <4>1, <4>2 DEF PollNotify, Notify, Told, ToldRow, Over, FinalStatuses
      <4>3. CASE q # r
        BY <2>8, <4>1, <4>3 DEF PollNotify, Notify, Told, ToldRow
      <4> QED BY <4>2, <4>3
    <3> QED BY <1>k, <2>8, <3>2 DEF PollNotify
  <2>9. ASSUME NEW r \in Row, PollCommit(r) PROVE Told'
    <3>1. \A q \in Row : status'[q] = IF q = r THEN "canceled" ELSE status[q]
      BY <2>9, TransitionValues DEF PollCommit, Update, Told, ToldRow
    <3>2. \A q \in Row : Current(q) => q = r
      BY <2>9, OneCurrent DEF PollCommit
    <3>3. Rows
      <4> SUFFICES ASSUME NEW q \in Row PROVE ToldRow(q)'
        BY DEF Rows
      <4> QED BY <2>9, <3>1, <3>2 DEF PollCommit, Told, ToldRow, Over, FinalStatuses
    <3> QED BY <1>k, <2>9, <3>3 DEF PollCommit
  <2> QED BY <1>5, <2>1, <2>2, <2>3, <2>4, <2>5, <2>6, <2>7, <2>8, <2>9 DEF PollThread, PollRow
<1>6. CASE Environment
  <2>1. CASE FirstSignal
    BY <1>1, <2>1 DEF FirstSignal
  <2>2. CASE NextSignal
    <3>1. Rows
      BY <1>0, <2>2 DEF Rows, NextSignal, Told, ToldRow
    <3> QED BY <1>k, <2>2, <3>1 DEF NextSignal
  <2>3. ASSUME NEW r \in Row, PopenFails(r) \/ ThreadFails(r) PROVE Told'
    <3>1. Rows
      BY <1>0, <2>3 DEF Rows, PopenFails, ThreadFails, Told, ToldRow
    <3> QED BY <1>k, <2>3, <3>1 DEF PopenFails, ThreadFails
  <2>4. ASSUME NEW r \in Row, ProcessDies(r) PROVE Told'
    <3>1. Rows
      BY <1>0, <2>4 DEF Rows, ProcessDies, Becomes, Told, ToldRow
    <3> QED BY <1>k, <2>4, <3>1 DEF ProcessDies
  <2> QED BY <1>6, <2>1, <2>2, <2>3, <2>4
          DEF Environment, Crash, ClaimFails, PollFault, PollTxFails, PollTxLost, ForceFails,
              WrapTxFails, WrapTxLost, Fault
<1>7. ASSUME NEW r \in Row, Wrapper(r) PROVE Told'
  <2>1. CASE Register(r) \/ Reap(r) \/ Unregister(r)
    <3>1. Rows
      BY <1>0, <2>1 DEF Rows, Register, Reap, Unregister, Told, ToldRow, WrapStates
    <3> QED BY <1>k, <2>1, <3>1 DEF Register, Reap, Unregister
  <2>2. CASE WrapMark(r)
    <3>1. Allows(status[r], Interrupted) => status[r] \in {"claimed", "running", "cancel_requested"}
      BY SourcesOfTargets, TwoTargets DEF Interrupted
    <3>2. ASSUME wrap'[r] \in {"marked", "notified", "remarked", "renotified"}
          PROVE  Allows(status[r], Interrupted)
      BY <2>2, <3>2 DEF WrapMark
    <3>3. wrap[r] # "none" /\ \A q \in Row : q # r => wrap'[q] = wrap[q]
      BY <2>2 DEF WrapMark
    <3>4. Rows
      <4> SUFFICES ASSUME NEW q \in Row PROVE ToldRow(q)'
        BY DEF Rows
      <4>1. Current(q)' = Current(q) /\ UNCHANGED <<status, pollVars, proc, notified>>
        BY <1>0, <2>2 DEF WrapMark
      <4>2. CASE q = r
        BY <2>2, <3>1, <3>2, <4>1, <4>2 DEF WrapMark, Told, ToldRow, WrapStates
      <4>3. CASE q # r
        BY <3>3, <4>1, <4>3 DEF Told, ToldRow
      <4> QED BY <4>2, <4>3
    <3> QED BY <1>k, <2>2, <3>4 DEF WrapMark
  <2>3. CASE WrapNotify(r)
    <3>1. notified[r] = 0
      BY <2>3 DEF WrapNotify, Told, ToldRow, Over, FinalStatuses
    <3>2. Rows
      <4> SUFFICES ASSUME NEW q \in Row PROVE ToldRow(q)'
        BY DEF Rows
      <4>1. Current(q)' = Current(q)
        BY <1>0, <2>3 DEF WrapNotify
      <4>2. CASE q = r
        BY <2>3, <3>1, <4>1, <4>2 DEF WrapNotify, Notify, Told, ToldRow, Over, FinalStatuses, WrapStates
      <4>3. CASE q # r
        BY <2>3, <4>1, <4>3 DEF WrapNotify, Notify, Told, ToldRow
      <4> QED BY <4>2, <4>3
    <3> QED BY <1>k, <2>3, <3>2 DEF WrapNotify
  <2>4. CASE WrapCommit(r)
    <3>1. \A q \in Row : /\ q # r => status'[q] = status[q]
                         /\ q = r => status'[q] \in Over
      BY <2>4, TransitionValues DEF WrapCommit, Update, Told, ToldRow, Over, FinalStatuses
    <3>2. Rows
      <4> SUFFICES ASSUME NEW q \in Row PROVE ToldRow(q)'
        BY DEF Rows
      <4> QED BY <1>0, <2>4, <3>1 DEF WrapCommit, Told, ToldRow, WrapStates
    <3> QED BY <1>k, <2>4, <3>2 DEF WrapCommit
  <2> QED BY <1>7, <2>1, <2>2, <2>3, <2>4 DEF Wrapper
<1>8. ASSUME NEW r \in Row, Handler(r) PROVE Told'
  <2>1. Rows
    BY <1>0, <1>8 DEF Rows, Handler, CreateRun, CompleteRun, HandlerReturns, HandlerRaises, Becomes,
                      Told, ToldRow
  <2> QED BY <1>k, <1>8, <2>1 DEF Handler, CreateRun, CompleteRun, HandlerReturns, HandlerRaises
<1>9. ASSUME NEW r \in Row, Exec(r) PROVE Told'
  <2>1. CASE Boot(r)
    <3>1. \A q \in Row : status'[q] # status[q] => /\ q = r /\ status[q] = "claimed"
                                                   /\ status'[q] = "running"
      BY <2>1, TransitionValues DEF Boot, Update
    <3>2. Rows
      <4> SUFFICES ASSUME NEW q \in Row PROVE ToldRow(q)'
        BY DEF Rows
      <4> QED BY <1>0, <2>1, <3>1 DEF Boot, Becomes, Told, ToldRow, Over, FinalStatuses
    <3> QED BY <1>k, <2>1, <3>2 DEF Boot
  <2>2. CASE MarkCompleted(r) \/ MarkInterrupted(r)
    <3>1. \A q \in Row : /\ q # r => status'[q] = status[q]
                         /\ status[q] \in Over => status'[q] = status[q]
                         /\ status'[q] # status[q] => status'[q] \in Over
      BY <2>2, TransitionValues DEF MarkCompleted, MarkInterrupted, Update, Over, FinalStatuses
    <3>2. proc'[r] \in {"notifyCompleted", "notifyInterrupted"}
            => status[r] \notin Over /\ status'[r] \in Over
      BY <2>2, TransitionValues, SourcesOfTargets, SingleTarget, TwoTargets
         DEF MarkCompleted, MarkInterrupted, Update, Becomes, Over, FinalStatuses, Interrupted, Completed
    <3>3. Rows
      <4> SUFFICES ASSUME NEW q \in Row PROVE ToldRow(q)'
        BY DEF Rows
      <4>1. ~PollTx(r) /\ ~WrapTx(r) /\ UNCHANGED <<pollVars, wrapVars, notified>>
            /\ (q # r => proc'[q] = proc[q]) /\ proc'[r] # "none"
        BY <2>2 DEF MarkCompleted, MarkInterrupted, Locked, Becomes
      <4>2. Current(q)' = Current(q)
        BY <1>0, <4>1
      <4> QED BY <3>1, <3>2, <4>1, <4>2 DEF Told, ToldRow
    <3> QED BY <1>k, <2>2, <3>3 DEF MarkCompleted, MarkInterrupted
  <2>3. CASE ExecNotify(r)
    <3>1. Rows
      BY <1>0, <2>3 DEF Rows, ExecNotify, AfterNotify, Becomes, Notify, Told, ToldRow
    <3> QED BY <1>k, <2>3, <3>1 DEF ExecNotify
  <2>4. CASE EnqueueScoreUpdate(r)
    <3>1. status[ScoreOf(r)] = "none" /\ ScoreOf(r) \in Row
      BY <2>4, EnqueuedIsNew, ScoreRows DEF EnqueueScoreUpdate
    <3>2. Rows
      BY <1>0, <2>4, <3>1 DEF Rows, EnqueueScoreUpdate, Insert, Becomes, Told, ToldRow, Over, FinalStatuses
    <3> QED BY <1>k, <2>4, <3>2 DEF EnqueueScoreUpdate
  <2> QED BY <1>9, <2>1, <2>2, <2>3, <2>4 DEF Exec
<1> HIDE DEF TypeOK, rowVars, schedVars, pollVars, wrapVars, WrapTx, PollTx, Stati
<1> QED BY <1>3, <1>4, <1>5, <1>6, <1>7, <1>8, <1>9 DEF Next

\* THEOREM: a job is notified at most once, unless the scheduler is killed or a
\* transaction fails between the callbacks and their commit.
THEOREM NotifiedOnce ==
  ASSUME "crash" \notin Faults, "txn" \notin Faults
  PROVE  Spec => []NotifiedAtMostOnce
<1>1. Init => Told
  BY DEF Init, Told, ToldRow, BatchEmpty, WrapTx, PollTx, Current
<1>2. IInv /\ Told /\ [Next]_vars => Told'
  <2>1. Told /\ UNCHANGED vars => Told'
    BY DEF vars, Told, ToldRow, BatchEmpty, WrapTx, PollTx, Current
  <2> QED BY <2>1, ToldStep
<1>3. Told => NotifiedAtMostOnce
  BY DEF Told, ToldRow, NotifiedAtMostOnce
<1> QED BY <1>1, <1>2, <1>3, Invariance, PTL DEF Spec

-----------------------------------------------------------------------------
(* Shutdown: every row that claims work is going on is being looked after.  *)

\* The poll thread leaves no row behind, and the process no thread.
Emptied ==
  /\ sched \in {"draining", "ended", "down", "stale"} => BatchEmpty
  /\ sched \in {"down", "stale"} => \A r \in Row : wrap[r] = "none"

\* A claimed or running row is in the batch or has a wrapper thread that has
\* yet to decide it, and so has every live process; a process that has exited
\* has decided its row.
WatchedRow(r) ==
  /\ Alive(r) => wrap[r] \in {"registering", "waiting"}
  /\ status[r] \in {"claimed", "running"} => batch[r] = "claimed" \/ wrap[r] \notin {"none", "cleanup"}
  /\ status[r] = "claimed" => proc[r] \in {"none", "boot", "dead"}
  /\ status[r] = "running" => proc[r] \in {"handler", "saved", "returned", "raised", "dead"}
  /\ pollTx \in {"noproc", "marked", "notified"} /\ Current(r) => batch[r] = "cancel_requested"

Watched == \A r \in Row : WatchedRow(r)

LEMMA EmptiedStep == TypeOK /\ Emptied /\ Next => Emptied'
<1> SUFFICES ASSUME TypeOK, Emptied, Next PROVE Emptied'
  OBVIOUS
<1> USE DEF TypeOK, rowVars, schedVars, pollVars, wrapVars, Emptied, BatchEmpty
<1>0. ASSUME UNCHANGED <<sched, batch, wrap>> PROVE Emptied'
  BY <1>0
<1>1. CASE Client \/ StartUp \/ ShutDown
  BY <1>1 DEF Client, Submit, DeleteRun, RequestCancel, StartUp, StartScheduler, StartPolling,
              CancelStale, ShutDown, Drained, ProcessExits
<1>2. CASE Claim \/ PollLoopEnds
  BY <1>2 DEF Claim, Polls, PollLoopEnds
<1>3. ASSUME NEW r \in Row, PollRow(r) \/ PollFault(r) PROVE Emptied'
  <2>1. Current(r) /\ (wrap' = wrap \/ wrap' = [wrap EXCEPT ![r] = "registering"]) /\ sched' = sched
    BY <1>3 DEF PollRow, DispatchUnknown, Dispatch, Terminate, NoProcess, MarkCanceled, PollNotify,
                PollCommit, ForceInterrupted, PollFault, PopenFails, ThreadFails, PollTxFails,
                PollTxLost, ForceFails
  <2> QED BY <2>1 DEF Current
<1>4. CASE FirstSignal \/ NextSignal \/ Crash \/ ClaimFails
  BY <1>4 DEF FirstSignal, NextSignal, Crash, ClaimFails
<1>5. ASSUME NEW r \in Row, Wrapper(r) \/ WrapTxFails(r) \/ WrapTxLost(r) PROVE Emptied'
  <2>1. wrap[r] # "none" /\ UNCHANGED <<sched, batch>>
    BY <1>5 DEF Wrapper, Register, Reap, WrapMark, WrapNotify, WrapCommit, Unregister, WrapTxFails,
                WrapTxLost
  <2> QED BY <2>1
<1>6. ASSUME NEW r \in Row, Handler(r) \/ Exec(r) \/ ProcessDies(r) PROVE Emptied'
  BY <1>0, <1>6 DEF Handler, CreateRun, CompleteRun, HandlerReturns, HandlerRaises, Exec, Boot,
                    MarkCompleted, MarkInterrupted, ExecNotify, EnqueueScoreUpdate, ProcessDies
<1> QED BY <1>1, <1>2, <1>3, <1>4, <1>5, <1>6 DEF Next, PollThread, Environment

LEMMA WatchedStep ==
  ASSUME "crash" \notin Faults, "txn" \notin Faults, "thread" \notin Faults,
         IInv, Stopped, Told, Emptied, Watched, Next
  PROVE  Watched'
<1> TypeOK /\ Ranks /\ Fresh /\ Scored /\ OneLaunch
  BY DEF IInv
<1>0. ASSUME NEW r \in Row, batch' = batch PROVE Current(r)' = Current(r)
  BY <1>0, CurrentStays
<1> USE DEF TypeOK, rowVars, schedVars, pollVars, wrapVars, Stati
\* A row that a step does not make claimed or running, and whose threads and
\* process it leaves alone, stays watched.
<1>1. ASSUME UNCHANGED <<pollVars, wrap, proc>>,
             \A r \in Row : status'[r] \in {"claimed", "running"} => status'[r] = status[r]
      PROVE  Watched'
  <2> SUFFICES ASSUME NEW r \in Row PROVE WatchedRow(r)'
    BY DEF Watched
  <2> QED BY <1>0, <1>1 DEF Watched, WatchedRow, Alive
<1>2. CASE Client
  <2>1. ASSUME NEW j \in Job, NEW k \in ClientKeys, Submit(j, k) PROVE Watched'
    BY <2>1, <1>1 DEF Submit, Insert
  <2>2. ASSUME NEW r \in Row, DeleteRun(r) PROVE Watched'
    BY <2>2, <1>1 DEF DeleteRun
  <2>3. ASSUME NEW r \in Row, NEW fromUI \in BOOLEAN, RequestCancel(r, fromUI) PROVE Watched'
    BY <2>3, <1>1, TransitionValues DEF RequestCancel, Update
  <2> QED BY <1>2, <2>1, <2>2, <2>3 DEF Client
<1>3. CASE StartUp \/ ShutDown
  <2>1. ASSUME NEW r \in Row, CancelStale(r) PROVE Watched'
    BY <2>1, <1>1, TransitionValues DEF CancelStale, Update
  <2> QED BY <1>3, <1>1, <2>1 DEF StartUp, StartScheduler, StartPolling, ShutDown, Drained, ProcessExits
<1>4. CASE PollThread
  <2>1. CASE Claim
    <3> SUFFICES ASSUME NEW r \in Row PROVE WatchedRow(r)'
      BY DEF Watched
    <3>1. pollTx' = "none" /\ UNCHANGED <<wrap, proc>> /\ batch[r] = "none"
      BY <2>1 DEF Claim, Told, BatchEmpty
    <3>2. \/ status'[r] = status[r]
          \/ status[r] = "pending" /\ status'[r] = "claimed" /\ batch'[r] = "claimed"
      BY <2>1 DEF Claim, Claimed
    <3> QED BY <3>1, <3>2 DEF Watched, WatchedRow, Alive, Fresh
  <2>2. CASE PollLoopEnds
    BY <1>1, <2>2 DEF PollLoopEnds
  <2>3. ASSUME NEW r \in Row, PollRow(r) PROVE Watched'
    <3> SUFFICES ASSUME NEW q \in Row PROVE WatchedRow(q)'
      BY DEF Watched
    <3>1. CASE DispatchUnknown(r) \/ ForceInterrupted(r)
      <4>1. /\ status'[r] \notin {"claimed", "running"}
            /\ q # r => status'[q] = status[q] /\ batch'[q] = batch[q]
            /\ pollTx' = "none" /\ UNCHANGED <<wrap, proc>>
        BY <3>1, TransitionValues DEF DispatchUnknown, ForceInterrupted, Update, ClearBatch
      <4> QED BY <4>1 DEF Watched, WatchedRow, Alive
    <3>2. CASE Dispatch(r)
      BY <3>2 DEF Dispatch, ClearBatch, Watched, WatchedRow, Alive, AliveStates, Stopped
    <3>3. CASE Terminate(r)
      BY <3>3 DEF Terminate, ClearBatch, Watched, WatchedRow, Alive, AliveStates, Stopped
    <3>4. CASE NoProcess(r)
      <4>1. Current(q)' => q = r
        BY <1>0, <3>4, OneCurrent DEF NoProcess
      <4> QED BY <3>4, <4>1 DEF NoProcess, Watched, WatchedRow, Alive
    <3>5. CASE MarkCanceled(r) \/ PollCommit(r)
      <4>1. batch[r] = "cancel_requested" /\ status[r] \notin {"claimed", "running"}
        BY <3>5 DEF MarkCanceled, PollCommit, Watched, WatchedRow, Stopped
      <4>2. status'[q] \in {"claimed", "running"} => status'[q] = status[q]
        BY <3>5, TransitionValues DEF MarkCanceled, PollCommit, Update
      <4>3. CASE pollTx' = "marked" /\ batch' = batch
        BY <1>0, <3>5, <4>2, <4>3 DEF MarkCanceled, PollCommit, Watched, WatchedRow, Alive
      <4>4. CASE pollTx' = "none" /\ ClearBatch(r)
        BY <3>5, <4>1, <4>2, <4>4 DEF MarkCanceled, PollCommit, ClearBatch, Watched, WatchedRow, Alive
      <4> QED BY <3>5, <4>3, <4>4 DEF MarkCanceled, PollCommit
    <3>6. CASE PollNotify(r)
      BY <1>0, <3>6 DEF PollNotify, Watched, WatchedRow, Alive
    <3> QED BY <2>3, <3>1, <3>2, <3>3, <3>4, <3>5, <3>6 DEF PollRow
  <2> QED BY <1>4, <2>1, <2>2, <2>3 DEF PollThread
<1>5. CASE Environment
  <2>1. CASE FirstSignal
    BY <1>1, <2>1 DEF FirstSignal
  <2>2. ASSUME UNCHANGED <<status, pollVars, wrap>>,
               \A r \in Row : proc'[r] = proc[r] \/ (Alive(r) /\ proc'[r] = "dead")
        PROVE  Watched'
    <3> SUFFICES ASSUME NEW r \in Row PROVE WatchedRow(r)'
      BY DEF Watched
    <3> QED BY <1>0, <2>2 DEF Watched, WatchedRow, Alive, AliveStates
  <2>3. CASE NextSignal
    <3>1. \A r \in Row : proc'[r] = proc[r] \/ (Alive(r) /\ proc'[r] = "dead")
      BY <2>3 DEF NextSignal
    <3> QED BY <2>2, <2>3, <3>1 DEF NextSignal
  <2>4. ASSUME NEW r \in Row, PopenFails(r) PROVE Watched'
    <3> SUFFICES ASSUME NEW q \in Row PROVE WatchedRow(q)'
      BY DEF Watched
    <3> QED BY <2>4 DEF PopenFails, Watched, WatchedRow, Alive
  <2>5. ASSUME NEW r \in Row, ProcessDies(r) PROVE Watched'
    <3>1. \A q \in Row : proc'[q] = proc[q] \/ (Alive(q) /\ proc'[q] = "dead")
      BY <2>5 DEF ProcessDies, Becomes
    <3> QED BY <2>2, <2>5, <3>1 DEF ProcessDies
  <2> QED BY <1>5, <2>1, <2>3, <2>4, <2>5
          DEF Environment, Crash, ClaimFails, PollFault, ThreadFails, PollTxFails, PollTxLost,
              ForceFails, WrapTxFails, WrapTxLost, Fault
<1>6. ASSUME NEW r \in Row, Wrapper(r) PROVE Watched'
  <2> SUFFICES ASSUME NEW q \in Row PROVE WatchedRow(q)'
    BY DEF Watched
  <2>0. batch' = batch /\ pollTx' = pollTx /\ proc' = proc /\ (q # r => wrap'[q] = wrap[q])
    BY <1>6 DEF Wrapper, Register, Reap, WrapMark, WrapNotify, WrapCommit, Unregister
  <2>1. Current(q)' = Current(q)
    BY <1>0, <2>0
  <2>2. CASE q # r
    <3>1. status'[q] = status[q]
      BY <1>6, <2>2 DEF Wrapper, Register, Reap, WrapMark, WrapNotify, WrapCommit, Unregister, Update
    <3> QED BY <2>0, <2>1, <2>2, <3>1 DEF Watched, WatchedRow, Alive
  <2>3. CASE q = r /\ ~WrapCommit(r)
    <3>0. status' = status
      BY <1>6, <2>3 DEF Wrapper, Register, Reap, WrapMark, WrapNotify, Unregister
    <3>1. CASE Register(r)
      BY <2>0, <2>1, <2>3, <3>0, <3>1 DEF Register, Watched, WatchedRow, Alive
    <3>2. CASE Reap(r)
      BY <2>0, <2>1, <2>3, <3>0, <3>2 DEF Reap, Failed, Watched, WatchedRow, Alive, AliveStates
    <3>3. CASE WrapMark(r)
      <4>1. ~Allows(status[r], Interrupted) => status[r] \notin {"claimed", "running"}
        BY SourcesOfTargets, TwoTargets DEF Interrupted
      <4>2. ~Alive(r)
        BY <3>3 DEF WrapMark, Watched, WatchedRow
      <4>3. wrap[r] \notin {"none", "cleanup"}
        BY <3>3 DEF WrapMark
      <4>4. wrap'[r] \in {"none", "cleanup"} => ~Allows(status[r], Interrupted)
        BY <3>3 DEF WrapMark
      <4> QED BY <2>0, <2>1, <2>3, <3>0, <4>1, <4>2, <4>3, <4>4 DEF Watched, WatchedRow, Alive
    <3>4. CASE WrapNotify(r)
      BY <2>0, <2>1, <2>3, <3>0, <3>4 DEF WrapNotify, Watched, WatchedRow, Alive
    <3>5. CASE Unregister(r)
      <4>1. batch[r] # "claimed" /\ ~Alive(r)
        BY <3>5 DEF Unregister, Told, ToldRow, Stopped, Watched, WatchedRow
      <4> QED BY <2>0, <2>1, <2>3, <3>0, <3>5, <4>1 DEF Unregister, Watched, WatchedRow, Alive
    <3> QED BY <1>6, <2>3, <3>1, <3>2, <3>3, <3>4, <3>5 DEF Wrapper
  <2>4. CASE q = r /\ WrapCommit(r)
    <3>1. status'[r] \notin {"claimed", "running"}
      BY <2>4, TransitionValues DEF WrapCommit, Update
    <3> QED BY <2>0, <2>1, <2>4, <3>1 DEF WrapCommit, Watched, WatchedRow, Alive
  <2> QED BY <2>2, <2>3, <2>4
<1>7. ASSUME NEW r \in Row, Handler(r) PROVE Watched'
  <2> SUFFICES ASSUME NEW q \in Row PROVE WatchedRow(q)'
    BY DEF Watched
  <2> QED BY <1>0, <1>7 DEF Handler, CreateRun, CompleteRun, HandlerReturns, HandlerRaises, Becomes,
                            Watched, WatchedRow, Alive, AliveStates
<1>8. ASSUME NEW r \in Row, Exec(r) PROVE Watched'
  <2> SUFFICES ASSUME NEW q \in Row PROVE WatchedRow(q)'
    BY DEF Watched
  <2>0. UNCHANGED <<pollVars, wrap>> /\ (q # r => proc'[q] = proc[q]) /\ Alive(r)
    BY <1>8 DEF Exec, Boot, MarkCompleted, MarkInterrupted, ExecNotify, EnqueueScoreUpdate, Becomes,
                Alive, AliveStates
  <2>1. Current(q)' = Current(q)
    BY <1>0, <2>0
  <2>2. wrap[r] \in {"registering", "waiting"}
    BY <2>0 DEF Watched, WatchedRow
  <2>3. CASE Boot(r)
    <3>1. /\ status'[q] = IF q = r /\ status[q] = "claimed" THEN "running" ELSE status[q]
          /\ proc'[r] \in {"handler", "exit0", "dead"} /\ status[r] # "running"
          /\ status[r] = "claimed" => proc'[r] = "handler"
      BY <2>3, TransitionValues DEF Boot, Update, Becomes, Stored, JobStatuses, Watched, WatchedRow
    <3> QED BY <2>0, <2>1, <2>2, <3>1 DEF Watched, WatchedRow, Alive
  <2>4. CASE MarkCompleted(r) \/ MarkInterrupted(r)
    <3>1. status'[r] \notin {"claimed", "running"} /\ (q # r => status'[q] = status[q])
      BY <2>4, TransitionValues DEF MarkCompleted, MarkInterrupted, Update, Watched, WatchedRow
    <3> QED BY <2>0, <2>1, <2>2, <3>1 DEF Watched, WatchedRow, Alive
  <2>5. CASE ExecNotify(r) \/ EnqueueScoreUpdate(r)
    <3>1. status'[q] \in {"claimed", "running"} => status'[q] = status[q]
      BY <2>5 DEF ExecNotify, EnqueueScoreUpdate, Insert
    <3>2. status[r] \notin {"claimed", "running"}
      BY <2>5 DEF ExecNotify, EnqueueScoreUpdate, Watched, WatchedRow
    <3> QED BY <2>0, <2>1, <2>2, <3>1, <3>2 DEF Watched, WatchedRow, Alive
  <2> QED BY <1>8, <2>3, <2>4, <2>5 DEF Exec
<1> HIDE DEF TypeOK, rowVars, schedVars, pollVars, wrapVars, Stati
<1> QED BY <1>2, <1>3, <1>4, <1>5, <1>6, <1>7, <1>8 DEF Next

\* THEOREM: when the scheduler has shut down in order no row claims that work is
\* going on and no process lives, unless the scheduler is killed, a transaction
\* fails or a wrapper thread cannot be started.
THEOREM ShutdownIsClean ==
  ASSUME "crash" \notin Faults, "txn" \notin Faults, "thread" \notin Faults
  PROVE  Spec => []CleanShutdown
<1> DEFINE Inv == Stopped /\ Told /\ Emptied /\ Watched
<1>1. Init => Inv
  BY DEF Init, Stopped, LateStates, WrapStates, Told, ToldRow, BatchEmpty, WrapTx, PollTx, Current,
         Emptied, Watched, WatchedRow, Alive, AliveStates
<1>2. IInv /\ Inv /\ [Next]_vars => Inv'
  <2>1. Inv /\ UNCHANGED vars => Inv'
    BY DEF vars, Stopped, Working, Told, ToldRow, BatchEmpty, WrapTx, PollTx, Current, Emptied,
           Watched, WatchedRow, Alive
  <2>2. IInv => TypeOK
    BY DEF IInv
  <2> QED BY <2>1, <2>2, StoppedStep, ToldStep, EmptiedStep, WatchedStep
<1>3. Inv => CleanShutdown
  BY DEF Emptied, Watched, WatchedRow, BatchEmpty, CleanShutdown
<1> HIDE DEF Inv
<1> QED BY <1>1, <1>2, <1>3, Invariance, PTL DEF Spec
=============================================================================

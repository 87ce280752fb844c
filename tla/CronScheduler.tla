--------------------------- MODULE CronScheduler ---------------------------
(***************************************************************************)
(* The cron side of the scheduler process: the thread that reads            *)
(* job_schedules, waits for the next triggering time and submits the jobs   *)
(* due at it (scheduler/base.py), the timer that has it reload the table    *)
(* once a minute, and the main thread that shuts it down                    *)
(* (scheduler/cli_scheduler.py).                                            *)
(*                                                                          *)
(* The clock counts ticks, Minute of them to a minute; the real time is     *)
(* strictly between clock and clock + 1. Schedules trigger at the first     *)
(* tick of a minute (:00), the reload timer fires at the last one (:50).    *)
(***************************************************************************)
EXTENDS Naturals, Sequences

CONSTANTS
  Schedule,   \* rows of job_schedules
  Every,      \* Every[s]: the cron expression, as a period in ticks
  Policy,     \* Policy[s]: the delayed_policy of the job
  Minute,     \* ticks in a minute
  Horizon,    \* bound on the clock
  Slow,       \* the steps of the thread that may take longer than a tick
  Faults,     \* the kinds of fault that may occur
  MaxFaults,  \* bound on how many of them do
  MaxEdits    \* bound on the edits of the table

DelayedPolicies == {"SKIP", "ONCE", "ALL"}
Steps == {"outer", "loading", "choosing", "chosen", "starting"}

ASSUME CronAssumption ==
  /\ Minute \in Nat /\ Minute > 1
  /\ Every \in [Schedule -> Nat \ {0}] /\ \A s \in Schedule : Every[s] % Minute = 0
  /\ Policy \in [Schedule -> DelayedPolicies]
  /\ Horizon \in Nat /\ MaxFaults \in Nat /\ MaxEdits \in Nat
  /\ Slow \subseteq Steps
  /\ Faults \subseteq {"crash", "signal", "load"}

VARIABLES
  clock,     \* ticks so far
  table,     \* the active schedules in the database
  since,     \* when the row was last edited or the scheduler last started
  main,      \* program counter of the main thread
  pc,        \* program counter of the cron thread
  stopping,  \* _stopping
  event,     \* _reload_event
  timer,     \* tick at which the reload timer fires, or NoTimer
  base,      \* base_time
  heads,     \* job_list_head: the next triggering time of each loaded job
  trig,      \* triggering_time
  jobs,      \* the jobs to start at trig
  log,       \* log[s]: the triggering times at which s was to be submitted
  faults, edits

vars == <<clock, table, since, main, pc, stopping, event, timer, base, heads, trig, jobs,
          log, faults, edits>>
memory == <<stopping, event, timer, base, heads, trig, jobs>>

NoTimer == 0
NoHeads == [s \in {} |-> 0]

Fault(kind) == kind \in Faults /\ faults < MaxFaults /\ faults' = faults + 1

Larger(a, b) == IF a > b THEN a ELSE b

\* Mutant: the first triggering time is the base time itself.
NextAtBase(s, t) == t

\* The first triggering time at or after tick t.
NextAt(s, t) == ((t + Every[s] - 1) \div Every[s]) * Every[s]

\* Mutant: the timer is set one minute too far ahead.
NextReloadLate == clock + 2 * Minute - ((clock + 1) % Minute)

\* (110 - second) % 60 or 60: the next :50, never the current one.
NextReload == clock + Minute - ((clock + 1) % Minute)

Init ==
  /\ clock = 0
  /\ table \in SUBSET Schedule
  /\ since = [s \in Schedule |-> 0]
  /\ main = "down" /\ pc = "none"
  /\ stopping = FALSE /\ event = FALSE /\ timer = NoTimer
  /\ base = 0 /\ heads = NoHeads /\ trig = 0 /\ jobs = {}
  /\ log = [s \in Schedule |-> <<>>]
  /\ faults = 0 /\ edits = 0

-----------------------------------------------------------------------------
(* The environment: time, edits of the table, the life of the process.      *)

TimerDue == timer # NoTimer /\ clock >= timer

\* Steps that take no time happen before the next tick.
Busy == \/ pc \in Steps \ Slow
        \/ pc = "waiting" /\ (clock >= trig \/ event)
        \/ pc = "idle" /\ event
        \/ main \in {"interrupted", "cancelled", "stopping"}
        \/ TimerDue

Tick ==
  /\ clock < Horizon /\ ~Busy
  /\ clock' = clock + 1
  /\ UNCHANGED <<table, since, main, pc, memory, log, faults, edits>>

\* A schedule is created or resumed, or paused or deleted.
Edit(s) ==
  /\ edits < MaxEdits
  /\ edits' = edits + 1
  /\ table' = IF s \in table THEN table \ {s} ELSE table \cup {s}
  /\ since' = [since EXCEPT ![s] = clock]
  /\ UNCHANGED <<clock, main, pc, memory, log, faults>>

\* start(datetime.now(UTC)): later than this tick, so the next one is the
\* first at which a schedule can trigger.
Start ==
  /\ main = "down"
  /\ main' = "up" /\ pc' = "outer"
  /\ base' = clock + 1
  /\ since' = [s \in Schedule |-> clock]
  /\ UNCHANGED <<clock, table, stopping, event, timer, heads, trig, jobs, log, faults, edits>>

\* The process is gone, and all its memory with it.
Gone ==
  /\ main' = "down" /\ pc' = "none"
  /\ stopping' = FALSE /\ event' = FALSE /\ timer' = NoTimer
  /\ base' = 0 /\ heads' = NoHeads /\ trig' = 0 /\ jobs' = {}

Crash ==
  /\ main # "down" /\ Fault("crash")
  /\ Gone
  /\ UNCHANGED <<clock, table, since, log, edits>>

Signal ==
  /\ main = "up" /\ Fault("signal")
  /\ main' = "interrupted"
  /\ UNCHANGED <<clock, table, since, pc, memory, log, edits>>

-----------------------------------------------------------------------------
(* The main thread after the first signal, and the timer thread.            *)

CancelTimer ==
  /\ main = "interrupted"
  /\ main' = "cancelled"
  /\ timer' = NoTimer
  /\ UNCHANGED <<clock, table, since, pc, stopping, event, base, heads, trig, jobs, log,
                 faults, edits>>

\* Mutant: shutdown() sets the two events in the other order.
ShutDownSwapped ==
  /\ \/ main = "cancelled" /\ main' = "stopping" /\ event' = TRUE /\ UNCHANGED stopping
     \/ main = "stopping" /\ main' = "joining" /\ stopping' = TRUE /\ UNCHANGED event
  /\ UNCHANGED <<clock, table, since, pc, timer, base, heads, trig, jobs, log, faults, edits>>

\* shutdown(): _stopping first, then _reload_event.
ShutDown ==
  /\ \/ main = "cancelled" /\ main' = "stopping" /\ stopping' = TRUE /\ UNCHANGED event
     \/ main = "stopping" /\ main' = "joining" /\ event' = TRUE /\ UNCHANGED stopping
  /\ UNCHANGED <<clock, table, since, pc, timer, base, heads, trig, jobs, log, faults, edits>>

\* wait() returns; the interpreter then waits for a timer that is pending.
Exit ==
  /\ main = "joining" /\ pc = "done" /\ timer = NoTimer
  /\ Gone
  /\ UNCHANGED <<clock, table, since, log, faults, edits>>

\* Mutant: the timer thread sets nothing.
TimerSilent ==
  /\ TimerDue
  /\ timer' = NoTimer
  /\ UNCHANGED <<clock, table, since, main, pc, stopping, event, base, heads, trig, jobs, log,
                 faults, edits>>

TimerFires ==
  /\ TimerDue
  /\ timer' = NoTimer
  /\ event' = TRUE
  /\ UNCHANGED <<clock, table, since, main, pc, stopping, base, heads, trig, jobs, log,
                 faults, edits>>

-----------------------------------------------------------------------------
(* The cron thread: _run, _get_next_jobs, _wait_until.                      *)

\* get_jobs sets the next reload before it reads the table.
BeginLoad ==
  /\ pc = "outer" /\ ~stopping
  /\ pc' = "loading"
  /\ timer' = NextReload
  /\ UNCHANGED <<clock, table, since, main, stopping, event, base, heads, trig, jobs, log,
                 faults, edits>>

\* Each job starts from base_time; the finally block clears the event.
Load ==
  /\ pc = "loading"
  /\ pc' = "choosing"
  /\ heads' = [s \in table |-> NextAt(s, base)]
  /\ event' = FALSE
  /\ UNCHANGED <<clock, table, since, main, stopping, timer, base, trig, jobs, log, faults, edits>>

LoadFails ==
  /\ pc = "loading" /\ Fault("load")
  /\ pc' = "choosing"
  /\ heads' = NoHeads
  /\ event' = FALSE
  /\ UNCHANGED <<clock, table, since, main, stopping, timer, base, trig, jobs, log, edits>>

\* Mutant: a late triggering time is skipped whatever the policy.
WantedNever(s) == heads[s] > clock

\* triggering_time >= now, or a policy that starts late jobs.
Wanted(s) == heads[s] > clock \/ Policy[s] \in {"ALL", "ONCE"}

\* SKIP and ONCE pass over the triggering times that are over.
Following(s) ==
  NextAt(s, IF Policy[s] = "ALL" THEN heads[s] + 1 ELSE Larger(heads[s], clock) + 1)

\* One round of the generator: the jobs of the earliest triggering time.
Choose ==
  /\ pc = "choosing" /\ ~stopping
  /\ \E t \in {heads[s] : s \in DOMAIN heads} :
       /\ \A s \in DOMAIN heads : t <= heads[s]
       /\ heads' = [s \in DOMAIN heads |-> IF heads[s] = t THEN Following(s) ELSE heads[s]]
       /\ jobs' = {s \in DOMAIN heads : heads[s] = t /\ Wanted(s)}
       /\ trig' = t
  /\ pc' = IF jobs' = {} THEN "choosing" ELSE "chosen"
  /\ UNCHANGED <<clock, table, since, main, stopping, event, timer, base, log, faults, edits>>

\* StopIteration: no job is loaded, or the scheduler is stopping.
GeneratorEnds ==
  /\ pc = "choosing" /\ (DOMAIN heads = {} \/ stopping)
  /\ pc' = IF stopping THEN "outer" ELSE "idle"
  /\ UNCHANGED <<clock, table, since, main, memory, log, faults, edits>>

\* _reload_event.wait() without jobs.
WakeUp ==
  /\ pc = "idle" /\ event
  /\ pc' = "outer"
  /\ UNCHANGED <<clock, table, since, main, memory, log, faults, edits>>

\* Mutant: the timeout has the wrong sign.
WaitReversed ==
  /\ pc = "chosen"
  /\ pc' = IF clock < trig THEN "starting" ELSE "waiting"
  /\ UNCHANGED <<clock, table, since, main, memory, log, faults, edits>>

\* _wait_until only waits for a time that is still to come.
Wait ==
  /\ pc = "chosen"
  /\ pc' = IF clock >= trig THEN "starting" ELSE "waiting"
  /\ UNCHANGED <<clock, table, since, main, memory, log, faults, edits>>

WaitOver ==
  /\ pc = "waiting" /\ clock >= trig
  /\ pc' = "starting"
  /\ UNCHANGED <<clock, table, since, main, memory, log, faults, edits>>

Interrupted ==
  /\ pc = "waiting" /\ event
  /\ pc' = "outer"
  /\ UNCHANGED <<clock, table, since, main, memory, log, faults, edits>>

\* A submission that fails is logged and not tried again.
StartJob(s) ==
  /\ pc = "starting" /\ s \in jobs
  /\ jobs' = jobs \ {s}
  /\ log' = [log EXCEPT ![s] = Append(@, trig)]
  /\ UNCHANGED <<clock, table, since, main, pc, stopping, event, timer, base, heads, trig,
                 faults, edits>>

\* Mutant: base_time is the triggering time itself.
AfterTrigSame == trig

\* base_time: one second after the triggering time.
AfterTrig == trig + 1

RoundEnds ==
  /\ pc = "starting" /\ jobs = {}
  /\ base' = AfterTrig
  /\ pc' = "choosing"
  /\ UNCHANGED <<clock, table, since, main, stopping, event, timer, heads, trig, jobs, log,
                 faults, edits>>

ThreadEnds ==
  /\ pc = "outer" /\ stopping
  /\ pc' = "done"
  /\ UNCHANGED <<clock, table, since, main, memory, log, faults, edits>>

CronThread ==
  \/ BeginLoad \/ Load \/ Choose \/ GeneratorEnds \/ WakeUp \/ Wait \/ WaitOver \/ Interrupted
  \/ RoundEnds \/ ThreadEnds \/ \E s \in Schedule : StartJob(s)

\* The bound on the clock is reached.
Over == clock = Horizon /\ UNCHANGED vars

Next ==
  \/ Tick \/ Start \/ Crash \/ Signal \/ CancelTimer \/ ShutDown \/ Exit \/ TimerFires
  \/ CronThread \/ LoadFails \/ \E s \in Schedule : Edit(s)
  \/ Over

Spec == Init /\ [][Next]_vars

-----------------------------------------------------------------------------
(* Properties.                                                              *)

\* Every variable has its type; heads and log only hold triggering times.
TypeOK ==
  /\ clock \in 0..Horizon /\ table \subseteq Schedule
  /\ since \in [Schedule -> Nat]
  /\ main \in {"down", "up", "interrupted", "cancelled", "stopping", "joining"}
  /\ pc \in Steps \cup {"none", "idle", "waiting", "done"}
  /\ stopping \in BOOLEAN /\ event \in BOOLEAN
  /\ timer \in Nat /\ base \in Nat /\ trig \in Nat
  /\ DOMAIN heads \subseteq Schedule /\ jobs \subseteq Schedule
  /\ \A s \in DOMAIN heads : heads[s] \in Nat /\ heads[s] % Every[s] = 0
  /\ log \in [Schedule -> Seq(Nat)]
  /\ faults \in 0..MaxFaults /\ edits \in 0..MaxEdits

\* A triggering time of a schedule is submitted at most once, in order and
\* never ahead of time, across reloads, crashes and restarts.
SubmittedInOrder ==
  \A s \in Schedule :
    /\ \A i \in DOMAIN log[s] : log[s][i] <= clock
    /\ \A i, k \in DOMAIN log[s] : i < k => log[s][i] < log[s][k]

\* A schedule that was created, paused or resumed is obeyed within a minute:
\* from then on it is submitted for every triggering time exactly while it is
\* active. Reloads neither lose nor repeat the time they happen to race with.
TableFollowed ==
  main = "up" =>
    \A s \in Schedule, t \in 1..(clock - 1) :
      t % Every[s] = 0 /\ t >= since[s] + Minute
        => (s \in table <=> \E i \in DOMAIN log[s] : log[s][i] = t)

\* While the scheduler runs, the next reload is ahead: the timer is pending
\* or has woken the thread. Only one timer is ever pending.
ReloadAhead ==
  main = "up" =>
    /\ pc \in {"choosing", "chosen", "waiting", "starting", "idle"} => timer # NoTimer \/ event
    /\ pc = "outer" => timer = NoTimer

\* shutdown() never leaves the thread asleep, even when a reload clears the
\* event that shutdown() has just set.
ShutdownWakes == main = "joining" /\ pc \in {"waiting", "idle"} => event

\* With the policy ALL a job is submitted for every triggering time since the
\* first, however slow the thread is and whenever the table is reloaded.
NoGaps ==
  \A s \in Schedule : Policy[s] = "ALL" =>
    \A i \in DOMAIN log[s] : i > 1 => log[s][i] = NextAt(s, log[s][i - 1] + 1)
=============================================================================

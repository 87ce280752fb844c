------------------------ MODULE CronScheduler_proofs ------------------------
(***************************************************************************)
(* Proofs about the cron thread, for any schedules, periods and policies and *)
(* any clock. Delays are any but where a theorem assumes otherwise: that the  *)
(* reload timer is ahead needs reads that last no tick, and that the table   *)
(* is followed a thread that is never late.                                 *)
(***************************************************************************)
EXTENDS CronScheduler, TLAPS

LEMMA NextAtIsLater ==
  ASSUME NEW s \in Schedule, NEW t \in Nat
  PROVE  NextAt(s, t) \in Nat /\ NextAt(s, t) >= t /\ NextAt(s, t) % Every[s] = 0
<1> DEFINE E == Every[s]
           q == (t + E - 1) \div E
<1>1. E \in Nat /\ E > 0
  BY CronAssumption
<1> HIDE DEF E
<1>2. q \in Nat /\ q * E \in Nat /\ q * E >= t
  BY <1>1, SMT
<1>3. (q * E) % E = 0
  <2> HIDE DEF q
  <2> QED BY <1>1, <1>2, SMT
<1> QED BY <1>2, <1>3 DEF NextAt, E

LEMMA NextReloadIsLater ==
  ASSUME clock \in Nat
  PROVE  NextReload \in Nat /\ NextReload > clock
BY CronAssumption, SMT DEF NextReload

LEMMA FollowingIsLater ==
  ASSUME NEW s \in DOMAIN heads, TypeOK
  PROVE  Following(s) \in Nat /\ Following(s) > heads[s] /\ Following(s) % Every[s] = 0
<1>1. heads[s] \in Nat /\ clock \in Nat /\ s \in Schedule
  BY DEF TypeOK
<1>2. CASE Policy[s] = "ALL"
  BY <1>1, <1>2, NextAtIsLater DEF Following
<1>3. CASE Policy[s] # "ALL"
  <2>1. Larger(heads[s], clock) \in Nat /\ Larger(heads[s], clock) >= heads[s]
    BY <1>1 DEF Larger
  <2> QED BY <1>1, <1>3, <2>1, NextAtIsLater DEF Following
<1> QED BY <1>2, <1>3

LEMMA InitTypeOK == Init => TypeOK
<1> SUFFICES ASSUME Init PROVE TypeOK
  OBVIOUS
<1>1. clock \in 0..Horizon /\ faults \in 0..MaxFaults /\ edits \in 0..MaxEdits
  BY CronAssumption DEF Init
<1>2. log \in [Schedule -> Seq(Nat)] /\ since \in [Schedule -> Nat]
  BY DEF Init
<1>3. /\ table \subseteq Schedule /\ jobs \subseteq Schedule /\ DOMAIN heads \subseteq Schedule
      /\ \A s \in DOMAIN heads : heads[s] \in Nat /\ heads[s] % Every[s] = 0
  BY DEF Init, NoHeads
<1>4. stopping \in BOOLEAN /\ event \in BOOLEAN
  BY Zenon DEF Init
<1> QED BY <1>1, <1>2, <1>3, <1>4 DEF Init, TypeOK, NoTimer

LEMMA TypeStep == TypeOK /\ [Next]_vars => TypeOK'
<1> SUFFICES ASSUME TypeOK, [Next]_vars PROVE TypeOK'
  OBVIOUS
<1> USE DEF TypeOK, NoTimer, Steps
<1>1. CASE Tick
  BY <1>1, CronAssumption DEF Tick, memory
<1>2. ASSUME NEW s \in Schedule, Edit(s) PROVE TypeOK'
  BY <1>2, CronAssumption DEF Edit, memory
<1>3. CASE Start
  BY <1>3 DEF Start
<1>4. CASE Crash
  <2>1. stopping' \in BOOLEAN /\ event' \in BOOLEAN
    BY <1>4, Zenon DEF Crash, Gone
  <2>2. faults' \in 0..MaxFaults
    BY <1>4, CronAssumption DEF Crash, Fault
  <2>3. DOMAIN heads' = {}
    BY <1>4 DEF Crash, Gone, NoHeads
  <2> QED BY <1>4, <2>1, <2>2, <2>3 DEF Crash, Gone
<1>5. CASE Signal
  BY <1>5, CronAssumption DEF Signal, Fault, memory
<1>6. CASE CancelTimer \/ ShutDown \/ TimerFires
  <2>1. stopping' \in BOOLEAN /\ event' \in BOOLEAN
    BY <1>6, Zenon DEF CancelTimer, ShutDown, TimerFires
  <2>2. /\ main' \in {"down", "up", "interrupted", "cancelled", "stopping", "joining"}
        /\ timer' \in Nat
    BY <1>6 DEF CancelTimer, ShutDown, TimerFires
  <2>3. UNCHANGED <<clock, table, since, pc, base, heads, trig, jobs, log, faults, edits>>
    BY <1>6 DEF CancelTimer, ShutDown, TimerFires
  <2> QED BY <2>1, <2>2, <2>3
<1>7. CASE Exit
  BY <1>7 DEF Exit, Gone, NoHeads
<1>8. CASE BeginLoad
  BY <1>8, NextReloadIsLater DEF BeginLoad
<1>9. CASE Load
  BY <1>9, NextAtIsLater DEF Load
<1>10. CASE LoadFails
  <2>1. stopping' \in BOOLEAN /\ event' \in BOOLEAN
    BY <1>10, Zenon DEF LoadFails
  <2>2. faults' \in 0..MaxFaults
    BY <1>10, CronAssumption DEF LoadFails, Fault
  <2>3. DOMAIN heads' = {}
    BY <1>10 DEF LoadFails, NoHeads
  <2> QED BY <1>10, <2>1, <2>2, <2>3 DEF LoadFails
<1>11. CASE Choose
  <2>1. PICK t \in {heads[s] : s \in DOMAIN heads} :
          /\ heads' = [s \in DOMAIN heads |-> IF heads[s] = t THEN Following(s) ELSE heads[s]]
          /\ jobs' = {s \in DOMAIN heads : heads[s] = t /\ Wanted(s)}
          /\ trig' = t
    BY <1>11 DEF Choose
  <2>2. trig' \in Nat /\ jobs' \subseteq Schedule
    BY <2>1
  <2>3. DOMAIN heads' \subseteq Schedule
        /\ \A s \in DOMAIN heads' : heads'[s] \in Nat /\ heads'[s] % Every[s] = 0
    BY <2>1, FollowingIsLater
  <2> QED BY <1>11, <2>2, <2>3 DEF Choose
<1>12. CASE GeneratorEnds \/ WakeUp \/ Wait \/ WaitOver \/ Interrupted \/ ThreadEnds
  BY <1>12 DEF GeneratorEnds, WakeUp, Wait, WaitOver, Interrupted, ThreadEnds, memory
<1>13. CASE RoundEnds
  BY <1>13 DEF RoundEnds, AfterTrig
<1>14. ASSUME NEW s \in Schedule, StartJob(s) PROVE TypeOK'
  BY <1>14 DEF StartJob
<1>15. CASE UNCHANGED vars
  BY <1>15 DEF vars
<1> QED
  BY <1>1, <1>2, <1>3, <1>4, <1>5, <1>6, <1>7, <1>8, <1>9, <1>10, <1>11, <1>12, <1>13, <1>14, <1>15
  DEF Next, CronThread, Over

\* The type invariant of the cron scheduler holds for all constants.
THEOREM CronTypeCorrect == Spec => []TypeOK
BY InitTypeOK, TypeStep, PTL DEF Spec

-----------------------------------------------------------------------------
(* The shutdown. Once _stopping is set no round is begun, so the event that *)
(* is set next is not cleared before the thread has looked at it.           *)

Stopped == main \in {"stopping", "joining"} => stopping
Woken   == main = "joining" /\ pc \in {"chosen", "waiting", "idle"} => event
Life    == main = "down" => pc = "none"

LEMMA WakesStep == TypeOK /\ Stopped /\ Woken /\ Life /\ [Next]_vars => Stopped' /\ Woken' /\ Life'
<1> SUFFICES ASSUME TypeOK, Stopped, Woken, Life, [Next]_vars PROVE Stopped' /\ Woken' /\ Life'
  OBVIOUS
<1> USE DEF Stopped, Woken, Life
<1>1. CASE Tick
  BY <1>1 DEF Tick, memory
<1>2. ASSUME NEW s \in Schedule, Edit(s) PROVE Stopped' /\ Woken' /\ Life'
  BY <1>2 DEF Edit, memory
<1>3. CASE Start
  BY <1>3 DEF Start
<1>4. CASE Crash \/ Exit
  BY <1>4 DEF Crash, Exit, Gone
<1>5. CASE Signal
  BY <1>5 DEF Signal, memory
<1>6. CASE CancelTimer \/ ShutDown \/ TimerFires
  BY <1>6 DEF CancelTimer, ShutDown, TimerFires
<1>7. CASE BeginLoad \/ Load \/ LoadFails
  BY <1>7 DEF BeginLoad, Load, LoadFails
<1>8. CASE Choose
  BY <1>8 DEF Choose
<1>9. CASE GeneratorEnds \/ WakeUp \/ Wait \/ WaitOver \/ Interrupted \/ ThreadEnds
  BY <1>9 DEF GeneratorEnds, WakeUp, Wait, WaitOver, Interrupted, ThreadEnds, memory
<1>10. CASE RoundEnds
  BY <1>10 DEF RoundEnds
<1>11. ASSUME NEW s \in Schedule, StartJob(s) PROVE Stopped' /\ Woken' /\ Life'
  BY <1>11 DEF StartJob
<1>12. CASE UNCHANGED vars
  BY <1>12 DEF vars
<1> QED
  BY <1>1, <1>2, <1>3, <1>4, <1>5, <1>6, <1>7, <1>8, <1>9, <1>10, <1>11, <1>12
  DEF Next, CronThread, Over

\* However slow the thread is, shutdown() never leaves it asleep.
THEOREM ShutdownNeverSleeps == Spec => []ShutdownWakes
<1>1. Init => Stopped /\ Woken /\ Life
  BY DEF Init, Stopped, Woken, Life
<1>2. Woken => ShutdownWakes
  BY DEF Woken, ShutdownWakes
<1> QED BY <1>1, <1>2, WakesStep, CronTypeCorrect, PTL DEF Spec

-----------------------------------------------------------------------------
(* The reload timer. A read of the table that ends before the timer fires   *)
(* cannot clear an event that the timer has set.                            *)

Up == main = "up" =>
  /\ ~stopping /\ pc \in Steps \cup {"waiting", "idle"}
  /\ pc = "loading" => timer > clock
  /\ pc = "outer" => timer = NoTimer
  /\ event /\ pc # "loading" => timer = NoTimer
  /\ pc \notin {"outer", "loading"} => timer # NoTimer \/ event

Down == main = "down" => ~stopping /\ ~event /\ timer = NoTimer /\ pc = "none"

LEMMA ReloadStep ==
  ASSUME "loading" \notin Slow
  PROVE  TypeOK /\ Up /\ Down /\ [Next]_vars => Up' /\ Down'
<1> SUFFICES ASSUME TypeOK, Up, Down, [Next]_vars PROVE Up' /\ Down'
  OBVIOUS
<1> USE DEF Up, Down, NoTimer, Steps
<1> clock \in Nat /\ timer \in Nat
  BY CronAssumption DEF TypeOK
<1>1. CASE Tick
  <2>1. pc # "loading"
    BY <1>1 DEF Tick, Busy
  <2> QED BY <1>1, <2>1 DEF Tick, memory
<1>2. ASSUME NEW s \in Schedule, Edit(s) PROVE Up' /\ Down'
  BY <1>2 DEF Edit, memory
<1>3. CASE Start
  BY <1>3 DEF Start
<1>4. CASE Crash \/ Exit
  BY <1>4 DEF Crash, Exit, Gone
<1>5. CASE Signal
  BY <1>5 DEF Signal, memory
<1>6. CASE CancelTimer \/ ShutDown
  BY <1>6 DEF CancelTimer, ShutDown
<1>7. CASE TimerFires
  BY <1>7 DEF TimerFires, TimerDue
<1>8. CASE BeginLoad
  BY <1>8, NextReloadIsLater DEF BeginLoad
<1>9. CASE Load \/ LoadFails
  BY <1>9 DEF Load, LoadFails
<1>10. CASE Choose
  BY <1>10 DEF Choose
<1>11. CASE GeneratorEnds \/ WakeUp \/ Wait \/ WaitOver \/ Interrupted \/ ThreadEnds
  BY <1>11 DEF GeneratorEnds, WakeUp, Wait, WaitOver, Interrupted, ThreadEnds, memory
<1>12. CASE RoundEnds
  BY <1>12 DEF RoundEnds
<1>13. ASSUME NEW s \in Schedule, StartJob(s) PROVE Up' /\ Down'
  BY <1>13 DEF StartJob
<1>14. CASE UNCHANGED vars
  BY <1>14 DEF vars
<1> QED
  BY <1>1, <1>2, <1>3, <1>4, <1>5, <1>6, <1>7, <1>8, <1>9, <1>10, <1>11, <1>12, <1>13, <1>14
  DEF Next, CronThread, Over

\* When no read of the table outlasts a tick, the next reload is always ahead,
\* whatever else is slow and whichever reads fail.
THEOREM ReloadNeverLost ==
  ASSUME "loading" \notin Slow
  PROVE  Spec => []ReloadAhead
<1>1. Init => Up /\ Down
  BY DEF Init, Up, Down
<1>2. Up => ReloadAhead
  BY DEF Up, ReloadAhead
<1> QED BY <1>1, <1>2, ReloadStep, CronTypeCorrect, PTL DEF Spec

-----------------------------------------------------------------------------
(* Submissions. Every triggering time submitted is behind base_time, except *)
(* in the round under way, and every one to come is not.                    *)

Past(s) ==
  \A i \in DOMAIN log[s] :
    \/ log[s][i] < base
    \/ pc = "starting" /\ s \notin jobs /\ log[s][i] <= trig

Behind == pc # "none" => \A s \in Schedule : Past(s)
Ahead ==
  /\ pc = "choosing" => \A s \in DOMAIN heads : heads[s] >= base
  /\ pc \in {"chosen", "waiting", "starting"} =>
       trig >= base /\ \A s \in DOMAIN heads : heads[s] > trig
Reached == pc = "starting" => trig <= clock

OrderInv == SubmittedInOrder /\ Behind /\ Ahead /\ Reached /\ Life

\* An action that leaves log alone and does not set the clock back keeps
\* SubmittedInOrder.
LEMMA SameLog ==
  ASSUME TypeOK, SubmittedInOrder, log' = log, clock' \in Nat, clock' >= clock
  PROVE  SubmittedInOrder'
<1> log \in [Schedule -> Seq(Nat)] /\ clock \in Nat
  BY CronAssumption DEF TypeOK
<1> QED BY DEF SubmittedInOrder

LEMMA OrderStep == TypeOK /\ TypeOK' /\ OrderInv /\ [Next]_vars => OrderInv'
<1> SUFFICES ASSUME TypeOK, TypeOK', OrderInv, [Next]_vars PROVE OrderInv'
  OBVIOUS
<1>t. /\ clock \in Nat /\ base \in Nat /\ trig \in Nat
      /\ log \in [Schedule -> Seq(Nat)]
      /\ DOMAIN heads \subseteq Schedule /\ \A s \in DOMAIN heads : heads[s] \in Nat
  BY CronAssumption DEF TypeOK
<1> USE DEF OrderInv, Behind, Past, Ahead, Reached, Life
<1>1. CASE Tick
  <2>1. SubmittedInOrder'
    BY <1>1, <1>t, SameLog DEF Tick
  <2> QED BY <1>1, <1>t, <2>1 DEF Tick, memory
<1>2. ASSUME NEW s \in Schedule, Edit(s) PROVE OrderInv'
  BY <1>2, <1>t, SameLog DEF Edit, memory
<1>3. CASE Start
  <2>1. SubmittedInOrder'
    BY <1>3, <1>t, SameLog DEF Start
  <2>2. \A s \in Schedule : \A i \in DOMAIN log[s] : log[s][i] \in Nat /\ log[s][i] < clock + 1
    BY <1>t DEF SubmittedInOrder
  <2> QED BY <1>3, <1>t, <2>1, <2>2 DEF Start
<1>4. CASE Crash \/ Exit
  BY <1>4, <1>t, SameLog DEF Crash, Exit, Gone
<1>5. CASE Signal
  BY <1>5, <1>t, SameLog DEF Signal, memory
<1>6. CASE CancelTimer \/ ShutDown \/ TimerFires
  BY <1>6, <1>t, SameLog DEF CancelTimer, ShutDown, TimerFires
<1>7. CASE BeginLoad
  BY <1>7, <1>t, SameLog DEF BeginLoad
<1>8. CASE Load \/ LoadFails
  <2>1. SubmittedInOrder'
    BY <1>8, <1>t, SameLog DEF Load, LoadFails
  <2>2. \A s \in DOMAIN heads' : heads'[s] >= base'
    BY <1>8, <1>t, NextAtIsLater DEF Load, LoadFails, NoHeads, TypeOK
  <2> QED BY <1>8, <1>t, <2>1, <2>2 DEF Load, LoadFails
<1>9. CASE Choose
  <2>1. SubmittedInOrder'
    BY <1>9, <1>t, SameLog DEF Choose
  <2>2. PICK t \in {heads[s] : s \in DOMAIN heads} :
          /\ \A s \in DOMAIN heads : t <= heads[s]
          /\ heads' = [s \in DOMAIN heads |-> IF heads[s] = t THEN Following(s) ELSE heads[s]]
          /\ trig' = t
    BY <1>9 DEF Choose
  <2>3. t \in Nat /\ t >= base
    BY <1>9, <1>t DEF Choose
  <2>4. \A s \in DOMAIN heads' : heads'[s] \in Nat /\ heads'[s] > t
    BY <1>t, <2>2, <2>3, FollowingIsLater
  <2> QED BY <1>9, <1>t, <2>1, <2>2, <2>3, <2>4 DEF Choose
<1>10. CASE GeneratorEnds \/ WakeUp \/ Interrupted \/ ThreadEnds
  BY <1>10, <1>t, SameLog DEF GeneratorEnds, WakeUp, Interrupted, ThreadEnds, memory
<1>11. CASE Wait \/ WaitOver
  BY <1>11, <1>t, SameLog DEF Wait, WaitOver, memory
<1>12. CASE RoundEnds
  <2>1. SubmittedInOrder'
    BY <1>12, <1>t, SameLog DEF RoundEnds
  <2>2. \A s \in Schedule : \A i \in DOMAIN log[s] : log[s][i] \in Nat /\ log[s][i] < trig + 1
    BY <1>12, <1>t DEF RoundEnds
  <2> QED BY <1>12, <1>t, <2>1, <2>2 DEF RoundEnds, AfterTrig
<1>13. ASSUME NEW s \in Schedule, StartJob(s) PROVE OrderInv'
  <2>1. \A i \in DOMAIN log[s] : log[s][i] \in Nat /\ log[s][i] < trig
    BY <1>13, <1>t DEF StartJob
  <2>2. /\ log'[s] = Append(log[s], trig) /\ log' \in [Schedule -> Seq(Nat)]
        /\ \A q \in Schedule \ {s} : log'[q] = log[q]
    BY <1>13, <1>t DEF StartJob
  <2>3. \A i \in DOMAIN log'[s] :
          log'[s][i] = trig \/ (i \in DOMAIN log[s] /\ log'[s][i] = log[s][i])
    BY <1>t, <2>2
  <2>4. \A i, k \in DOMAIN log'[s] : i < k => log'[s][i] < log'[s][k]
    BY <1>t, <2>1, <2>2 DEF SubmittedInOrder
  <2>5. SubmittedInOrder'
    BY <1>13, <1>t, <2>1, <2>2, <2>3, <2>4 DEF SubmittedInOrder, StartJob
  <2>6. Behind'
    BY <1>13, <1>t, <2>1, <2>2, <2>3 DEF StartJob
  <2> QED BY <1>13, <1>t, <2>5, <2>6 DEF StartJob
<1>14. CASE UNCHANGED vars
  BY <1>14, <1>t, SameLog DEF vars
<1> QED
  BY <1>1, <1>2, <1>3, <1>4, <1>5, <1>6, <1>7, <1>8, <1>9, <1>10, <1>11, <1>12, <1>13, <1>14
  DEF Next, CronThread, Over

\* No triggering time is submitted twice, out of order or ahead of time: for
\* all schedules and policies, however slow the thread is, and across reloads,
\* crashes and restarts.
THEOREM SubmitsInOrder == Spec => []SubmittedInOrder
<1>1. Init => OrderInv
  BY DEF Init, OrderInv, SubmittedInOrder, Behind, Ahead, Reached, Life
<1>2. OrderInv => SubmittedInOrder
  BY DEF OrderInv
<1>3. TypeOK /\ [Next]_vars => TypeOK'
  BY TypeStep
<1> QED BY <1>1, <1>2, <1>3, OrderStep, CronTypeCorrect, PTL DEF Spec

-----------------------------------------------------------------------------
(* NextAt is the least triggering time from a tick on.                      *)

LEMMA NextAtIsLeast ==
  ASSUME NEW s \in Schedule, NEW t \in Nat, NEW u \in Nat, u % Every[s] = 0, u >= t
  PROVE  u >= NextAt(s, t)
<1> DEFINE E == Every[s]
           q == (t + E - 1) \div E
           k == u \div E
<1>1. E \in Nat /\ E > 0
  BY CronAssumption
<1> HIDE DEF E
<1>2. k \in Nat /\ u = k * E
  BY <1>1, SMT DEF E
<1>3. q \in Nat /\ q * E <= t + E - 1
  BY <1>1, SMT
<1> HIDE DEF q, k
<1>4. q * E <= k * E + E - 1
  BY <1>1, <1>2, <1>3
<1>5. q <= k
  <2> SUFFICES ASSUME q >= k + 1 PROVE FALSE
    BY <1>2, <1>3
  <2>1. q * E >= (k + 1) * E
    BY <1>1, <1>2, <1>3, SMT
  <2>2. (k + 1) * E = k * E + E
    BY <1>1, <1>2, SMT
  <2> QED BY <1>1, <1>2, <1>3, <1>4, <2>1, <2>2, SMT
<1>6. q * E <= k * E
  BY <1>1, <1>2, <1>3, <1>5, SMT
<1> QED BY <1>2, <1>6 DEF NextAt, E, q

\* From any tick up to it the next triggering time is the same.
LEMMA NextAtSame ==
  ASSUME NEW s \in Schedule, NEW t \in Nat, NEW u \in Nat, t <= u, u <= NextAt(s, t)
  PROVE  NextAt(s, u) = NextAt(s, t)
<1>1. NextAt(s, t) \in Nat /\ NextAt(s, t) % Every[s] = 0
  BY NextAtIsLater
<1>2. NextAt(s, u) \in Nat /\ NextAt(s, u) >= u /\ NextAt(s, u) % Every[s] = 0
  BY NextAtIsLater
<1>3. NextAt(s, t) >= NextAt(s, u)
  BY <1>1, NextAtIsLeast
<1>4. NextAt(s, u) >= NextAt(s, t)
  BY <1>2, NextAtIsLeast
<1> QED BY <1>1, <1>2, <1>3, <1>4

LEMMA TimesAssoc ==
  ASSUME NEW a \in Nat, NEW b \in Nat, NEW c \in Nat
  PROVE  a * (b * c) = (a * b) * c
BY SMT

LEMMA MultipleMod ==
  ASSUME NEW m \in Nat, NEW c \in Nat, c > 0
  PROVE  (m * c) % c = 0
BY SMT

\* Schedules trigger at full minutes.
LEMMA FullMinutes ==
  ASSUME NEW s \in Schedule, NEW u \in Nat, u % Every[s] = 0
  PROVE  u % Minute = 0
<1> DEFINE E == Every[s]
           k == u \div E
           j == E \div Minute
<1>1. E \in Nat /\ E > 0 /\ E % Minute = 0 /\ Minute \in Nat /\ Minute > 0
  BY CronAssumption
<1>2. k \in Nat /\ u = k * E
  BY <1>1, SMT
<1>3. j \in Nat /\ E = j * Minute
  BY <1>1, SMT
<1> HIDE DEF E, k, j
<1>4. u = (k * j) * Minute /\ k * j \in Nat
  <2>1. u = k * (j * Minute)
    BY <1>2, <1>3
  <2>2. k * j \in Nat
    BY <1>2, <1>3, SMT
  <2>3. k * (j * Minute) = (k * j) * Minute
    BY <1>1, <1>2, <1>3, TimesAssoc
  <2> QED BY <2>1, <2>2, <2>3
<1> QED BY <1>1, <1>4, MultipleMod

-----------------------------------------------------------------------------
(* Policy ALL. The next triggering time of a loaded job, or the one it is   *)
(* about to be started for, follows the last one it was submitted for, and  *)
(* base_time is not beyond it.                                              *)

Round == {"chosen", "waiting", "starting"}
InRound(s) == pc \in Round /\ s \in jobs
Due(s) == NextAt(s, log[s][Len(log[s])] + 1)

GapInv ==
  /\ pc \in Round => DOMAIN heads = table /\ jobs \subseteq table
  /\ pc = "choosing" => DOMAIN heads \in {{}, table}
  /\ \A s \in Schedule :
       /\ log[s] # <<>> => s \in table
       /\ Policy[s] = "ALL" /\ log[s] # <<>> =>
            /\ pc # "none" => base <= Due(s)
            /\ pc \in Round \cup {"choosing"} /\ s \in DOMAIN heads =>
                 IF InRound(s) THEN trig = Due(s) ELSE heads[s] = Due(s)
       /\ Policy[s] = "ALL" /\ InRound(s) => heads[s] = NextAt(s, trig + 1)

\* The scheduler is started once, with nothing submitted yet.
Fresh == main \in {"down", "up"} /\ (main = "down" => log = [s \in Schedule |-> <<>>])

LEMMA DueFacts ==
  ASSUME TypeOK, NEW s \in Schedule, log[s] # <<>>
  PROVE  /\ Due(s) \in Nat /\ Len(log[s]) \in DOMAIN log[s]
         /\ log[s][Len(log[s])] \in Nat /\ Due(s) > log[s][Len(log[s])]
<1>1. log[s] \in Seq(Nat)
  BY DEF TypeOK
<1>2. Len(log[s]) \in DOMAIN log[s] /\ log[s][Len(log[s])] \in Nat
  BY <1>1
<1> DEFINE u == log[s][Len(log[s])]
<1> HIDE DEF u
<1>3. u \in Nat /\ u + 1 \in Nat
  BY <1>2 DEF u
<1>4. NextAt(s, u + 1) \in Nat /\ NextAt(s, u + 1) >= u + 1
  BY <1>3, NextAtIsLater
<1>5. NextAt(s, u + 1) > u
  BY <1>3, <1>4
<1> QED BY <1>2, <1>4, <1>5 DEF Due, u

LEMMA GapStep ==
  ASSUME MaxEdits = 0, "crash" \notin Faults, "signal" \notin Faults
  PROVE  TypeOK /\ OrderInv /\ Fresh /\ NoGaps /\ GapInv /\ [Next]_vars
         => Fresh' /\ NoGaps' /\ GapInv'
<1> SUFFICES ASSUME TypeOK, OrderInv, Fresh, NoGaps, GapInv, [Next]_vars
             PROVE  GapInv' /\ NoGaps' /\ Fresh'
  OBVIOUS
<1> USE DEF Fresh
<1>t. /\ clock \in Nat /\ base \in Nat /\ trig \in Nat /\ log \in [Schedule -> Seq(Nat)]
      /\ DOMAIN heads \subseteq Schedule /\ \A s \in DOMAIN heads : heads[s] \in Nat
      /\ edits = 0
  BY CronAssumption DEF TypeOK
<1>0. ASSUME log' = log PROVE NoGaps'
  BY <1>0 DEF NoGaps
<1>1. ASSUME UNCHANGED <<pc, table, base, heads, trig, jobs, log>> PROVE GapInv' /\ NoGaps'
  BY <1>0, <1>1 DEF GapInv, InRound, Due
<1>2. CASE Tick \/ TimerFires
  BY <1>1, <1>2 DEF Tick, TimerFires, memory
<1>3. CASE Start
  BY <1>3, <1>0, <1>t DEF Start, Fresh, GapInv, InRound, Round
<1>4. CASE BeginLoad \/ GeneratorEnds \/ WakeUp \/ Interrupted \/ ThreadEnds
  BY <1>4, <1>0 DEF BeginLoad, GeneratorEnds, WakeUp, Interrupted, ThreadEnds, memory, GapInv,
                    InRound, Due, Round
<1>5. CASE Wait \/ WaitOver
  BY <1>5, <1>0 DEF Wait, WaitOver, memory, GapInv, InRound, Due, Round
<1>6. CASE Load
  <2>1. \A s \in Schedule : log[s] # <<>> => log[s][Len(log[s])] + 1 <= base
    <3> SUFFICES ASSUME NEW s \in Schedule, log[s] # <<>> PROVE log[s][Len(log[s])] + 1 <= base
      OBVIOUS
    <3> QED BY <1>6, <1>t, DueFacts DEF Load, OrderInv, Behind, Past
  <2>2. ASSUME NEW s \in Schedule, Policy[s] = "ALL", log[s] # <<>>
        PROVE  NextAt(s, base) = Due(s)
    <3>1. log[s][Len(log[s])] + 1 \in Nat /\ base <= Due(s)
      BY <1>6, <2>2, DueFacts DEF Load, GapInv
    <3> QED BY <1>t, <2>1, <2>2, <3>1, NextAtSame DEF Due
  <2> QED BY <1>6, <1>0, <2>2 DEF Load, GapInv, InRound, Due, Round
<1>7. CASE LoadFails
  BY <1>7, <1>0 DEF LoadFails, GapInv, InRound, Due, Round, NoHeads
<1>8. CASE Choose
  <2>1. PICK t \in {heads[s] : s \in DOMAIN heads} :
          /\ heads' = [s \in DOMAIN heads |-> IF heads[s] = t THEN Following(s) ELSE heads[s]]
          /\ jobs' = {s \in DOMAIN heads : heads[s] = t /\ Wanted(s)}
          /\ trig' = t
    BY <1>8 DEF Choose
  <2>2. DOMAIN heads = table /\ DOMAIN heads' = table /\ jobs' \subseteq table
    BY <1>8, <2>1 DEF Choose, GapInv
  <2>3. pc = "choosing" /\ pc' = (IF jobs' = {} THEN "choosing" ELSE "chosen")
        /\ UNCHANGED <<base, log, table>>
    BY <1>8 DEF Choose
  <2>4. ASSUME NEW s \in Schedule, Policy[s] = "ALL", s \in DOMAIN heads
        PROVE  /\ s \in jobs' => heads[s] = trig' /\ heads'[s] = NextAt(s, trig' + 1)
               /\ s \notin jobs' => heads'[s] = heads[s]
    BY <2>1, <2>4 DEF Wanted, Following
  <2>6. \A s \in Schedule : Due(s)' = Due(s)
    BY <2>3 DEF Due
  <2>7. pc' \in {"choosing", "chosen"} /\ (pc' = "choosing" => jobs' = {})
    BY <2>3
  <2>8. ASSUME NEW s \in Schedule, Policy[s] = "ALL", s \in DOMAIN heads, log[s] # <<>>
        PROVE  IF InRound(s)' THEN trig' = Due(s)' ELSE heads'[s] = Due(s)'
    BY <2>3, <2>4, <2>6, <2>7, <2>8 DEF GapInv, InRound, Round
  <2>9. ASSUME NEW s \in Schedule, Policy[s] = "ALL", InRound(s)' PROVE heads'[s] = NextAt(s, trig' + 1)
    BY <2>1, <2>4, <2>9 DEF InRound
  <2> QED BY <1>8, <1>0, <2>2, <2>3, <2>6, <2>8, <2>9 DEF Choose, GapInv
<1>9. ASSUME NEW s \in Schedule, StartJob(s) PROVE GapInv' /\ NoGaps' /\ Fresh'
  <2>1. /\ log' = [log EXCEPT ![s] = Append(@, trig)] /\ log'[s] = Append(log[s], trig)
        /\ \A q \in Schedule \ {s} : log'[q] = log[q]
        /\ UNCHANGED <<pc, table, base, heads, trig>> /\ jobs' = jobs \ {s}
        /\ pc = "starting" /\ s \in jobs
    BY <1>9, <1>t DEF StartJob
  <2>2. s \in table /\ s \in DOMAIN heads
    BY <2>1 DEF GapInv, Round
  <2>3. log'[s] # <<>> /\ log'[s][Len(log'[s])] = trig
    BY <1>t, <2>1
  <2>4. Due(s)' = NextAt(s, trig + 1) /\ \A q \in Schedule \ {s} : Due(q)' = Due(q)
    BY <2>1, <2>3 DEF Due
  <2>5. base <= trig
    BY <2>1 DEF OrderInv, Ahead
  <2>6. Due(s)' \in Nat /\ base <= Due(s)'
    BY <1>t, <2>4, <2>5, NextAtIsLater
  <2>7. Policy[s] = "ALL" => heads[s] = Due(s)'
    BY <2>1, <2>4 DEF GapInv, InRound, Round
  <2>8. GapInv'
    <3>1. ASSUME NEW q \in Schedule \ {s} PROVE InRound(q)' = InRound(q)
      BY <2>1 DEF InRound
    <3>2. ~InRound(s)'
      BY <2>1 DEF InRound
    <3> QED BY <2>1, <2>2, <2>3, <2>4, <2>6, <2>7, <3>1, <3>2 DEF GapInv
  <2>9. NoGaps'
    <3> SUFFICES ASSUME NEW q \in Schedule, Policy[q] = "ALL", NEW i \in DOMAIN log'[q], i > 1
                 PROVE  log'[q][i] = NextAt(q, log'[q][i - 1] + 1)
      BY DEF NoGaps
    <3>1. CASE q # s
      BY <2>1, <3>1 DEF NoGaps
    <3>2. CASE q = s /\ i \in DOMAIN log[s]
      <4>1. log'[q][i] = log[q][i] /\ log'[q][i - 1] = log[q][i - 1]
        BY <1>t, <2>1, <3>2
      <4> QED BY <3>2, <4>1 DEF NoGaps
    <3>3. CASE q = s /\ i \notin DOMAIN log[s]
      <4>1. log[s] # <<>> /\ i = Len(log[s]) + 1
        BY <1>t, <2>1, <3>3
      <4>2. log'[q][i] = trig /\ log'[q][i - 1] = log[s][Len(log[s])]
        BY <1>t, <2>1, <3>3, <4>1
      <4>3. trig = Due(s)
        BY <2>1, <2>2, <3>3, <4>1 DEF GapInv, InRound, Round
      <4> QED BY <3>3, <4>2, <4>3 DEF Due
    <3> QED BY <3>1, <3>2, <3>3
  <2>10. Fresh'
    BY <1>9, <2>1, <2>2 DEF StartJob, OrderInv, Life, Fresh
  <2> QED BY <2>8, <2>9, <2>10
<1>10. CASE RoundEnds
  <2>1. ASSUME NEW s \in Schedule, Policy[s] = "ALL", log[s] # <<>>
        PROVE  s \in DOMAIN heads /\ heads[s] = Due(s) /\ heads[s] > trig
    BY <1>10, <2>1 DEF RoundEnds, GapInv, InRound, Round, OrderInv, Ahead
  <2> QED BY <1>10, <1>0, <1>t, <2>1 DEF RoundEnds, AfterTrig, GapInv, InRound, Due, Round
<1>11. CASE UNCHANGED vars
  BY <1>1, <1>11 DEF vars
<1>12. ~(Crash \/ Signal \/ CancelTimer \/ ShutDown \/ Exit \/ \E s \in Schedule : Edit(s))
  BY <1>t DEF Crash, Signal, CancelTimer, ShutDown, Exit, Edit, Fault
<1>13. CASE ~ \E s \in Schedule : StartJob(s)
  <2>1. Fresh'
    BY <1>12, <1>13, <1>t
       DEF Next, CronThread, Over, vars, memory, Tick, TimerFires, Start, BeginLoad, GeneratorEnds,
           WakeUp, Interrupted, ThreadEnds, Wait, WaitOver, Load, LoadFails, Choose, RoundEnds, Fresh
  <2> QED BY <1>2, <1>3, <1>4, <1>5, <1>6, <1>7, <1>8, <1>10, <1>11, <1>12, <1>13, <2>1
          DEF Next, CronThread, Over
<1> QED BY <1>9, <1>13

\* With the policy ALL no triggering time is left out between two that
\* were submitted, however slow the thread is, whenever the table is reloaded and
\* whichever reads of it fail, as long as the table is not edited and the
\* scheduler stays up.
THEOREM CatchesUp ==
  ASSUME MaxEdits = 0, "crash" \notin Faults, "signal" \notin Faults
  PROVE  Spec => []NoGaps
<1> DEFINE Inv == TypeOK /\ OrderInv /\ Fresh /\ NoGaps /\ GapInv
<1>1. Init => Inv
  <2>1. Init => TypeOK
    BY InitTypeOK
  <2>2. Init => OrderInv
    BY DEF Init, OrderInv, SubmittedInOrder, Behind, Ahead, Reached, Life
  <2>3. Init => Fresh /\ NoGaps /\ GapInv
    BY DEF Init, Fresh, NoGaps, GapInv, InRound, Round
  <2> QED BY <2>1, <2>2, <2>3
<1>2. Inv /\ [Next]_vars => Inv'
  BY TypeStep, OrderStep, GapStep
<1>3. Inv => NoGaps
  OBVIOUS
<1> HIDE DEF Inv
<1> QED BY <1>1, <1>2, <1>3, PTL DEF Spec

-----------------------------------------------------------------------------
(* Obeying the table. When the thread is never late, each minute belongs to *)
(* one reload: the timer fires on the last tick of a minute, the table is    *)
(* read on that tick, and the only triggering time before the next reload   *)
(* is the tick that follows.                                                *)

LEMMA MinuteEnd ==
  ASSUME NEW a \in Nat, NEW b \in Nat, a % Minute = 0, (b + 1) % Minute = 0, a <= b,
         b <= a + Minute
  PROVE  b = a + Minute - 1
<1> DEFINE k == a \div Minute
           j == (b + 1) \div Minute
<1>1. Minute \in Nat /\ Minute > 1
  BY CronAssumption
<1>2. k \in Nat /\ a = k * Minute
  BY <1>1, SMT
<1>3. j \in Nat /\ b + 1 = j * Minute
  BY <1>1, SMT
<1> HIDE DEF k, j
<1>4. j >= k + 1
  <2> SUFFICES ASSUME j <= k PROVE FALSE
    BY <1>2, <1>3
  <2>1. j * Minute <= k * Minute
    BY <1>1, <1>2, <1>3, SMT
  <2> QED BY <1>2, <1>3, <2>1
<1>5. j <= k + 1
  <2> SUFFICES ASSUME j >= k + 2 PROVE FALSE
    BY <1>2, <1>3
  <2>1. j * Minute >= (k + 2) * Minute
    BY <1>1, <1>2, <1>3, SMT
  <2>2. (k + 2) * Minute = k * Minute + 2 * Minute
    BY <1>1, <1>2, SMT
  <2> QED BY <1>1, <1>2, <1>3, <2>1, <2>2, SMT
<1>6. j = k + 1
  BY <1>2, <1>3, <1>4, <1>5
<1>7. (k + 1) * Minute = k * Minute + Minute
  BY <1>1, <1>2, SMT
<1> QED BY <1>1, <1>2, <1>3, <1>6, <1>7, SMT

LEMMA NextReloadEndsMinute ==
  ASSUME clock \in Nat
  PROVE  /\ NextReload \in Nat /\ NextReload > clock /\ NextReload <= clock + Minute
         /\ (NextReload + 1) % Minute = 0
         /\ (clock + 1) % Minute = 0 => NextReload = clock + Minute
<1> DEFINE c == clock + 1
           k == c \div Minute
           r == c % Minute
<1>1. Minute \in Nat /\ Minute > 1 /\ c \in Nat
  BY CronAssumption
<1>2. NextReload = clock + Minute - r
  BY DEF NextReload
<1>3. k \in Nat /\ r \in Nat /\ r < Minute /\ c = k * Minute + r
  <2> HIDE DEF c
  <2> QED BY <1>1, SMT
<1>4. c = clock + 1
  OBVIOUS
<1> HIDE DEF c, k, r
<1>5. NextReload + 1 = (k + 1) * Minute
  <2>1. (k + 1) * Minute = k * Minute + Minute
    BY <1>1, <1>3, SMT
  <2> DEFINE p == k * Minute
  <2>2. p \in Nat
    BY <1>1, <1>3, SMT
  <2>3. c = p + r /\ (k + 1) * Minute = p + Minute
    BY <1>3, <2>1
  <2> HIDE DEF p
  <2> QED BY <1>1, <1>2, <1>3, <1>4, <2>2, <2>3
<1>6. (NextReload + 1) % Minute = 0
  BY <1>1, <1>3, <1>5, MultipleMod
<1>7. (clock + 1) % Minute = 0 => r = 0
  BY DEF r, c
<1> QED BY <1>1, <1>2, <1>3, <1>6, <1>7

Loaded == Round \cup {"choosing", "idle"}
Logged(s, t) == \E i \in DOMAIN log[s] : log[s][i] = t

\* The thread keeps up with the clock, and the timer with the minutes.
Prompt == main = "up" =>
  /\ timer # NoTimer => (timer + 1) % Minute = 0 /\ clock <= timer /\ timer <= clock + Minute
  /\ event => (clock + 1) % Minute = 0 /\ pc \in {"waiting", "idle", "outer", "loading"}
  /\ pc = "loading" => timer = NextReload
  /\ pc \in {"choosing", "chosen", "starting"} => clock < timer
  /\ pc \in {"outer", "loading"} =>
       \/ (clock + 1) % Minute = 0
       \/ (base = clock + 1 /\ \A s \in Schedule : since[s] = clock)
  /\ base <= clock + 1 /\ \A s \in Schedule : since[s] <= clock
  /\ pc = "waiting" => clock <= trig
  /\ pc \in Round => trig % Minute = 0 /\ jobs \subseteq DOMAIN heads
  /\ pc = "idle" => DOMAIN heads = {}

\* The loaded jobs are those of the table, but for schedules edited since.
LoadedTable == \A s \in Schedule :
  /\ since[s] + Minute < timer => (s \in table <=> s \in DOMAIN heads)
  /\ \A i \in DOMAIN log[s] :
       log[s][i] + Minute > timer /\ log[s][i] >= since[s] + Minute => s \in DOMAIN heads

\* No triggering time that is to come lies before the next one of its job, and
\* those of this minute that are over were submitted.
NothingMissed == \A s \in DOMAIN heads : \A t \in Nat : t % Every[s] = 0 =>
  /\ t > clock => t >= heads[s] \/ (InRound(s) /\ t = trig)
  /\ /\ t + Minute > timer /\ t <= clock /\ t >= since[s] + Minute
     /\ t < (IF InRound(s) THEN trig ELSE heads[s])
     => Logged(s, t)

\* Late triggering times are only met on the tick of the reload.
LateAtReload ==
  /\ pc = "choosing" => \A s \in DOMAIN heads : heads[s] <= clock => clock + Minute <= timer
  /\ pc \in {"chosen", "starting"} => trig >= clock \/ clock + Minute <= timer

Follows == main = "up" /\ pc \in Loaded /\ timer # NoTimer =>
             LoadedTable /\ NothingMissed /\ LateAtReload

LEMMA PromptStep ==
  ASSUME Slow = {}, "load" \notin Faults
  PROVE  TypeOK /\ OrderInv /\ Up /\ Down /\ Prompt /\ [Next]_vars => Prompt'
<1> SUFFICES ASSUME TypeOK, OrderInv, Up, Down, Prompt, [Next]_vars PROVE Prompt'
  OBVIOUS
<1>t. /\ clock \in Nat /\ base \in Nat /\ trig \in Nat /\ timer \in Nat /\ since \in [Schedule -> Nat]
      /\ Minute \in Nat /\ Minute > 1
  BY CronAssumption DEF TypeOK
<1> USE DEF Prompt, Round, NoTimer
<1>1. CASE Tick
  <2>1. main = "up" => /\ pc \in {"waiting", "idle"} /\ ~event /\ clock < timer
                       /\ pc = "waiting" => clock < trig
    BY <1>1, <1>t DEF Tick, Busy, TimerDue, Up
  <2>2. clock' = clock + 1 /\ UNCHANGED <<table, since, main, pc, memory, log, faults, edits>>
    BY <1>1 DEF Tick
  <2> QED BY <1>t, <2>1, <2>2 DEF memory
<1>2. ASSUME NEW s \in Schedule, Edit(s) PROVE Prompt'
  BY <1>2, <1>t DEF Edit, memory, NextReload
<1>3. CASE Start
  BY <1>3, <1>t DEF Start, Down
<1>4. CASE Crash \/ Exit
  BY <1>4 DEF Crash, Exit, Gone
<1>5. CASE Signal \/ CancelTimer \/ ShutDown
  BY <1>5 DEF Signal, CancelTimer, ShutDown
<1>6. CASE TimerFires
  <2>1. main = "up" => pc \in {"waiting", "idle"} /\ clock = timer /\ (clock + 1) % Minute = 0
    BY <1>6, <1>t, NextReloadIsLater DEF TimerFires, TimerDue, Up, Steps
  <2>2. /\ timer' = NoTimer /\ event' = TRUE
        /\ UNCHANGED <<clock, since, main, pc, base, heads, trig, jobs>>
    BY <1>6 DEF TimerFires
  <2> QED BY <1>t, <2>1, <2>2
<1>7. CASE BeginLoad
  BY <1>7, <1>t, NextReloadEndsMinute DEF BeginLoad, NextReload
<1>8. CASE Load
  BY <1>8, <1>t, NextReloadEndsMinute DEF Load
<1>9. CASE LoadFails
  BY <1>9 DEF LoadFails, Fault
<1>10. CASE Choose
  <2>1. PICK t \in {heads[s] : s \in DOMAIN heads} :
          /\ heads' = [s \in DOMAIN heads |-> IF heads[s] = t THEN Following(s) ELSE heads[s]]
          /\ jobs' = {s \in DOMAIN heads : heads[s] = t /\ Wanted(s)}
          /\ trig' = t
    BY <1>10 DEF Choose
  <2>2. trig' % Minute = 0
    BY <2>1, FullMinutes DEF TypeOK
  <2>3. jobs' \subseteq DOMAIN heads' /\ pc' \in {"choosing", "chosen"} /\ pc = "choosing"
    BY <1>10, <2>1 DEF Choose
  <2>4. UNCHANGED <<clock, since, main, event, timer, base>>
    BY <1>10 DEF Choose
  <2> QED BY <2>2, <2>3, <2>4
<1>11. CASE GeneratorEnds
  BY <1>11, <1>t DEF GeneratorEnds, memory, Up
<1>12. CASE WakeUp \/ Interrupted
  BY <1>12, <1>t DEF WakeUp, Interrupted, memory
<1>13. CASE Wait
  BY <1>13, <1>t DEF Wait, memory, Up
<1>14. CASE WaitOver
  <2>1. main = "up" => clock = trig /\ clock % Minute = 0
    BY <1>14, <1>t DEF WaitOver
  <2>2. main = "up" => timer # NoTimer /\ ~event
    BY <1>14, <1>t, <2>1, MinuteEnd DEF WaitOver, Up
  <2>3. main = "up" => clock < timer
    BY <1>t, <2>1, <2>2, MinuteEnd
  <2> QED BY <1>14, <1>t, <2>1, <2>2, <2>3 DEF WaitOver, memory
<1>15. CASE RoundEnds
  BY <1>15, <1>t DEF RoundEnds, AfterTrig, OrderInv, Reached
<1>16. CASE ThreadEnds
  BY <1>16 DEF ThreadEnds, Up
<1>17. ASSUME NEW s \in Schedule, StartJob(s) PROVE Prompt'
  BY <1>17, <1>t DEF StartJob
<1>18. CASE UNCHANGED vars
  BY <1>18 DEF vars, NextReload
<1> QED
  BY <1>1, <1>2, <1>3, <1>4, <1>5, <1>6, <1>7, <1>8, <1>9, <1>10, <1>11, <1>12, <1>13, <1>14, <1>15,
     <1>16, <1>17, <1>18
  DEF Next, CronThread, Over

LEMMA FollowsStep ==
  ASSUME Slow = {}, "load" \notin Faults
  PROVE  TypeOK /\ OrderInv /\ Up /\ Down /\ Prompt /\ Follows /\ [Next]_vars => Follows'
<1> SUFFICES ASSUME TypeOK, OrderInv, Up, Down, Prompt, Follows, [Next]_vars,
                    main' = "up", pc' \in Loaded, timer' # NoTimer
             PROVE  LoadedTable' /\ NothingMissed' /\ LateAtReload'
  BY DEF Follows
<1>t. /\ clock \in Nat /\ base \in Nat /\ trig \in Nat /\ timer \in Nat /\ since \in [Schedule -> Nat]
      /\ log \in [Schedule -> Seq(Nat)] /\ DOMAIN heads \subseteq Schedule
      /\ \A s \in DOMAIN heads : heads[s] \in Nat /\ heads[s] % Every[s] = 0
      /\ Minute \in Nat /\ Minute > 1
  BY CronAssumption DEF TypeOK
<1>l. \A s \in Schedule : \A i \in DOMAIN log[s] : log[s][i] \in Nat /\ log[s][i] <= clock
  BY <1>t DEF OrderInv, SubmittedInOrder
<1> USE DEF NoTimer
<1>1. CASE Tick
  <2>1. /\ main = "up" /\ pc \in {"waiting", "idle"} /\ clock < timer
        /\ pc = "waiting" => clock < trig
    BY <1>1, <1>t DEF Tick, Busy, TimerDue, Up
  <2>2. clock' = clock + 1 /\ UNCHANGED <<table, since, main, pc, memory, log, faults, edits>>
    BY <1>1 DEF Tick
  <2>3. LoadedTable /\ NothingMissed
    BY <1>t, <2>1 DEF Follows, Loaded, Round
  <2>4. LoadedTable'
    BY <2>2, <2>3 DEF LoadedTable, memory
  <2>5. NothingMissed'
    <3> SUFFICES ASSUME NEW s \in DOMAIN heads, NEW t \in Nat, t % Every[s] = 0
                 PROVE  /\ t > clock + 1 => t >= heads[s] \/ (InRound(s) /\ t = trig)
                        /\ /\ t + Minute > timer /\ t <= clock + 1 /\ t >= since[s] + Minute
                           /\ t < (IF InRound(s) THEN trig ELSE heads[s])
                           => Logged(s, t)
      BY <2>2 DEF NothingMissed, memory, InRound, Logged
    <3>1. t > clock => t >= heads[s] \/ (InRound(s) /\ t = trig)
      BY <2>3 DEF NothingMissed
    <3>2. t = clock + 1 => ~(t < (IF InRound(s) THEN trig ELSE heads[s]))
      BY <1>t, <2>1, <3>1 DEF OrderInv, Ahead, InRound, Round
    <3> QED BY <1>t, <2>3, <3>1, <3>2 DEF NothingMissed
  <2>6. LateAtReload'
    BY <2>1, <2>2 DEF LateAtReload
  <2> QED BY <2>4, <2>5, <2>6
<1>2. ASSUME NEW q \in Schedule, Edit(q) PROVE LoadedTable' /\ NothingMissed' /\ LateAtReload'
  <2>1. /\ UNCHANGED <<clock, main, pc, memory, log>> /\ since' = [since EXCEPT ![q] = clock]
        /\ \A s \in Schedule \ {q} : s \in table' <=> s \in table
    BY <1>2 DEF Edit
  <2>2. LoadedTable /\ NothingMissed /\ LateAtReload /\ timer <= clock + Minute
    BY <1>t, <2>1 DEF Follows, Prompt, memory
  <2>3. since'[q] = clock /\ \A s \in Schedule \ {q} : since'[s] = since[s]
    BY <1>t, <2>1
  <2>4. LoadedTable'
    BY <1>t, <1>l, <2>1, <2>2, <2>3 DEF LoadedTable, memory
  <2>5. NothingMissed'
    BY <1>t, <2>1, <2>2, <2>3 DEF NothingMissed, InRound, Logged, memory
  <2>6. LateAtReload'
    BY <2>1, <2>2 DEF LateAtReload, memory
  <2> QED BY <2>4, <2>5, <2>6
<1>3. CASE Start \/ Crash \/ Exit
  BY <1>3 DEF Start, Crash, Exit, Gone, Loaded, Round
<1>4. CASE Signal \/ CancelTimer \/ ShutDown \/ TimerFires
  BY <1>4 DEF Signal, CancelTimer, ShutDown, TimerFires
<1>5. CASE BeginLoad \/ WakeUp \/ Interrupted \/ ThreadEnds
  BY <1>5 DEF BeginLoad, WakeUp, Interrupted, ThreadEnds, Loaded, Round
<1>6. CASE Load
  <2>1. /\ pc = "loading" /\ main = "up" /\ pc' = "choosing"
        /\ heads' = [s \in table |-> NextAt(s, base)]
        /\ UNCHANGED <<clock, table, since, main, timer, base, trig, jobs, log>>
    BY <1>6 DEF Load
  <2>2. timer = NextReload /\ base <= clock + 1
    BY <2>1 DEF Prompt
  <2>3. \/ timer = clock + Minute
        \/ base = clock + 1 /\ \A s \in Schedule : since[s] = clock
    BY <1>t, <2>1, <2>2, NextReloadEndsMinute DEF Prompt
  <2>4. ASSUME NEW s \in Schedule, NEW t \in Nat, t <= clock, t >= since[s] + Minute
        PROVE  ~(t + Minute > timer)
    BY <1>t, <2>3, <2>4
  <2>5. LoadedTable'
    BY <1>l, <2>1, <2>4 DEF LoadedTable
  <2>6. \A s \in table : s \in Schedule /\ heads'[s] \in Nat /\ heads'[s] >= base
    BY <1>t, <2>1, NextAtIsLater DEF TypeOK
  <2>7. NothingMissed'
    <3> SUFFICES ASSUME NEW s \in table, NEW t \in Nat, t % Every[s] = 0
                 PROVE  /\ t > clock => t >= heads'[s]
                        /\ ~(t + Minute > timer /\ t <= clock /\ t >= since[s] + Minute)
      BY <2>1 DEF NothingMissed
    <3>1. t > clock => t >= base
      BY <1>t, <2>2
    <3> QED BY <1>t, <2>1, <2>4, <2>6, <3>1, NextAtIsLeast
  <2>8. LateAtReload'
    BY <1>t, <2>1, <2>3, <2>6 DEF LateAtReload
  <2> QED BY <2>5, <2>7, <2>8
<1>7. CASE LoadFails
  BY <1>7 DEF LoadFails, Fault
<1>8. CASE Choose
  <2>1. PICK t0 \in {heads[s] : s \in DOMAIN heads} :
          /\ heads' = [s \in DOMAIN heads |-> IF heads[s] = t0 THEN Following(s) ELSE heads[s]]
          /\ jobs' = {s \in DOMAIN heads : heads[s] = t0 /\ Wanted(s)}
          /\ trig' = t0
    BY <1>8 DEF Choose
  <2>2. /\ pc = "choosing" /\ main = "up" /\ pc' = (IF jobs' = {} THEN "choosing" ELSE "chosen")
        /\ UNCHANGED <<clock, table, since, main, timer, log>>
    BY <1>8 DEF Choose
  <2>3. LoadedTable /\ NothingMissed /\ LateAtReload /\ clock < timer
    BY <2>2 DEF Follows, Prompt, Loaded, Round
  <2>4. DOMAIN heads' = DOMAIN heads
    BY <2>1
  <2>5. LoadedTable'
    BY <2>2, <2>3, <2>4 DEF LoadedTable
  <2>6. \A s \in DOMAIN heads : /\ s \in Schedule /\ Following(s) \in Nat /\ Following(s) > heads[s]
                                /\ heads'[s] \in Nat /\ heads'[s] >= heads[s] /\ ~InRound(s)
    BY <1>t, <2>1, <2>2, FollowingIsLater DEF InRound, Round
  <2>7. NothingMissed'
    <3> SUFFICES ASSUME NEW s \in DOMAIN heads, NEW t \in Nat, t % Every[s] = 0
                 PROVE  /\ t > clock => t >= heads'[s] \/ (InRound(s)' /\ t = trig')
                        /\ /\ t + Minute > timer /\ t <= clock /\ t >= since[s] + Minute
                           /\ t < (IF InRound(s)' THEN trig' ELSE heads'[s])
                           => Logged(s, t)
      BY <2>2, <2>4 DEF NothingMissed, Logged
    <3>1. /\ t > clock => t >= heads[s]
          /\ t + Minute > timer /\ t <= clock /\ t >= since[s] + Minute /\ t < heads[s] => Logged(s, t)
      BY <2>3, <2>6 DEF NothingMissed
    <3>2. InRound(s)' <=> s \in jobs'
      BY <2>2 DEF InRound, Round
    <3>3. CASE heads[s] # t0
      BY <2>1, <3>1, <3>2, <3>3
    <3>4. CASE heads[s] = t0 /\ s \in jobs'
      <4>1. t > t0 /\ t > clock => t >= Following(s)
        BY <1>t, <2>6, <3>4, NextAtIsLeast DEF Following, Larger
      <4> QED BY <1>t, <2>1, <2>6, <3>1, <3>2, <3>4, <4>1
    <3>5. CASE heads[s] = t0 /\ s \notin jobs'
      <4>1. heads[s] <= clock /\ Policy[s] # "ALL"
        BY <1>t, <2>1, <3>5 DEF Wanted
      <4>2. clock + Minute <= timer
        BY <2>2, <2>3, <4>1 DEF LateAtReload
      <4>3. t > clock => t >= Following(s)
        BY <1>t, <2>6, <4>1, NextAtIsLeast DEF Following, Larger
      <4> QED BY <1>t, <2>1, <3>2, <3>5, <4>2, <4>3
    <3> QED BY <3>3, <3>4, <3>5
  <2>8. LateAtReload'
    BY <1>t, <2>1, <2>2, <2>3, <2>4, <2>6 DEF LateAtReload
  <2> QED BY <2>5, <2>7, <2>8
<1>9. CASE GeneratorEnds
  <2>1. /\ main = "up" /\ pc = "choosing" /\ pc' = "idle" /\ DOMAIN heads = {}
        /\ UNCHANGED <<clock, table, since, memory, log>>
    BY <1>9 DEF GeneratorEnds, Up, Loaded, Round
  <2> QED BY <2>1 DEF Follows, Loaded, LoadedTable, NothingMissed, LateAtReload, memory
<1>10. CASE Wait
  BY <1>10
     DEF Wait, memory, Follows, Loaded, Round, LoadedTable, NothingMissed, LateAtReload, InRound,
         Logged
<1>11. CASE WaitOver
  BY <1>11, <1>t
     DEF WaitOver, memory, Follows, Loaded, Round, LoadedTable, NothingMissed, LateAtReload,
         InRound, Logged, Prompt
<1>12. CASE RoundEnds
  <2>1. /\ pc = "starting" /\ jobs = {} /\ main = "up" /\ pc' = "choosing"
        /\ UNCHANGED <<clock, table, since, timer, heads, trig, jobs, log>>
    BY <1>12 DEF RoundEnds
  <2>2. LoadedTable /\ NothingMissed /\ LateAtReload
    BY <2>1 DEF Follows, Loaded, Round
  <2>3. LoadedTable' /\ NothingMissed'
    BY <2>1, <2>2 DEF LoadedTable, NothingMissed, InRound, Logged
  <2>4. LateAtReload'
    BY <1>t, <2>1, <2>2 DEF LateAtReload, OrderInv, Ahead
  <2> QED BY <2>3, <2>4
<1>13. ASSUME NEW q \in Schedule, StartJob(q) PROVE LoadedTable' /\ NothingMissed' /\ LateAtReload'
  <2>1. /\ pc = "starting" /\ q \in jobs /\ jobs' = jobs \ {q} /\ main = "up"
        /\ UNCHANGED <<clock, table, since, main, pc, timer, heads, trig>>
        /\ log'[q] = Append(log[q], trig) /\ \A s \in Schedule \ {q} : log'[s] = log[s]
    BY <1>13, <1>t DEF StartJob
  <2>2. LoadedTable /\ NothingMissed /\ LateAtReload /\ q \in DOMAIN heads /\ trig <= clock
    BY <2>1 DEF Follows, Loaded, Round, Prompt, OrderInv, Reached
  <2>3. /\ \A i \in DOMAIN log[q] : i \in DOMAIN log'[q] /\ log'[q][i] = log[q][i]
        /\ \A i \in DOMAIN log'[q] :
             log'[q][i] = trig \/ (i \in DOMAIN log[q] /\ log'[q][i] = log[q][i])
        /\ Len(log[q]) + 1 \in DOMAIN log'[q] /\ log'[q][Len(log[q]) + 1] = trig
    BY <1>t, <2>1
  <2>4. \A s \in Schedule : \A t \in Nat : Logged(s, t) \/ (s = q /\ t = trig) => Logged(s, t)'
    BY <2>1, <2>3 DEF Logged
  <2>5. LoadedTable'
    BY <2>1, <2>2, <2>3 DEF LoadedTable
  <2>6. NothingMissed'
    <3> SUFFICES ASSUME NEW s \in DOMAIN heads, NEW t \in Nat, t % Every[s] = 0
                 PROVE  /\ t > clock => t >= heads[s] \/ (InRound(s)' /\ t = trig)
                        /\ /\ t + Minute > timer /\ t <= clock /\ t >= since[s] + Minute
                           /\ t < (IF InRound(s)' THEN trig ELSE heads[s])
                           => Logged(s, t)'
      BY <2>1 DEF NothingMissed
    <3>1. /\ t > clock => t >= heads[s] \/ (InRound(s) /\ t = trig)
          /\ /\ t + Minute > timer /\ t <= clock /\ t >= since[s] + Minute
             /\ t < (IF InRound(s) THEN trig ELSE heads[s])
             => Logged(s, t)
      BY <2>2 DEF NothingMissed
    <3>2. s \in Schedule /\ heads[s] \in Nat
      BY <1>t
    <3>3. CASE s # q
      <4>1. InRound(s)' <=> InRound(s)
        BY <2>1, <3>3 DEF InRound
      <4> QED BY <2>4, <3>1, <3>2, <4>1
    <3>4. CASE s = q
      <4>1. InRound(s) /\ ~InRound(s)'
        BY <2>1, <3>4 DEF InRound, Round
      <4>2. trig >= clock \/ clock + Minute <= timer
        BY <2>1, <2>2 DEF LateAtReload
      <4>3. t > clock => t >= heads[s]
        BY <1>t, <2>2, <3>1
      <4>4. t + Minute > timer /\ t <= clock => t <= trig
        BY <1>t, <4>2
      <4>5. t = trig => Logged(s, t)'
        BY <2>4, <3>2, <3>4
      <4>6. t < trig /\ t + Minute > timer /\ t <= clock /\ t >= since[s] + Minute => Logged(s, t)'
        BY <2>4, <3>1, <3>2, <4>1
      <4> QED BY <1>t, <4>1, <4>3, <4>4, <4>5, <4>6
    <3> QED BY <3>3, <3>4
  <2>7. LateAtReload'
    BY <2>1, <2>2 DEF LateAtReload
  <2> QED BY <2>5, <2>6, <2>7
<1>14. CASE UNCHANGED vars
  BY <1>14 DEF vars, Follows, LoadedTable, NothingMissed, LateAtReload, InRound, Logged
<1> QED
  BY <1>1, <1>2, <1>3, <1>4, <1>5, <1>6, <1>7, <1>8, <1>9, <1>10, <1>11, <1>12, <1>13, <1>14
  DEF Next, CronThread, Over

LEMMA FollowedStep ==
  ASSUME Slow = {}, "load" \notin Faults
  PROVE  TypeOK /\ OrderInv /\ Up /\ Down /\ Prompt /\ Follows /\ TableFollowed /\ [Next]_vars
         => TableFollowed'
<1> SUFFICES ASSUME TypeOK, OrderInv, Up, Down, Prompt, Follows, TableFollowed, [Next]_vars,
                    main' = "up", NEW s \in Schedule, NEW t \in 1..(clock' - 1), t % Every[s] = 0,
                    t >= since'[s] + Minute
             PROVE  s \in table' <=> Logged(s, t)'
  BY DEF TableFollowed, Logged
<1>t. /\ clock \in Nat /\ base \in Nat /\ trig \in Nat /\ timer \in Nat /\ since \in [Schedule -> Nat]
      /\ log \in [Schedule -> Seq(Nat)] /\ DOMAIN heads \subseteq Schedule
      /\ \A q \in DOMAIN heads : heads[q] \in Nat
      /\ Minute \in Nat /\ Minute > 1
  BY CronAssumption DEF TypeOK
<1> USE DEF NoTimer
<1>1. ASSUME main = "up", t \in 1..(clock - 1), since'[s] = since[s], log'[s] = log[s],
             s \in table <=> s \in table'
      PROVE  s \in table' <=> Logged(s, t)'
  <2>1. s \in table <=> Logged(s, t)
    BY <1>1, <1>t DEF TableFollowed, Logged
  <2> QED BY <1>1, <2>1 DEF Logged
<1>2. CASE clock' = clock /\ main' = main /\ since' = since /\ table' = table /\ log' = log
  BY <1>1, <1>2, <1>t
<1>3. CASE Tick
  <2>1. /\ main = "up" /\ pc \in {"waiting", "idle"} /\ clock < timer
        /\ pc = "waiting" => clock < trig
    BY <1>3, <1>t DEF Tick, Busy, TimerDue, Up
  <2>2. clock' = clock + 1 /\ UNCHANGED <<table, since, main, pc, memory, log, faults, edits>>
    BY <1>3 DEF Tick
  <2>3. CASE t = clock
    <3>1. timer = clock + Minute - 1
      BY <1>t, <2>1, <2>3, FullMinutes, MinuteEnd DEF Prompt
    <3>2. LoadedTable /\ NothingMissed
      BY <1>t, <2>1 DEF Follows, Loaded, Round
    <3>3. s \in table <=> s \in DOMAIN heads
      BY <1>t, <2>2, <2>3, <3>1, <3>2 DEF LoadedTable
    <3>4. Logged(s, t) => s \in DOMAIN heads
      BY <1>t, <2>2, <2>3, <3>1, <3>2 DEF LoadedTable, Logged
    <3>5. s \in DOMAIN heads => Logged(s, t)
      <4> SUFFICES ASSUME s \in DOMAIN heads PROVE Logged(s, t)
        OBVIOUS
      <4>1. pc = "waiting" /\ heads[s] > trig
        BY <2>1 DEF Prompt, OrderInv, Ahead
      <4>2. t < (IF InRound(s) THEN trig ELSE heads[s])
        BY <1>t, <2>1, <2>3, <4>1
      <4> QED BY <1>t, <2>2, <2>3, <3>1, <3>2, <4>2 DEF NothingMissed
    <3> QED BY <2>2, <3>3, <3>4, <3>5 DEF Logged
  <2>4. CASE t # clock
    BY <1>1, <1>t, <2>1, <2>2, <2>4
  <2> QED BY <2>3, <2>4
<1>4. ASSUME NEW q \in Schedule, Edit(q) PROVE s \in table' <=> Logged(s, t)'
  <2>1. s # q
    BY <1>4, <1>t DEF Edit
  <2> QED BY <1>1, <1>4, <1>t, <2>1 DEF Edit
<1>5. CASE Start
  BY <1>5, <1>t DEF Start
<1>6. CASE Crash \/ Exit \/ Signal \/ CancelTimer \/ ShutDown
  BY <1>6 DEF Crash, Exit, Gone, Signal, CancelTimer, ShutDown
<1>7. ASSUME NEW q \in Schedule, StartJob(q) PROVE s \in table' <=> Logged(s, t)'
  <2>1. /\ pc = "starting" /\ q \in jobs /\ main = "up"
        /\ UNCHANGED <<clock, table, since, main, pc, timer, heads, trig>>
        /\ log'[q] = Append(log[q], trig) /\ \A r \in Schedule \ {q} : log'[r] = log[r]
    BY <1>7, <1>t DEF StartJob
  <2>2. CASE s # q
    BY <1>1, <1>t, <2>1, <2>2
  <2>3. CASE s = q
    <3>1. t \in 1..(clock - 1) /\ t >= since[s] + Minute /\ (s \in table <=> Logged(s, t))
      BY <1>t, <2>1 DEF TableFollowed, Logged
    <3>2. Logged(s, t)' <=> Logged(s, t) \/ t = trig
      <4>1. /\ \A i \in DOMAIN log[q] : i \in DOMAIN log'[q] /\ log'[q][i] = log[q][i]
            /\ \A i \in DOMAIN log'[q] :
             log'[q][i] = trig \/ (i \in DOMAIN log[q] /\ log'[q][i] = log[q][i])
            /\ Len(log[q]) + 1 \in DOMAIN log'[q] /\ log'[q][Len(log[q]) + 1] = trig
        BY <1>t, <2>1
      <4> QED BY <2>3, <4>1 DEF Logged
    <3>3. ASSUME t = trig PROVE s \in table
      <4>1. LoadedTable /\ LateAtReload /\ q \in DOMAIN heads
        BY <1>t, <2>1 DEF Follows, Loaded, Round, Prompt
      <4>2. clock + Minute <= timer
        BY <1>t, <2>1, <3>1, <3>3, <4>1 DEF LateAtReload
      <4> QED BY <1>t, <2>3, <3>1, <3>3, <4>1, <4>2 DEF LoadedTable
    <3> QED BY <2>1, <3>1, <3>2, <3>3
  <2> QED BY <2>2, <2>3
<1> QED
  BY <1>2, <1>3, <1>4, <1>5, <1>6, <1>7
  DEF Next, CronThread, Over, vars, memory, TimerFires, BeginLoad, Load, LoadFails, Choose,
      GeneratorEnds, WakeUp, Wait, WaitOver, Interrupted, RoundEnds, ThreadEnds

\* A schedule that was created, paused or resumed is obeyed within a
\* minute, for all schedules, periods and policies, across edits, crashes and
\* shutdowns, when the thread is never late and no read of the table fails.
THEOREM FollowsTheTable ==
  ASSUME Slow = {}, "load" \notin Faults
  PROVE  Spec => []TableFollowed
<1> DEFINE Inv == TypeOK /\ OrderInv /\ Up /\ Down /\ Prompt /\ Follows /\ TableFollowed
<1>1. Init => Inv
  <2>1. Init => TypeOK
    BY InitTypeOK
  <2>2. Init => OrderInv
    BY DEF Init, OrderInv, SubmittedInOrder, Behind, Ahead, Reached, Life
  <2>3. Init => Up /\ Down /\ Prompt /\ Follows /\ TableFollowed
    BY DEF Init, Up, Down, Prompt, Follows, TableFollowed
  <2> QED BY <2>1, <2>2, <2>3
<1>2. Inv /\ [Next]_vars => Inv'
  BY TypeStep, OrderStep, ReloadStep, PromptStep, FollowsStep, FollowedStep
<1>3. Inv => TableFollowed
  OBVIOUS
<1> HIDE DEF Inv
<1> QED BY <1>1, <1>2, <1>3, PTL DEF Spec
=============================================================================

-------------------------- MODULE JobStatus_proofs --------------------------
(***************************************************************************)
(* What the guarded UPDATE of _transition does, in closed form, for every   *)
(* status and every method of the model.                                    *)
(***************************************************************************)
EXTENDS JobStatus, TLAPS

Stati == JobStatuses \cup {"none", "deleted"}

\* The transition table, entry by entry.
LEMMA TransitionTable ==
  /\ DOMAIN ValidTransitions = {"pending", "claimed", "running", "cancel_requested"}
  /\ ValidTransitions["pending"] = {"claimed", "cancel_requested"}
  /\ ValidTransitions["claimed"] = {"running", "error", "cancel_requested"}
  /\ ValidTransitions["running"] = {"completed", "error", "cancel_requested"}
  /\ ValidTransitions["cancel_requested"] = {"canceled", "cancel_requested"}
BY DEF ValidTransitions

\* The sources of each target, read off the transition table.
LEMMA SourcesOfTargets ==
  /\ ValidFrom("running") = {"claimed"}
  /\ ValidFrom("canceled") = {"cancel_requested"}
  /\ ValidFrom("cancel_requested") = {"pending", "claimed", "running", "cancel_requested"}
  /\ ValidFrom("completed") = {"running"}
  /\ ValidFrom("error") = {"claimed", "running"}
BY TransitionTable DEF ValidFrom

\* A method with one target moves exactly the sources of that target.
LEMMA SingleTarget ==
  ASSUME NEW s, NEW t
  PROVE  /\ Allows(s, <<t>>) <=> s \in ValidFrom(t)
         /\ Transition(s, <<t>>) = IF s \in ValidFrom(t) THEN t ELSE s
<1>1. DOMAIN <<t>> = {1} /\ <<t>>[1] = t
  OBVIOUS
<1>2. Allows(s, <<t>>) <=> s \in ValidFrom(t)
  BY <1>1 DEF Allows
<1>3. CASE s \in ValidFrom(t)
  <2> DEFINE P(i) == /\ s \in ValidFrom(<<t>>[i])
                     /\ \A h \in DOMAIN <<t>> : h < i => s \notin ValidFrom(<<t>>[h])
  <2>1. \E i \in DOMAIN <<t>> : P(i)
    BY <1>1, <1>3
  <2>2. (CHOOSE i \in DOMAIN <<t>> : P(i)) = 1
    BY <1>1, <2>1
  <2> QED BY <1>1, <1>2, <1>3, <2>2 DEF Transition
<1>4. CASE s \notin ValidFrom(t)
  BY <1>2, <1>4 DEF Transition
<1> QED BY <1>2, <1>3, <1>4

\* mark_interrupted: the earlier target wins, the later one takes the rest.
LEMMA TwoTargets ==
  ASSUME NEW s, NEW t, NEW u
  PROVE  /\ Allows(s, <<t, u>>) <=> s \in ValidFrom(t) \cup ValidFrom(u)
         /\ Transition(s, <<t, u>>) = IF s \in ValidFrom(t) THEN t
                                      ELSE IF s \in ValidFrom(u) THEN u ELSE s
<1> DEFINE d == <<t, u>>
           P(i) == /\ s \in ValidFrom(d[i])
                   /\ \A h \in DOMAIN d : h < i => s \notin ValidFrom(d[h])
<1>1. DOMAIN d = {1, 2} /\ d[1] = t /\ d[2] = u
  OBVIOUS
<1>2. Allows(s, d) <=> s \in ValidFrom(t) \cup ValidFrom(u)
  BY <1>1 DEF Allows
<1>3. CASE s \in ValidFrom(t)
  <2>1. P(1) /\ ~P(2)
    BY <1>1, <1>3
  <2>2. (CHOOSE i \in DOMAIN d : P(i)) = 1
    <3> HIDE DEF P, d
    <3> QED BY <1>1, <2>1
  <2> QED BY <1>1, <1>2, <1>3, <2>2 DEF Transition
<1>4. CASE s \notin ValidFrom(t) /\ s \in ValidFrom(u)
  <2>1. P(2) /\ ~P(1)
    BY <1>1, <1>4
  <2>2. (CHOOSE i \in DOMAIN d : P(i)) = 2
    <3> HIDE DEF P, d
    <3> QED BY <1>1, <2>1
  <2> QED BY <1>1, <1>2, <1>4, <2>2 DEF Transition
<1>5. CASE s \notin ValidFrom(t) /\ s \notin ValidFrom(u)
  BY <1>2, <1>5 DEF Transition
<1> QED BY <1>2, <1>3, <1>4, <1>5

\* What each method does to a status, and when it reports success.
LEMMA TransitionValues ==
  ASSUME NEW s \in Stati
  PROVE  /\ Transition(s, Running) = IF s = "claimed" THEN "running" ELSE s
         /\ Transition(s, Canceled) = IF s = "cancel_requested" THEN "canceled" ELSE s
         /\ Transition(s, CancelAsked) = IF s \in StaleStatuses THEN "cancel_requested" ELSE s
         /\ Transition(s, Completed) = IF s = "running" THEN "completed" ELSE s
         /\ Transition(s, Interrupted) = IF s \in {"claimed", "running"} THEN "error"
                                         ELSE IF s = "cancel_requested" THEN "canceled" ELSE s
         /\ Allows(s, Running) <=> s = "claimed"
         /\ Allows(s, Completed) <=> s = "running"
BY SourcesOfTargets, SingleTarget, TwoTargets
   DEF Running, Canceled, CancelAsked, Completed, Interrupted, StaleStatuses, Stati

\* THEOREM: a final or deleted row is not moved by any method of the model.
THEOREM FinalIsAbsorbing ==
  ASSUME NEW s \in FinalStatuses \cup {"none", "deleted"},
         NEW targets \in {Running, Canceled, CancelAsked, Completed, Interrupted}
  PROVE  Transition(s, targets) = s
BY TransitionValues DEF FinalStatuses, Stati, JobStatuses, StaleStatuses
=============================================================================

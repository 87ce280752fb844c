-------------------------- MODULE MCCronScheduler --------------------------
EXTENDS CronScheduler
CONSTANTS s1, s2

\* s1 triggers every minute, s2 every other minute.
EachMinute == [s \in Schedule |-> IF s = s1 THEN 3 ELSE 6]
Skip       == [s \in Schedule |-> "SKIP"]
CatchUp    == [s \in Schedule |-> IF s = s1 THEN "ALL" ELSE "ONCE"]
=============================================================================

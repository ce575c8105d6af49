---------------------------- MODULE MCJobSchedule ----------------------------
EXTENDS JobSchedule
CONSTANTS api, sched, user, user2, ticker
MCHome == [c \in Callers |-> IF c = ticker /\ sched \in Procs THEN sched ELSE api]
==============================================================================

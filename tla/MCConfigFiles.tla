---------------------------- MODULE MCConfigFiles ----------------------------
EXTENDS ConfigFiles
CONSTANTS api, sched, a1, s1
MCHome == [c \in Callers |-> IF c = s1 THEN sched ELSE api]
==============================================================================

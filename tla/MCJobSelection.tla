---------------------------- MODULE MCJobSelection ----------------------------
EXTENDS JobSelection
Spec == ListInit /\ [][ListNext]_listVars
===============================================================================

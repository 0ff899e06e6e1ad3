----------------------------- MODULE MCTaskTable -----------------------------
(* Instances of TaskTable for TLC. *)
EXTENDS TaskTable, TLC

CONSTANTS t1, t2, i1, i2, c1, c2

OneTask      == {t1}
TwoTasks     == {t1, t2}
OneInstance  == {i1}
TwoInstances == {i1, i2}
OneClient    == {c1}
TwoClients   == {c1, c2}
EveryPoint   == {1}
TwoCrons     == {1, 2}
AllFaults    == {"database", "lease"}
NoFaults     == {}
=============================================================================

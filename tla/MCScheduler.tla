------------------------------ MODULE MCScheduler ------------------------------
(* Finite instances of Scheduler: the sets of the runs of the .cfg files.    *)
EXTENDS Scheduler, TLC

CONSTANTS t1, t2, t3, c1, none

OneTask  == {t1}
TwoTasks == {t1, t2}
ThreeTasks == {t1, t2, t3}
OneClient == {c1}

TaskSymmetry == Permutations(ThreeTasks)   \* no task is singled out anywhere

RunOps    == {"trigger", "cancel", "cancelExecution"}
DeleteOps == {"cancel", "deleteTask", "deleteExecution"}
AllFaults == {"crash", "stop", "database"}
================================================================================

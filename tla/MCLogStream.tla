---- MODULE MCLogStream ----
(* Finite instances of LogStream. *)
EXTENDS LogStream

CONSTANTS e1, e2, r1, r2

OneExecution  == {e1}
TwoExecutions == {e1, e2}
OneReader  == {r1}
TwoReaders == {r1, r2}
====

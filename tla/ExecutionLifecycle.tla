------------------------- MODULE ExecutionLifecycle -------------------------
(***************************************************************************)
(* What the execution history promises to its readers (the REST API, the   *)
(* SSE log stream, the notification finalizer), with nothing said of how   *)
(* the scheduler achieves it.  One row is one attempt of one task: it is   *)
(* inserted PENDING, reaches at most one terminal status, and a terminal   *)
(* status never changes again; the terminal event of a row is published    *)
(* at most once, after the commit, and names the committed status.         *)
(***************************************************************************)
EXTENDS Naturals

CONSTANTS
  Runs,       \* one run of one task: a first attempt and its retries
  Attempts    \* attempt numbers, 0 is the first attempt

VARIABLES
  row,        \* committed status of every execution row
  told        \* status named by the terminal event of the row, or "none"

Rows     == Runs \X Attempts
Terminal == {"completed", "failed", "cancelled", "timeout"}
Retried  == {"failed", "timeout"}
Status   == {"absent", "pending", "deleted"} \cup Terminal

Init ==
  /\ row = [e \in Rows |-> "absent"]
  /\ told = [e \in Rows |-> "none"]

(* A first attempt, or the retry of an attempt that failed or timed out    *)
(* (and may have been deleted by a user since).                            *)
Insert(e) ==
  /\ row[e] = "absent"
  /\ e[2] = 0 \/ \E k \in Attempts : /\ k + 1 = e[2]
                                     /\ row[<<e[1], k>>] \in Retried \cup {"deleted"}
  /\ row' = [row EXCEPT ![e] = "pending"]
  /\ UNCHANGED told

Settle(E, s) ==
  /\ \A e \in E : row[e] = "pending"
  /\ row' = [e \in Rows |-> IF e \in E THEN s ELSE row[e]]
  /\ UNCHANGED told

Remove(E) ==
  /\ \A e \in E : row[e] # "absent"
  /\ row' = [e \in Rows |-> IF e \in E THEN "deleted" ELSE row[e]]
  /\ UNCHANGED told

(* The event is published after the commit and before anything else can    *)
(* happen to the row, but for a deletion.                                  *)
Publish(e, s) ==
  /\ told[e] = "none"
  /\ s \in Terminal
  /\ row[e] \in {s, "deleted"}
  /\ told' = [told EXCEPT ![e] = s]
  /\ UNCHANGED row

Next ==
  \/ \E e \in Rows : Insert(e)
  \/ \E E \in SUBSET Rows, s \in Terminal : Settle(E, s)
  \/ \E E \in SUBSET Rows : Remove(E)
  \/ \E e \in Rows, s \in Terminal : Publish(e, s)

Spec == Init /\ [][Next]_<<row, told>>
=============================================================================

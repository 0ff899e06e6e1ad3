---------------------------- MODULE ProviderCatalog ----------------------------
(***************************************************************************)
(* What the provider catalog promises to those who run tasks: the process  *)
(* serves, under each name, the source that is stored under it or nothing. *)
(* While the process lives, a provider that is served goes on being served *)
(* whatever is done to the others or to packages; only an operation on its *)
(* own name may change it, and only a source refused under that name and   *)
(* imported all the same may drop it.                                      *)
(***************************************************************************)
CONSTANTS Names, Sources, Absent

VARIABLES
  stored,   \* the source under each name
  served,   \* the source each name runs
  blocked,  \* the names under which a source that may not run is imported
  alive     \* whether the process lives

catalogVars == <<stored, served, blocked, alive>>

Init ==
  /\ stored \in [Names -> Sources \cup {Absent}]
  /\ served = [n \in Names |-> Absent]
  /\ blocked = {} /\ ~alive

(* The names other than n keep what they run or are caught up with.        *)
OthersKept(n) ==
  \A m \in Names \ {n} :
    /\ stored'[m] = stored[m]
    /\ served'[m] = served[m] \/ (served[m] = Absent /\ served'[m] = stored[m])

(* Another source is stored and runs, or does not load. *)
Put(n) ==
  /\ stored'[n] \in Sources \ {stored[n]} /\ served'[n] \in {Absent, stored'[n]}
  /\ OthersKept(n)

(* A source is refused: the stored one stays, and is dropped if the        *)
(* refused one blocks it.                                                  *)
Refuse(n) ==
  /\ stored'[n] = stored[n]
  /\ \/ served'[n] = stored[n]
     \/ served'[n] = Absent /\ (n \in blocked' \/ served[n] = Absent)
  /\ OthersKept(n)

Erase(n) ==
  /\ stored'[n] = Absent /\ served'[n] = Absent
  /\ OthersKept(n)

(* The sources are read again: nothing that runs is lost. *)
Rescan ==
  /\ UNCHANGED stored
  /\ \A n \in Names : served'[n] = served[n] \/ (served[n] = Absent /\ served'[n] = stored[n])

(* The process ends. *)
Reset ==
  /\ alive /\ ~alive'
  /\ UNCHANGED stored
  /\ \A n \in Names : served'[n] = Absent

Next ==
  /\ blocked' \subseteq Names /\ alive' \in BOOLEAN
  /\ \/ \E n \in Names : Put(n) \/ Refuse(n) \/ Erase(n)
     \/ Rescan
     \/ Reset

Spec == Init /\ [][Next]_catalogVars
=============================================================================

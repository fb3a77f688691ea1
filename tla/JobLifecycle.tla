---------------------------- MODULE JobLifecycle ----------------------------
(***************************************************************************)
(* What the job table of mysh promises its user, without processes, slots  *)
(* or signal masks: which job numbers are listed, in which state, and how  *)
(* that may change.  JobControl implements it (JobControlProperties).      *)
(***************************************************************************)
EXTENDS Integers, FiniteSets

CONSTANT Capacity   \* most jobs listed at once

VARIABLES
  listed,   \* function from the listed job ids to their states
  next      \* the number the next job will get

Init == listed = [id \in {} |-> "Running"] /\ next = 1

\* A new job, in the background or stopped by Ctrl+Z, gets a fresh number.
New(s) ==
  /\ Cardinality(DOMAIN listed) < Capacity
  /\ listed' = [id \in DOMAIN listed \cup {next} |->
                  IF id = next THEN s ELSE listed[id]]
  /\ next' = next + 1

Move(id, From, to) ==
  /\ listed[id] \in From
  /\ listed' = [listed EXCEPT ![id] = to]
  /\ next' = next

\* Only a running job becomes Done; a Done job whose later stages live on
\* can still be stopped in the foreground.
Finish(id)  == Move(id, {"Running"}, "Done")
Suspend(id) == Move(id, {"Running", "Done"}, "Stopped")
Resume(id)  == Move(id, {"Stopped"}, "Running")

Keep(S) == listed' = [id \in S |-> listed[id]] /\ next' = next

\* All Done jobs are reported and forgotten together.
Report == Keep({id \in DOMAIN listed : listed[id] # "Done"})

\* A job that ended in the foreground is forgotten; a stopped one never is.
Forget(id) == listed[id] # "Stopped" /\ Keep(DOMAIN listed \ {id})

Next ==
  \/ \E s \in {"Running", "Stopped"} : New(s)
  \/ \E id \in DOMAIN listed : Finish(id) \/ Suspend(id) \/ Resume(id) \/ Forget(id)
  \/ Report

Spec == Init /\ [][Next]_<<listed, next>>
=============================================================================

---- MODULE MCJobControl ----
(* TLC instances of JobControl: the processes are interchangeable. *)
EXTENDS JobControlProperties, TLC

Symmetry == Permutations(Pids)
====

----------------------------- MODULE BoundedLog -----------------------------
(***************************************************************************)
(* What the command history promises: a numbered log of which the last     *)
(* Capacity entries are remembered.  history.c implements it by a ring.    *)
(***************************************************************************)
EXTENDS Integers, Sequences

CONSTANTS Capacity,
          Line      \* what may be logged

VARIABLES log,      \* the remembered entries, each with its number
          count     \* number of lines ever logged

\* The last Capacity elements of s, of which there are at most Capacity + 1.
LastOf(s) == IF Len(s) <= Capacity THEN s ELSE Tail(s)

Init == log = <<>> /\ count = 0

Add(line) ==
  /\ count' = count + 1
  /\ log' = LastOf(Append(log, <<count + 1, line>>))

\* At the end of the session everything is forgotten.
Forget == log' = <<>> /\ count' = 0

Next == (\E line \in Line : Add(line)) \/ Forget

Spec == Init /\ [][Next]_<<log, count>>
=============================================================================

------------------------------- MODULE MCPipes -------------------------------
(* TLC instances of Pipes. *)
EXTENDS Pipes

Plain == [heredoc |-> FALSE, input |-> FALSE, output |-> FALSE]
Mixed == [heredoc |-> TRUE, input |-> TRUE, output |-> TRUE]

SomeRedirections == {Plain, Mixed}
=============================================================================

------------------------------ MODULE Grammar -------------------------------
(***************************************************************************)
(* What a command line means, said without a parser: the stages and their  *)
(* parts by the positions of the tokens in a segment.                      *)
(***************************************************************************)
EXTENDS Parser, FiniteSets

\* Token k of a segment is an operand: the run of redirection operators
\* directly before it is of odd length.
RunBefore(s, k) ==
  Cardinality({j \in 1 .. k - 1 : \A i \in j .. k - 1 : s[i] \in Redirections})

IsOperand(s, k)  == RunBefore(s, k) % 2 = 1
IsOperator(s, k) == s[k] \in Redirections /\ ~IsOperand(s, k)
IsMark(s, k)     == s[k] = "&" /\ ~IsOperand(s, k)
IsArgument(s, k) == s[k] \notin Redirections \cup {"&"} /\ ~IsOperand(s, k)

ArgumentsUpTo(s, k) == {j \in 1 .. k : IsArgument(s, j)}

\* Nothing is looked at behind the last argument that fits.
Considered(s) ==
  {k \in DOMAIN s : Cardinality(ArgumentsUpTo(s, k - 1)) < MAX_ARGS - 1}

Arguments(s) == {k \in Considered(s) : IsArgument(s, k)}

\* The considered operators among ops; the last of them decides.
OperatorsIn(s, ops) == {k \in Considered(s) : IsOperator(s, k) /\ s[k] \in ops}

OperandOf(s, ops) ==
  IF OperatorsIn(s, ops) = {} THEN None ELSE s[Max(OperatorsIn(s, ops)) + 1]

WellFormed(s) == Len(s) \notin OperatorsIn(s, Redirections)

\* A command is what a segment says: its arguments, numbered in the order of
\* their positions, and the operands of its operators.
Describes(cmd, s) ==
  /\ Len(cmd.args) = Cardinality(Arguments(s))
  /\ \A k \in Arguments(s) : cmd.args[Cardinality(ArgumentsUpTo(s, k))] = s[k]
  /\ cmd.input  = OperandOf(s, {"<"})
  /\ cmd.output = OperandOf(s, {">", ">>"})
  /\ cmd.append = LET outputs == OperatorsIn(s, {">", ">>"})
                  IN outputs # {} /\ s[Max(outputs)] = ">>"
  /\ cmd.background = \E k \in Considered(s) : IsMark(s, k)
  /\ cmd.delim  = OperandOf(s, {"<<"})

HasArgument(s) == \E k \in DOMAIN s : IsArgument(s, k)

StagesUpTo(segments, n) == {j \in 1 .. n : HasArgument(segments[j])}

\* Nothing is looked at behind the last stage that fits.
Looked(segments) ==
  {n \in DOMAIN segments : Cardinality(StagesUpTo(segments, n - 1)) < MAX_COMMANDS}

Stages(segments) == {n \in Looked(segments) : HasArgument(segments[n])}

\* What a line is read as: None if a segment that is looked at is ill-formed,
\* else the commands of its segments with an argument, in their order.
ReadsAs(line, commands) ==
  LET segments == Segments(line)
  IN IF \E n \in Looked(segments) : ~WellFormed(segments[n])
     THEN commands = None
     ELSE /\ commands # None
          /\ Len(commands) = Cardinality(Stages(segments))
          /\ \A n \in Stages(segments) :
               Describes(commands[Cardinality(StagesUpTo(segments, n))],
                         segments[n])
=============================================================================

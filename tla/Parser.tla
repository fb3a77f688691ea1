------------------------------- MODULE Parser -------------------------------
(***************************************************************************)
(* parser.c over abstract tokens.  A line is a sequence of words and of    *)
(* the operators below; "|" is an operator wherever it stands, the others  *)
(* only as tokens of their own.                                            *)
(***************************************************************************)
EXTENDS Integers, Sequences, SequencesExt

CONSTANTS MAX_ARGS, MAX_COMMANDS,
          None   \* NULL, and the answer of a parse that failed

\* There is room for a word and the NULL behind it, and for a pipe.
ASSUME ParserAssumption == MAX_ARGS \in Nat \ {0, 1} /\ MAX_COMMANDS \in Nat \ {0, 1}

Word == STRING \cup {None}

Command == [args : Seq(Word), input : Word, output : Word, append : BOOLEAN,
            background : BOOLEAN, delim : Word]

\* NULL is neither a string nor a parsed pipeline.
ASSUME NoneAssumption ==
  None \notin STRING /\ None \notin Command /\ None \notin Seq(Command)

Redirections == {"<", ">", ">>", "<<"}
Operators    == Redirections \cup {"&", "|"}

NoCommand == [args |-> <<>>, input |-> None, output |-> None,
              append |-> FALSE, background |-> FALSE, delim |-> None]

\* The token after a redirection operator is its operand, whatever it is.
\* The last operator of a kind wins.
Operand(cmd, op, token) ==
  [cmd EXCEPT !.delim  = IF op = "<<" THEN token ELSE @,
              !.input  = IF op = "<" THEN token ELSE @,
              !.output = IF op \in {">", ">>"} THEN token ELSE @,
              !.append = IF op \in {">", ">>"} THEN op = ">>" ELSE @]

\* The loop of parse_command ends when the argument vector is full.
Full(cmd) == Len(cmd.args) = MAX_ARGS - 1

\* Variant: "&" is looked for before the operand.
ParseTokenMarkFirst(acc, token) ==
  IF token = "&" THEN [acc EXCEPT !.cmd.background = TRUE]
  ELSE IF acc.op # None
  THEN [cmd |-> Operand(acc.cmd, acc.op, token), op |-> None]
  ELSE IF Full(acc.cmd) THEN acc
  ELSE IF token \in Redirections THEN [acc EXCEPT !.op = token]
  ELSE [acc EXCEPT !.cmd.args = Append(@, token)]

\* One token, in the loop or as the operand op waits for.
ParseToken(acc, token) ==
  IF acc.op # None
  THEN [cmd |-> Operand(acc.cmd, acc.op, token), op |-> None]
  ELSE IF Full(acc.cmd) THEN acc
  ELSE IF token = "&" THEN [acc EXCEPT !.cmd.background = TRUE]
  ELSE IF token \in Redirections THEN [acc EXCEPT !.op = token]
  ELSE [acc EXCEPT !.cmd.args = Append(@, token)]

\* None is a syntax error: an operator with nothing after it.
ParseCommand(segment) ==
  LET end == FoldLeft(ParseToken, [cmd |-> NoCommand, op |-> None], segment)
  IN IF end.op # None THEN None ELSE end.cmd

\* The segments of a line between its "|".
Split(acc, token) ==
  IF token = "|" THEN Append(acc, <<>>)
  ELSE [acc EXCEPT ![Len(acc)] = Append(@, token)]

Segments(line) == FoldLeft(Split, << <<>> >>, line)

\* A segment without arguments is no stage, even if it has redirections.
\* Nothing is parsed after an error or beyond MAX_COMMANDS stages.
ParseSegment(acc, segment) ==
  LET cmd == ParseCommand(segment)
  IN IF acc.failed \/ Len(acc.commands) = MAX_COMMANDS THEN acc
     ELSE IF cmd = None THEN [acc EXCEPT !.failed = TRUE]
     ELSE IF cmd.args = <<>> THEN acc
     ELSE [acc EXCEPT !.commands = Append(@, cmd)]

\* The stages of a line, none for a blank line and None for an error.
ParsePipeline(line) ==
  LET end == FoldLeft(ParseSegment, [commands |-> <<>>, failed |-> FALSE],
                      Segments(line))
  IN IF end.failed THEN None ELSE end.commands

\* The whole pipeline is in the background if its last stage is marked.
InBackground(commands) ==
  commands # <<>> /\ commands[Len(commands)].background
=============================================================================

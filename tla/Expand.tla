------------------------------- MODULE Expand -------------------------------
(***************************************************************************)
(* expand.c: variables, then pathnames, over abstract words.  A word is a  *)
(* plain word, a reference to a variable, "$?", or a pattern; what is      *)
(* spliced into the middle of a word is left out.  A malloc may fail.      *)
(***************************************************************************)
EXTENDS Parser

CONSTANTS
  VarOf,    \* the variable a word refers to, for words that do
  Garbled,  \* what a word becomes when its buffer cannot grow
  Matches   \* for each directory, the files that match each pattern

ASSUME ExpandAssumption ==
  /\ Garbled \in STRING
  /\ \A dir \in DOMAIN Matches :
       /\ \A w \in DOMAIN VarOf : w \notin DOMAIN Matches[dir]
       /\ \A w \in DOMAIN Matches[dir] : Matches[dir][w] \in Seq(STRING)

\* True of these literals, but not known to the provers.
ASSUME LiteralAssumption == {"", "-1", "0", "1"} \subseteq STRING

\* snprintf("%d") of the statuses considered.
Numeral(status) ==
  IF status = -1 THEN "-1" ELSE IF status = 0 THEN "0" ELSE "1"

\* A variable that is not set is the empty string.
ExpandVariables(word, env, status) ==
  IF word = "$?" THEN Numeral(status)
  ELSE IF word \in DOMAIN VarOf
       THEN IF env[VarOf[word]] = None THEN "" ELSE env[VarOf[word]]
       ELSE word

\* The word that is built.  Nobody looks at what sb_putc returns: when realloc
\* fails the word lacks what did not fit, a character, the rest of a value or
\* the NUL at its end.
Built(word, env, status, fault) ==
  IF fault = "realloc" THEN Garbled ELSE ExpandVariables(word, env, status)

HasGlob(word, dir) == word \in DOMAIN Matches[dir]

\* GLOB_NOCHECK: a pattern nothing matches stands for itself.
Glob(word, dir) ==
  IF Matches[dir][word] = <<>> THEN <<word>> ELSE Matches[dir][word]

\* The words one argument becomes.  If malloc fails the argument is dropped;
\* if strdup fails for the first match there is a NULL in its place.
WordsOf(word, env, status, dir, fault) ==
  LET w == Built(word, env, status, fault)
  IN IF fault = "malloc" THEN <<>>
     ELSE IF ~HasGlob(w, dir) THEN <<w>>
     ELSE IF fault = "strdup" THEN [Glob(w, dir) EXCEPT ![1] = None]
     ELSE Glob(w, dir)

\* Variant: only the outer loop looks at the size of the vector.
FittingAll(args, words) ==
  IF Len(args) < MAX_ARGS - 1 THEN args \o words ELSE args

\* The words that still fit; one slot is kept for the NULL at the end.
Fitting(args, words) ==
  args \o SubSeq(words, 1, Min({Len(words), MAX_ARGS - 1 - Len(args)}))

\* The new argument vector; fault[k] is what fails for the k-th argument.
ExpandArgs(args, env, status, dir, fault) ==
  FoldLeft(Fitting, <<>>, [k \in 1 .. Len(args) |->
                             WordsOf(args[k], env, status, dir, fault[k])])

\* A redirection target is the first match.  If malloc or strdup fails it is
\* NULL: then the redirection is gone.
ExpandWord(word, env, status, dir, fault) ==
  IF word = None \/ fault = "malloc" THEN None
  ELSE LET w == Built(word, env, status, fault)
       IN IF HasGlob(w, dir) THEN Glob(w, dir)[1] ELSE w

\* What may fail in one stage: at most one allocation.
NoFault(cmd) == [args |-> [k \in 1 .. Len(cmd.args) |-> "none"],
                 input |-> "none", output |-> "none"]

Faults(cmd) ==
  {NoFault(cmd)}
  \cup {[NoFault(cmd) EXCEPT !.args[k] = f] :
          k \in 1 .. Len(cmd.args), f \in {"malloc", "realloc", "strdup"}}
  \cup {[NoFault(cmd) EXCEPT !.input = f] : f \in {"malloc", "realloc"}}
  \cup {[NoFault(cmd) EXCEPT !.output = f] : f \in {"malloc", "realloc"}}

ExpandCommand(cmd, env, status, dir, fault) ==
  [cmd EXCEPT
     !.args   = ExpandArgs(@, env, status, dir, fault.args),
     !.input  = ExpandWord(@, env, status, dir, fault.input),
     !.output = ExpandWord(@, env, status, dir, fault.output)]

\* The strings the fields of the stages point to.  expand_pipeline allocates
\* each of them, and free_expansions frees each (free(NULL) does nothing).
Pointers(commands) ==
  UNION {{<<c, "args", k>> : k \in {j \in DOMAIN commands[c].args :
                                      commands[c].args[j] # None}}
         \cup {<<c, field, 0>> : field \in {f \in {"input", "output"} :
                                              commands[c][f] # None}}
           : c \in DOMAIN commands}
=============================================================================

--------------------------- MODULE ReplProperties ---------------------------
(***************************************************************************)
(* What the main loop promises.  The last part states what the repository  *)
(* says and the code does not do.                                          *)
(***************************************************************************)
EXTENDS Repl, Grammar

TypeOK ==
  /\ offset \in 0 .. Len(script) /\ kind \in Kinds
  /\ pc \in {"prompt", "heredoc", "expand", "execute", "wait", "exited",
             "crashed"}
  /\ Range(buf) \subseteq 1 .. Len(script)
  /\ eof \in BOOLEAN /\ should_exit \in BOOLEAN
  /\ Len(commands) <= MAX_COMMANDS
  /\ Len(doc) <= MAX_COMMANDS
  /\ reading \in {0} \cup DOMAIN commands /\ torn \subseteq DOMAIN commands
  /\ history.size \in 0 .. HISTORY_CAPACITY /\ history.next \in Slots
  /\ history.total \in 0 .. MaxTotal
  /\ last_status \in Codes /\ cwd \in DOMAIN Matches
  /\ \A k \in KidIds : kids[k].fate \in AllFates \cup {"none"}
  /\ waited \in KidIds

-----------------------------------------------------------------------------
(* Invariants *)

\* parse_pipeline finds in a line what the grammar says is there, each
\* operator with its own operand, and nothing if that is ill-formed.  The
\* grammar is that of the code where "&" and the limits are concerned; what
\* the documents say of them is stated at the end and does not hold.
ParsesGrammar == ReadsAs(line, ParsePipeline(line))

\* The vector given to exec fits with its NULL, and unless memory runs out
\* it is the beginning of what the words of the line expand to, in order.
ExpandsInOrder ==
  pc = "execute" =>
    \A c \in DOMAIN commands :
      LET words == ParsePipeline(line)[c].args
          all == FlattenSeq([k \in DOMAIN words |->
                   WordsOf(words[k], env, last_status, cwd, "none")])
          n == Len(commands[c].args)
      IN /\ n < MAX_ARGS
         /\ ~faulty => /\ n = Min({Len(all), MAX_ARGS - 1})
                       /\ commands[c].args = SubSeq(all, 1, n)

\* How many lines have been taken when the c-th stage has its here-document:
\* the command line, and of each document its lines and the one that ends it.
Behind(documents) ==
  LET behind[c \in 0 .. Len(documents)] ==
        IF c = 0 THEN 1
        ELSE behind[c - 1] + IF documents[c] = None THEN 0
                             ELSE Len(documents[c]) + 1
  IN behind

\* The lines taken since the command line are the bodies of its
\* here-documents, in the order of the stages: each is followed by the line
\* that is its word, or by the line whose write failed, and holds no such
\* line.  Only the end of the input ends a body without it.
BodiesInOrder ==
  pc \in {"expand", "execute"} =>
    LET behind   == Behind(doc)
        Is(k, c) == script[k] = <<commands[c].delim>>
    IN /\ \A c \in DOMAIN commands : commands[c].delim # None <=> doc[c] # None
       /\ \A c \in {d \in DOMAIN commands : doc[d] # None} :
            /\ doc[c] = SubSeq(taken, behind[c - 1] + 1, behind[c] - 1)
            /\ \A k \in Range(doc[c]) : ~Is(k, c)
            /\ IF behind[c] <= Len(taken) THEN faulty \/ Is(taken[behind[c]], c)
               ELSE eof
       /\ IF eof THEN Len(taken) < behind[Len(doc)]
          ELSE Len(taken) = behind[Len(doc)]

\* Whatever happened to the last line, its here-documents are closed when
\* the next one is read: no descriptor is left open per command.
NoDescriptorLeft == pc = "prompt" => doc = <<>>

\* Expanded strings are freed once, and only they: the parser's pointers
\* into the line are never freed, also when expansion did not happen.
HeapBalanced ==
  /\ pc \in {"prompt", "exited"} => heap = {}
  /\ wild = {}

-----------------------------------------------------------------------------
(* Action properties *)

\* Only a command alone on its line changes the shell: in a pipeline a
\* builtin is a child and cd, export and exit change nothing here.
SubshellIsolated ==
  [][<<env, cwd, should_exit>>' # <<env, cwd, should_exit>> =>
       Cardinality({n \in DOMAIN Segments(line) :
                      ParseCommand(Segments(line)[n]).args # <<>>}) = 1]_vars

-----------------------------------------------------------------------------
(* Refinement *)

\* The history, as history_print lists it, is a log of the command lines
\* with running numbers, of which the last HISTORY_CAPACITY are remembered.
Log == INSTANCE BoundedLog WITH
  Capacity <- HISTORY_CAPACITY,
  Line     <- Lines,
  log      <- HistoryPrint(history),
  count    <- history.total

ImplementsLog == Log!Spec

-----------------------------------------------------------------------------
(* Liveness, under FairSpec *)

\* A session whose input is typed or comes from a pipe ends by leaving the
\* loop, whatever is in it: unfinished here-documents, errors, background
\* programs.  Only where memory may run out can it end in a crash instead,
\* which is a finding of its own (NeverCrashes).
SessionEnds ==
  kind # "file" ~> \/ pc = "exited"
                   \/ faulty /\ pc = "crashed"

-----------------------------------------------------------------------------
(* What the repository says and the code does not do *)

\* executor.c: a child that fails "exits so the failure can't leak back into
\* the shell", which takes each line of its input once, in order.
TakesOnce ==
  [][taken' # taken => taken'[Len(taken')] > highest]_vars

\* expand.c: "OOM -- drop this word rather than crash"; expand.h: "on
\* allocation failure a word may be dropped rather than crashing the shell".
NeverCrashes == pc # "crashed"

ToRun == pc = "execute" /\ ~faulty

\* The last token of the line is an "&" that is nothing's operand.
EndsInMark ==
  LET last == Segments(line)[Len(Segments(line))]
  IN last # <<>> /\ IsMark(last, Len(last))

\* parser.h: background is "1 if the line ended in "&"", and parser.c: an "&"
\* is "only meaningful at the very end": there it counts, and nowhere else.
MarkAtEnd == ToRun => (InBackground(commands) <=> EndsInMark)
=============================================================================

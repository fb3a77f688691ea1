-------------------------------- MODULE Repl --------------------------------
(***************************************************************************)
(* The main loop of main.c with here-documents, history and expansion, and *)
(* the input it shares with the programs it starts.                        *)
(*                                                                         *)
(* The input is an open file description: its offset belongs to the shell  *)
(* and to every child that has not had its input redirected.  The shell    *)
(* reads blocks of lines through stdio and a child is born with a copy of  *)
(* what stdio has read ahead.  A child that ends by exit() (a failed exec  *)
(* or redirection, or a builtin in a pipeline) seeks its standard input    *)
(* back by that amount, as exit() does for any stream that can seek.       *)
(*                                                                         *)
(* Jobs, signals and the wait itself are in JobControl, descriptors of     *)
(* pipes in Pipes: here a pipeline is what its first stage does to the     *)
(* input.                                                                  *)
(***************************************************************************)
EXTENDS Expand, History, FiniteSets

CONSTANTS
  Scripts,     \* inputs considered: sequences of lines
  Kinds,       \* what the input may be: "terminal", "pipe", "file"
  BlockLines,  \* lines one read of a pipe or a file returns at most
  MaxTotal,    \* bound: lines recorded in the history
  MaxKids,     \* bound: pipelines that still hold the input
  Readers,     \* programs that read their standard input
  Missing,     \* commands that cannot be executed
  AssignOf,    \* <<name, value>> of the words that are NAME=VALUE
  Env0, Dir0,  \* environment and directory at the start
  Faulty       \* whether memory, temporary files, open and fork may fail

ASSUME ReplAssumption ==
  /\ \A s \in Scripts : s \in Seq(Seq(STRING))
  /\ Env0 \in [DOMAIN Env0 -> Word] /\ Dir0 \in DOMAIN Matches
  /\ \A w \in DOMAIN VarOf : VarOf[w] \in DOMAIN Env0
  /\ \A w \in DOMAIN AssignOf : AssignOf[w] \in STRING \X STRING
  /\ None \notin Seq(Nat)
  /\ Kinds \subseteq {"terminal", "pipe", "file"}
  /\ BlockLines \in Nat \ {0} /\ MaxTotal \in Nat /\ MaxKids \in Nat \ {0}
  /\ Faulty \subseteq BOOLEAN

VARIABLES
  (* the input *)
  script, kind,   \* chosen at the start
  parsed,         \* what parse_pipeline makes of each line
  faulty,         \* so is whether system calls may fail
  offset,         \* lines before the offset of the description
  (* the shell *)
  pc,
  buf,            \* lines stdio has read ahead
  eof,            \* stdio has seen the end: it stays
  commands,       \* the pipeline, empty outside the loop's body
  doc,            \* here-document of each stage: lines of its file, or None
  reading,        \* the stage whose here-document is being read, or 0
  torn,           \* stages whose file goes on with part of one more line
  heap,           \* strings the pipeline owns
  history, last_status, should_exit, env, cwd,
  (* the children *)
  kids,           \* pipelines whose first stage still has the input
  waited,         \* the one in the foreground
  (* history variables *)
  line,           \* the command line last taken
  taken,          \* lines taken since then
  highest,        \* the furthest line ever taken
  wild            \* pointers freed that were not owned

inputVars == <<script, parsed, kind, faulty>>
ghosts    == <<line, taken, highest, wild>>
children  == <<kids, waited>>
session   == <<history, last_status, should_exit, env, cwd>>
vars == <<inputVars, offset, pc, buf, eof, commands, doc, reading, torn, heap,
          session, children, ghosts>>

KidIds == 1 .. MaxKids
NoKid  == [fate |-> "none", unread |-> 0]

Codes == {-1, 0, 1}

Builtins == {"cd", "exit", "export", "history", "jobs", "fg", "bg", "kill",
             "help"}

Lines == UNION {Range(s) : s \in Scripts}

Interactive == kind = "terminal"

Init ==
  /\ script \in Scripts
  /\ parsed = [k \in DOMAIN script |-> ParsePipeline(script[k])]
  /\ kind \in Kinds /\ faulty \in Faulty
  /\ offset = 0
  /\ pc = "prompt" /\ buf = <<>> /\ eof = FALSE
  /\ commands = <<>> /\ doc = <<>> /\ reading = 0 /\ torn = {}
  /\ heap = {}
  /\ history = HistoryInit /\ last_status = 0 /\ should_exit = FALSE
  /\ env = Env0 /\ cwd = Dir0
  /\ kids = [k \in KidIds |-> NoKid] /\ waited = 1
  /\ line = <<>> /\ taken = <<>> /\ highest = 0
  /\ wild = {}

Alive == pc \notin {"exited", "crashed"}

-----------------------------------------------------------------------------
(* Input: getline on stdin, in the main loop and for here-documents *)

WantsLine == pc = "prompt" \/ (pc = "heredoc" /\ reading # 0)

\* A read fills the empty buffer: one line from a terminal, what the writer
\* has written from a pipe, a block from a file.
Refill ==
  /\ WantsLine /\ buf = <<>> /\ ~eof /\ offset < Len(script)
  /\ LET left == Min({Len(script) - offset, BlockLines})
         counts == CASE kind = "terminal" -> {1}
                     [] kind = "pipe"     -> 1 .. left
                     [] kind = "file"     -> {left}
     IN \E n \in counts :
          /\ buf' = [k \in 1 .. n |-> offset + k]
          /\ offset' = offset + n
  /\ UNCHANGED <<inputVars, pc, eof, commands, doc, reading, torn, heap, session,
                 children, ghosts>>

\* The next line leaves the buffer.
Take(isCommand) ==
  /\ buf # <<>>
  /\ buf' = Tail(buf)
  /\ taken' = IF isCommand THEN <<Head(buf)>> ELSE Append(taken, Head(buf))
  /\ highest' = IF Head(buf) > highest THEN Head(buf) ELSE highest

\* The stream is at its end; glibc remembers it.
AtEnd == buf = <<>> /\ (eof \/ offset = Len(script))

-----------------------------------------------------------------------------
(* The main loop *)

\* Record the line, parse it, go on to its here-documents.  Blank lines and
\* syntax errors come back to the prompt at once.
TakeCommand(strdup) ==
  /\ pc = "prompt" /\ history.total < MaxTotal
  /\ Take(TRUE)
  /\ line' = script[Head(buf)]
  /\ history' = HistoryAdd(history, line', strdup)
  /\ IF parsed[Head(buf)] \in {None, <<>>}
     THEN UNCHANGED <<pc, commands, doc>>
     ELSE /\ pc' = "heredoc"
          /\ commands' = parsed[Head(buf)]
          /\ doc' = [c \in DOMAIN parsed[Head(buf)] |-> None]
  /\ UNCHANGED <<inputVars, offset, eof, reading, torn, heap, last_status,
                 should_exit, env, cwd, children, wild>>

\* End of input: the loop ends, and history and line are freed.
EndOfInput ==
  /\ pc = "prompt" /\ AtEnd
  /\ pc' = "exited"
  /\ history' = HistoryInit
  /\ UNCHANGED <<inputVars, offset, buf, eof, commands, doc, reading, torn, heap,
                 last_status, should_exit, env, cwd, children, ghosts>>

-----------------------------------------------------------------------------
(* collect_heredocs *)

Due == {c \in DOMAIN commands : commands[c].delim # None /\ doc[c] = None}

\* mkstemp, for the first stage that is due.
OpenHeredoc ==
  /\ pc = "heredoc" /\ reading = 0 /\ Due # {}
  /\ reading' = Min(Due)
  /\ doc' = [doc EXCEPT ![Min(Due)] = <<>>]
  /\ UNCHANGED <<inputVars, offset, pc, buf, eof, commands, torn, heap, session,
                 children, ghosts>>

\* Variant: a line that merely mentions the word ends the body.
EndsBodyLoosely(k) ==
  \E j \in DOMAIN script[k] : script[k][j] = commands[reading].delim

\* The line that ends the body is exactly the word.
EndsBody(k) == script[k] = <<commands[reading].delim>>

\* One line: the delimiter, or one more line of the body.
HeredocLine ==
  /\ pc = "heredoc" /\ reading # 0
  /\ Take(FALSE)
  /\ IF EndsBody(Head(buf))
     THEN reading' = 0 /\ UNCHANGED doc
     ELSE /\ doc' = [doc EXCEPT ![reading] = Append(@, Head(buf))]
          /\ UNCHANGED reading
  /\ UNCHANGED <<inputVars, offset, pc, eof, commands, torn, heap, session,
                 children, line, wild>>

\* The write of a line fails: the rest of the body stays in the input.  If it
\* is the newline's write, or all of the line did not fit, there is text of
\* the line in the file.
HeredocWriteFails ==
  /\ faulty
  /\ pc = "heredoc" /\ reading # 0
  /\ Take(FALSE)
  /\ ~EndsBody(Head(buf))
  /\ reading' = 0 /\ torn' \in {torn, torn \cup {reading}}
  /\ UNCHANGED <<inputVars, offset, pc, eof, commands, doc, heap, session,
                 children, line, wild>>

\* Variant: end of input is taken for an empty line.
HeredocAtEndRetries ==
  /\ pc = "heredoc" /\ reading # 0 /\ AtEnd
  /\ eof' = TRUE
  /\ UNCHANGED <<inputVars, offset, pc, buf, commands, doc, reading, torn, heap,
                 session, children, ghosts>>

\* End of input before the delimiter: what there is will do.
HeredocAtEnd ==
  /\ pc = "heredoc" /\ reading # 0 /\ AtEnd
  /\ reading' = 0 /\ eof' = TRUE
  /\ UNCHANGED <<inputVars, offset, pc, buf, commands, doc, torn, heap,
                 session, children, ghosts>>

HeredocsCollected ==
  /\ pc = "heredoc" /\ reading = 0 /\ Due = {}
  /\ pc' = "expand"
  /\ UNCHANGED <<inputVars, offset, buf, eof, commands, doc, reading, torn, heap,
                 session, children, ghosts>>

-----------------------------------------------------------------------------
(* The end of the loop's body *)

\* Variant: the descriptors are closed only after a command was run.
CloseHeredocsIfRun(ran) == doc' = IF ran THEN <<>> ELSE doc

CloseHeredocs(ran) == doc' = <<>>

\* Variant: free_expansions runs even if expand_pipeline did not.
FreeAlways(ran) == Pointers(commands)

ToFree(ran) == IF ran THEN Pointers(commands) ELSE {}

\* free_expansions unless the here-documents failed, close_heredocs, and
\* back to the prompt or, after exit, out of the loop.
EndOfBody(ran) ==
  /\ heap' = heap \ ToFree(ran)
  /\ wild' = wild \cup (ToFree(ran) \ heap)
  /\ CloseHeredocs(ran) /\ torn' = {}
  /\ commands' = <<>>
  /\ pc' = IF should_exit' THEN "exited" ELSE "prompt"
  /\ history' = IF should_exit' THEN HistoryInit ELSE history
  /\ UNCHANGED <<inputVars, buf, eof, reading, line, taken, highest>>

\* mkstemp fails for the first stage that is due: nothing is run.
OpenHeredocFails ==
  /\ faulty
  /\ pc = "heredoc" /\ reading = 0 /\ Due # {}
  /\ UNCHANGED <<offset, last_status, should_exit, env, cwd, children>>
  /\ EndOfBody(FALSE)

-----------------------------------------------------------------------------
(* Expansion and execution *)

Expanded(c, fault) == ExpandCommand(commands[c], env, last_status, cwd, fault)

\* expand_pipeline; at most one of its allocations fails.
ExpandPipeline ==
  /\ pc = "expand"
  /\ \E c \in DOMAIN commands :
       \E fault \in IF faulty THEN Faults(commands[c]) ELSE {NoFault(commands[c])} :
         commands' = [d \in DOMAIN commands |->
                        Expanded(d, IF d = c THEN fault ELSE NoFault(commands[d]))]
  /\ heap' = Pointers(commands')
  /\ pc' = "execute"
  /\ UNCHANGED <<inputVars, offset, buf, eof, doc, reading, torn, session,
                 children, ghosts>>

Arg(cmd, k) == IF k <= Len(cmd.args) THEN cmd.args[k] ELSE None

\* A command whose first word is NULL: is_builtin compares it and crashes.
Nameless(cmd) == Arg(cmd, 1) = None

\* Variant: a builtin at the head of a pipeline runs in the shell.
StandaloneAtHead ==
  ~Nameless(commands[1]) /\ commands[1].args[1] \in Builtins

\* A single builtin runs in the shell whatever "&" and redirections say.
Standalone ==
  Len(commands) = 1 /\ ~Nameless(commands[1])
    /\ commands[1].args[1] \in Builtins

\* What run_builtin does to the shell: status, environment, directory,
\* should_exit.  Those that are not named here leave all but the status alone.
BuiltinResults(cmd) ==
  LET name == Arg(cmd, 1)
      arg  == Arg(cmd, 2)
      Result(status, e, d, x) ==
        [status |-> status, env |-> e, cwd |-> d, exit |-> x]
      Status(status) == Result(status, env, cwd, should_exit)
      dir  == IF arg = None THEN env["HOME"] ELSE arg
  IN CASE name = "cd" ->
            {IF dir \in DOMAIN Matches THEN Result(0, env, dir, should_exit)
                                       ELSE Status(1)}
       [] name = "exit" ->
            {Result(s, env, cwd, TRUE) :
               s \in IF arg = None THEN {last_status} ELSE {0, 1}}
       [] name = "export" ->
            IF arg = None \/ arg \notin DOMAIN AssignOf THEN {Status(1)}
            ELSE {Result(0, [env EXCEPT ![AssignOf[arg][1]] = AssignOf[arg][2]],
                         cwd, should_exit)}
                 \cup (IF faulty THEN {Status(1)} ELSE {})
       [] name \in {"history", "help", "jobs"} -> {Status(0)}
       [] name \in {"fg", "bg", "kill"} -> {Status(s) : s \in {0, 1}}

RunBuiltin ==
  /\ pc = "execute" /\ Standalone
  /\ \E r \in BuiltinResults(commands[1]) :
       /\ last_status' = r.status /\ env' = r.env /\ cwd' = r.cwd
       /\ should_exit' = r.exit
  /\ EndOfBody(TRUE)
  /\ UNCHANGED <<offset, children>>

\* Null pointer in the shell itself.
Crash ==
  /\ pc = "execute" /\ Len(commands) = 1 /\ Nameless(commands[1])
  /\ pc' = "crashed"
  /\ UNCHANGED <<inputVars, offset, buf, eof, commands, doc, reading, torn, heap,
                 session, children, ghosts>>

AllFates == {"apart", "exits", "reads"}

\* What the first stage may do to the input: end by exit() with it, read it,
\* or have none of it.  A here-document wins over "<"; later stages have a
\* pipe.
Fates(cmd, d) ==
  IF Nameless(cmd) \/ d # None THEN {"apart"}
  ELSE IF cmd.input # None
       THEN {"apart"} \cup (IF faulty THEN {"exits"} ELSE {})
  ELSE (IF cmd.args[1] \in Builtins \cup Missing THEN {"exits"}
        ELSE IF cmd.args[1] \in Readers THEN {"reads"} ELSE {"apart"})
       \cup (IF cmd.output # None /\ faulty THEN {"exits"} ELSE {})

ToExecutor ==
  pc = "execute" /\ ~Standalone /\ (Len(commands) = 1 => ~Nameless(commands[1]))

Start(k, fate) ==
  /\ kids[k] = NoKid /\ fate \in Fates(commands[1], doc[1])
  /\ kids' = [kids EXCEPT ![k] = [fate |-> fate, unread |-> Len(buf)]]

\* execute_pipeline: the stages are forked.  A background pipeline leaves
\* the loop's body at once,
ExecuteBackground(k, fate) ==
  /\ ToExecutor /\ InBackground(commands)
  /\ Start(k, fate)
  /\ last_status' = 0
  /\ UNCHANGED <<offset, should_exit, env, cwd, waited>>
  /\ EndOfBody(TRUE)

\* and a foreground pipeline is waited for.
ExecuteForeground(k, fate) ==
  /\ ToExecutor /\ ~InBackground(commands)
  /\ Start(k, fate)
  /\ waited' = k
  /\ pc' = "wait"
  /\ UNCHANGED <<inputVars, offset, buf, eof, commands, doc, reading, torn, heap,
                 session, ghosts>>

WaitDone ==
  /\ pc = "wait" /\ kids[waited] = NoKid
  /\ last_status' \in {0, 1}
  /\ UNCHANGED <<offset, should_exit, env, cwd, children>>
  /\ EndOfBody(TRUE)

\* pipe or fork fails, for the first stage or for a later one.
SpawnFails ==
  /\ faulty /\ ToExecutor
  /\ \/ UNCHANGED kids
     \/ /\ Len(commands) > 1
        /\ \E k \in KidIds, fate \in AllFates : Start(k, fate)
  /\ last_status' = -1
  /\ UNCHANGED <<offset, should_exit, env, cwd, waited>>
  /\ EndOfBody(TRUE)

-----------------------------------------------------------------------------
(* The first stages of the pipelines *)

\* A program takes lines from the input the shell reads.  A background
\* program that reads the terminal is stopped instead.
KidReads(k) ==
  /\ kids[k].fate = "reads" /\ offset < Len(script)
  /\ Interactive => pc = "wait" /\ waited = k
  /\ offset' \in offset + 1 .. Min({Len(script),
                                   offset + (IF Interactive THEN 1 ELSE BlockLines)})
  /\ UNCHANGED <<inputVars, pc, buf, eof, commands, doc, reading, torn, heap,
                 session, children, ghosts>>

KidEnds(k) ==
  /\ kids[k].fate \in {"apart", "reads"}
  /\ kids' = [kids EXCEPT ![k] = NoKid]
  /\ UNCHANGED <<inputVars, offset, pc, buf, eof, commands, doc, reading, torn,
                 heap, session, waited, ghosts>>

\* exit(): if the input can seek, back by what stdio had read ahead.
KidExits(k) ==
  /\ kids[k].fate = "exits"
  /\ kids' = [kids EXCEPT ![k] = NoKid]
  /\ offset' = IF kind = "file" /\ kids[k].unread <= offset
               THEN offset - kids[k].unread ELSE offset
  /\ UNCHANGED <<inputVars, pc, buf, eof, commands, doc, reading, torn, heap,
                 session, waited, ghosts>>

-----------------------------------------------------------------------------
\* The end of the session, or of what is explored.
Terminated ==
  /\ ~Alive \/ history.total = MaxTotal
  /\ UNCHANGED vars

ShellStep ==
  \/ Refill \/ \E strdup \in {TRUE, ~faulty} : TakeCommand(strdup)
  \/ EndOfInput
  \/ OpenHeredoc \/ HeredocLine \/ HeredocAtEnd \/ HeredocsCollected
  \/ HeredocWriteFails \/ OpenHeredocFails
  \/ ExpandPipeline
  \/ RunBuiltin \/ Crash \/ SpawnFails \/ WaitDone
  \/ \E k \in KidIds, fate \in AllFates :
       ExecuteBackground(k, fate) \/ ExecuteForeground(k, fate)

KidStep(k) == KidEnds(k) \/ KidExits(k)

Next ==
  \/ ShellStep
  \/ \E k \in KidIds : KidReads(k) \/ KidStep(k)
  \/ Terminated

Spec == Init /\ [][Next]_vars

\* The shell is scheduled and programs end; they need not read.
FairSpec ==
  /\ Spec
  /\ WF_vars(ShellStep)
  /\ \A k \in KidIds : WF_vars(KidStep(k))
=============================================================================

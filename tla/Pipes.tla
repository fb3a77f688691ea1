-------------------------------- MODULE Pipes --------------------------------
(***************************************************************************)
(* The descriptors of pipelines: spawn_pipeline, exec_child and            *)
(* apply_redirection of executor.c, the pipes of the kernel, and programs  *)
(* that read their standard input and write their standard output.         *)
(*                                                                         *)
(* A pipe has a read end <<q, "r">> and a write end <<q, "w">>.  A reader  *)
(* sees end of file only when nobody holds the write end any more, and a   *)
(* writer gets SIGPIPE only when nobody holds the read end: every copy     *)
(* fork makes must be closed again.  Groups, signals and the job table are *)
(* in JobControl; descriptors 0, 1 and 2 of the shell are open.            *)
(***************************************************************************)
EXTENDS Integers, FiniteSets

CONSTANTS
  Proc,          \* process ids of children
  Pipe,          \* pipes the kernel can create
  None,          \* -1 in prev_read and pipefd
  MaxStages,     \* longest pipeline considered (MAX_COMMANDS is 16)
  Capacity,      \* units of data a pipe holds
  Redirections,  \* combinations of redirections a stage may have
  SpawnMayFail   \* pipe and fork may fail

Elsewhere == {"tty", "file", "heredoc"}   \* what else descriptors refer to

ASSUME PipesAssumption ==
  /\ None \notin Pipe
  /\ Pipe \cap Elsewhere = {}
  /\ MaxStages \in Nat \ {0}
  /\ Capacity \in Nat \ {0}
  /\ Redirections \subseteq [heredoc : BOOLEAN, input : BOOLEAN, output : BOOLEAN]
  /\ SpawnMayFail \in BOOLEAN

VARIABLES
  (* the shell, in spawn_pipeline *)
  pc,
  cmd,        \* number of stages and background flag of the pipeline
  i,          \* loop variable: the stage being started
  prev_read,  \* pipe whose read end feeds stage i
  pipefd,     \* pipe stage i writes to
  own,        \* pipe ends the shell holds
  stages,     \* processes forked for this pipeline
  (* the children *)
  st,         \* life of each process
  mem,        \* its copy of the shell's locals, until exec
  fd0, fd1,   \* what its standard input and output refer to
  raw,        \* pipe ends it holds under other descriptors
  (* the kernel *)
  amount,     \* data in each pipe
  (* history *)
  leaked      \* ends a failed spawn_pipeline left open in the shell

shellVars == <<pc, cmd, i, prev_read, pipefd, own, stages, leaked>>
childVars == <<st, mem, fd0, fd1, raw>>
vars == <<shellVars, childVars, amount>>

End  == Pipe \X {"r", "w"}
PipeOrNone == Pipe \cup {None}

Memory == [prev_read : PipeOrNone, pipefd : PipeOrNone]

NoMemory == [prev_read |-> None, pipefd |-> None]

TypeOK ==
  /\ pc \in {"prompt", "pipe", "fork", "parent", "wait"}
  /\ cmd \in [stages : 1 .. MaxStages, background : BOOLEAN]
  /\ i \in 1 .. MaxStages
  /\ prev_read \in PipeOrNone /\ pipefd \in PipeOrNone
  /\ own \subseteq End /\ leaked \subseteq End
  /\ stages \subseteq Proc
  /\ st \in [Proc -> {"free", "forked", "running"}]
  /\ mem \in [Proc -> Memory]
  /\ fd0 \in [Proc -> Pipe \cup Elsewhere]
  /\ fd1 \in [Proc -> Pipe \cup Elsewhere]
  /\ raw \in [Proc -> SUBSET End]
  /\ amount \in [Pipe -> 0 .. Capacity]

Init ==
  /\ pc = "prompt" /\ cmd = [stages |-> 1, background |-> FALSE] /\ i = 1
  /\ prev_read = None /\ pipefd = None
  /\ own = {} /\ leaked = {} /\ stages = {}
  /\ st = [p \in Proc |-> "free"]
  /\ mem = [p \in Proc |-> NoMemory]
  /\ fd0 = [p \in Proc |-> "tty"]
  /\ fd1 = [p \in Proc |-> "tty"]
  /\ raw = [p \in Proc |-> {}]
  /\ amount = [q \in Pipe |-> 0]

-----------------------------------------------------------------------------
(* Who holds what *)

Live(p) == st[p] # "free"

ReadsPipe(p, q)  == Live(p) /\ (fd0[p] = q \/ <<q, "r">> \in raw[p])
WritesPipe(p, q) == Live(p) /\ (fd1[p] = q \/ <<q, "w">> \in raw[p])

HasReader(q) == <<q, "r">> \in own \/ \E p \in Proc : ReadsPipe(p, q)
HasWriter(q) == <<q, "w">> \in own \/ \E p \in Proc : WritesPipe(p, q)

-----------------------------------------------------------------------------
(* The shell *)

\* Variant: the last stage is taken to be number n.
IsLastLate == i > cmd.stages

IsLast == i = cmd.stages

ExecutePipeline(n, b) ==
  /\ pc = "prompt"
  /\ cmd' = [stages |-> n, background |-> b]
  /\ pc' = "pipe"
  /\ UNCHANGED <<i, prev_read, pipefd, own, stages, leaked, childVars, amount>>

\* Every stage but the last gets a new pipe to write to.
MakePipe(q) ==
  /\ pc = "pipe" /\ ~IsLast
  /\ ~HasReader(q) /\ ~HasWriter(q)
  /\ pipefd' = q
  /\ own' = own \cup {<<q, "r">>, <<q, "w">>}
  /\ amount' = [amount EXCEPT ![q] = 0]
  /\ pc' = "fork"
  /\ UNCHANGED <<cmd, i, prev_read, stages, leaked, childVars>>

NoPipe ==
  /\ pc = "pipe" /\ IsLast
  /\ pipefd' = None
  /\ pc' = "fork"
  /\ UNCHANGED <<cmd, i, prev_read, own, stages, leaked, childVars, amount>>

\* The locals of spawn_pipeline end with it.
ForgetLocals ==
  /\ cmd' = [stages |-> 1, background |-> FALSE]
  /\ i' = 1 /\ prev_read' = None /\ pipefd' = None

\* pipe or fork fails: spawn_pipeline returns -1, and its locals, the only
\* record of the descriptors, are gone.
SpawnFails ==
  /\ SpawnMayFail
  /\ pc = "fork" \/ (pc = "pipe" /\ ~IsLast)
  /\ leaked' = own
  /\ pc' = "prompt" /\ stages' = {}
  /\ ForgetLocals
  /\ UNCHANGED <<own, childVars, amount>>

\* The child has a copy of every descriptor and of the shell's locals.
Fork(p) ==
  /\ pc = "fork" /\ st[p] = "free"
  /\ st' = [st EXCEPT ![p] = "forked"]
  /\ mem' = [mem EXCEPT ![p] = [prev_read |-> prev_read, pipefd |-> pipefd]]
  /\ fd0' = [fd0 EXCEPT ![p] = "tty"]
  /\ fd1' = [fd1 EXCEPT ![p] = "tty"]
  /\ raw' = [raw EXCEPT ![p] = own]
  /\ stages' = stages \cup {p}
  /\ pc' = "parent"
  /\ UNCHANGED <<cmd, i, prev_read, pipefd, own, leaked, amount>>

\* Variants: the parent keeps the write end, or the previous read end.
ParentDropsRead  == {<<prev_read, "r">>}
ParentDropsWrite == {<<pipefd, "w">>}

\* What the parent closes after each fork.
ParentDrops == {<<prev_read, "r">>, <<pipefd, "w">>}

\* Then it goes on to the next stage, or returns: a foreground pipeline is
\* waited for, a background one becomes a job.
ParentCloses ==
  /\ pc = "parent"
  /\ own' = own \ ParentDrops
  /\ \/ /\ ~IsLast
        /\ i' = i + 1 /\ prev_read' = pipefd /\ pipefd' = None
        /\ pc' = "pipe"
        /\ UNCHANGED <<cmd, stages>>
     \/ /\ IsLast
        /\ ForgetLocals
        /\ IF cmd.background
             THEN pc' = "prompt" /\ stages' = {}
             ELSE pc' = "wait" /\ UNCHANGED stages
  /\ UNCHANGED <<leaked, childVars, amount>>

\* The foreground wait ends when no stage is left.
WaitDone ==
  /\ pc = "wait"
  /\ \A p \in stages : ~Live(p)
  /\ pc' = "prompt" /\ stages' = {}
  /\ UNCHANGED <<cmd, i, prev_read, pipefd, own, leaked, childVars, amount>>

-----------------------------------------------------------------------------
(* The children *)

\* Variant: the child keeps the upstream read end.
ChildDropsPipe(m) == {<<m.pipefd, "r">>, <<m.pipefd, "w">>}

\* The raw ends a child closes once dup2 has copied what it needs.
ChildDrops(m) == {<<m.prev_read, "r">>, <<m.pipefd, "r">>, <<m.pipefd, "w">>}

\* A here-document wins over "< file", and both over the pipe.
Stdin(m, redir) ==
  IF redir.heredoc THEN "heredoc"
  ELSE IF redir.input THEN "file"
  ELSE IF m.prev_read # None THEN m.prev_read ELSE "tty"

Stdout(m, redir) ==
  IF redir.output THEN "file" ELSE IF m.pipefd # None THEN m.pipefd ELSE "tty"

\* The child wires stdin to the upstream pipe and stdout to its own, closes
\* the raw descriptors, redirects, and runs its program.
ExecChild(p, redir) ==
  /\ st[p] = "forked"
  /\ fd0' = [fd0 EXCEPT ![p] = Stdin(mem[p], redir)]
  /\ fd1' = [fd1 EXCEPT ![p] = Stdout(mem[p], redir)]
  /\ raw' = [raw EXCEPT ![p] = @ \ ChildDrops(mem[p])]
  /\ mem' = [mem EXCEPT ![p] = NoMemory]
  /\ st' = [st EXCEPT ![p] = "running"]
  /\ UNCHANGED <<shellVars, amount>>

\* The kernel closes whatever a process has open when it ends.  A zombie
\* holds no descriptor, so its process id counts as free at once.
Ends(p) ==
  /\ st' = [st EXCEPT ![p] = "free"]
  /\ mem' = [mem EXCEPT ![p] = NoMemory]
  /\ fd0' = [fd0 EXCEPT ![p] = "tty"]
  /\ fd1' = [fd1 EXCEPT ![p] = "tty"]
  /\ raw' = [raw EXCEPT ![p] = {}]

\* A redirection or exec fails, or the program has had enough.
Exit(p) ==
  /\ Live(p)
  /\ Ends(p)
  /\ UNCHANGED <<shellVars, amount>>

\* A program whose input is no pipe produces data as it likes,
Put(p) ==
  /\ st[p] = "running" /\ fd0[p] \in Elsewhere
  /\ \E q \in Pipe :
       /\ fd1[p] = q /\ HasReader(q) /\ amount[q] < Capacity
       /\ amount' = [amount EXCEPT ![q] = @ + 1]
  /\ UNCHANGED <<shellVars, childVars>>

\* and one whose input is a pipe is a filter: a full output blocks it.
Copy(p) ==
  /\ st[p] = "running"
  /\ \E q \in Pipe :
       /\ fd0[p] = q /\ amount[q] > 0
       /\ IF fd1[p] \in Pipe
            THEN /\ HasReader(fd1[p]) /\ amount[fd1[p]] < Capacity
                 /\ amount' = [amount EXCEPT ![q] = @ - 1, ![fd1[p]] = @ + 1]
            ELSE amount' = [amount EXCEPT ![q] = @ - 1]
  /\ UNCHANGED <<shellVars, childVars>>

\* End of the input: of a pipe, when nobody can write to it any more.
AtEof(p) ==
  /\ st[p] = "running"
  /\ \/ fd0[p] \in {"file", "heredoc"}
     \/ \E q \in Pipe : fd0[p] = q /\ amount[q] = 0 /\ ~HasWriter(q)
  /\ Ends(p)
  /\ UNCHANGED <<shellVars, amount>>

\* SIGPIPE: the program writes and nobody can read any more.
BrokenPipe(p) ==
  /\ st[p] = "running"
  /\ \E q \in Pipe : fd1[p] = q /\ ~HasReader(q)
  /\ fd0[p] \in Pipe => amount[fd0[p]] > 0
  /\ Ends(p)
  /\ UNCHANGED <<shellVars, amount>>

-----------------------------------------------------------------------------
ShellStep ==
  \/ NoPipe \/ ParentCloses \/ WaitDone
  \/ \E q \in Pipe : MakePipe(q)
  \/ \E p \in Proc : Fork(p)

ChildStep(p) == \E redir \in Redirections : ExecChild(p, redir)

Filters(p) == Copy(p) \/ AtEof(p) \/ BrokenPipe(p)

Next ==
  \/ \E n \in 1 .. MaxStages, b \in BOOLEAN : ExecutePipeline(n, b)
  \/ ShellStep \/ SpawnFails
  \/ \E p \in Proc : ChildStep(p) \/ Filters(p) \/ Put(p) \/ Exit(p)

Spec == Init /\ [][Next]_vars

\* The shell and the children are scheduled, and programs are filters: they
\* go on reading to the end of their input and writing what they read.
FairSpec ==
  /\ Spec
  /\ WF_vars(ShellStep)
  /\ \A p \in Proc : WF_vars(ChildStep(p)) /\ WF_vars(Filters(p))

-----------------------------------------------------------------------------
(* Properties *)

\* A program runs with no pipe end but its standard input and output (and
\* what an earlier failed spawn left in the shell for all later children).
NoStrayEnds == \A p \in Proc : st[p] = "running" => raw[p] \subseteq leaked

\* A pipe joins two stages: one process can write it, and of those past
\* their dup2s one can read it, which is not the writer.  So the end of that
\* one process is end of file for the other, or SIGPIPE.
PipeJoinsTwo ==
  \A q \in Pipe, p1, p2 \in Proc : leaked \cap {<<q, "r">>, <<q, "w">>} = {} =>
    /\ WritesPipe(p1, q) /\ WritesPipe(p2, q) => p1 = p2
    /\ ReadsPipe(p1, q) /\ ReadsPipe(p2, q) =>
         p1 = p2 \/ "forked" \in {st[p1], st[p2]}
    /\ ReadsPipe(p1, q) /\ WritesPipe(p1, q) => st[p1] = "forked"

\* Outside spawn_pipeline the shell holds no pipe end, unless a spawn failed.
ShellLetsGo == pc \in {"prompt", "wait"} => own = leaked

\* The shell holds the write end of a pipe only until the stage that writes
\* to it is forked: the stage that reads it never inherits it.
NoInheritedWriter ==
  \A p \in Proc : st[p] = "forked" =>
    <<mem[p].prev_read, "w">> \notin raw[p] \cup own

\* Once no stage of the foreground pipeline reads the terminal, the end of
\* each stage ends its neighbours and the prompt returns, whatever earlier
\* pipelines left behind.
PipelineEnds ==
  (pc = "wait" /\ \A p \in stages : Live(p) => fd0[p] # "tty") ~> pc = "prompt"

\* executor.c: "close every pipe fd you don't use, in BOTH child and parent".
GoldenRule == pc = "prompt" => own = {}
=============================================================================

----------------------------- MODULE PipesProofs -----------------------------
(***************************************************************************)
(* The safety properties of Pipes, proved for any number of processes,     *)
(* pipes and stages.                                                       *)
(***************************************************************************)
EXTENDS Pipes, TLAPS

\* Who is, or after its dup2s will be, at either end of a pipe.
Reader(p, q) == \/ st[p] = "forked" /\ mem[p].prev_read = q
                \/ st[p] = "running" /\ fd0[p] = q
Writer(p, q) == \/ st[p] = "forked" /\ mem[p].pipefd = q
                \/ st[p] = "running" /\ fd1[p] = q

Held(r, w) == {<<r, "r">>, <<w, "r">>, <<w, "w">>} \cap End

\* The locals of spawn_pipeline name two different pipes, and none a failed
\* spawn left open; only the last stage has no pipe to write to.
LocalsOK ==
  /\ pc \in {"prompt", "wait"} => prev_read = None /\ pipefd = None
  /\ pc = "pipe" => pipefd = None
  /\ pc \in {"fork", "parent"} => (pipefd = None <=> IsLast)
  /\ prev_read # None => prev_read # pipefd
  /\ \A e \in leaked : e[1] \notin {prev_read, pipefd}
  /\ i <= cmd.stages
  /\ pc \in {"prompt", "wait"} => i = 1

\* The shell holds what its locals name and what failed spawns left.
OwnOK == own = leaked \cup Held(prev_read, pipefd)

\* A forked child holds what its copy of the locals names, and a running one
\* at most what failed spawns left.  The stage before it writes its input:
\* the write end is not in its hands.
KidOK(p) ==
  /\ st[p] = "free" => raw[p] = {}
  /\ st[p] = "forked" =>
       /\ fd0[p] = "tty" /\ fd1[p] = "tty"
       /\ raw[p] \subseteq leaked \cup Held(mem[p].prev_read, mem[p].pipefd)
       /\ Held(mem[p].prev_read, mem[p].pipefd) \subseteq raw[p]
       /\ mem[p].prev_read # None => mem[p].prev_read # mem[p].pipefd
       /\ <<mem[p].prev_read, "w">> \notin raw[p] \cup own
  /\ st[p] = "running" =>
       /\ raw[p] \subseteq leaked
       /\ fd0[p] \in Pipe => fd0[p] # fd1[p]

\* Each pipe has one reader and one writer at most, and none yet while the
\* shell still has to fork it.
EndsOK ==
  /\ \A p1, p2 \in Proc, q \in Pipe :
       /\ Reader(p1, q) /\ Reader(p2, q) => p1 = p2
       /\ Writer(p1, q) /\ Writer(p2, q) => p1 = p2
  /\ \A p \in Proc :
       /\ pipefd \in Pipe => ~Reader(p, pipefd)
       /\ pc = "fork" /\ pipefd \in Pipe => ~Writer(p, pipefd)
       /\ pc \in {"pipe", "fork"} /\ prev_read \in Pipe => ~Reader(p, prev_read)

Inv ==
  /\ TypeOK /\ LocalsOK /\ OwnOK
  /\ \A p \in Proc : KidOK(p)
  /\ EndsOK

-----------------------------------------------------------------------------
\* A forked child holds the ends its copy of the locals names.
LEMMA ForkedHolds ==
  ASSUME NEW p \in Proc, NEW q \in Pipe, KidOK(p), st[p] = "forked"
  PROVE  /\ mem[p].prev_read = q => <<q, "r">> \in raw[p]
         /\ mem[p].pipefd = q => <<q, "r">> \in raw[p] /\ <<q, "w">> \in raw[p]
<1>1. <<q, "r">> \in End /\ <<q, "w">> \in End
  BY DEF End
<1>2. Held(mem[p].prev_read, mem[p].pipefd) \subseteq raw[p]
  BY DEF KidOK
<1> QED BY <1>1, <1>2 DEF Held

\* Starting a pipeline touches no descriptor.
LEMMA ExecutePipelineInv ==
  ASSUME Inv, NEW n \in 1 .. MaxStages, NEW b \in BOOLEAN, ExecutePipeline(n, b)
  PROVE  Inv'
<1> USE PipesAssumption DEF Inv, ExecutePipeline, childVars
<1>1. TypeOK'
  BY DEF TypeOK
<1>2. LocalsOK'
  BY DEF LocalsOK, TypeOK
<1>3. OwnOK'
  BY DEF OwnOK, Held
<1>4. (\A p \in Proc : KidOK(p))'
  BY DEF KidOK, Held
<1>5. EndsOK'
  BY DEF EndsOK, Reader, Writer, LocalsOK
<1> QED BY <1>1, <1>2, <1>3, <1>4, <1>5

\* A new pipe is one nobody had an end of.
LEMMA MakePipeInv ==
  ASSUME Inv, NEW q \in Pipe, MakePipe(q)
  PROVE  Inv'
<1> USE PipesAssumption DEF Inv, MakePipe, childVars
<1>1. TypeOK'
  BY DEF TypeOK, End, PipeOrNone
<1>2. <<q, "r">> \notin own /\ <<q, "w">> \notin own
  BY DEF HasReader, HasWriter
<1>3. \A e \in leaked : e[1] # q
  BY <1>2 DEF OwnOK, TypeOK, End
<1>4. prev_read # q
  BY <1>2 DEF OwnOK, Held, End
<1>5. LocalsOK'
  BY <1>3, <1>4 DEF LocalsOK, IsLast
<1>6. OwnOK'
  <2>1. own = leaked \cup ({<<prev_read, "r">>} \cap End)
    BY DEF OwnOK, Held, LocalsOK, End
  <2> QED BY <2>1 DEF OwnOK, Held, End
<1>7. ASSUME NEW p \in Proc PROVE KidOK(p)'
  <2>1. ASSUME st[p] = "forked", mem[p].prev_read = q PROVE FALSE
    <3>1. <<q, "r">> \in raw[p]
      BY <2>1, ForkedHolds
    <3> QED BY <2>1, <3>1 DEF HasReader, ReadsPipe, Live
  <2> QED BY <2>1 DEF KidOK, Held
<1>8. ASSUME NEW p \in Proc PROVE ~Reader(p, q) /\ ~Writer(p, q)
  <2>1. st[p] = "forked" => /\ mem[p].prev_read = q => <<q, "r">> \in raw[p]
                            /\ mem[p].pipefd = q => <<q, "w">> \in raw[p]
    BY ForkedHolds
  <2> QED BY <2>1 DEF HasReader, HasWriter, ReadsPipe, WritesPipe, Live,
                      Reader, Writer
<1>9. EndsOK'
  BY <1>8 DEF EndsOK, Reader, Writer
<1> QED BY <1>1, <1>5, <1>6, <1>7, <1>9

\* The last stage has no pipe of its own.
LEMMA NoPipeInv ==
  ASSUME Inv, NoPipe
  PROVE  Inv'
<1> USE PipesAssumption DEF Inv, NoPipe, childVars
<1>1. TypeOK'
  BY DEF TypeOK, PipeOrNone
<1>2. LocalsOK'
  BY DEF LocalsOK, IsLast
<1>3. OwnOK'
  BY DEF OwnOK, Held, LocalsOK
<1>4. (\A p \in Proc : KidOK(p))'
  BY DEF KidOK, Held
<1>5. EndsOK'
  BY DEF EndsOK, Reader, Writer
<1> QED BY <1>1, <1>2, <1>3, <1>4, <1>5

\* When spawn_pipeline gives up, what its locals named is what it leaks.
LEMMA SpawnFailsInv ==
  ASSUME Inv, SpawnFails
  PROVE  Inv'
<1> USE PipesAssumption DEF Inv, SpawnFails, ForgetLocals, childVars
<1>1. TypeOK'
  BY DEF TypeOK, PipeOrNone
<1>2. LocalsOK'
  BY DEF LocalsOK, TypeOK, End
<1>3. OwnOK'
  BY DEF OwnOK, Held, End
<1>4. ASSUME NEW p \in Proc PROVE KidOK(p)'
  BY DEF KidOK, OwnOK, Held
<1>5. EndsOK'
  BY DEF EndsOK, Reader, Writer
<1> QED BY <1>1, <1>2, <1>3, <1>4, <1>5

\* The child's copy of the locals names what it inherits, and it is the only
\* one that reads or writes what they name.
LEMMA ForkInv ==
  ASSUME Inv, NEW p \in Proc, Fork(p)
  PROVE  Inv'
<1> USE PipesAssumption DEF Inv, Fork
<1>1. TypeOK'
  BY DEF TypeOK, Memory, Elsewhere
<1>2. LocalsOK'
  BY DEF LocalsOK, IsLast
<1>3. OwnOK'
  BY DEF OwnOK
<1>4. ASSUME NEW x \in Proc PROVE KidOK(x)'
  <2>1. CASE x = p
    <3>1. st'[p] = "forked" /\ raw'[p] = own /\ fd0'[p] = "tty" /\ fd1'[p] = "tty"
          /\ mem'[p] = [prev_read |-> prev_read, pipefd |-> pipefd]
      BY DEF TypeOK
    <3>2. <<prev_read, "w">> \notin own
      BY DEF OwnOK, LocalsOK, Held, TypeOK, End
    <3> QED BY <2>1, <3>1, <3>2 DEF KidOK, OwnOK, LocalsOK
  <2>2. CASE x # p
    BY <2>2 DEF KidOK, TypeOK
  <2> QED BY <2>1, <2>2
<1>5. \A x \in Proc : /\ mem'[x] = IF x = p
                            THEN [prev_read |-> prev_read, pipefd |-> pipefd] ELSE mem[x]
                      /\ st'[x] = IF x = p THEN "forked" ELSE st[x]
                      /\ x # p => fd0'[x] = fd0[x] /\ fd1'[x] = fd1[x]
  BY DEF TypeOK
<1>6. \A x \in Proc : x # p => \A q \in Pipe : /\ Reader(x, q)' <=> Reader(x, q)
                                               /\ Writer(x, q)' <=> Writer(x, q)
  BY <1>5 DEF Reader, Writer
<1>7. \A q \in Pipe : /\ Reader(p, q)' => q = prev_read
                      /\ Writer(p, q)' => q = pipefd
  BY <1>5 DEF Reader, Writer
<1>8. EndsOK'
  BY <1>6, <1>7 DEF EndsOK, LocalsOK
<1> QED BY <1>1, <1>2, <1>3, <1>4, <1>8

\* The parent keeps of each pipe the read end, for the next stage.
LEMMA ParentClosesInv ==
  ASSUME Inv, ParentCloses
  PROVE  Inv'
<1> USE PipesAssumption DEF Inv, ParentCloses, ForgetLocals, childVars
<1>1. TypeOK'
  <2>1. /\ i \in 1 .. MaxStages /\ cmd.stages \in 1 .. MaxStages /\ MaxStages \in Nat
        /\ i <= cmd.stages /\ MaxStages # 0
    BY DEF TypeOK, LocalsOK
  <2>3. i' \in 1 .. MaxStages /\ cmd' \in [stages : 1 .. MaxStages, background : BOOLEAN]
    <3>1. CASE IsLast
      <4>1. i' = 1 /\ cmd' = [stages |-> 1, background |-> FALSE]
        BY <3>1
      <4>2. 1 \in 1 .. MaxStages
        BY <2>1
      <4> QED BY <4>1, <4>2
    <3>2. CASE ~IsLast
      <4>1. i' = i + 1 /\ cmd' = cmd
        BY <3>2
      <4>2. i < cmd.stages
        BY <2>1, <3>2 DEF IsLast
      <4>3. i + 1 \in 1 .. MaxStages
        BY <2>1, <4>2
      <4> QED BY <4>1, <4>3 DEF TypeOK
    <3> QED BY <3>1, <3>2
  <2>2. /\ prev_read' \in PipeOrNone /\ pipefd' \in PipeOrNone
        /\ own' \subseteq End /\ stages' \subseteq Proc
        /\ pc' \in {"prompt", "pipe", "fork", "parent", "wait"}
    BY DEF TypeOK, PipeOrNone
  <2> QED BY <2>2, <2>3 DEF TypeOK
<1>2. LocalsOK'
  BY DEF LocalsOK, TypeOK, IsLast, End
<1>3. OwnOK'
  <2>1. leaked \cap ParentDrops = {}
    BY DEF LocalsOK, ParentDrops
  <2>2. own \ ParentDrops = leaked \cup ({<<pipefd, "r">>} \cap End)
    BY <2>1 DEF OwnOK, Held, ParentDrops, LocalsOK, End
  <2> QED BY <2>2 DEF OwnOK, Held, End, LocalsOK
<1>4. (\A p \in Proc : KidOK(p))'
  BY DEF KidOK
<1>5. EndsOK'
  BY DEF EndsOK, Reader, Writer
<1> QED BY <1>1, <1>2, <1>3, <1>4, <1>5

\* The wait touches no descriptor.
LEMMA WaitDoneInv ==
  ASSUME Inv, WaitDone
  PROVE  Inv'
<1> USE PipesAssumption DEF Inv, WaitDone, childVars
<1>1. TypeOK'
  BY DEF TypeOK
<1>2. LocalsOK'
  BY DEF LocalsOK
<1>3. OwnOK'
  BY DEF OwnOK
<1>4. (\A p \in Proc : KidOK(p))'
  BY DEF KidOK
<1>5. EndsOK'
  BY DEF EndsOK, Reader, Writer
<1> QED BY <1>1, <1>2, <1>3, <1>4, <1>5

\* A child moves what its locals name to its input and output.
LEMMA ExecChildInv ==
  ASSUME Inv, NEW p \in Proc, NEW redir \in Redirections, ExecChild(p, redir)
  PROVE  Inv'
<1> USE PipesAssumption DEF Inv, ExecChild, shellVars
<1>1. st[p] = "forked" /\ mem[p] \in Memory
  BY DEF TypeOK
<1>2. /\ Stdin(mem[p], redir) \in Elsewhere \cup ({mem[p].prev_read} \cap Pipe)
      /\ Stdout(mem[p], redir) \in Elsewhere \cup ({mem[p].pipefd} \cap Pipe)
  BY <1>1 DEF Stdin, Stdout, Memory, PipeOrNone, Elsewhere
<1>3. TypeOK'
  <2>1. NoMemory \in Memory
    BY DEF NoMemory, Memory, PipeOrNone
  <2> QED BY <1>2, <2>1 DEF TypeOK
<1>4. LocalsOK' /\ OwnOK'
  BY DEF LocalsOK, OwnOK, IsLast
<1>5. ASSUME NEW x \in Proc PROVE KidOK(x)'
  <2>1. CASE x = p
    <3>1. /\ st'[p] = "running" /\ raw'[p] = raw[p] \ ChildDrops(mem[p])
          /\ fd0'[p] = Stdin(mem[p], redir) /\ fd1'[p] = Stdout(mem[p], redir)
      BY DEF TypeOK
    <3>2. raw'[p] \subseteq leaked
      BY <1>1, <3>1 DEF KidOK, Held, ChildDrops
    <3>3. fd0'[p] \in Pipe => fd0'[p] # fd1'[p]
      BY <1>1, <1>2, <3>1 DEF KidOK
    <3> QED BY <2>1, <3>1, <3>2, <3>3 DEF KidOK
  <2>2. CASE x # p
    BY <2>2 DEF KidOK, TypeOK
  <2> QED BY <2>1, <2>2
<1>6. ASSUME NEW x \in Proc, NEW q \in Pipe
      PROVE  (Reader(x, q)' => Reader(x, q)) /\ (Writer(x, q)' => Writer(x, q))
  BY <1>1, <1>2 DEF Reader, Writer, TypeOK
<1>7. EndsOK'
  BY <1>6 DEF EndsOK
<1> QED BY <1>3, <1>4, <1>5, <1>7

\* A process that ends holds nothing.
LEMMA EndsInv ==
  ASSUME Inv, NEW p \in Proc, Ends(p), UNCHANGED <<shellVars, amount>>
  PROVE  Inv'
<1> USE PipesAssumption DEF Inv, Ends, shellVars
<1>1. TypeOK'
  BY DEF TypeOK, NoMemory, Memory, PipeOrNone, Elsewhere
<1>2. LocalsOK' /\ OwnOK'
  BY DEF LocalsOK, OwnOK, IsLast
<1>3. ASSUME NEW x \in Proc PROVE KidOK(x)'
  <2>1. CASE x = p
    BY <2>1 DEF KidOK, TypeOK
  <2>2. CASE x # p
    BY <2>2 DEF KidOK, TypeOK
  <2> QED BY <2>1, <2>2
<1>4. ASSUME NEW x \in Proc, NEW q \in Pipe
      PROVE  (Reader(x, q)' => Reader(x, q)) /\ (Writer(x, q)' => Writer(x, q))
  BY DEF Reader, Writer, TypeOK
<1>5. EndsOK'
  BY <1>4 DEF EndsOK
<1> QED BY <1>1, <1>2, <1>3, <1>5

\* Data moves through the pipes and changes nothing else.
LEMMA DataInv ==
  ASSUME Inv, NEW p \in Proc, Put(p) \/ Copy(p)
  PROVE  Inv'
<1> USE PipesAssumption DEF Inv, shellVars, childVars
<1>1. UNCHANGED <<shellVars, childVars>>
  BY DEF Put, Copy
<1>2. amount' \in [Pipe -> 0 .. Capacity]
  <2>1. CASE Put(p)
    BY <2>1 DEF Put, TypeOK
  <2>2. CASE Copy(p)
    <3>1. PICK q \in Pipe :
            /\ fd0[p] = q /\ amount[q] > 0
            /\ IF fd1[p] \in Pipe
                 THEN /\ amount[fd1[p]] < Capacity
                      /\ amount' = [amount EXCEPT ![q] = @ - 1, ![fd1[p]] = @ + 1]
                 ELSE amount' = [amount EXCEPT ![q] = @ - 1]
      BY <2>2 DEF Copy
    <3>2. q # fd1[p]
      BY <2>2, <3>1 DEF Copy, KidOK
    <3> QED BY <3>1, <3>2 DEF TypeOK
  <2> QED BY <2>1, <2>2
<1>3. TypeOK'
  BY <1>1, <1>2 DEF TypeOK
<1>4. LocalsOK' /\ OwnOK'
  BY <1>1 DEF LocalsOK, OwnOK, IsLast
<1>5. (\A x \in Proc : KidOK(x))'
  BY <1>1 DEF KidOK
<1>6. EndsOK'
  BY <1>1 DEF EndsOK, Reader, Writer
<1> QED BY <1>3, <1>4, <1>5, <1>6

\* The invariant of the descriptors, for every number of processes, pipes
\* and stages, with or without failures of pipe and fork.
THEOREM DescriptorInvariant == Spec => []Inv
<1>1. ASSUME Init PROVE Inv
  <2> USE PipesAssumption, <1>1 DEF Init
  <2>1. TypeOK
    BY DEF TypeOK, NoMemory, Memory, PipeOrNone, Elsewhere
  <2>2. LocalsOK /\ OwnOK
    BY DEF LocalsOK, OwnOK, Held, End
  <2>3. \A p \in Proc : KidOK(p)
    BY DEF KidOK
  <2>4. EndsOK
    BY DEF EndsOK, Reader, Writer
  <2> QED BY <2>1, <2>2, <2>3, <2>4 DEF Inv
<1>2. ASSUME Inv, [Next]_vars PROVE Inv'
  <2>1. CASE UNCHANGED vars
    <3> USE <1>2, <2>1 DEF vars, shellVars, childVars, Inv
    <3>1. TypeOK'
      BY DEF TypeOK
    <3>2. LocalsOK' /\ OwnOK'
      BY DEF LocalsOK, IsLast, OwnOK
    <3>3. (\A p \in Proc : KidOK(p))'
      BY DEF KidOK
    <3>4. EndsOK'
      BY DEF EndsOK, Reader, Writer
    <3> QED BY <3>1, <3>2, <3>3, <3>4
  <2>2. CASE \E n \in 1 .. MaxStages, b \in BOOLEAN : ExecutePipeline(n, b)
    BY <1>2, <2>2, ExecutePipelineInv
  <2>3. CASE ShellStep
    BY <1>2, <2>3, NoPipeInv, ParentClosesInv, WaitDoneInv, MakePipeInv, ForkInv
       DEF ShellStep
  <2>4. CASE SpawnFails
    BY <1>2, <2>4, SpawnFailsInv
  <2>5. ASSUME NEW p \in Proc, ChildStep(p) \/ Filters(p) \/ Put(p) \/ Exit(p)
        PROVE  Inv'
    <3>1. CASE ChildStep(p)
      BY <1>2, <3>1, ExecChildInv DEF ChildStep
    <3>2. CASE Copy(p) \/ Put(p)
      BY <1>2, <3>2, DataInv
    <3>3. CASE AtEof(p) \/ BrokenPipe(p) \/ Exit(p)
      BY <1>2, <3>3, EndsInv DEF AtEof, BrokenPipe, Exit
    <3> QED BY <2>5, <3>1, <3>2, <3>3 DEF Filters
  <2> QED BY <1>2, <2>1, <2>2, <2>3, <2>4, <2>5 DEF Next
<1> QED BY <1>1, <1>2, PTL DEF Spec

\* Every variable keeps its type: no pipe ever holds more than Capacity, and none
\* is read when it is empty.
THEOREM TypeCorrect == Spec => []TypeOK
<1>1. Inv => TypeOK
  BY DEF Inv
<1> QED BY <1>1, DescriptorInvariant, PTL

\* No program runs with a pipe end besides its input and output, but for
\* those that failed spawns left in the shell.
THEOREM NothingStray == Spec => []NoStrayEnds
<1>1. Inv => NoStrayEnds
  BY DEF Inv, KidOK, NoStrayEnds
<1> QED BY <1>1, DescriptorInvariant, PTL

\* Outside spawn_pipeline the shell itself holds no pipe end, but for what
\* failed spawns left: a reader it waits for can see the end of its input.
THEOREM ShellKeepsNothing == Spec => []ShellLetsGo
<1>1. Inv => ShellLetsGo
  BY PipesAssumption DEF Inv, LocalsOK, OwnOK, Held, End, ShellLetsGo
<1> QED BY <1>1, DescriptorInvariant, PTL

\* The stage that reads a pipe never inherits its write end, however fork
\* and the parent's close interleave with the other stages.
THEOREM ReaderInheritsNoWriter == Spec => []NoInheritedWriter
<1>1. Inv => NoInheritedWriter
  BY DEF Inv, KidOK, NoInheritedWriter
<1> QED BY <1>1, DescriptorInvariant, PTL

\* A pipe joins two stages: at either end there is one process, or one that
\* has not come to its dup2s yet.
THEOREM TwoStagesPerPipe == Spec => []PipeJoinsTwo
<1>1. ASSUME Inv PROVE PipeJoinsTwo
  <2> SUFFICES ASSUME NEW q \in Pipe, leaked \cap {<<q, "r">>, <<q, "w">>} = {}
               PROVE  \A p1, p2 \in Proc :
                        /\ WritesPipe(p1, q) /\ WritesPipe(p2, q) => p1 = p2
                        /\ ReadsPipe(p1, q) /\ ReadsPipe(p2, q) =>
                             p1 = p2 \/ "forked" \in {st[p1], st[p2]}
                        /\ ReadsPipe(p1, q) /\ WritesPipe(p1, q) => st[p1] = "forked"
    BY DEF PipeJoinsTwo
  <2> USE <1>1, PipesAssumption DEF Inv
  <2>1. ASSUME NEW p \in Proc, Live(p) PROVE st[p] \in {"forked", "running"}
    BY <2>1 DEF Live, TypeOK
  <2>2. ASSUME NEW p \in Proc, WritesPipe(p, q) PROVE Writer(p, q)
    <3>1. CASE st[p] = "forked"
      <4>1. <<q, "w">> \in raw[p]
        BY <2>2, <3>1 DEF WritesPipe, KidOK, Elsewhere
      <4> QED BY <3>1, <4>1 DEF KidOK, Held, Writer
    <3>2. CASE st[p] = "running"
      BY <2>2, <3>2 DEF WritesPipe, KidOK, Writer
    <3> QED BY <2>1, <2>2, <3>1, <3>2 DEF WritesPipe
  <2>3. ASSUME NEW p \in Proc, ReadsPipe(p, q), st[p] # "forked"
        PROVE  st[p] = "running" /\ fd0[p] = q /\ Reader(p, q)
    BY <2>1, <2>3 DEF ReadsPipe, KidOK, Reader
  <2>4. ASSUME NEW p1 \in Proc, NEW p2 \in Proc, WritesPipe(p1, q), WritesPipe(p2, q)
        PROVE  p1 = p2
    BY <2>2, <2>4 DEF EndsOK
  <2>5. ASSUME NEW p1 \in Proc, NEW p2 \in Proc, ReadsPipe(p1, q), ReadsPipe(p2, q),
               st[p1] # "forked", st[p2] # "forked"
        PROVE  p1 = p2
    BY <2>3, <2>5 DEF EndsOK
  <2>6. ASSUME NEW p \in Proc, ReadsPipe(p, q), WritesPipe(p, q), st[p] # "forked"
        PROVE  FALSE
    <3>1. st[p] = "running" /\ fd0[p] = q
      BY <2>3, <2>6
    <3>2. fd1[p] = q
      BY <2>2, <2>6, <3>1 DEF Writer
    <3> QED BY <3>1, <3>2 DEF KidOK
  <2> QED BY <2>4, <2>5, <2>6
<1> QED BY <1>1, DescriptorInvariant, PTL
=============================================================================

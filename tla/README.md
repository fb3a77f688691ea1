# Verification of mysh

mysh is a small Unix shell in C (`src/src/`, about 2000 lines): pipelines,
redirections, here-documents, expansion, history and job control. This
directory holds TLA+ models of it, the TLC configurations that check them, and
theorems about them that TLAPS proves. Paths such as `executor.c:260` are
relative to `src/src/`.

## 1. Inventory

The program is one process with one thread. Its concurrency comes from outside
and from a signal handler: child processes run, die and stop whenever they
like, the terminal sends signals to whole process groups, `sigchld_handler`
interrupts the shell's code at every point where SIGCHLD is not blocked, and
children share with the shell what `fork` shares: the ends of pipes and the
offset of the input.

| component | state it keeps | operations | interacts with |
|---|---|---|---|
| job table, `jobs.c` | `slots[MAX_JOBS]` (`in_use`, `job_id`, `pid`, `state`), `next_id` | init, add, mark_done, find_by_id/pid, remove_by_pid, print, notify_completed, clear_done | shared by the shell's code and the handler, with SIGCHLD blocked on the shell's side |
| executor, `executor.c` | the `pids[]` of a pipeline, `prev_read` and `pipefd`, the pgid waited for, the last status | execute_pipeline, spawn_pipeline, exec_child, apply_redirection, wait_foreground_group | kernel (fork, pipe, dup2, setpgid, tcsetpgrp, waitpid), job table, signals, builtins |
| signals, `signals.c` | signal mask and dispositions, `g_jobs` | install, block, unblock, sigchld_handler, reset in the child | job table (from the handler) |
| builtins, `builtins.c` | none | jobs, fg, bg, kill, exit, cd, export, history, help | job table, wait_foreground_group, kill(2), history, environment, directory |
| main loop, `main.c` | line buffer, `$?`, should_exit | notify, prompt, getline, history, parse, here-documents, expand, execute, clean up | everything |
| history, `history.c` | ring of entries, size, next, total | init, add, print, free | main loop, builtin history |
| parser, `parser.c` | none (fills `pipeline_t` with slices of the line) | segments, operators, limits, `&` | main loop |
| expansion, `expand.c` | the strings it allocates, owned by the pipeline until free_expansions | `$VAR`, `${VAR}`, `$?`, glob | main loop, environment, directory |
| here-documents, `heredoc.c` | one anonymous file per stage with `<<` | collect_heredocs, close_heredocs | main loop, executor, the input stream |

**Which behaviour is hard.**

* A child may die between any two instructions of the shell: before it is in the
  table, before it is in its group, while the shell waits for it, while `fg`
  looks at it. The handler and the foreground wait compete for its status.
* SIGCHLD does not queue; one delivery may stand for many deaths.
* A foreground wait ends at the first member that stops. The rest of the group
  may be running, stopping or dead, and some of them may have been collected.
* The table knows a job by its first stage only, and learns of stops only in the
  foreground (`SA_NOCLDSTOP`, no `WUNTRACED` in the handler).
* The terminal's foreground group must follow the command that runs, on every
  path, including stops and early deaths.
* A pipe reports end of file only when *every* copy of its write end is closed,
  and each fork makes copies of what the parent then holds.
* The input is shared: the shell reads it in blocks ahead of the programs it
  starts, here-documents take lines out of it, and `exit()` in a child seeks it.
* Fixed limits: 64 jobs, 16 stages, 64 arguments, a ring of history entries; and
  every one of malloc, mkstemp, pipe, fork and open may fail half way.

**What makes each component correct.**

* Job table: ids and groups stay unique while slots are reused; a job is Done
  only when its leader is gone; a Stopped job is never taken for finished; it
  leaves the table only after the user was told or the foreground wait ended.
* Signals: no zombie is left without a handler on its way, and SIGCHLD is
  unblocked on every way back to the prompt; the handler takes no foreground
  children.
* Executor: the group is complete before it is used; the wait collects every
  stage itself, returns at a stop, and never waits for what cannot be reported
  again; the terminal comes back; each pipe joins two stages and no third process
  holds an end of it, so that the end of one stage ends its neighbours.
* Builtins: `fg` and `bg` resume the whole job and leave the table in agreement;
  a job that `fg` resumes owns the terminal before it can read;
  a builtin changes the shell only when it is alone on its line.
* History: a numbered log of the last lines, across the wrap of the ring.
* Parser: the stages are what the line's grammar says, within the limits.
* Expansion: the argument vector is a prefix of what the words become, in order,
  with room for its NULL; each string is freed once, and nothing else is.
* Here-documents: each body goes to its stage, the command after it is read as a
  command, and no descriptor is left open whatever fails.
* Main loop: whatever a line does, the shell is back at its prompt with nothing
  left of it, and the session ends when its input does.

`PROJECT.json` lists the components with their status, and the hazards with the
properties that cover each.

## 2. Modules

Three state machines model the program from three sides, because no property
needs all of their state at once.

* **`JobControl`**: processes, groups, signals, the terminal and the job table.
  A command is its number of stages and its `&`.
* **`Pipes`**: descriptors and data of pipelines, several alive at a time.
* **`Repl`**: the main loop over whole input texts, which composes the parser,
  expansion, history and here-documents, and what children do to the shared
  input.

| module | what it holds |
|---|---|
| `Jobs` | the table as a value and each function of `jobs.c` as an operator on it |
| `JobControl` | shell, handler, kernel and programs as one state machine |
| `JobControlProperties` | its invariants, action and liveness properties, the refinement mapping, and the documented claims the code does not meet |
| `JobLifecycle` | abstract specification: which job numbers are listed, in which state, and how that may change |
| `MCJobControl` | the module TLC runs: `JobControlProperties` and a symmetry set |
| `Pipes`, `MCPipes` | spawn_pipeline's descriptors, the children's, and the pipes, with their properties; the instance |
| `Parser` | parse_command and parse_pipeline over abstract tokens, as folds |
| `Grammar` | what a line means, by the positions of its tokens and without a parser |
| `Expand` | expand_pipeline over abstract words, allocation failures included, and what free_expansions owns |
| `History` | the ring as a value |
| `BoundedLog` | abstract specification: a numbered log that remembers its last entries |
| `Repl`, `ReplProperties`, `MCRepl` | the main loop; its properties; the instance |
| `Induction` | induction over numbers and folds as facts about sets, counting in sets of positions |
| `JobControlProofs` | proofs about the operators of `Jobs`, and about JobControl: first layer: types, signal mask, spawn protocol; second layer: which groups the table, the history and the shell know of |
| `ForegroundProofs` | third layer: the foreground command, its terminal and its statuses; resuming |
| `LifecycleProofs` | the table's history: action properties, the refinement of `JobLifecycle`, stale jobs |
| `PipesProofs` | proofs about `Pipes` |
| `LineTheorems` | proofs about `Parser` and `Expand`, for every line and every size of the vectors |
| `ReplProofs` | proofs about the ring and the main loop: the refinement of `BoundedLog`, the session's invariant, what is parsed, expanded and freed |
| `HeredocProofs` | proofs about the bodies of here-documents |

### JobControl and the code

Variables of the shell:

| variable | in the code |
|---|---|
| `pc` | the place in the code, between two system calls that others can observe |
| `blocked` | SIGCHLD is in the mask (`block_sigchld` .. `unblock_sigchld`) |
| `handling` | control is inside `sigchld_handler` |
| `table` | `state->jobs`, which is also `*g_jobs` |
| `cmd`, `pids` | the pipeline under execution and `spawn_pipeline`'s array |
| `pgid`, `result` | the argument and `last_status` of `wait_foreground_group`, or the target of `kill` |

Variables of the kernel: `st`, `grp`, `pend`, `ws` of each process (life, group,
pending signals, what waitpid would report), `chld` (SIGCHLD pending for the
shell), `tty` (the terminal's foreground group). History variables, read by
properties only: `untracked`, `shown`, `collected`.

The labels of `pc` follow the code: `prompt` (report Done jobs), `read`
(getline and dispatch), `fork`, `setpgid`, `add` (background), `give`, `wait`,
`reclaim` (foreground), `resume` (fg after tcsetpgrp), `kill` (`kill %id` after
the unblock), `exited`, `killed`.

One action is the code between two such points, with all its calls: for example
`PromptNotify` prints and frees the Done jobs, `AddJob` is `jobs_add`, the
unblock and the return, and `WaitStopped` is one return of waitpid with
`WIFSTOPPED`, the find, the state change or `jobs_add`, and the return.

The handler may enter wherever SIGCHLD is pending and not blocked. Since
`sigprocmask` delivers a pending signal before it returns, and a pending signal
is delivered at the latest on the next return to user code, the shell's actions
wait until the handler has run (`Ready`). Each round of the handler's loop is an
action, so children may die while it runs. Code blocks that run under the block
and contain no system call observable by others are atomic.

The kernel part models what the shell relies on: a child joins its group by its
own `setpgid` and by the parent's, whichever comes first; between fork and exec
it still ignores what the shell ignores; SIGCONT acts when it is generated, wakes
the stopped members and discards pending stops; a death leaves a zombie and
raises SIGCHLD; a stop raises none (`SA_NOCLDSTOP`) but waitpid with `WUNTRACED`
reports it once; reading the terminal from another group stops the reader's
group with SIGTTIN.

### Pipes and the code

`pc`, `cmd`, `i`, `prev_read` and `pipefd` are spawn_pipeline's place, arguments
and locals; `own` is the set of pipe ends the shell has open and `stages` the
children of this pipeline. Of each child, `mem` is its copy of the two locals,
`fd0` and `fd1` what its standard descriptors refer to, and `raw` the pipe ends
it holds under other numbers. `amount` is the data in each pipe; `leaked`
(history) is what a failed spawn left open in the shell.

`MakePipe`/`NoPipe`, `Fork`, `ParentCloses` are the three parts of one round of
spawn_pipeline's loop; `ExecChild` is a child's dup2s, closes and redirections
up to exec, at any time after its fork; `SpawnFails` is the early return when
pipe or fork fails. A program writes (`Put`), copies input to output (`Copy`), ends
at the end of its input (`AtEof`), dies of SIGPIPE (`BrokenPipe`), or stops at
any time of its own (`Exit`). Whether a reader sees end of file and a writer
SIGPIPE is decided by who holds the ends, `HasWriter` and `HasReader`, never by
the model.

### Repl and the code

`script` is the text of the input, a sequence of lines, and `kind` says whether it is
a terminal, a pipe or a file; `offset` is that of the open file description,
`buf` and `eof` are stdio's. `commands` is `pipeline_t`, `doc` the here-document
files, `reading` the stage whose body is being read, `torn` the stages whose
file goes on with part of one more line (a line and its newline are two writes,
and the second may fail), `heap` the strings expand_pipeline owns. `history`, `last_status`, `should_exit`, `env` and `cwd` are
the shell's own state. `kids` are pipelines whose first stage has the input, each
with what it will do with it (`fate`) and how much stdio had read ahead when it
was forked (`unread`). `line`, `taken`, `highest` and `wild` are history
variables. `parsed` is the parse of every line of the script, computed once:
parsing depends on nothing else.

`Refill` is one read of stdio; `TakeCommand` is getline, history_add,
parse_pipeline and the two early `continue`s; `OpenHeredoc`, `HeredocLine`,
`HeredocAtEnd` and their failing forms are collect_heredocs; then
`ExpandPipeline`; then one of `RunBuiltin`, `ExecuteBackground`,
`ExecuteForeground` with `WaitDone`, or `SpawnFails`. All of these end in
`EndOfBody`: free_expansions (unless here-documents failed), close_heredocs,
and the loop's test of should_exit. `KidReads`, `KidEnds` and `KidExits` are what
a first stage does to the shared input; the last is `exit()`, which seeks a
seekable input back by what stdio had read ahead and not used.

`Parser`, `Expand` and `History` are values and operators; their loops are folds.

### Abstractions

JobControl:

* Commands are the number of stages and the `&`; labels, words and redirections
  are left out. `OtherLine` stands for every line that leaves jobs alone.
* `$?` is kept only as the result of the foreground wait.
* SIGQUIT is treated like SIGINT: it has the same default action here.
* Process ids are not reused: each fork takes a fresh one, and `ExecutePipeline`
  is enabled only while enough are free. A table entry for a dead group could,
  with reuse, refer to a stranger; that is not explored.
* `kill -1`, `kill` of other users' processes, and programs that call setpgid or
  tcsetpgrp themselves (nested shells) are left out.
* `fg`, `bg`, `jobs` and `kill` as stages of a pipeline are plain programs here.
  What they do to the child's copy of the table dies with the child. What they
  do to the kernel's state does not: the signals they send reach the real groups,
  and of those the ones other sessions may send (`ExternalKill`,
  `ExternalContinue`) stand for them; that an `fg` in a child moves the terminal
  is left out.
* That a read goes on after the handler ran is the kernel's promise for
  SA_RESTART and taken over: `HandlerReturn` goes back to where `pc` was.
* `exit` leaves children alone; nothing is said about them afterwards.

Pipes:

* A child's set-up between fork and exec is one action. It touches only the
  child's own descriptors, and only what it closes can be observed.
* A zombie holds no descriptor, so a process id is free again at its death.
* Data is counted, not written out; a filter moves one unit at a time.
* A stage's redirections are chosen when it execs; an open that fails is `Exit`.

Repl:

* Words and tokens are model values: how characters form a token, and a variable
  in the middle of a word, are left out. A pattern is a word that `Matches`
  knows, a reference a word of `VarOf`.
* Lines have one length, and a read returns whole lines: what is left of a line
  that straddles stdio's block is left out. Offsets then count lines.
* Of a pipeline only the first stage can touch the input (later ones have a
  pipe); the status of a program is 0 or 1.
* A word that could not grow lacks characters or its NUL, because nobody looks
  at what sb_putc returns. What it then is stands for itself as one other word,
  `Garbled`; that a string without its NUL is undefined behaviour is not followed.
* At most one allocation fails per pipeline, and memory, mkstemp, write, open,
  pipe and fork fail only in the sessions chosen `faulty`.

## 3. Runs

Signals appear by number: 2 SIGINT, 9 SIGKILL, 18 SIGCONT, 20 SIGTSTP.

| run | instance | what it shows |
|---|---|---|
| `single` | 4 processes, 2 slots, single commands, terminal, Ctrl+C and Ctrl+Z | types; unique ids and groups; every death of a listed job is noticed; Done lines are shown once and no job vanishes unannounced; the terminal's owner |
| `pipeline` | 3 processes, 2 slots, up to 2 stages, 2 exit codes | leaders tracked; group formed; the foreground status comes from the wait's own children; no silent hang; resuming resumes all; `JobControl` implements `JobLifecycle` |
| `rough` | as `pipeline`, plus background reads of the terminal, SIGKILL and SIGCONT from other sessions | stopped jobs can be resumed, zombies have a SIGCHLD, Done means collected, leaders tracked and no silent hang, all in an unfriendly environment; a job that `fg` resumes is not refused the terminal |
| `liveness` | 2 processes, 2 stages, rough environment, fair shell | the prompt returns; zombies are collected |
| `pipes` | 3 processes, 2 pipes of capacity 1, pipelines of up to 3 stages, several at a time, plain and fully redirected stages, pipe and fork may fail | types; programs run with no stray end; a pipe joins two stages; the shell lets go of every end; a reader never inherits its own writer; a foreground pipeline ends when its input does |
| `repl` | every line of up to 3 tokens over `\|` `&` `<<` `<` `>` `cat` `*` as a session of its own, and 13 sessions of several lines; terminal, pipe and file; with failures and without | types; the parser meets the grammar; arguments expand in order and fit; bodies go to their stages; nothing is leaked or freed twice; builtins in pipelines are isolated; the history implements `BoundedLog`; sessions end by leaving the loop, unless memory runs out |

A shell without a terminal has no run of its own in JobControl: the two
properties that matter most there, `ListedJobAlive` (nothing can stop a program,
so `NoStops` holds) and `ForegroundStatus`, are proved for it with any number of
stages and whatever other sessions send (section 6).

Section 4 lists the runs whose property is violated. Deadlock is checked in all
runs: a shell that is alive can always take a step or is waiting for one of its
programs. A shell that ended may stop (`Terminated`).

**Bounds.** *JobControl.* Two slots and three or four processes give a full
table, reuse of a slot, two jobs at once with a third command, a job that stops
when the table is full, and several zombies behind one SIGCHLD. Two stages are
enough to separate the leader of a group from its other members, which is all
the code does with a stage's position there. *Pipes.* Three stages give a first,
a middle and a last one, the three cases of the loop; two pipes are as many as
one pipeline has, and are reused by the next while a background pipeline or a
leak still holds one; capacity 1 makes every pipe fill up. *Repl.* `MAX_ARGS` 4,
`MAX_COMMANDS` 2 and `HISTORY_CAPACITY` 2 put every limit within reach of the
lines considered: vectors fill up in the middle of a line and of a pattern,
stages are dropped, the ring wraps. `BlockLines` 3 lets the shell read ahead of
its children, `MaxKids` 2 lets a background program and a foreground one share
the input. `MaxTotal` 7 bounds the lines recorded, and is reached only by
sessions that would read their input again for ever. Processes are
interchangeable, so TLC uses a symmetry set in the JobControl runs without
liveness. The theorems of section 6 remove the bounds for the properties they
name.

**Fairness.** JobControl's `FairSpec` assumes weak fairness of the shell's own
steps (`ShellStep`) and of the handler (`Handler`): the kernel schedules a
runnable process. It assumes nothing of programs or of the user: a program may
run forever, and no command need ever be typed. `PromptReturns` therefore says
only that a foreground job of which nothing runs any more gives the prompt back
(or starts to run again), and `ZombiesReaped` that a child that is dead while the
shell is at its prompt is collected, which a command that left SIGCHLD blocked
would prevent. In Pipes the shell and the children's set-up are
scheduled and programs are filters: they go on reading to the end of their input
and writing what they read. That is an assumption on programs; under it
`PipelineEnds` says that the shell's descriptors are no obstacle. In Repl the
shell is scheduled and programs end, but need not read; `SessionEnds` is stated for
a terminal and a pipe, since with a file the code can read lines again (run
`replay`). A session in which memory runs out may also end in a crash, against
what the code's comments say (run `crash`); no other session may.

## 4. Where documents and code disagree

Each of these runs checks one property that restates a comment or document, and
TLC finds a behaviour of the model that violates it. `PROJECT.json`, "findings",
quotes the text.

| run | claim | what happens |
|---|---|---|
| `last_stage_status` | a pipeline returns the last stage's status | it returns that of the stage collected last |
| `stuck_running` | the block prevents jobs that are Running for ever | stop a pipeline whose first stage is already collected, `bg` it: when it ends no pid matches |
| `pipe_leak` | every pipe descriptor not used is closed, in child and parent | when the fork of the first stage fails after its pipe was made, spawn_pipeline returns without closing `pipefd`; at a later stage `prev_read` stays open as well |
| `replay` | a failed child exits, so that the failure cannot leak back into the shell | its `exit()` seeks the shared input: a script given as a file has lines executed twice |
| `crash` | without memory a word is dropped rather than crashing the shell | if it was the first word of a single command, is_builtin compares NULL in the shell |
| `mark` | a line is a background line if it ended in `&`; the mark has a meaning only there | `& *` and `sleep 5 & 6` run in the background; `sleep 5 \| &` runs in the foreground, since a segment without arguments is dropped with its mark, and so does a line whose `&` lies beyond `MAX_COMMANDS` |

Seen while modelling and part of the models, without a run of their own; the
first six are at odds with what a comment or document says as well:

* A foreground program that reads the terminal before the parent's tcsetpgrp is
  stopped by SIGTTIN, although the terminal is handed over so that the job "may
  read stdin" (executor.c:356).
* Done is the death of a background pipeline's first stage; the others may live
  on, in no table. concept_walkthrough.md:720 says the last stage is tracked.
* Ctrl+Z on a foreground job when the table is full stops it and records
  nothing, and the user sees job -1; concept_walkthrough.md:812 says a stop is
  recorded.
* A Stopped job that is killed is collected and stays listed as Stopped, although
  "the reaper marks the job done" (builtins.c:194): jobs_mark_done flags Running
  jobs only. That is also what keeps `fg` from waiting for a stop that was
  collected already (`NoSilentHang`).
* A stage keeps its last `<<` only, and a stage without arguments is dropped with
  its `<<`: the other bodies are run as commands, although heredoc.c:4 reads a
  body "for each `<< WORD`".
* Stages beyond `MAX_COMMANDS` are dropped without a word; README.md:40 has
  "pipes of arbitrary length".
* Stages started before a failed fork, and background pipelines that find the
  table full, run on in no table (`untracked`).
* Stops in the background are unknown to the table: the first `fg` of such a
  job sends no SIGCONT and comes back with "Stopped".
* `kill %id` of a stopped job leaves SIGTERM pending until it is resumed; `kill`
  with a word that is no number sends SIGTERM to group 0, which is the shell
  itself (`KillOwnGroup`). There are no options: `kill -9 pid` signals process
  group 9, and `pid` is not looked at.
* Without memory for the first word of a stage of a longer pipeline it is the
  child that compares NULL.
* Arguments beyond `MAX_ARGS` are dropped, and an `&` behind them; `&` is ignored
  for a builtin that stands alone. `Grammar` follows the code in what `&` and the
  limits mean, so `ParsesGrammar` says nothing against the run `mark`.
* After a failed mkstemp the whole body, after a failed write the rest of it,
  stays in the input and is run as commands; the lines up to the one whose write
  failed are what the stage reads (`BodiesInOrder` says so).
* `$?` keeps its value over a syntax error.

## 5. Mutants

Each property of a passing run is paired with a bug it would find. Operators
introduced in the models as "a variant" are such bugs: put in the place of the
definition they precede or follow, TLC must find the property violated. They are
reachable from no specification.

| variant | bug |
|---|---|
| `JobsInitZeroed` | jobs_init forgets that ids start at 1 |
| `JobsAddByCount` | ids by number of jobs, so they repeat |
| `AnyRunningSlots` for `RunningSlots` | mark_done forgets to compare the pid |
| `SlotsOfPid` for `RunningSlots` | mark_done forgets to ask for JOB_RUNNING |
| `JobsClearNothing`, `JobsClearNotRunning` | reported jobs stay; stopped jobs are cleared too |
| `TcSetPgrpNotBack` | the shell does not take the terminal back |
| `ContinueLeader` | kill(pgid) in place of kill(-pgid) |
| `BlockNothing` | SIGCHLD is not blocked in critical sections |
| `NoParentSetpgid` | only the child calls setpgid |
| `OneRound` for `Drained` | waitpid once per SIGCHLD |
| `ReturnBlocked` | a command leaves SIGCHLD blocked |
| `FgStartResumes` | fg sends SIGCONT before it has given the terminal |
| `IsLastLate` | the last stage is taken to be number n, and gets a pipe |
| `ChildDropsPipe` | the child keeps the raw upstream read end |
| `ParentDropsRead`, `ParentDropsWrite` | the parent keeps the write end, or the previous read end |
| `NextSlotBeyond`, `OldestIsFirst` | the history's cursor does not wrap; the oldest entry is taken to be in slot 0 |
| `ParseTokenMarkFirst` | `&` is recognised where an operand is due |
| `FittingAll` | only the outer loop of expansion looks at the vector's size |
| `EndsBodyLoosely` | a line that mentions the word ends a body |
| `CloseHeredocsIfRun` | here-documents are closed only after a command was run |
| `FreeAlways` | free_expansions also when expansion did not happen |
| `StandaloneAtHead` | a builtin at the head of a pipeline runs in the shell |
| `HeredocAtEndRetries` | end of input inside a body is not noticed |

## 6. Theorems

TLAPS proves the following for every value of the constants that meets the
modules' assumptions (`JobsAssumption`, `ControlAssumption`, `PipesAssumption`,
`ParserAssumption`, `NoneAssumption`, `ExpandAssumption`, `LiteralAssumption`,
`HistoryAssumption`, `ReplAssumption`:
sizes are positive, vectors have room for a word and the NULL behind it, markers
such as "free slot" and NULL are none of the values they stand beside, exit
codes are bytes, signals are those the models know, a word that is a pattern is
not a reference to a variable, and every variable a word may refer to is in the
environment, set or not).
`LiteralAssumption` says that four string literals are strings, which holds in
TLA+ and which the provers do not know. TLC evaluates each assumption in a run. In particular the theorems hold for every number of processes,
slots, stages, pipes and lines, with or without a terminal, background reads and
signals of other sessions. Two carry a hypothesis of their own, written in the
theorem.

| theorem | property | meaning |
|---|---|---|
| `JobControlProofs!TypeCorrect` | `TypeOK` | every variable of JobControl keeps its type |
| `JobsUnique` | `UniqueJobs` | ids and groups are unique |
| `DoneIsReaped` | `DoneMeansReaped` | Done only after the leader was collected |
| `NoForgottenZombie` | `ZombiePending` | a zombie has a SIGCHLD on its way |
| `StoppedIsResumable` | `StoppedResumable` | a collected stop is recorded, or the group was given up |
| `NoHang` | `NoSilentHang` | the foreground wait does not wait for a collected stop |
| `LeadersTracked` | `LeaderTracked` | no living group leader is lost sight of |
| `GroupsFormed` | `GroupFormed` | the group is complete before it is entered, given the terminal or waited for |
| `TerminalOwned` | `TerminalOwner` | the terminal is the shell's at the prompt, and the job's while it is waited for |
| `StatusIsAStages` | `ForegroundStatus` | the wait collects every stage itself and returns the status of one |
| `ResumedReads` | `ResumedMayRead` | a job that fg resumes is not refused the terminal before its wait is over |
| `ResumedRuns` | `RunningJobRuns` | if no program reads the terminal (`NoReads`), no member of a Running job is stopped outside the foreground |
| `DoneShownOnce` | `ShownOnce` | a job reported Done is not listed again |
| `NothingLostSilently` | `NoSilentLoss` | a job leaves the table only when reported, or when its wait ended |
| `LifecycleImplemented` | `ImplementsLifecycle` | `JobControl` implements `JobLifecycle` |
| `NoStaleJob` | `ListedJobAlive` | if nothing can stop a program (`NoStops`), the end of a listed job's leader never goes unnoticed |
| `PipesProofs!TypeCorrect` | `TypeOK` | every variable of Pipes keeps its type; no pipe overflows |
| `NothingStray` | `NoStrayEnds` | programs hold no pipe end but their standard descriptors, save leaked ones |
| `ShellKeepsNothing` | `ShellLetsGo` | at the prompt and in the wait the shell holds only what failed spawns left |
| `ReaderInheritsNoWriter` | `NoInheritedWriter` | the reading stage is forked after the shell closed the write end |
| `TwoStagesPerPipe` | `PipeJoinsTwo` | a pipe has one writer and one reader |
| `StoreAppends` | | storing in the ring appends to what history_print lists and drops the oldest when full |
| `HistoryIsLog` | `ImplementsLog` | the main loop's history implements `BoundedLog` |
| `NothingLeft` | `HeapBalanced` | every string is freed once, and nothing else is |
| `NothingOpen` | `NoDescriptorLeft` | every here-document is closed when the line is done or given up |
| `ParseCommandDescribes` | | parse_command fails exactly on a segment that ends in an operator, and delivers what the grammar finds in any other |
| `LineReadsAs` | | parse_pipeline delivers what the grammar finds in the line |
| `PipelineType`, `OneStageOneCommand` | | stages fit and have a name; one stage means one command on the line |
| `ExpandArgsBeginning` | | truncating word by word yields the beginning of all words together |
| `TypeInvariant` | `ReplProperties!TypeOK` | every variable of Repl keeps its type |
| `Parses` | `ParsesGrammar` | every line is parsed as the grammar says |
| `Expands` | `ExpandsInOrder` | argument vectors fit and hold the beginning of the expanded words |
| `Isolated` | `SubshellIsolated` | only a command alone on its line changes directory, environment or should_exit |
| `Bodied` | `BodiesInOrder` | the lines taken for a command are the bodies of its here-documents, in order |

`Invariant`, `FrontInvariant`, `DescriptorInvariant`, `RingInvariant`,
`SessionInvariant` and the step `BodiesStep` carry the inductive invariants these
follow from. Every invariant and every action property of a passing run is a
theorem; the liveness properties are not (below).

**JobControl, the argument.** The invariant is a conjunction of layers; each is
preserved by every step that starts in it and in the layers below.

*Shape* (`JobControlProofs`, first part): types; SIGCHLD is blocked exactly in the critical
sections and no handler runs there (`MaskOK`); what waitpid would report fits the
life of the process, which is what makes `StatusToCode` a number (`StatusOK`);
only the child just forked may still be in the shell's group (`SpawnOK`, needed
because both parent and child call setpgid); fg resumes a listed job and every
wait is for a group of a child (`ResumeOK`, which relies on the block: the
handler cannot take the job away between lookup and wait).

*Knowledge* (same module): none of the safety properties is inductive by
itself. `StoppedResumable` needs to know that the group resumed is the one the
table lists, hence `UniqueJobs`; uniqueness at `jobs_add` needs to know that the
pipeline being started is not listed yet and not given up (`KnownOK`);
`NoSilentHang` needs to know that the group waited for is neither marked Stopped
nor given up (`WaitOK`); `LeaderTracked` at the end of a foreground command
needs that the wait recorded the group or saw it empty (the last part of
`WaitOK`). Steps of programs, keys and other sessions are treated together: they
are `Quiet`, which is all the layer asks of them. The handler's step is where
the block matters: it runs only outside the critical sections, so `WaitOK` and
`KnownOK` say nothing there that it could break.

*Front* (`ForegroundProofs`): `GroupFormed`, `TerminalOwner` and
`ForegroundStatus` are about the pipeline in hand. They need that a group is
named after a process that was forked (`GroupsKnown`: a pipeline opens an empty
group), that its members are stages and all stages but the newest have joined it
(`StagesOK`), and that each stage either exists or was collected by the wait
(`CollectedOK`). The last is where a handler that took a foreground child would
break the proof. Every step that is not the shell's own is `Calm`: nobody is
born, nobody disappears in a critical section, and only the newest stage changes
its group.

*Resumed* (same module, under `NoReads`): a stopped process, or one with a stop
pending, is in no Running job outside the foreground. Ctrl+Z reaches the group of
the terminal, which is in the foreground by `TerminalOK`; `fg` and `bg` clear the
stops of the whole group in the step that marks the job Running; and the wait
leaves the job Stopped or, with no member left, unlisted, which uses that the
group has one slot. `ResumedReads` needs no such hypothesis: from tcsetpgrp to the
end of the wait the terminal's group is the job's (`FrontOK`), so a read of one of its
stages is no background read. The hypothesis of `ResumedRuns` is needed: a background job that reads the
terminal is stopped by SIGTTIN, of which the table does not learn.

*Lifecycle* (`LifecycleProofs`): every step changes the table in one of five ways
(`TableChange`: not at all, Done jobs reported and cleared, one job moved, one entered, one
finished by the wait). The refinement and the two action properties follow from
that case distinction and the layers below. `NoStaleJob` adds the invariant
`Unstopped`: without stops the waits never give up, so every listed job
is led by an existing process of its own group, and the handler that collects
the leader marks it in the same round.

The module begins with the facts on the table operators the steps cite: each yields
a table, `jobs_add` fills a slot that was free, a mark touches one job, clearing
removes exactly the Done jobs, removing a group leaves no slot of it. `MinSlot`
(a scan that has something to find finds it) rests on `LeastNatural` of
`Induction`.

**Pipes, the argument.** `DescriptorInvariant` says what every end in the system
is: what the shell holds is what `prev_read` and `pipefd` name and what failed
spawns left; a forked child holds what its copy of the two locals names; of each
pipe there is at most one future reader and one future writer. The order of the
parent's closes and the next pipe() is what keeps the parts in step.

**History, the argument.** `RingInvariant` relates cursor, size and total.
`StoreAppends` is then arithmetic modulo the capacity, done by cases on whether
the ring is full and whether the cursor wraps. `HistoryIsLog` maps each line taken
to `Add`, and `exit` and the end of the input to `Forget`.

**Induction.** What a loop computes for every input needs induction, and the
library's induction theorems take an operator as a parameter, which none of the
provers instantiates. `Induction` states it for sets instead: a set of numbers
that has 0, and with each number below n the next, has all of 0 .. n
(`RunInduction`), proved from `LeastNatural`, which rests on the
well-foundedness of strict inclusion of finite sets. A statement is then proved
of all numbers as the set of those of which it holds. On it rest that a fold is
the last state of a run of its step (the step given as a function, `RunExists`)
and how positions with a property are counted (`Count`).

**Parser, the argument** (`LineTheorems`). The grammar speaks of positions: a
token is an operand if a run of operators of odd length is before it, and what
counts is what stands before the vector is full. The proof relates the state of
parse_command's loop after k tokens to the positions up to k (`TokensRead`: the
arguments counted so far, the last operator of each kind, the operator that
waits); one step per kind of token. The order of the tests in the loop matters
there: a token is an operand before it is anything else, also when the vector is
full. The same relation for segments, with the stages counted, gives `LineReadsAs`.

**Expansion, the argument** (same module). Each round appends as much of one
word's result as fits. The invariant of the loop is that the vector is the
beginning of the concatenation so far (`BeginningConcat`: cutting after each part
or once at the end comes to the same).

**Session, the argument** (`ReplProofs`). `SessionInv` says that the pipeline
is `ParsePipeline(line)` from the prompt to expansion, which changes neither its
length nor the words that end its here-documents. `Parses` is then `LineReadsAs`
at the line taken, `Isolated` is `OneStageOneCommand`, `TypeInvariant` uses
`PipelineType` for the bounds, and `Expands` needs one more invariant, that
vectors between expansion and execution are those `ExpandArgsBeginning`
describes for the environment of that line.

**Here-documents, the argument** (`HeredocProofs`). `BodiesInOrder` speaks of the
moment when all bodies are there. While they are collected (`Bodies`) every
stage before the one being read, and none behind it, has its document; each
document is a stretch of the lines taken, in front of the line that closed it,
and the stretches follow each other without a gap (`IsBehind`). If stdio has not
seen the end, the lines taken end exactly where the last document does; that is
what a lost or doubled line would break. One lemma per step says what a line
of the body (`BodyLine`), its end or a failed write (`BodyEnds`), and the end
of the input (`BodyAtEnd`) make of it. That no body is continued after the end of the
input uses that stdio then has no line left (`eof => buf = <<>>`).

**Out of the prover's reach** and model-checked only: the liveness properties
`PromptReturns`, `ZombiesReaped`, `PipelineEnds` and `SessionEnds`, which rest on
fairness and on when actions are enabled.

## 7. Running

    tlc -workers 2 -config pipeline.cfg MCJobControl.tla
    tlc -workers 2 -config pipes.cfg MCPipes.tla
    tlc -workers 2 -config repl.cfg MCRepl.tla
    tlapm LifecycleProofs.tla
    tlapm HeredocProofs.tla

`repl`, `pipes` and `rough` take about two minutes each with two workers, the
others less than one; each proof module takes a minute or two.

## 8. Not modelled, and what could follow

Not modelled: how characters form tokens, variables in the middle of a word,
and reads that split a line (the parser and expansion are complete over
tokens and words); `fg`, `bg`, `jobs` and `kill` as stages of a pipeline, as far as
they do more than send signals; label formatting, the prompt's text and other output;
reuse of process ids; documents, demo and build files.

What could follow, in this order: reuse of process ids in JobControl, with the
properties that then weaken; a composition of Pipes and JobControl in
which SIGPIPE and end of file cause the deaths that the job table sees.

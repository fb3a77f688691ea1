----------------------------- MODULE JobControl -----------------------------
(***************************************************************************)
(* Job control of mysh: the shell process (main.c, executor.c, the job     *)
(* builtins of builtins.c), its SIGCHLD handler (signals.c), and the part  *)
(* of the kernel they rely on (processes, groups, signals, the terminal).  *)
(*                                                                         *)
(* The shell is one thread.  Its handler may interrupt it at any point     *)
(* where SIGCHLD is not blocked; programs, the user's keys and the kernel  *)
(* interleave with both.  One action stands for the shell's code between   *)
(* two points another actor can observe: system calls that create, signal, *)
(* group or collect processes, or that move the terminal.                  *)
(***************************************************************************)
EXTENDS Jobs, Sequences, Functions

CONSTANTS
  Shell,        \* the shell's own process group
  MaxStages,    \* longest pipeline considered (MAX_COMMANDS is 16)
  ExitCodes,    \* exit codes programs use
  NoStatus,     \* nothing for waitpid to report
  Interactive,  \* stdin is a terminal
  Keys,         \* signals the user's keys send to the terminal's group
  TtyReads,     \* programs may read the terminal
  Externals     \* signals processes of other sessions send: SIGKILL, SIGCONT

SIGINT  == 2
SIGKILL == 9
SIGTERM == 15
SIGCONT == 18
SIGTSTP == 20
SIGTTIN == 21

StopSignals == {SIGTSTP, SIGTTIN}
CatchableSignals == {SIGINT, SIGTERM} \cup StopSignals

\* What waitpid reports of a child.
WaitStatus == [how : {"exited"},   n : ExitCodes]
         \cup [how : {"signaled"}, n : {SIGINT, SIGTERM, SIGKILL}]
         \cup [how : {"stopped"},  n : StopSignals]

ASSUME ControlAssumption ==
  /\ Shell \notin Pids
  /\ MaxStages \in Nat \ {0}
  /\ ExitCodes \subseteq 0 .. 255
  /\ NoStatus \notin WaitStatus
  /\ Interactive \in BOOLEAN
  /\ Keys \subseteq {SIGINT, SIGTSTP}
  /\ TtyReads \in BOOLEAN
  /\ Externals \subseteq {SIGKILL, SIGCONT}

VARIABLES
  (* the shell *)
  pc,        \* where its code is
  blocked,   \* SIGCHLD is in its signal mask
  handling,  \* it is inside sigchld_handler
  table,     \* state->jobs
  cmd,       \* the pipeline being executed: background flag, stages
  pids,      \* spawn_pipeline's pids[]
  pgid,      \* the group fg, kill or wait_foreground_group works on
  result,    \* wait_foreground_group's last_status
  (* the kernel *)
  st,        \* life of each process
  grp,       \* its process group
  pend,      \* signals generated for it and not yet delivered
  ws,        \* what waitpid would report of it
  chld,      \* a SIGCHLD is pending for the shell
  tty,       \* foreground process group of the terminal
  (* history *)
  untracked, \* groups the shell started and could not enter in the table
  shown,     \* job ids whose Done line was printed
  collected  \* <<pid, code>> the current foreground wait got

shellVars == <<pc, blocked, handling, table, cmd, pids, pgid, result>>
procVars  == <<st, grp, pend, ws>>
histVars  == <<untracked, shown, collected>>
vars      == <<shellVars, procVars, chld, tty, histVars>>

PC == {"prompt", "read", "fork", "setpgid", "add", "give", "wait", "reclaim",
       "resume", "kill", "exited", "killed"}

ProcState == {"free", "forked", "running", "stopped", "zombie", "reaped"}

NoCmd == [background |-> FALSE, stages |-> 0]

TypeOK ==
  /\ pc \in PC
  /\ blocked \in BOOLEAN /\ handling \in BOOLEAN
  /\ table \in JobsTable
  /\ cmd \in [background : BOOLEAN, stages : 0 .. MaxStages]
  /\ pids \in Seq(Pids)
  /\ pgid \in Pids \cup {Shell}
  /\ result \in Nat
  /\ st \in [Pids -> ProcState]
  /\ grp \in [Pids -> Pids \cup {Shell}]
  /\ pend \in [Pids -> SUBSET CatchableSignals]
  /\ ws \in [Pids -> WaitStatus \cup {NoStatus}]
  /\ chld \in BOOLEAN
  /\ tty \in Pids \cup {Shell}
  /\ untracked \subseteq Pids
  /\ shown \subseteq Nat
  /\ collected \subseteq Pids \X Nat

Init ==
  /\ pc = "prompt" /\ blocked = FALSE /\ handling = FALSE
  /\ table = JobsInit /\ cmd = NoCmd /\ pids = <<>>
  /\ pgid = Shell /\ result = 0
  /\ st = [p \in Pids |-> "free"]
  /\ grp = [p \in Pids |-> Shell]
  /\ pend = [p \in Pids |-> {}]
  /\ ws = [p \in Pids |-> NoStatus]
  /\ chld = FALSE /\ tty = Shell
  /\ untracked = {} /\ shown = {} /\ collected = {}

-----------------------------------------------------------------------------
(* Processes *)

Live(p)   == st[p] \in {"forked", "running", "stopped"}
Exists(p) == Live(p) \/ st[p] = "zombie"

Members(g) == {p \in Pids : Exists(p) /\ grp[p] = g}

\* A group can be given the terminal while it has a process, dead or alive.
\* (A variant never takes it back for the shell.)
TcSetPgrpNotBack(g) == tty' = IF Interactive /\ Members(g) # {} THEN g ELSE tty

TcSetPgrp(g) == tty' = IF Interactive /\ (g = Shell \/ Members(g) # {})
                         THEN g ELSE tty

\* Between fork and exec a child still ignores what the shell ignores; a
\* stop signal sent to a stopped process would be discarded when it resumes.
Accepts(p, s) ==
  \/ st[p] = "running"
  \/ st[p] = "forked" /\ s = SIGTERM
  \/ st[p] = "stopped" /\ s \notin StopSignals

Send(s, P) ==
  pend' = [p \in Pids |-> IF p \in P /\ Accepts(p, s) THEN pend[p] \cup {s}
                                                      ELSE pend[p]]

\* A variant of kill(-pgid, SIGCONT) that signals the leader only.
ContinueLeader(P) ==
  LET Woken == {p \in P : st[p] = "stopped" /\ grp[p] = p} IN
  /\ st' = [p \in Pids |-> IF p \in Woken THEN "running" ELSE st[p]]
  /\ ws' = [p \in Pids |-> IF p \in Woken THEN NoStatus ELSE ws[p]]
  /\ UNCHANGED pend

\* SIGCONT takes effect when it is generated: it wakes the stopped, and
\* discards stop signals and stops nobody has waited for.
Continue(P) ==
  LET Woken == {p \in P : st[p] = "stopped"} IN
  /\ st' = [p \in Pids |-> IF p \in Woken THEN "running" ELSE st[p]]
  /\ ws' = [p \in Pids |-> IF p \in Woken THEN NoStatus ELSE ws[p]]
  /\ pend' = [p \in Pids |-> IF p \in P THEN pend[p] \ StopSignals ELSE pend[p]]

\* The death of a child leaves a zombie and raises SIGCHLD, which is not
\* queued: many deaths may share one pending SIGCHLD.
Die(p, status) ==
  /\ st' = [st EXCEPT ![p] = "zombie"]
  /\ ws' = [ws EXCEPT ![p] = status]
  /\ pend' = [pend EXCEPT ![p] = {}]
  /\ chld' = TRUE

\* waitpid collects a dead child.
Reap(p) ==
  /\ st' = [st EXCEPT ![p] = "reaped"]
  /\ ws' = [ws EXCEPT ![p] = NoStatus]
  /\ grp' = [grp EXCEPT ![p] = Shell]

\* status_to_code, on the statuses of a child that terminated.
StatusToCode(status) ==
  IF status.how = "exited" THEN status.n ELSE 128 + status.n

-----------------------------------------------------------------------------
(* The shell.  A pending SIGCHLD that is not blocked is handled before the *)
(* shell's next instruction: sigprocmask delivers it before it returns.    *)

Ready == ~handling /\ (blocked \/ ~chld)

At(label) == pc = label /\ Ready

\* block_sigchld, and a variant without effect.
BlockNothing == UNCHANGED blocked
BlockSigchld == blocked' = TRUE

\* A variant that forgets to unblock.
ReturnBlocked ==
  /\ pc' = "prompt" /\ UNCHANGED blocked
  /\ cmd' = NoCmd /\ pids' = <<>> /\ pgid' = Shell /\ result' = 0
  /\ collected' = {}

\* The command is over: unblock_sigchld and back to the top of main's loop.
Return ==
  /\ pc' = "prompt" /\ blocked' = FALSE
  /\ cmd' = NoCmd /\ pids' = <<>> /\ pgid' = Shell /\ result' = 0
  /\ collected' = {}

PromptNotify ==
  /\ At("prompt")
  /\ shown' = shown \cup IdsIn(table, "Done")
  /\ table' = JobsClearDone(table)
  /\ pc' = "read"
  /\ UNCHANGED <<blocked, handling, cmd, pids, pgid, result, procVars, chld,
                 tty, untracked, collected>>

\* A blank line, a syntax error, a failed here-document, or a builtin that
\* leaves jobs alone (cd, export, history, help, a usage error).
OtherLine ==
  /\ At("read")
  /\ pc' = "prompt"
  /\ UNCHANGED <<blocked, handling, table, cmd, pids, pgid, result, procVars,
                 chld, tty, histVars>>

\* End of input, or the exit builtin.
LeaveLoop ==
  /\ At("read")
  /\ pc' = "exited"
  /\ UNCHANGED <<blocked, handling, table, cmd, pids, pgid, result, procVars,
                 chld, tty, histVars>>

\* A pipeline of k stages.  Bound: the free pids must suffice, since pids
\* are not reused here.
ExecutePipeline(b, k) ==
  /\ At("read")
  /\ Cardinality({p \in Pids : st[p] = "free"}) >= k
  /\ cmd' = [background |-> b, stages |-> k]
  /\ BlockSigchld
  /\ pc' = "fork"
  /\ UNCHANGED <<handling, table, pids, pgid, result, procVars, chld, tty,
                 histVars>>

Fork(p) ==
  /\ At("fork")
  /\ st[p] = "free"
  /\ st' = [st EXCEPT ![p] = "forked"]
  /\ pids' = Append(pids, p)
  /\ pc' = "setpgid"
  /\ UNCHANGED <<blocked, handling, table, cmd, pgid, result, grp, pend, ws,
                 chld, tty, histVars>>

\* pipe or fork fails: the stages already started are left behind.
SpawnFails ==
  /\ At("fork")
  /\ untracked' = untracked \cup Range(pids)
  /\ Return
  /\ UNCHANGED <<handling, table, procVars, chld, tty, shown>>

\* (A variant leaves setpgid to the child.)
NoParentSetpgid ==
  /\ At("setpgid")
  /\ pc' = IF Len(pids) < cmd.stages THEN "fork"
           ELSE IF cmd.background THEN "add" ELSE "give"
  /\ UNCHANGED <<blocked, handling, table, cmd, pids, pgid, result, procVars,
                 chld, tty, histVars>>

ParentSetpgid ==
  /\ At("setpgid")
  /\ grp' = [grp EXCEPT ![pids[Len(pids)]] = pids[1]]
  /\ pc' = IF Len(pids) < cmd.stages THEN "fork"
           ELSE IF cmd.background THEN "add" ELSE "give"
  /\ UNCHANGED <<blocked, handling, table, cmd, pids, pgid, result, st, pend,
                 ws, chld, tty, histVars>>

AddJob ==
  /\ At("add")
  /\ table' = JobsAdd(table, pids[1], "Running")
  /\ untracked' = IF FreeSlots(table) = {} THEN untracked \cup {pids[1]}
                                           ELSE untracked
  /\ Return
  /\ UNCHANGED <<handling, procVars, chld, tty, shown>>

GiveTerminal ==
  /\ At("give")
  /\ pgid' = pids[1]
  /\ TcSetPgrp(pids[1])
  /\ pc' = "wait"
  /\ UNCHANGED <<blocked, handling, table, cmd, pids, result, procVars, chld,
                 histVars>>

\* wait_foreground_group: waitpid(-pgid, WUNTRACED) reports a dead member,
WaitExited(p) ==
  /\ At("wait")
  /\ p \in Members(pgid) /\ st[p] = "zombie"
  /\ Reap(p)
  /\ result' = StatusToCode(ws[p])
  /\ collected' = collected \cup {<<p, StatusToCode(ws[p])>>}
  /\ UNCHANGED <<pc, blocked, handling, table, cmd, pids, pgid, pend, chld,
                 tty, untracked, shown>>

\* or a stopped one, at which the shell gives up waiting and records the job,
WaitStopped(p) ==
  /\ At("wait")
  /\ p \in Members(pgid) /\ st[p] = "stopped" /\ ws[p] # NoStatus
  /\ ws' = [ws EXCEPT ![p] = NoStatus]
  /\ IF SlotsOfPid(table, pgid) # {}
       THEN /\ table' = SetState(table, JobsFindByPid(table, pgid), "Stopped")
            /\ UNCHANGED untracked
       ELSE /\ table' = JobsAdd(table, pgid, "Stopped")
            /\ untracked' = IF FreeSlots(table) = {} THEN untracked \cup {pgid}
                                                     ELSE untracked
  /\ result' = 128 + ws[p].n
  /\ pc' = "reclaim"
  /\ UNCHANGED <<blocked, handling, cmd, pids, pgid, st, grp, pend, chld, tty,
                 shown, collected>>

\* or fails with ECHILD, and the job is over.
WaitNoChild ==
  /\ At("wait")
  /\ Members(pgid) = {}
  /\ table' = JobsRemoveByPid(table, pgid)
  /\ pc' = "reclaim"
  /\ UNCHANGED <<blocked, handling, cmd, pids, pgid, result, procVars, chld,
                 tty, histVars>>

Reclaim ==
  /\ At("reclaim")
  /\ TcSetPgrp(Shell)
  /\ Return
  /\ UNCHANGED <<handling, table, procVars, chld, untracked, shown>>

\* A variant of fg that sends SIGCONT first.
FgStartResumes(id) ==
  /\ At("read")
  /\ SlotsOfId(table, id) # {}
  /\ LET slot == JobsFindById(table, id) IN
       /\ pgid' = table.jobs[slot].pid
       /\ IF table.jobs[slot].state = "Stopped"
            THEN Continue(Members(table.jobs[slot].pid))
            ELSE UNCHANGED <<st, ws, pend>>
  /\ BlockSigchld
  /\ pc' = "resume"
  /\ UNCHANGED <<handling, table, cmd, pids, result, grp, chld, tty, histVars>>

\* fg %id of a listed job: the terminal first,
FgStart(id) ==
  /\ At("read")
  /\ SlotsOfId(table, id) # {}
  /\ LET job == table.jobs[JobsFindById(table, id)] IN
       /\ pgid' = job.pid
       /\ TcSetPgrp(job.pid)
  /\ BlockSigchld
  /\ pc' = "resume"
  /\ UNCHANGED <<handling, table, cmd, pids, result, procVars, chld, histVars>>

\* then SIGCONT, if the table says the job is stopped, then the wait.
FgResume ==
  /\ At("resume")
  /\ LET slot == JobsFindByPid(table, pgid) IN
       IF table.jobs[slot].state = "Stopped"
         THEN /\ table' = SetState(table, slot, "Running")
              /\ Continue(Members(pgid))
         ELSE UNCHANGED <<table, st, ws, pend>>
  /\ pc' = "wait"
  /\ UNCHANGED <<blocked, handling, cmd, pids, pgid, result, grp, chld, tty,
                 histVars>>

\* bg %id, all of it under the block.
Bg(id) ==
  /\ At("read")
  /\ SlotsOfId(table, id) # {}
  /\ LET slot == JobsFindById(table, id) IN
       IF table.jobs[slot].state = "Stopped"
         THEN /\ table' = SetState(table, slot, "Running")
              /\ Continue(Members(table.jobs[slot].pid))
         ELSE UNCHANGED <<table, st, ws, pend>>
  /\ pc' = "prompt"
  /\ UNCHANGED <<blocked, handling, cmd, pids, pgid, result, grp, chld, tty,
                 histVars>>

\* kill %id looks the group up under the block and signals it after it.
KillFind(id) ==
  /\ At("read")
  /\ SlotsOfId(table, id) # {}
  /\ pgid' = table.jobs[JobsFindById(table, id)].pid
  /\ pc' = "kill"
  /\ UNCHANGED <<blocked, handling, table, cmd, pids, result, procVars, chld,
                 tty, histVars>>

KillSend ==
  /\ At("kill")
  /\ Send(SIGTERM, Members(pgid))
  /\ Return
  /\ UNCHANGED <<handling, table, st, grp, ws, chld, tty, untracked, shown>>

\* kill with a pid.
KillPid(p) ==
  /\ At("read")
  /\ Exists(p)
  /\ Send(SIGTERM, {p})
  /\ pc' = "prompt"
  /\ UNCHANGED <<blocked, handling, table, cmd, pids, pgid, result, st, grp,
                 ws, chld, tty, histVars>>

\* kill with a word that is no number: atoi gives 0, the shell's own group.
KillOwnGroup ==
  /\ At("read")
  /\ Send(SIGTERM, Members(Shell))
  /\ pc' = "killed"
  /\ UNCHANGED <<blocked, handling, table, cmd, pids, pgid, result, st, grp,
                 ws, chld, tty, histVars>>

JobsBuiltin ==
  /\ At("read")
  /\ shown' = shown \cup IdsIn(table, "Done")
  /\ table' = JobsClearDone(table)
  /\ pc' = "prompt"
  /\ UNCHANGED <<blocked, handling, cmd, pids, pgid, result, procVars, chld,
                 tty, untracked, collected>>

-----------------------------------------------------------------------------
(* sigchld_handler *)

Alive == pc \notin {"exited", "killed"}

HandlerEnter ==
  /\ Alive /\ chld /\ ~blocked /\ ~handling
  /\ handling' = TRUE /\ chld' = FALSE
  /\ UNCHANGED <<pc, blocked, table, cmd, pids, pgid, result, procVars, tty,
                 histVars>>

\* One round of its loop: any dead child, foreground, background or unknown.
HandlerReap(p) ==
  /\ handling
  /\ st[p] = "zombie"
  /\ Reap(p)
  /\ table' = JobsMarkDone(table, p)
  /\ UNCHANGED <<pc, blocked, handling, cmd, pids, pgid, result, pend, chld,
                 tty, histVars>>

\* Its loop ends when waitpid has nothing more (variant: after one round).
OneRound == TRUE
Drained == \A p \in Pids : st[p] # "zombie"

\* The interrupted code goes on where it was; SA_RESTART resumes getline.
HandlerReturn ==
  /\ handling
  /\ Drained
  /\ handling' = FALSE
  /\ UNCHANGED <<pc, blocked, table, cmd, pids, pgid, result, procVars, chld,
                 tty, histVars>>

-----------------------------------------------------------------------------
(* Programs, the kernel, the user's keys, other sessions *)

\* The child's own setpgid.  Only the child that spawn_pipeline has just
\* forked can be outside its group still.
JoinGroup(p) == IF grp[p] = Shell THEN [grp EXCEPT ![p] = pids[1]] ELSE grp

\* The child joins its group, restores the signals and execs.
ChildStart(p) ==
  /\ Alive
  /\ st[p] = "forked"
  /\ st' = [st EXCEPT ![p] = "running"]
  /\ grp' = JoinGroup(p)
  /\ UNCHANGED <<shellVars, pend, ws, chld, tty, histVars>>

Exit(p, c) ==
  /\ Alive
  /\ st[p] = "running"
  /\ Die(p, [how |-> "exited", n |-> c])
  /\ UNCHANGED <<shellVars, grp, tty, histVars>>

\* Default action of a fatal signal.
Terminate(p, s) ==
  /\ Alive
  /\ st[p] \in {"forked", "running"} /\ s \in pend[p] \ StopSignals
  /\ Die(p, [how |-> "signaled", n |-> s])
  /\ UNCHANGED <<shellVars, grp, tty, histVars>>

\* Default action of a stop signal; SA_NOCLDSTOP: no SIGCHLD for it.
Stop(p, s) ==
  /\ Alive
  /\ st[p] = "running" /\ s \in pend[p] \cap StopSignals
  /\ st' = [st EXCEPT ![p] = "stopped"]
  /\ ws' = [ws EXCEPT ![p] = [how |-> "stopped", n |-> s]]
  /\ pend' = [pend EXCEPT ![p] = @ \ StopSignals]
  /\ UNCHANGED <<shellVars, grp, chld, tty, histVars>>

\* The program catches or ignores the signal.
Catch(p, s) ==
  /\ Alive
  /\ st[p] = "running" /\ s \in pend[p]
  /\ pend' = [pend EXCEPT ![p] = @ \ {s}]
  /\ UNCHANGED <<shellVars, st, grp, ws, chld, tty, histVars>>

\* Ctrl+C or Ctrl+Z.
Key(s) ==
  /\ Alive /\ Interactive
  /\ Send(s, Members(tty))
  /\ UNCHANGED <<shellVars, st, grp, ws, chld, tty, histVars>>

\* A read of the terminal from another group than its own stops the group.
TtyRead(p) ==
  /\ Alive /\ Interactive /\ TtyReads
  /\ st[p] = "running" /\ grp[p] # tty
  /\ Send(SIGTTIN, Members(grp[p]))
  /\ UNCHANGED <<shellVars, st, grp, ws, chld, tty, histVars>>

ExternalKill(p) ==
  /\ Alive /\ SIGKILL \in Externals
  /\ Live(p)
  /\ Die(p, [how |-> "signaled", n |-> SIGKILL])
  /\ UNCHANGED <<shellVars, grp, tty, histVars>>

ExternalContinue(p) ==
  /\ Alive /\ SIGCONT \in Externals
  /\ st[p] = "stopped"
  /\ Continue({p})
  /\ UNCHANGED <<shellVars, grp, chld, tty, histVars>>

Terminated == ~Alive /\ UNCHANGED vars

-----------------------------------------------------------------------------
UserCommand ==
  \/ OtherLine \/ LeaveLoop \/ JobsBuiltin \/ KillOwnGroup
  \/ \E b \in BOOLEAN, k \in 1 .. MaxStages : ExecutePipeline(b, k)
  \/ \E id \in Ids(table) : FgStart(id) \/ Bg(id) \/ KillFind(id)
  \/ \E p \in Pids : KillPid(p)

\* What the shell does by itself once a command is given.
ShellStep ==
  \/ PromptNotify \/ SpawnFails \/ ParentSetpgid \/ AddJob \/ GiveTerminal
  \/ WaitNoChild \/ Reclaim \/ FgResume \/ KillSend
  \/ \E p \in Pids : Fork(p) \/ WaitExited(p) \/ WaitStopped(p)

Handler == HandlerEnter \/ HandlerReturn \/ \E p \in Pids : HandlerReap(p)

Programs ==
  \E p \in Pids :
    \/ ChildStart(p) \/ TtyRead(p) \/ ExternalKill(p) \/ ExternalContinue(p)
    \/ \E c \in ExitCodes : Exit(p, c)
    \/ \E s \in CatchableSignals : Terminate(p, s) \/ Stop(p, s) \/ Catch(p, s)

User == \E s \in Keys : Key(s)

Next == UserCommand \/ ShellStep \/ Handler \/ Programs \/ User \/ Terminated

Spec == Init /\ [][Next]_vars

\* The shell is never starved; users and programs owe it nothing.
FairSpec == Spec /\ WF_vars(ShellStep) /\ WF_vars(Handler)
=============================================================================

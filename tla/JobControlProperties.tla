------------------------ MODULE JobControlProperties ------------------------
(***************************************************************************)
(* What mysh's job control promises.  The first part holds of the code;    *)
(* the last part states what comments and documents of the repository say  *)
(* and the code does not do (the README discusses each).                   *)
(***************************************************************************)
EXTENDS JobControl

\* The groups the table lists in one of the states S.
GroupsIn(S) == {table.jobs[i].pid :
                  i \in {k \in InUse(table) : table.jobs[k].state \in S}}

Suspended == GroupsIn({"Stopped"})
Listed    == GroupsIn({"Running", "Stopped"})

\* The group the shell is working on in the foreground.
Foreground(g) == (pids # <<>> /\ pids[1] = g) \/ pgid = g

\* A member that stopped, whose stop the shell has collected.
StopSeen(p) == st[p] = "stopped" /\ ws[p] = NoStatus

-----------------------------------------------------------------------------
(* Invariants *)

\* No two listed jobs share an id or a process group, and a new id is new:
\* jobs_find_by_id and jobs_find_by_pid have at most one answer.
UniqueJobs ==
  /\ \A i, j \in InUse(table) :
       (table.jobs[i].job_id = table.jobs[j].job_id
        \/ table.jobs[i].pid = table.jobs[j].pid) => i = j
  /\ \A id \in Ids(table) : id < table.next_id

\* A job is Done only after its leader was collected, and never because it
\* stopped: the handler waits without WUNTRACED.
DoneMeansReaped ==
  \A i \in InUse(table) :
    table.jobs[i].state = "Done" => st[table.jobs[i].pid] = "reaped"

\* A dead child always has a SIGCHLD on its way or the handler at work:
\* SIGCHLD does not queue, so the handler must drain every zombie.
ZombiePending == \A p \in Pids : st[p] = "zombie" => chld \/ handling

\* A process whose stop the shell has collected belongs to a job the table
\* lists as Stopped (so that fg and bg will send SIGCONT), or to a group
\* jobs_add had no slot for.  jobs_mark_done must leave Stopped jobs alone.
StoppedResumable ==
  \A p \in Pids : StopSeen(p) =>
    \/ grp[p] \in Suspended
    \/ grp[p] \in untracked

\* The foreground wait never waits on a process whose stop was collected
\* already: waitpid would not report it again, and the shell would hang.
NoSilentHang ==
  pc = "wait" => \A p \in Members(pgid) : ~StopSeen(p)

\* Every living group leader can be reached by the user: it is listed and
\* not Done, it is the pipeline being run, or the shell had to give it up.
LeaderTracked ==
  \A p \in Pids : Live(p) /\ grp[p] = p =>
    \/ p \in Listed
    \/ pids # <<>> /\ pids[1] = p
    \/ p \in untracked

\* spawn_pipeline leaves every stage in the group of the first one, although
\* no stage may have run yet: the wait and the terminal go by that group.
GroupFormed ==
  pc \in {"add", "give", "wait"} =>
    \A i \in DOMAIN pids : Exists(pids[i]) => grp[pids[i]] = pids[1]

\* At the prompt the terminal is the shell's; while the shell waits for a
\* group that still has a process it is that group's.
TerminalOwner ==
  Interactive =>
    /\ pc \in {"prompt", "read"} => tty = Shell
    /\ pc = "wait" /\ Members(pgid) # {} => tty = pgid

\* A foreground pipeline that finished was collected stage by stage by its
\* own wait, none by the handler, and its status is that of a stage.
ForegroundStatus ==
  pc = "reclaim" /\ pids # <<>> /\ Members(pgid) = {} =>
    /\ {c[1] : c \in collected} = Range(pids)
    /\ \E c \in collected : c[2] = result

\* A job whose Done line was printed is not listed again: jobs clears what
\* it has shown, and the next prompt does not repeat it.
ShownOnce == shown \cap Ids(table) = {}

\* The end of the leader of a listed job never goes unnoticed: the job is
\* Done, or the wait that collected the leader is still on it.
ListedJobAlive ==
  \A i \in InUse(table) : table.jobs[i].state # "Done" =>
    \/ Exists(table.jobs[i].pid)
    \/ pc = "wait" /\ pgid = table.jobs[i].pid

\* A job listed as Running that is not in the foreground has no stopped
\* member: resuming a job resumes all of it.
RunningJobRuns ==
  \A p \in Pids :
    st[p] = "stopped" /\ grp[p] \in GroupsIn({"Running"}) => Foreground(grp[p])

-----------------------------------------------------------------------------
(* Action properties *)

\* A job leaves the table only when the user has been told it is Done, or
\* when the foreground wait found it finished.
NoSilentLoss ==
  [][\A id \in Ids(table) \ Ids(table') : id \in shown' \/ pc = "wait"]_vars

\* A read of the terminal by p is refused: SIGTTIN to p's group.
Refused(p) == SIGTTIN \in pend'[p] \ pend[p]

\* From the terminal's change of hands to the end of the wait no member of
\* the job that fg resumes is refused the terminal: the job owns it before
\* SIGCONT wakes a member that may read at once.
ResumedMayRead ==
  [][pids = <<>> /\ pc \in {"resume", "wait"} =>
       \A p \in Pids : grp[p] = pgid => ~Refused(p)]_vars

-----------------------------------------------------------------------------
(* Refinement *)

\* The table as its user sees it.
StateOf(id) == table.jobs[JobsFindById(table, id)].state

Lifecycle == INSTANCE JobLifecycle WITH
  Capacity <- MAX_JOBS,
  listed   <- [id \in Ids(table) |-> StateOf(id)],
  next     <- table.next_id

\* Whatever shell, handler and kernel do, each job number lives the life of
\* JobLifecycle: never reused, never resurrected, not lost while stopped.
ImplementsLifecycle == Lifecycle!Spec

-----------------------------------------------------------------------------
(* Liveness, under FairSpec *)

SomeRunning(g) == \E p \in Members(g) : st[p] \in {"forked", "running"}

\* A foreground job of which nothing runs any more (each member is dead or
\* stopped) gives the prompt back.
PromptReturns ==
  (pc = "wait" /\ ~SomeRunning(pgid)) ~> (pc = "read" \/ SomeRunning(pgid))

\* A child that is dead when the shell is back at its prompt is collected,
\* whatever way the last command took: none leaves SIGCHLD blocked.
ZombiesReaped ==
  \A p \in Pids : (st[p] = "zombie" /\ pc \in {"prompt", "read"})
                     ~> (st[p] = "reaped" \/ ~Alive)

-----------------------------------------------------------------------------
(* What the repository says and the code does not do *)

\* executor.h: the foreground pipeline "returns the LAST stage's exit status".
LastStageStatus ==
  pc = "reclaim" /\ pids # <<>> /\ Members(pgid) = {} =>
    <<pids[Len(pids)], result>> \in collected

\* concept_walkthrough.md calls a job "stuck 'Running' forever" a bug that the
\* block prevents: Running is said only of a group that still has a process.
NotStuckRunning ==
  \A i \in InUse(table) :
    table.jobs[i].state = "Running" =>
      Members(table.jobs[i].pid) # {} \/ pc = "wait"
=============================================================================

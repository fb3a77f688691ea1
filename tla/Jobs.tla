-------------------------------- MODULE Jobs --------------------------------
(***************************************************************************)
(* The job table of src/src/jobs.c: a fixed array of MAX_JOBS slots and    *)
(* the next job id.  Shell code and the SIGCHLD handler both use it; the   *)
(* operators below are the functions of jobs.c as state transformers, and  *)
(* JobControl.tla says who calls them when.                                *)
(*                                                                         *)
(* A slot holds NoJob when in_use is 0.  Of job_t the label and the raw    *)
(* wait status are left out: no function reads them to decide anything.    *)
(* job->pid is the process group id of the job, its first stage's pid.     *)
(*                                                                         *)
(* Here and in JobControl, an operator introduced as "a variant" is not    *)
(* part of the model: it is a bug the code could have had, and shows that  *)
(* the properties would notice it (see the README, "Mutants").             *)
(***************************************************************************)
EXTENDS Integers, FiniteSetsExt

CONSTANTS
  MAX_JOBS,   \* slots of the table (64 in jobs.h)
  Pids,       \* process ids the kernel may give to the shell's children
  NoJob       \* content of a free slot

JobState == {"Running", "Done", "Stopped"}

Job == [pid : Pids, job_id : Nat \ {0}, state : JobState]

ASSUME JobsAssumption ==
  /\ MAX_JOBS \in Nat \ {0}
  /\ NoJob \notin Job

Slots == 1 .. MAX_JOBS

JobsTable == [jobs : [Slots -> Job \cup {NoJob}], next_id : Nat \ {0}]

\* A variant of jobs_init that stops at the memset.
JobsInitZeroed == [jobs |-> [i \in Slots |-> NoJob], next_id |-> 0]

JobsInit == [jobs |-> [i \in Slots |-> NoJob], next_id |-> 1]

-----------------------------------------------------------------------------
InUse(t) == {i \in Slots : t.jobs[i] # NoJob}

FreeSlots(t) == Slots \ InUse(t)

\* The job ids the table lists, and those it lists in state s.
Ids(t) == {t.jobs[i].job_id : i \in InUse(t)}
IdsIn(t, s) == {t.jobs[i].job_id : i \in {k \in InUse(t) : t.jobs[k].state = s}}

\* Slots of the job with a given id or process group.
SlotsOfId(t, id) == {i \in InUse(t) : t.jobs[i].job_id = id}
SlotsOfPid(t, pid) == {i \in InUse(t) : t.jobs[i].pid = pid}

\* jobs_find_by_id and jobs_find_by_pid scan upwards and stop at the first hit.
JobsFindById(t, id) == Min(SlotsOfId(t, id))
JobsFindByPid(t, pid) == Min(SlotsOfPid(t, pid))

SetState(t, i, s) == [t EXCEPT !.jobs[i].state = s]

-----------------------------------------------------------------------------
\* A variant of jobs_add that numbers jobs by how many there are.
JobsAddByCount(t, p, s) ==
  IF FreeSlots(t) = {} THEN t
  ELSE [t EXCEPT !.jobs[Min(FreeSlots(t))] =
          [pid |-> p, job_id |-> Cardinality(InUse(t)) + 1, state |-> s]]

\* jobs_add fills the first free slot; a full table is left as it is (-1).
JobsAdd(t, p, s) ==
  IF FreeSlots(t) = {} THEN t
  ELSE [jobs |-> [t.jobs EXCEPT ![Min(FreeSlots(t))] =
                    [pid |-> p, job_id |-> t.next_id, state |-> s]],
        next_id |-> t.next_id + 1]

\* A variant of the test in jobs_mark_done that forgets the pid.
AnyRunningSlots(t, p) == {i \in InUse(t) : t.jobs[i].state = "Running"}

RunningSlots(t, p) == {i \in SlotsOfPid(t, p) : t.jobs[i].state = "Running"}

\* jobs_mark_done flags the first RUNNING job of that pid, and ignores others.
JobsMarkDone(t, p) ==
  IF RunningSlots(t, p) = {} THEN t
  ELSE SetState(t, Min(RunningSlots(t, p)), "Done")

JobsRemoveByPid(t, p) ==
  IF SlotsOfPid(t, p) = {} THEN t
  ELSE [t EXCEPT !.jobs[JobsFindByPid(t, p)] = NoJob]

\* Variants that clear nothing, or everything that does not run.
JobsClearNothing(t) == t
JobsClearNotRunning(t) ==
  [t EXCEPT !.jobs = [i \in Slots |->
     IF i \in InUse(t) /\ t.jobs[i].state # "Running" THEN NoJob
                                                     ELSE t.jobs[i]]]

\* jobs_clear_done, and jobs_notify_completed but for the line it prints.
JobsClearDone(t) ==
  [t EXCEPT !.jobs = [i \in Slots |->
     IF i \in InUse(t) /\ t.jobs[i].state = "Done" THEN NoJob ELSE t.jobs[i]]]
=============================================================================

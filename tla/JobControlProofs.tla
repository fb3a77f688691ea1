------------------------- MODULE JobControlProofs --------------------------
(***************************************************************************)
(* First layers of the proofs about JobControl.                            *)
(*                                                                         *)
(* Shape: the type invariant, and what it takes to be inductive: which     *)
(* code runs with SIGCHLD blocked, what waitpid can find, and where a new  *)
(* child is.  Knowledge: which groups the table, the history and the shell *)
(* know of; its invariant carries the safety properties of the job table,  *)
(* each a theorem at the end.                                              *)
(***************************************************************************)
EXTENDS JobControlProperties, Induction

(* The table operators of Jobs.tla, for every MAX_JOBS and set of pids.    *)

\* A scan of the table that has something to find finds the first such slot.
LEMMA MinSlot ==
  ASSUME NEW S, S \subseteq Slots, S # {}
  PROVE  Min(S) \in S
<1>1. S \in SUBSET Nat
  BY DEF Slots
<1> QED BY <1>1, LeastNatural DEF Min

-----------------------------------------------------------------------------
(* Each operation yields a table again.                                    *)

\* jobs_init makes a table.
LEMMA InitTable == JobsInit \in JobsTable
BY JobsAssumption DEF JobsInit, JobsTable, Slots

\* Marking a listed job with a state keeps everything else of the table.
LEMMA SetStateTable ==
  ASSUME NEW t \in JobsTable, NEW i \in InUse(t), NEW s \in JobState
  PROVE  /\ SetState(t, i, s) \in JobsTable
         /\ SetState(t, i, s).next_id = t.next_id
         /\ InUse(SetState(t, i, s)) = InUse(t)
         /\ \A k \in InUse(t) :
              /\ SetState(t, i, s).jobs[k].pid = t.jobs[k].pid
              /\ SetState(t, i, s).jobs[k].job_id = t.jobs[k].job_id
              /\ SetState(t, i, s).jobs[k].state =
                   IF k = i THEN s ELSE t.jobs[k].state
<1> DEFINE u == SetState(t, i, s)
           job == [t.jobs[i] EXCEPT !.state = s]
<1>1. i \in Slots /\ t.jobs[i] \in Job
  BY DEF InUse, JobsTable
<1>2. job \in Job /\ job.pid = t.jobs[i].pid /\ job.job_id = t.jobs[i].job_id
      /\ job.state = s
  BY <1>1 DEF Job
<1>3. u = [jobs |-> [t.jobs EXCEPT ![i] = job], next_id |-> t.next_id]
  BY DEF SetState, JobsTable
<1>4. job # NoJob
  BY <1>2, JobsAssumption
<1>5. u \in JobsTable /\ u.next_id = t.next_id
  BY <1>1, <1>2, <1>3 DEF JobsTable
<1>6. \A k \in Slots : u.jobs[k] = IF k = i THEN job ELSE t.jobs[k]
  BY <1>1, <1>3 DEF JobsTable
<1>7. InUse(u) = InUse(t)
  BY <1>4, <1>6 DEF InUse
<1> HIDE DEF u, job
<1>8. \A k \in InUse(t) : /\ u.jobs[k].pid = t.jobs[k].pid
                         /\ u.jobs[k].job_id = t.jobs[k].job_id
                         /\ u.jobs[k].state = IF k = i THEN s ELSE t.jobs[k].state
  BY <1>2, <1>6 DEF InUse
<1> QED BY <1>5, <1>7, <1>8 DEF u

\* jobs_find_by_id and jobs_find_by_pid answer with a job that matches.
LEMMA FindByPid ==
  ASSUME NEW t \in JobsTable, NEW g, SlotsOfPid(t, g) # {}
  PROVE  /\ JobsFindByPid(t, g) \in InUse(t)
         /\ t.jobs[JobsFindByPid(t, g)].pid = g
<1>1. SlotsOfPid(t, g) \subseteq Slots
  BY DEF SlotsOfPid, InUse
<1>2. JobsFindByPid(t, g) \in SlotsOfPid(t, g)
  BY <1>1, MinSlot DEF JobsFindByPid
<1> QED BY <1>2 DEF SlotsOfPid

\* Looking up a number that is listed yields the slot of that job.
LEMMA FindById ==
  ASSUME NEW t \in JobsTable, NEW id, SlotsOfId(t, id) # {}
  PROVE  /\ JobsFindById(t, id) \in InUse(t)
         /\ t.jobs[JobsFindById(t, id)].job_id = id
<1>1. SlotsOfId(t, id) \subseteq Slots
  BY DEF SlotsOfId, InUse
<1>2. JobsFindById(t, id) \in SlotsOfId(t, id)
  BY <1>1, MinSlot DEF JobsFindById
<1> QED BY <1>2 DEF SlotsOfId

\* jobs_add on a table with room enters one job, in a slot that was free.
LEMMA AddTable ==
  ASSUME NEW t \in JobsTable, NEW p \in Pids, NEW s \in JobState,
         FreeSlots(t) # {}
  PROVE  /\ JobsAdd(t, p, s) \in JobsTable
         /\ JobsAdd(t, p, s).next_id = t.next_id + 1
         /\ \E i \in Slots \ InUse(t) :
              /\ InUse(JobsAdd(t, p, s)) = InUse(t) \cup {i}
              /\ JobsAdd(t, p, s).jobs[i] =
                   [pid |-> p, job_id |-> t.next_id, state |-> s]
              /\ \A k \in InUse(t) : JobsAdd(t, p, s).jobs[k] = t.jobs[k]
<1> DEFINE i == Min(FreeSlots(t))
           job == [pid |-> p, job_id |-> t.next_id, state |-> s]
           u == JobsAdd(t, p, s)
<1>1. i \in Slots \ InUse(t)
  BY MinSlot DEF FreeSlots
<1>2. job \in Job /\ job # NoJob
  BY JobsAssumption DEF Job, JobsTable
<1>3. u = [jobs |-> [t.jobs EXCEPT ![i] = job], next_id |-> t.next_id + 1]
  BY DEF JobsAdd
<1> HIDE DEF i, job, u
<1>4. u \in JobsTable /\ u.next_id = t.next_id + 1
  BY <1>1, <1>2, <1>3 DEF JobsTable
<1>5. \A k \in Slots : u.jobs[k] = IF k = i THEN job ELSE t.jobs[k]
  BY <1>1, <1>3 DEF JobsTable
<1>6. InUse(u) = InUse(t) \cup {i}
  BY <1>1, <1>2, <1>5 DEF InUse
<1>7. u.jobs[i] = job /\ \A k \in InUse(t) : u.jobs[k] = t.jobs[k]
  BY <1>1, <1>5 DEF InUse
<1> QED BY <1>1, <1>4, <1>6, <1>7 DEF u, job

\* jobs_add on a full table changes nothing.
LEMMA AddFull ==
  ASSUME NEW t, NEW p, NEW s, FreeSlots(t) = {}
  PROVE  JobsAdd(t, p, s) = t
BY DEF JobsAdd

\* With room or without, the result of jobs_add is a table.
LEMMA AddIsTable ==
  ASSUME NEW t \in JobsTable, NEW p \in Pids, NEW s \in JobState
  PROVE  JobsAdd(t, p, s) \in JobsTable
BY AddTable, AddFull

\* jobs_mark_done leaves the table alone, or flags one Running job of p.
LEMMA MarkDone ==
  ASSUME NEW t \in JobsTable, NEW p
  PROVE  \/ JobsMarkDone(t, p) = t /\ RunningSlots(t, p) = {}
         \/ \E i \in InUse(t) : /\ t.jobs[i].pid = p
                               /\ t.jobs[i].state = "Running"
                               /\ JobsMarkDone(t, p) = SetState(t, i, "Done")
<1>1. CASE RunningSlots(t, p) = {}
  BY <1>1 DEF JobsMarkDone
<1>2. CASE RunningSlots(t, p) # {}
  <2>1. RunningSlots(t, p) \subseteq Slots
    BY DEF RunningSlots, SlotsOfPid, InUse
  <2>2. Min(RunningSlots(t, p)) \in RunningSlots(t, p)
    BY <1>2, <2>1, MinSlot
  <2> QED BY <1>2, <2>2 DEF JobsMarkDone, RunningSlots, SlotsOfPid
<1> QED BY <1>1, <1>2

\* Freeing slots: the jobs that stay are as they were.
Shrunk(t, u) ==
  /\ u \in JobsTable
  /\ u.next_id = t.next_id
  /\ InUse(u) \subseteq InUse(t)
  /\ \A k \in InUse(u) : u.jobs[k] = t.jobs[k]

\* jobs_remove_by_pid frees at most a slot of that pid, and every slot of it
\* when there is only one.
LEMMA RemoveTable ==
  ASSUME NEW t \in JobsTable, NEW g
  PROVE  /\ Shrunk(t, JobsRemoveByPid(t, g))
         /\ \A k \in InUse(t) :
              t.jobs[k].pid # g => k \in InUse(JobsRemoveByPid(t, g))
         /\ (\A j, k \in InUse(t) : t.jobs[j].pid = t.jobs[k].pid => j = k) =>
              SlotsOfPid(JobsRemoveByPid(t, g), g) = {}
<1>1. CASE SlotsOfPid(t, g) = {}
  BY <1>1 DEF JobsRemoveByPid, Shrunk
<1>2. CASE SlotsOfPid(t, g) # {}
  <2> DEFINE i == JobsFindByPid(t, g)
             u == JobsRemoveByPid(t, g)
  <2>1. i \in InUse(t) /\ t.jobs[i].pid = g
    BY <1>2, FindByPid
  <2>2. u = [t EXCEPT !.jobs[i] = NoJob]
    BY <1>2 DEF JobsRemoveByPid
  <2> HIDE DEF i, u
  <2>3. u = [jobs |-> [t.jobs EXCEPT ![i] = NoJob], next_id |-> t.next_id]
    BY <2>2 DEF JobsTable
  <2>4. u \in JobsTable /\ u.next_id = t.next_id
    BY <2>3 DEF JobsTable
  <2>5. \A k \in Slots : u.jobs[k] = IF k = i THEN NoJob ELSE t.jobs[k]
    BY <2>3 DEF JobsTable
  <2>6. InUse(u) = InUse(t) \ {i}
    BY <2>5 DEF InUse
  <2>7. \A k \in InUse(u) : u.jobs[k] = t.jobs[k]
    BY <2>5, <2>6 DEF InUse
  <2>8. (\A j, k \in InUse(t) : t.jobs[j].pid = t.jobs[k].pid => j = k) =>
          SlotsOfPid(u, g) = {}
    BY <2>1, <2>6, <2>7 DEF SlotsOfPid
  <2> QED BY <2>1, <2>4, <2>6, <2>7, <2>8 DEF Shrunk, u
<1> QED BY <1>1, <1>2

\* jobs_clear_done frees the Done jobs and no other.
LEMMA ClearDoneTable ==
  ASSUME NEW t \in JobsTable
  PROVE  /\ Shrunk(t, JobsClearDone(t))
         /\ InUse(JobsClearDone(t)) = {k \in InUse(t) : t.jobs[k].state # "Done"}
<1> DEFINE u == JobsClearDone(t)
           f == [i \in Slots |-> IF i \in InUse(t) /\ t.jobs[i].state = "Done"
                                   THEN NoJob ELSE t.jobs[i]]
<1>1. u = [jobs |-> f, next_id |-> t.next_id]
  BY DEF JobsClearDone, JobsTable
<1>2. u \in JobsTable /\ u.next_id = t.next_id
  BY <1>1 DEF JobsTable
<1>3. \A k \in Slots : u.jobs[k] = IF k \in InUse(t) /\ t.jobs[k].state = "Done"
                                     THEN NoJob ELSE t.jobs[k]
  BY <1>1
<1> HIDE DEF u
<1>4. InUse(u) = {k \in InUse(t) : t.jobs[k].state # "Done"}
  BY <1>3 DEF InUse
<1>5. \A k \in InUse(u) : u.jobs[k] = t.jobs[k]
  BY <1>3, <1>4 DEF InUse
<1> QED BY <1>2, <1>4, <1>5 DEF Shrunk, u

-----------------------------------------------------------------------------
(* The shape of the state                                                  *)

Critical == {"fork", "setpgid", "add", "give", "wait", "reclaim", "resume"}

\* SIGCHLD is blocked exactly in the critical sections; no handler runs there.
MaskOK == (blocked <=> pc \in Critical) /\ (handling => ~blocked)

\* What waitpid would report agrees with the state of the process.
StatusOK ==
  \A p \in Pids :
    /\ st[p] = "zombie" => ws[p] \in WaitStatus /\ ws[p].how # "stopped"
    /\ st[p] = "stopped" /\ ws[p] # NoStatus => ws[p].how = "stopped"

\* Only the child just forked can be outside the group of its pipeline, and
\* then it is in the shell's, where processes are born.
SpawnOK ==
  /\ pc \in {"setpgid", "add", "give"} => pids # <<>>
  /\ \A p \in Pids : st[p] = "forked" /\ grp[p] = Shell =>
       pc = "setpgid" /\ p = pids[Len(pids)]
  /\ pc = "setpgid" => /\ st[pids[Len(pids)]] # "free"
                       /\ grp[pids[Len(pids)]] \in {Shell, pids[1]}
  /\ \A p \in Pids : st[p] = "free" => grp[p] = Shell

\* fg resumes a job the table lists; the wait is for a group of the shell's.
ResumeOK ==
  /\ pc = "resume" => SlotsOfPid(table, pgid) # {}
  /\ pc \in {"resume", "wait"} => pgid \in Pids

Shape == TypeOK /\ MaskOK /\ StatusOK /\ SpawnOK /\ ResumeOK

-----------------------------------------------------------------------------
(* What the operators of JobControl do to the state.                       *)

\* The job numbers of a table are natural numbers.
LEMMA IdsNat ==
  ASSUME NEW t \in JobsTable, NEW s
  PROVE  Ids(t) \subseteq Nat /\ IdsIn(t, s) \subseteq Nat
BY DEF Ids, IdsIn, InUse, JobsTable, Job

\* The signals sent by kill, by the keys and by a read of the terminal can be
\* caught: SIGKILL and SIGCONT take effect at once and are never pending.
LEMMA SignalTypes ==
  /\ {SIGTERM, SIGTSTP, SIGTTIN} \subseteq CatchableSignals
  /\ Keys \subseteq CatchableSignals
  /\ StopSignals \subseteq CatchableSignals
BY ControlAssumption
   DEF CatchableSignals, StopSignals, SIGINT, SIGTERM, SIGTSTP, SIGTTIN

\* kill leaves a set of pending signals for every process.
LEMMA SendShape ==
  ASSUME TypeOK, NEW P, NEW s \in CatchableSignals, Send(s, P)
  PROVE  pend' \in [Pids -> SUBSET CatchableSignals]
BY DEF TypeOK, Send

\* SIGCONT wakes the stopped processes it is sent to and no others.
LEMMA ContinueShape ==
  ASSUME TypeOK, StatusOK, NEW P, Continue(P)
  PROVE  /\ st' \in [Pids -> ProcState]
         /\ ws' \in [Pids -> WaitStatus \cup {NoStatus}]
         /\ pend' \in [Pids -> SUBSET CatchableSignals]
         /\ \A p \in Pids :
              IF p \in P /\ st[p] = "stopped"
                THEN st'[p] = "running" /\ ws'[p] = NoStatus
                ELSE st'[p] = st[p] /\ ws'[p] = ws[p]
BY DEF TypeOK, StatusOK, Continue, ProcState

\* A death concerns one process only.
LEMMA DieShape ==
  ASSUME TypeOK, NEW p \in Pids, NEW status \in WaitStatus, Die(p, status)
  PROVE  /\ st' \in [Pids -> ProcState]
         /\ ws' \in [Pids -> WaitStatus \cup {NoStatus}]
         /\ pend' \in [Pids -> SUBSET CatchableSignals]
         /\ chld' = TRUE
         /\ \A q \in Pids :
              IF q = p THEN st'[q] = "zombie" /\ ws'[q] = status
                       ELSE st'[q] = st[q] /\ ws'[q] = ws[q]
BY DEF TypeOK, Die, ProcState

\* waitpid collects one process, which leaves its group.
LEMMA ReapShape ==
  ASSUME TypeOK, NEW p \in Pids, Reap(p)
  PROVE  /\ st' \in [Pids -> ProcState]
         /\ ws' \in [Pids -> WaitStatus \cup {NoStatus}]
         /\ grp' \in [Pids -> Pids \cup {Shell}]
         /\ \A q \in Pids :
              IF q = p THEN st'[q] = "reaped" /\ ws'[q] = NoStatus /\ grp'[q] = Shell
                       ELSE st'[q] = st[q] /\ ws'[q] = ws[q] /\ grp'[q] = grp[q]
BY DEF TypeOK, Reap, ProcState

\* status_to_code of an exit or of a fatal signal is a natural number.
LEMMA FatalStatus ==
  ASSUME NEW status \in WaitStatus, status.how # "stopped"
  PROVE  StatusToCode(status) \in Nat
<1>1. CASE status \in [how : {"exited"}, n : ExitCodes]
  <2>1. status.n \in ExitCodes /\ status.how = "exited"
    BY <1>1
  <2>2. status.n \in 0 .. 255
    BY <2>1, ControlAssumption
  <2> QED BY <2>1, <2>2 DEF StatusToCode
<1>2. CASE status \in [how : {"signaled"}, n : {SIGINT, SIGTERM, SIGKILL}]
  <2>1. status.n \in Nat /\ status.how = "signaled"
    BY <1>2 DEF SIGINT, SIGTERM, SIGKILL
  <2> QED BY <2>1 DEF StatusToCode
<1> QED BY <1>1, <1>2 DEF WaitStatus

\* The signal of a stop is a natural number.
LEMMA StopStatus ==
  ASSUME NEW status \in WaitStatus, status.how = "stopped"
  PROVE  status.n \in Nat
BY DEF WaitStatus, StopSignals, SIGTSTP, SIGTTIN

\* What the kernel stores at an exit, a death or a stop is a wait status.
LEMMA NewStatus ==
  /\ \A c \in ExitCodes : [how |-> "exited", n |-> c] \in WaitStatus
  /\ \A s \in {SIGINT, SIGTERM, SIGKILL} : [how |-> "signaled", n |-> s] \in WaitStatus
  /\ \A s \in StopSignals : [how |-> "stopped", n |-> s] \in WaitStatus
BY DEF WaitStatus

\* The end of a command leaves the shell's variables as at the prompt.
LEMMA ReturnShape ==
  ASSUME Return
  PROVE  /\ pc' = "prompt" /\ blocked' = FALSE
         /\ cmd' \in [background : BOOLEAN, stages : 0 .. MaxStages]
         /\ pids' \in Seq(Pids) /\ pgid' = Shell /\ result' \in Nat
         /\ collected' \subseteq Pids \X Nat
BY ControlAssumption DEF Return, NoCmd

-----------------------------------------------------------------------------
(* Every step keeps the shape.                                             *)

\* The first system calls of a command keep the shape of the state.
LEMMA UserCommandShape ==
  ASSUME Shape, UserCommand
  PROVE  Shape'
<1> USE DEF At, Ready, Shape, TypeOK, MaskOK, StatusOK, SpawnOK, ResumeOK, PC,
            Critical, procVars, histVars
<1>1. ASSUME OtherLine PROVE Shape'
  BY <1>1 DEF OtherLine
<1>2. ASSUME LeaveLoop PROVE Shape'
  BY <1>2 DEF LeaveLoop
<1>3. ASSUME JobsBuiltin PROVE Shape'
  <2>1. table' \in JobsTable /\ shown' \subseteq Nat
    BY <1>3, ClearDoneTable, IdsNat DEF JobsBuiltin, Shape, TypeOK, Shrunk
  <2> QED BY <1>3, <2>1 DEF JobsBuiltin
<1>4. ASSUME KillOwnGroup PROVE Shape'
  <2>1. pend' \in [Pids -> SUBSET CatchableSignals]
    BY <1>4, SendShape, SignalTypes DEF KillOwnGroup, Shape
  <2> QED BY <1>4, <2>1 DEF KillOwnGroup
<1>5. ASSUME NEW b \in BOOLEAN, NEW k \in 1 .. MaxStages, ExecutePipeline(b, k)
      PROVE  Shape'
  <2>1. cmd' \in [background : BOOLEAN, stages : 0 .. MaxStages]
    BY <1>5, ControlAssumption DEF ExecutePipeline
  <2> QED BY <1>5, <2>1 DEF ExecutePipeline, BlockSigchld
<1>6. ASSUME NEW id \in Ids(table), FgStart(id) PROVE Shape'
  <2> DEFINE i == JobsFindById(table, id)
  <2>1. i \in InUse(table) /\ pgid' = table.jobs[i].pid /\ pgid' \in Pids
    BY <1>6, FindById DEF FgStart, Shape, TypeOK, JobsTable, Job, InUse
  <2>2. SlotsOfPid(table, pgid') # {}
    BY <1>6, <2>1 DEF SlotsOfPid
  <2>3. tty' \in Pids \cup {Shell}
    BY <1>6, <2>1 DEF FgStart, TcSetPgrp, Shape, TypeOK
  <2> QED BY <1>6, <2>1, <2>2, <2>3 DEF FgStart, BlockSigchld
<1>7. ASSUME NEW id \in Ids(table), Bg(id) PROVE Shape'
  <2> DEFINE i == JobsFindById(table, id)
  <2>1. i \in InUse(table)
    BY <1>7, FindById DEF Bg, Shape, TypeOK
  <2>2. table' \in JobsTable
    BY <1>7, <2>1, SetStateTable DEF Bg, Shape, TypeOK, JobState
  <2>3. CASE table.jobs[i].state = "Stopped"
    <3>1. Continue(Members(table.jobs[i].pid))
      BY <1>7, <2>3 DEF Bg
    <3> QED BY <1>7, <2>2, <3>1, ContinueShape DEF Bg
  <2>4. CASE table.jobs[i].state # "Stopped"
    BY <1>7, <2>2, <2>4 DEF Bg
  <2> QED BY <1>7, <2>3, <2>4
<1>8. ASSUME NEW id \in Ids(table), KillFind(id) PROVE Shape'
  <2>1. pgid' \in Pids
    BY <1>8, FindById DEF KillFind, Shape, TypeOK, JobsTable, Job, InUse
  <2> QED BY <1>8, <2>1 DEF KillFind
<1>9. ASSUME NEW p \in Pids, KillPid(p) PROVE Shape'
  <2>1. pend' \in [Pids -> SUBSET CatchableSignals]
    BY <1>9, SendShape, SignalTypes DEF KillPid, Shape
  <2> QED BY <1>9, <2>1 DEF KillPid
<1> QED BY <1>1, <1>2, <1>3, <1>4, <1>5, <1>6, <1>7, <1>8, <1>9 DEF UserCommand

\* The later steps of the shell keep the shape of the state.
LEMMA ShellStepShape ==
  ASSUME Shape, ShellStep
  PROVE  Shape'
<1> USE DEF At, Ready, Shape, TypeOK, MaskOK, StatusOK, SpawnOK, ResumeOK, PC,
            Critical, procVars, histVars
<1>1. ASSUME PromptNotify PROVE Shape'
  <2>1. table' \in JobsTable /\ shown' \subseteq Nat
    BY <1>1, ClearDoneTable, IdsNat DEF PromptNotify, Shape, TypeOK, Shrunk
  <2> QED BY <1>1, <2>1 DEF PromptNotify
<1>2. ASSUME SpawnFails PROVE Shape'
  <2>1. Range(pids) \subseteq Pids
    BY <1>2 DEF Range, Shape, TypeOK
  <2> QED BY <1>2, <2>1, ReturnShape DEF SpawnFails
<1>3. ASSUME ParentSetpgid PROVE Shape'
  <2> DEFINE p == pids[Len(pids)]
  <2>1. pids # <<>> /\ pids[1] \in Pids /\ p \in Pids
    BY <1>3 DEF ParentSetpgid, At, Shape, SpawnOK, TypeOK
  <2>2. grp' \in [Pids -> Pids \cup {Shell}] /\ grp'[p] = pids[1]
        /\ \A q \in Pids \ {p} : grp'[q] = grp[q]
    BY <1>3, <2>1 DEF ParentSetpgid, Shape, TypeOK
  <2>3. pids[1] # Shell
    BY <1>3, <2>1, ControlAssumption
  <2>4. st[p] # "free"
    BY <1>3, <2>1 DEF ParentSetpgid, At, Shape, SpawnOK
  <2> HIDE DEF p
  <2> QED BY <1>3, <2>1, <2>2, <2>3, <2>4 DEF ParentSetpgid, p
<1>4. ASSUME AddJob PROVE Shape'
  <2> DEFINE g == pids[1]
  <2>1. g \in Pids
    BY <1>4 DEF AddJob, At, Shape, SpawnOK, TypeOK
  <2>2. table' \in JobsTable
    <3>1. table \in JobsTable /\ "Running" \in JobState
      BY <1>4 DEF Shape, TypeOK, JobState
    <3> HIDE DEF g
    <3>2. JobsAdd(table, g, "Running") \in JobsTable
      BY <1>4, <2>1, <3>1, AddIsTable
    <3> QED BY <1>4, <3>2 DEF AddJob, g
  <2> QED BY <1>4, <2>1, <2>2, ReturnShape DEF AddJob
<1>5. ASSUME GiveTerminal PROVE Shape'
  <2>1. pids[1] \in Pids
    BY <1>5 DEF GiveTerminal, At, Shape, SpawnOK, TypeOK
  <2>2. tty' \in Pids \cup {Shell}
    BY <1>5, <2>1 DEF GiveTerminal, TcSetPgrp, Shape, TypeOK
  <2> QED BY <1>5, <2>1, <2>2 DEF GiveTerminal
<1>6. ASSUME WaitNoChild PROVE Shape'
  <2>1. table' \in JobsTable
    BY <1>6, RemoveTable DEF WaitNoChild, Shape, TypeOK, Shrunk
  <2> QED BY <1>6, <2>1 DEF WaitNoChild
<1>7. ASSUME Reclaim PROVE Shape'
  <2> QED BY <1>7, ReturnShape DEF Reclaim, TcSetPgrp
<1>8. ASSUME FgResume PROVE Shape'
  <2> DEFINE i == JobsFindByPid(table, pgid)
  <2>1. i \in InUse(table)
    BY <1>8, FindByPid DEF FgResume, At, Shape, TypeOK, ResumeOK
  <2>2. table' \in JobsTable
    BY <1>8, <2>1, SetStateTable DEF FgResume, Shape, TypeOK, JobState
  <2>3. CASE table.jobs[i].state = "Stopped"
    <3>1. Continue(Members(pgid))
      BY <1>8, <2>3 DEF FgResume
    <3> QED BY <1>8, <2>2, <3>1, ContinueShape DEF FgResume
  <2>4. CASE table.jobs[i].state # "Stopped"
    BY <1>8, <2>2, <2>4 DEF FgResume
  <2> QED BY <1>8, <2>3, <2>4
<1>9. ASSUME KillSend PROVE Shape'
  <2>1. pend' \in [Pids -> SUBSET CatchableSignals]
    BY <1>9, SendShape, SignalTypes DEF KillSend, Shape
  <2> QED BY <1>9, <2>1, ReturnShape DEF KillSend
<1>10. ASSUME NEW p \in Pids, Fork(p) PROVE Shape'
  <2>1. pids' \in Seq(Pids) /\ pids' # <<>> /\ pids'[Len(pids')] = p
    BY <1>10 DEF Fork, Shape, TypeOK
  <2>2. st' \in [Pids -> ProcState] /\ st'[p] = "forked"
        /\ \A q \in Pids \ {p} : st'[q] = st[q]
    BY <1>10 DEF Fork, Shape, TypeOK, ProcState
  <2>3. grp[p] = Shell
    BY <1>10 DEF Fork, Shape, SpawnOK
  <2> QED BY <1>10, <2>1, <2>2, <2>3 DEF Fork
<1>11. ASSUME NEW p \in Pids, WaitExited(p) PROVE Shape'
  <2>1. result' \in Nat /\ collected' \subseteq Pids \X Nat
    BY <1>11, FatalStatus DEF WaitExited, Shape, TypeOK, StatusOK
  <2> QED BY <1>11, <2>1, ReapShape DEF WaitExited
<1>12. ASSUME NEW p \in Pids, WaitStopped(p) PROVE Shape'
  <2>1. result' \in Nat
    BY <1>12, StopStatus DEF WaitStopped, Shape, TypeOK, StatusOK
  <2>2. ws' \in [Pids -> WaitStatus \cup {NoStatus}] /\ ws'[p] = NoStatus
        /\ \A q \in Pids \ {p} : ws'[q] = ws[q]
    BY <1>12 DEF WaitStopped, Shape, TypeOK
  <2>3. pgid \in Pids
    BY <1>12 DEF WaitStopped, At, Shape, ResumeOK
  <2>4. table' \in JobsTable /\ untracked' \subseteq Pids
    <3>1. CASE SlotsOfPid(table, pgid) # {}
      BY <1>12, <3>1, FindByPid, SetStateTable
         DEF WaitStopped, Shape, TypeOK, JobState
    <3>2. CASE SlotsOfPid(table, pgid) = {}
      <4>1. table \in JobsTable /\ untracked \subseteq Pids /\ "Stopped" \in JobState
        BY <1>12 DEF Shape, TypeOK, JobState
      <4>2. JobsAdd(table, pgid, "Stopped") \in JobsTable
        BY <1>12, <2>3, <4>1, AddIsTable
      <4> QED BY <1>12, <2>3, <3>2, <4>1, <4>2 DEF WaitStopped
    <3> QED BY <1>12, <3>1, <3>2
  <2> QED BY <1>12, <2>1, <2>2, <2>4 DEF WaitStopped
<1> QED BY <1>1, <1>2, <1>3, <1>4, <1>5, <1>6, <1>7, <1>8, <1>9, <1>10, <1>11,
           <1>12
           DEF ShellStep

\* sigchld_handler keeps the shape of the state.
LEMMA HandlerShape ==
  ASSUME Shape, Handler
  PROVE  Shape'
<1> USE DEF At, Ready, Shape, TypeOK, MaskOK, StatusOK, SpawnOK, ResumeOK, PC,
            Critical, procVars, histVars
<1>1. ASSUME HandlerEnter PROVE Shape'
  BY <1>1 DEF HandlerEnter
<1>2. ASSUME HandlerReturn PROVE Shape'
  BY <1>2 DEF HandlerReturn
<1>3. ASSUME NEW p \in Pids, HandlerReap(p) PROVE Shape'
  <2>1. table' \in JobsTable
    BY <1>3, MarkDone, SetStateTable DEF HandlerReap, Shape, TypeOK, JobState
  <2>2. pc # "resume"
    BY <1>3 DEF HandlerReap, Shape, MaskOK, Critical
  <2> QED BY <1>3, <2>1, <2>2, ReapShape DEF HandlerReap
<1> QED BY <1>1, <1>2, <1>3 DEF Handler

\* A death keeps the shape of the state.
LEMMA DeathShape ==
  ASSUME Shape, NEW p \in Pids, Live(p),
         NEW status \in WaitStatus, status.how # "stopped", Die(p, status),
         UNCHANGED <<shellVars, grp, tty, histVars>>
  PROVE  Shape'
<1>1. /\ st' \in [Pids -> ProcState]
      /\ ws' \in [Pids -> WaitStatus \cup {NoStatus}]
      /\ pend' \in [Pids -> SUBSET CatchableSignals]
      /\ chld' = TRUE
      /\ \A q \in Pids : IF q = p THEN st'[q] = "zombie" /\ ws'[q] = status
                                  ELSE st'[q] = st[q] /\ ws'[q] = ws[q]
  BY DieShape DEF Shape
<1>2. TypeOK'
  BY <1>1 DEF Shape, TypeOK, shellVars, histVars
<1>3. StatusOK'
  BY <1>1 DEF Shape, StatusOK
<1>4. SpawnOK'
  <2>1. pc = "setpgid" => pids[Len(pids)] \in Pids
    BY DEF Shape, SpawnOK, TypeOK
  <2> QED BY <1>1, <2>1 DEF Shape, SpawnOK, Live, shellVars
<1> QED BY <1>2, <1>3, <1>4 DEF Shape, MaskOK, ResumeOK, shellVars

\* Programs, the kernel and other sessions keep the shape of the state.
LEMMA ProgramsShape ==
  ASSUME Shape, Programs
  PROVE  Shape'
<1> USE DEF At, Ready, Shape, TypeOK, MaskOK, StatusOK, SpawnOK, ResumeOK, PC,
            Critical, procVars, histVars, shellVars
<1>1. ASSUME NEW p \in Pids, ChildStart(p) PROVE Shape'
  <2>1. st' \in [Pids -> ProcState] /\ st'[p] = "running"
        /\ \A q \in Pids \ {p} : st'[q] = st[q]
    BY <1>1 DEF ChildStart, Shape, TypeOK, ProcState
  <2>2. CASE grp[p] = Shell
    <3>1. pc = "setpgid" /\ p = pids[Len(pids)] /\ pids[1] \in Pids
      BY <1>1, <2>2 DEF ChildStart, Shape, SpawnOK, TypeOK
    <3>2. grp' \in [Pids -> Pids \cup {Shell}] /\ grp'[p] = pids[1]
          /\ \A q \in Pids \ {p} : grp'[q] = grp[q]
      BY <1>1, <2>2, <3>1 DEF ChildStart, JoinGroup, Shape, TypeOK
    <3> QED BY <1>1, <2>1, <3>1, <3>2 DEF ChildStart, shellVars
  <2>3. CASE grp[p] # Shell
    BY <1>1, <2>1, <2>3 DEF ChildStart, JoinGroup, shellVars
  <2> QED BY <1>1, <2>2, <2>3
<1>2. ASSUME NEW p \in Pids, TtyRead(p) PROVE Shape'
  <2>1. pend' \in [Pids -> SUBSET CatchableSignals]
    BY <1>2, SendShape, SignalTypes DEF TtyRead, Shape
  <2> QED BY <1>2, <2>1 DEF TtyRead, shellVars
<1>3. ASSUME NEW p \in Pids, ExternalKill(p) PROVE Shape'
  <2> DEFINE status == [how |-> "signaled", n |-> SIGKILL]
  <2>1. status \in WaitStatus /\ status.how # "stopped" /\ Die(p, status)
    BY <1>3, NewStatus DEF ExternalKill
  <2> HIDE DEF status
  <2> QED BY <1>3, <2>1, DeathShape DEF ExternalKill
<1>4. ASSUME NEW p \in Pids, ExternalContinue(p) PROVE Shape'
  <2>1. /\ st' \in [Pids -> ProcState] /\ ws' \in [Pids -> WaitStatus \cup {NoStatus}]
        /\ pend' \in [Pids -> SUBSET CatchableSignals]
        /\ \A q \in Pids :
             /\ st'[q] = IF q = p /\ st[q] = "stopped" THEN "running" ELSE st[q]
             /\ ws'[q] = IF q = p /\ st[q] = "stopped" THEN NoStatus ELSE ws[q]
    <3>1. /\ st' = [q \in Pids |-> IF q = p /\ st[q] = "stopped" THEN "running" ELSE st[q]]
          /\ ws' = [q \in Pids |-> IF q = p /\ st[q] = "stopped" THEN NoStatus ELSE ws[q]]
          /\ pend' = [q \in Pids |-> IF q = p THEN pend[q] \ StopSignals ELSE pend[q]]
      BY <1>4 DEF ExternalContinue, Continue
    <3>2. st' \in [Pids -> ProcState]
      BY <1>4, <3>1 DEF ProcState
    <3>3. ws' \in [Pids -> WaitStatus \cup {NoStatus}]
      BY <1>4, <3>1
    <3>4. pend' \in [Pids -> SUBSET CatchableSignals]
      BY <1>4, <3>1
    <3> QED BY <1>4, <3>1, <3>2, <3>3, <3>4
  <2> QED BY <1>4, <2>1 DEF ExternalContinue, shellVars
<1>5. ASSUME NEW p \in Pids, NEW c \in ExitCodes, Exit(p, c) PROVE Shape'
  <2> DEFINE status == [how |-> "exited", n |-> c]
  <2>1. status \in WaitStatus /\ status.how # "stopped" /\ Die(p, status)
    BY <1>5, NewStatus DEF Exit
  <2> HIDE DEF status
  <2> QED BY <1>5, <2>1, DeathShape DEF Exit, Live
<1>6. ASSUME NEW p \in Pids, NEW s \in CatchableSignals, Terminate(p, s)
      PROVE  Shape'
  <2> DEFINE status == [how |-> "signaled", n |-> s]
  <2>1. s \in {SIGINT, SIGTERM, SIGKILL}
    BY <1>6 DEF Terminate, CatchableSignals
  <2>2. status \in WaitStatus /\ status.how # "stopped" /\ Die(p, status)
    BY <1>6, <2>1, NewStatus DEF Terminate
  <2> HIDE DEF status
  <2> QED BY <1>6, <2>2, DeathShape DEF Terminate, Live
<1>7. ASSUME NEW p \in Pids, NEW s \in CatchableSignals, Stop(p, s)
      PROVE  Shape'
  <2>1. [how |-> "stopped", n |-> s] \in WaitStatus
    BY <1>7, NewStatus DEF Stop
  <2>2. /\ st' \in [Pids -> ProcState] /\ ws' \in [Pids -> WaitStatus \cup {NoStatus}]
        /\ pend' \in [Pids -> SUBSET CatchableSignals]
        /\ st'[p] = "stopped" /\ ws'[p] = [how |-> "stopped", n |-> s]
        /\ \A q \in Pids \ {p} : st'[q] = st[q] /\ ws'[q] = ws[q]
    BY <1>7, <2>1 DEF Stop, Shape, TypeOK, ProcState
  <2> QED BY <1>7, <2>2 DEF Stop, shellVars
<1>8. ASSUME NEW p \in Pids, NEW s \in CatchableSignals, Catch(p, s)
      PROVE  Shape'
  <2>1. pend' \in [Pids -> SUBSET CatchableSignals]
    BY <1>8 DEF Catch, Shape, TypeOK
  <2> QED BY <1>8, <2>1 DEF Catch, shellVars
<1> QED BY <1>1, <1>2, <1>3, <1>4, <1>5, <1>6, <1>7, <1>8 DEF Programs

\* Ctrl+C and Ctrl+Z keep the shape of the state.
LEMMA UserShape ==
  ASSUME Shape, User
  PROVE  Shape'
<1>1. PICK s \in Keys : Key(s)
  BY DEF User
<1>2. pend' \in [Pids -> SUBSET CatchableSignals]
  BY <1>1, SendShape, SignalTypes DEF Key, Shape
<1> QED BY <1>1, <1>2
           DEF Key, Shape, TypeOK, MaskOK, StatusOK, SpawnOK, ResumeOK,
               shellVars, histVars

\* The shape of the state is an invariant of the shell.
THEOREM ShapeInvariant == Spec => []Shape
<1>1. ASSUME Init PROVE Shape
  <2>1. TypeOK
    <3>1. JobsInit \in JobsTable
      BY InitTable
    <3>2. NoCmd \in [background : BOOLEAN, stages : 0 .. MaxStages]
      BY ControlAssumption DEF NoCmd
    <3>3. st \in [Pids -> ProcState] /\ grp \in [Pids -> Pids \cup {Shell}]
          /\ pend \in [Pids -> SUBSET CatchableSignals]
          /\ ws \in [Pids -> WaitStatus \cup {NoStatus}]
      BY <1>1 DEF Init, ProcState
    <3>4. pids \in Seq(Pids) /\ pgid \in Pids \cup {Shell} /\ tty \in Pids \cup {Shell}
      BY <1>1 DEF Init
    <3>5. untracked \subseteq Pids /\ shown \subseteq Nat
          /\ collected \subseteq Pids \X Nat
      BY <1>1 DEF Init
    <3> QED BY <1>1, <3>1, <3>2, <3>3, <3>4, <3>5 DEF Init, TypeOK, PC
  <2>2. MaskOK /\ StatusOK /\ SpawnOK /\ ResumeOK
    BY <1>1 DEF Init, MaskOK, StatusOK, SpawnOK, ResumeOK, Critical
  <2> QED BY <2>1, <2>2 DEF Shape
<1>2. ASSUME Shape, [Next]_vars PROVE Shape'
  <2>1. CASE UNCHANGED vars
    BY <1>2, <2>1
       DEF Shape, TypeOK, MaskOK, StatusOK, SpawnOK, ResumeOK, vars, shellVars,
           procVars, histVars
  <2>2. CASE Next
    BY <1>2, <2>1, <2>2, UserCommandShape, ShellStepShape, HandlerShape,
       ProgramsShape, UserShape
       DEF Next, Terminated
  <2> QED BY <1>2, <2>1, <2>2
<1> QED BY <1>1, <1>2, PTL DEF Spec

\* Every variable keeps its type, whatever the users, the programs and the
\* signals do: the table is a table, and every status waitpid yields is one.
THEOREM TypeCorrect == Spec => []TypeOK
<1>1. Shape => TypeOK
  BY DEF Shape
<1> QED BY <1>1, ShapeInvariant, PTL

-----------------------------------------------------------------------------
(* Knowledge: the groups the table, the history and the shell know of.     *)

Spawning == {"fork", "setpgid", "add", "give"}

\* Nobody is listed or given up before being forked, nor both; the stages
\* of the pipeline being started are neither.
KnownOK ==
  /\ \A i \in InUse(table) :
       st[table.jobs[i].pid] # "free" /\ table.jobs[i].pid \notin untracked
  /\ \A p \in untracked : st[p] # "free"
  /\ pc \in Spawning => \A i \in DOMAIN pids :
       /\ st[pids[i]] # "free" /\ pids[i] \notin untracked
       /\ \A k \in InUse(table) : table.jobs[k].pid # pids[i]
  /\ pc \in {"prompt", "read", "resume", "kill"} => pids = <<>>

\* The group waited for is not given up, and not marked Stopped.
WaitOK ==
  /\ pc = "wait" => /\ pgid \notin untracked
                    /\ st[pgid] # "free" /\ pgid \notin Suspended
  /\ pc \in {"wait", "reclaim"} /\ pids # <<>> => pgid = pids[1]
  /\ pc = "reclaim" => \A p \in Pids : Live(p) /\ grp[p] = p =>
       p \in Listed \/ p \in untracked

\* A process of which the stop was collected is in a group of its own.
StopSeenGrouped == \A p \in Pids : StopSeen(p) => grp[p] # Shell

Knowledge ==
  KnownOK /\ WaitOK /\ UniqueJobs /\ DoneMeansReaped /\ ZombiePending
  /\ StoppedResumable /\ LeaderTracked /\ StopSeenGrouped

IInv == Shape /\ Knowledge

-----------------------------------------------------------------------------
(* Facts about the table of the current state.                             *)

\* Every slot in use holds a pid, a job number and a state.
LEMMA PidsOfTable ==
  ASSUME Shape
  PROVE  \A i \in InUse(table) : /\ i \in Slots
                                 /\ table.jobs[i].pid \in Pids
                                 /\ table.jobs[i].job_id \in Nat
                                 /\ table.jobs[i].state \in JobState
BY DEF InUse, JobsTable, Job, Shape, TypeOK

\* Marking one job: no other job changes, and the ids and groups stay unique.
LEMMA MarkedJob ==
  ASSUME Shape, UniqueJobs, NEW i \in InUse(table), NEW s \in JobState,
         table' = SetState(table, i, s), NEW g, g = table.jobs[i].pid
  PROVE  /\ InUse(table') = InUse(table)
         /\ \A k \in InUse(table) :
              /\ table'.jobs[k].pid = table.jobs[k].pid
              /\ table'.jobs[k].state = IF k = i THEN s ELSE table.jobs[k].state
         /\ UniqueJobs'
         /\ s = "Stopped" => g \in Suspended'
         /\ s = "Running" => g \in Listed' /\ g \notin Suspended'
         /\ Suspended \ {g} \subseteq Suspended' /\ Listed \ {g} \subseteq Listed'
<1>1. /\ table'.next_id = table.next_id
      /\ InUse(table') = InUse(table)
      /\ \A k \in InUse(table) :
           /\ table'.jobs[k].pid = table.jobs[k].pid
           /\ table'.jobs[k].job_id = table.jobs[k].job_id
           /\ table'.jobs[k].state = IF k = i THEN s ELSE table.jobs[k].state
  BY SetStateTable DEF Shape, TypeOK
<1>2. UniqueJobs'
  BY <1>1 DEF UniqueJobs, Ids
<1>3. /\ s = "Stopped" => g \in Suspended'
      /\ s = "Running" => g \in Listed' /\ g \notin Suspended'
  BY <1>1 DEF GroupsIn, Suspended, Listed, UniqueJobs
<1>4. Suspended \ {g} \subseteq Suspended' /\ Listed \ {g} \subseteq Listed'
  BY <1>1 DEF GroupsIn, Suspended, Listed
<1> QED BY <1>1, <1>2, <1>3, <1>4

\* Entering a job of a group the table does not list keeps the ids and groups
\* unique and the other jobs as they were.
LEMMA AddedJob ==
  ASSUME Shape, UniqueJobs, DoneMeansReaped, NEW g \in Pids,
         \A k \in InUse(table) : table.jobs[k].pid # g,
         NEW s \in {"Running", "Stopped"},
         FreeSlots(table) # {}, table' = JobsAdd(table, g, s), UNCHANGED st
  PROVE  /\ \A k \in InUse(table)' :
              \/ table'.jobs[k].pid = g
              \/ k \in InUse(table) /\ table'.jobs[k] = table.jobs[k]
         /\ UniqueJobs' /\ DoneMeansReaped'
         /\ g \in Listed' /\ (s = "Stopped" => g \in Suspended')
         /\ Suspended \subseteq Suspended' /\ Listed \subseteq Listed'
<1>1. table \in JobsTable /\ s \in JobState
  BY DEF Shape, TypeOK, JobState
<1>2. PICK i \in Slots \ InUse(table) :
        /\ InUse(table') = InUse(table) \cup {i}
        /\ table'.jobs[i] = [pid |-> g, job_id |-> table.next_id, state |-> s]
        /\ \A k \in InUse(table) : table'.jobs[k] = table.jobs[k]
        /\ table'.next_id = table.next_id + 1
  BY <1>1, AddTable
<1>3. table'.next_id = table.next_id + 1 /\ table.next_id \in Nat
  <2>1. table.next_id \in Nat
    BY <1>1 DEF JobsTable
  <2> QED BY <1>2, <2>1
<1>4. \A k \in InUse(table) : table.jobs[k].job_id \in Nat /\ table.jobs[k].job_id < table.next_id
  BY PidsOfTable DEF UniqueJobs, Ids
<1>5. UniqueJobs'
  <2>1. \A j, k \in InUse(table') :
          (table'.jobs[j].job_id = table'.jobs[k].job_id
           \/ table'.jobs[j].pid = table'.jobs[k].pid) => j = k
    BY <1>2, <1>3, <1>4 DEF UniqueJobs
  <2>2. \A k \in InUse(table') : table'.jobs[k].job_id < table'.next_id
    BY <1>2, <1>3, <1>4
  <2> QED BY <2>1, <2>2 DEF UniqueJobs, Ids
<1>6. DoneMeansReaped'
  BY <1>2 DEF DoneMeansReaped
<1>7. g \in Listed' /\ (s = "Stopped" => g \in Suspended')
  BY <1>2 DEF GroupsIn, Suspended, Listed
<1>8. Suspended \subseteq Suspended' /\ Listed \subseteq Listed'
  BY <1>2 DEF GroupsIn, Suspended, Listed
<1> QED BY <1>2, <1>5, <1>6, <1>7, <1>8

-----------------------------------------------------------------------------
(* Steps of the processes: the shell and its table are not involved.       *)

\* What the second layer needs of a step that leaves the shell alone: nobody
\* is unborn or comes back from the dead, a new zombie raises SIGCHLD, nothing
\* but the shell collects a stop, and a group leader is a pipeline's first stage.
Quiet ==
  /\ UNCHANGED <<pc, pids, pgid, table, untracked, handling>>
  /\ \A p \in Pids : /\ st[p] # "free" => st'[p] # "free"
                     /\ st[p] = "reaped" => st'[p] = "reaped"
                     /\ st'[p] = "zombie" => st[p] = "zombie" \/ chld'
                     /\ StopSeen(p)' => StopSeen(p) /\ grp'[p] = grp[p]
                     /\ Live(p)' /\ grp'[p] = p =>
                          \/ Live(p) /\ grp[p] = p
                          \/ pc # "reclaim" /\ pids # <<>> /\ pids[1] = p
  /\ chld => chld'

\* A quiet step keeps what the second layer says.
LEMMA QuietStep ==
  ASSUME Shape, Knowledge, Quiet
  PROVE  Knowledge'
<1>1. KnownOK'
  <2>1. table \in JobsTable /\ untracked \subseteq Pids /\ pids \in Seq(Pids)
    BY DEF Shape, TypeOK
  <2>2. \A i \in InUse(table) : table.jobs[i].pid \in Pids
    BY <2>1 DEF InUse, JobsTable, Job
  <2> QED BY <2>1, <2>2 DEF Quiet, Knowledge, KnownOK
<1>2. WaitOK'
  <2>1. pc = "wait" => pgid \in Pids
    BY DEF Shape, ResumeOK
  <2> QED BY <2>1 DEF Quiet, Knowledge, WaitOK, Suspended, Listed, GroupsIn
<1>3. UniqueJobs'
  BY DEF Quiet, Knowledge, UniqueJobs, Ids
<1>4. DoneMeansReaped'
  <2>2. \A i \in InUse(table) : table.jobs[i].pid \in Pids
    BY DEF InUse, JobsTable, Job, Shape, TypeOK
  <2> QED BY <2>2 DEF Quiet, Knowledge, DoneMeansReaped
<1>5. ZombiePending'
  BY DEF Quiet, Knowledge, ZombiePending
<1>6. StoppedResumable'
  BY DEF Quiet, Knowledge, StoppedResumable, Suspended, GroupsIn
<1>7. LeaderTracked'
  BY DEF Quiet, Knowledge, LeaderTracked, Listed, GroupsIn
<1>8. StopSeenGrouped'
  BY DEF Quiet, Knowledge, StopSeenGrouped
<1> QED BY <1>1, <1>2, <1>3, <1>4, <1>5, <1>6, <1>7, <1>8 DEF Knowledge

\* A death is quiet: it raises SIGCHLD.
LEMMA QuietDeath ==
  ASSUME NEW p \in Pids, NEW status \in WaitStatus, Shape, Live(p), Die(p, status),
         UNCHANGED <<shellVars, grp, tty, histVars>>
  PROVE  Quiet
BY DEF Die, shellVars, histVars, Shape, TypeOK, Quiet, StopSeen, Live

\* SIGCONT from another session is quiet: it only wakes processes.
LEMMA QuietContinue ==
  ASSUME NEW P, Shape, Continue(P),
         UNCHANGED <<shellVars, grp, chld, tty, histVars>>
  PROVE  Quiet
BY ContinueShape DEF shellVars, histVars, Shape, Quiet, StopSeen, Live

\* A signal that is only made pending, or discarded, is quiet.
LEMMA QuietSignal ==
  ASSUME Shape, UNCHANGED <<shellVars, st, grp, ws, chld, histVars>>
  PROVE  Quiet
BY DEF shellVars, histVars, Quiet, StopSeen, Live

\* Programs, the kernel and other sessions keep the second layer.
LEMMA ProgramsKnowledge ==
  ASSUME Shape, Knowledge, Programs
  PROVE  Knowledge'
<1>1. ASSUME NEW p \in Pids, ChildStart(p) PROVE Quiet
  BY <1>1
     DEF ChildStart, JoinGroup, shellVars, histVars, Shape, TypeOK, SpawnOK,
         Quiet, StopSeen, Live
<1>2. ASSUME NEW p \in Pids, TtyRead(p) PROVE Quiet
  BY <1>2, QuietSignal DEF TtyRead
<1>3. ASSUME NEW p \in Pids, ExternalKill(p) PROVE Quiet
  <2>1. [how |-> "signaled", n |-> SIGKILL] \in WaitStatus
    BY NewStatus
  <2> QED BY <1>3, <2>1, QuietDeath DEF ExternalKill
<1>4. ASSUME NEW p \in Pids, ExternalContinue(p) PROVE Quiet
  BY <1>4, QuietContinue DEF ExternalContinue
<1>5. ASSUME NEW p \in Pids, NEW c \in ExitCodes, Exit(p, c) PROVE Quiet
  <2>1. [how |-> "exited", n |-> c] \in WaitStatus /\ Live(p)
    BY <1>5, NewStatus DEF Exit, Live
  <2> QED BY <1>5, <2>1, QuietDeath DEF Exit
<1>6. ASSUME NEW p \in Pids, NEW s \in CatchableSignals, Terminate(p, s) PROVE Quiet
  <2>1. s \in {SIGINT, SIGTERM, SIGKILL}
    BY <1>6 DEF Terminate, CatchableSignals
  <2>2. [how |-> "signaled", n |-> s] \in WaitStatus /\ Live(p)
    BY <1>6, <2>1, NewStatus DEF Terminate, Live
  <2> QED BY <1>6, <2>2, QuietDeath DEF Terminate
<1>7. ASSUME NEW p \in Pids, NEW s \in CatchableSignals, Stop(p,s) PROVE Quiet
  <2>1. [how |-> "stopped", n |-> s] # NoStatus
    BY <1>7, NewStatus, ControlAssumption DEF Stop
  <2> QED BY <1>7, <2>1
             DEF Stop, shellVars, histVars, Shape, TypeOK, Quiet, StopSeen,
                 Live
<1>8. ASSUME NEW p \in Pids, NEW s \in CatchableSignals, Catch(p, s) PROVE Quiet
  BY <1>8, QuietSignal DEF Catch
<1>9. Quiet
  BY <1>1, <1>2, <1>3, <1>4, <1>5, <1>6, <1>7, <1>8 DEF Programs
<1> QED BY <1>9, QuietStep

\* Ctrl+C and Ctrl+Z keep the second layer.
LEMMA UserKnowledge ==
  ASSUME Shape, Knowledge, User
  PROVE  Knowledge'
<1>1. Quiet
  BY QuietSignal DEF User, Key
<1> QED BY <1>1, QuietStep

-----------------------------------------------------------------------------
(* Steps of the shell and of its handler.                                  *)

\* Reporting and freeing the Done jobs, at the prompt or by the jobs builtin,
\* keeps the second layer.
LEMMA TableShrunk ==
  ASSUME Shape, Knowledge, Shrunk(table, table'),
         \A i \in InUse(table) : table.jobs[i].state # "Done" => i \in InUse(table'),
         UNCHANGED <<procVars, chld, untracked, handling, pids, pgid>>,
         pc' \in {"prompt", "read"}, pc \in {"prompt", "read"}
  PROVE  Knowledge'
BY PidsOfTable
   DEF Shrunk, Knowledge, KnownOK, WaitOK, UniqueJobs, DoneMeansReaped,
       ZombiePending, StoppedResumable, LeaderTracked, StopSeenGrouped,
       StopSeen, Live, GroupsIn, Suspended, Listed, Ids, Spawning, procVars,
       histVars, At, Ready

\* fg and bg of a stopped job mark it Running and wake all its stopped members:
\* nobody whose stop was collected is left in a job that is not Stopped.
LEMMA JobResumed ==
  ASSUME Shape, Knowledge, NEW i \in InUse(table), table.jobs[i].state = "Stopped",
         table' = SetState(table, i, "Running"),
         NEW g, g = table.jobs[i].pid, Continue(Members(g)),
         pc \in {"read", "resume"}, pc' \in {"prompt", "wait"},
         UNCHANGED <<handling, pids, grp, chld, untracked>>
  PROVE  /\ KnownOK' /\ UniqueJobs' /\ DoneMeansReaped' /\ ZombiePending'
         /\ StoppedResumable' /\ LeaderTracked' /\ StopSeenGrouped'
         /\ g \notin Suspended'
<1>1. \A q \in Pids :
        IF q \in Members(g) /\ st[q] = "stopped"
          THEN st'[q] = "running" /\ ws'[q] = NoStatus
          ELSE st'[q] = st[q] /\ ws'[q] = ws[q]
  BY ContinueShape DEF Shape
<1>2. g \in Pids
  BY PidsOfTable
<1>3. "Running" \in JobState /\ UniqueJobs
  BY DEF JobState, Knowledge
<1>4. /\ InUse(table') = InUse(table)
      /\ \A k \in InUse(table) :
           /\ table'.jobs[k].pid = table.jobs[k].pid
           /\ table'.jobs[k].state = IF k = i THEN "Running" ELSE table.jobs[k].state
      /\ UniqueJobs'
      /\ g \in Listed' /\ g \notin Suspended'
      /\ Suspended \ {g} \subseteq Suspended' /\ Listed \ {g} \subseteq Listed'
  BY <1>3, MarkedJob
<1>5. KnownOK'
  <2>1. \A q \in Pids : st[q] # "free" => st'[q] # "free"
    BY <1>1
  <2>2. untracked \subseteq Pids
    BY DEF Shape, TypeOK
  <2> QED BY <1>4, <2>1, <2>2, PidsOfTable DEF Knowledge, KnownOK, Spawning
<1>6. DoneMeansReaped'
  BY <1>1, <1>4, PidsOfTable DEF Knowledge, DoneMeansReaped
<1>7. ZombiePending'
  BY <1>1 DEF Knowledge, ZombiePending
<1>8. \A q \in Pids : StopSeen(q)' => StopSeen(q) /\ grp[q] # g
  BY <1>1 DEF StopSeen, Members, Exists, Live
<1>9. StoppedResumable' /\ StopSeenGrouped'
  BY <1>4, <1>8 DEF Knowledge, StoppedResumable, StopSeenGrouped, StopSeen
<1>10. LeaderTracked'
  <2>1. \A q \in Pids : Live(q)' => Live(q)
    BY <1>1 DEF Live
  <2>2. pids = <<>>
    BY DEF Knowledge, KnownOK
  <2> QED BY <1>4, <2>1, <2>2 DEF Knowledge, LeaderTracked
<1> QED BY <1>4, <1>5, <1>6, <1>7, <1>9, <1>10

\* Commands that touch neither the table nor a group keep the second layer.
LEMMA UserCommandPlain ==
  ASSUME Shape, Knowledge,
         \/ OtherLine \/ LeaveLoop \/ KillOwnGroup
         \/ \E b \in BOOLEAN, k \in 1 .. MaxStages : ExecutePipeline(b, k)
         \/ \E id \in Ids(table) : FgStart(id) \/ KillFind(id)
         \/ \E p \in Pids : KillPid(p)
  PROVE  Knowledge'
<1> USE DEF Knowledge, KnownOK, WaitOK, UniqueJobs, DoneMeansReaped,
            ZombiePending, StoppedResumable, LeaderTracked, StopSeenGrouped,
            StopSeen, Live, GroupsIn, Suspended, Listed, Ids, Spawning,
            procVars, histVars, At, Ready
<1>1. ASSUME OtherLine PROVE Knowledge'
  BY <1>1 DEF OtherLine
<1>2. ASSUME LeaveLoop PROVE Knowledge'
  BY <1>2 DEF LeaveLoop
<1>3. ASSUME KillOwnGroup PROVE Knowledge'
  BY <1>3 DEF KillOwnGroup
<1>4. ASSUME NEW b, NEW k, ExecutePipeline(b, k) PROVE Knowledge'
  BY <1>4 DEF ExecutePipeline
<1>5. ASSUME NEW id, FgStart(id) PROVE Knowledge'
  BY <1>5 DEF FgStart
<1>6. ASSUME NEW id, KillFind(id) PROVE Knowledge'
  BY <1>6 DEF KillFind
<1>7. ASSUME NEW p, KillPid(p) PROVE Knowledge'
  BY <1>7 DEF KillPid
<1> QED BY <1>1, <1>2, <1>3, <1>4, <1>5, <1>6, <1>7

\* tcsetpgrp at either end of a foreground command, and the signal kill sends,
\* keep the second layer: they change neither the table nor a process's state.
LEMMA ShellStepPlain ==
  ASSUME Shape, Knowledge, GiveTerminal \/ Reclaim \/ KillSend
  PROVE  Knowledge'
<1> USE DEF Knowledge, KnownOK, WaitOK, UniqueJobs, DoneMeansReaped,
            ZombiePending, StoppedResumable, LeaderTracked, StopSeenGrouped,
            StopSeen, Live, GroupsIn, Suspended, Listed, Ids, Spawning,
            procVars, histVars, At, Ready
<1>1. ASSUME GiveTerminal PROVE Knowledge'
  <2>1. pids # <<>> /\ 1 \in DOMAIN pids
    BY <1>1 DEF GiveTerminal, At, Shape, SpawnOK, TypeOK
  <2> QED BY <1>1, <2>1 DEF GiveTerminal
<1>2. ASSUME Reclaim PROVE Knowledge'
  BY <1>2 DEF Reclaim, Return
<1>3. ASSUME KillSend PROVE Knowledge'
  BY <1>3 DEF KillSend, Return
<1> QED BY <1>1, <1>2, <1>3

\* Every first step of a command keeps the second layer; only the jobs and bg
\* builtins change the table there.
LEMMA UserCommandKnowledge ==
  ASSUME Shape, Knowledge, UserCommand
  PROVE  Knowledge'
<1>1. ASSUME JobsBuiltin PROVE Knowledge'
  BY <1>1, TableShrunk, ClearDoneTable DEF JobsBuiltin, At, Shape, TypeOK
<1>2. ASSUME NEW id \in Ids(table), Bg(id) PROVE Knowledge'
  <2> DEFINE i == JobsFindById(table, id)
  <2>1. /\ pc = "read" /\ pc' = "prompt"
        /\ UNCHANGED <<handling, pids, pgid, grp, chld, untracked>>
    BY <1>2 DEF Bg, At, histVars
  <2>2. i \in InUse(table)
    BY <1>2, FindById DEF Bg, Shape, TypeOK
  <2>3. CASE table.jobs[i].state = "Stopped"
    <3>1. table' = SetState(table, i, "Running")
          /\ Continue(Members(table.jobs[i].pid))
      BY <1>2, <2>3 DEF Bg
    <3> HIDE DEF i
    <3>2. /\ KnownOK' /\ UniqueJobs' /\ DoneMeansReaped' /\ ZombiePending'
          /\ StoppedResumable' /\ LeaderTracked' /\ StopSeenGrouped'
      BY <1>2, <2>1, <2>2, <2>3, <3>1, JobResumed
    <3>3. WaitOK'
      BY <1>2, <2>1 DEF WaitOK
    <3> QED BY <1>2, <3>2, <3>3 DEF Knowledge
  <2>4. CASE table.jobs[i].state # "Stopped"
    <3>1. UNCHANGED <<table, st, ws>>
      BY <1>2, <2>4 DEF Bg
    <3> HIDE DEF i
    <3> QED BY <1>2, <2>1, <3>1
               DEF Knowledge, KnownOK, WaitOK, UniqueJobs, DoneMeansReaped,
                   ZombiePending, StoppedResumable, LeaderTracked,
                   StopSeenGrouped, StopSeen, Live, GroupsIn, Suspended,
                   Listed, Ids, Spawning, procVars, histVars, At, Ready
  <2> QED BY <1>2, <2>3, <2>4
<1> QED BY <1>1, <1>2, UserCommandPlain DEF UserCommand

\* Every later step of the shell keeps the second layer: spawn_pipeline,
\* jobs_add, wait_foreground_group, fg and the report at the prompt.
LEMMA ShellStepKnowledge ==
  ASSUME Shape, Knowledge, ShellStep
  PROVE  Knowledge'
<1>1. ASSUME PromptNotify PROVE Knowledge'
  BY <1>1, TableShrunk, ClearDoneTable DEF PromptNotify, At, Shape, TypeOK
<1>2. ASSUME SpawnFails PROVE Knowledge'
  <2>1. Range(pids) = {pids[i] : i \in DOMAIN pids}
    BY <1>2 DEF Range
  <2>2. pids # <<>> => 1 \in DOMAIN pids
    BY <1>2 DEF Shape, TypeOK
  <2> QED BY <1>2, <2>1, <2>2
             DEF SpawnFails, Return, Knowledge, KnownOK, WaitOK, UniqueJobs,
                 DoneMeansReaped, ZombiePending, StoppedResumable,
                 LeaderTracked, StopSeenGrouped, StopSeen, Live, GroupsIn,
                 Suspended, Listed, Ids, Spawning, procVars, histVars, At,
                 Ready
<1>3. ASSUME ParentSetpgid PROVE Knowledge'
  <2> DEFINE p == pids[Len(pids)]
  <2>1. pids # <<>> /\ pids[1] \in Pids /\ p \in Pids /\ 1 \in DOMAIN pids
    BY <1>3 DEF ParentSetpgid, At, Shape, SpawnOK, TypeOK
  <2>2. grp' \in [Pids -> Pids \cup {Shell}] /\ grp'[p] = pids[1]
        /\ \A q \in Pids \ {p} : grp'[q] = grp[q]
    BY <1>3, <2>1 DEF ParentSetpgid, Shape, TypeOK
  <2>3. pids[1] # Shell
    BY <1>3, <2>1, ControlAssumption
  <2>4. grp[p] \in {Shell, pids[1]}
    BY <1>3, <2>1 DEF ParentSetpgid, At, Shape, SpawnOK
  <2> HIDE DEF p
  <2> QED BY <1>3, <2>1, <2>2, <2>3, <2>4
             DEF ParentSetpgid, Knowledge, KnownOK, WaitOK, UniqueJobs,
                 DoneMeansReaped, ZombiePending, StoppedResumable,
                 LeaderTracked, StopSeenGrouped, StopSeen, Live, GroupsIn,
                 Suspended, Listed, Ids, Spawning, procVars, histVars, At,
                 Ready
<1>4. ASSUME AddJob PROVE Knowledge'
  <2> DEFINE g == pids[1]
  <2>1. g \in Pids /\ pids # <<>> /\ 1 \in DOMAIN pids
    BY <1>4 DEF AddJob, At, Shape, SpawnOK, TypeOK
  <2>2. st[g] # "free" /\ g \notin untracked
        /\ \A k \in InUse(table) : table.jobs[k].pid # g
    BY <1>4, <2>1 DEF AddJob, At, Knowledge, KnownOK, Spawning
  <2>3. /\ table' = JobsAdd(table, g, "Running")
        /\ untracked' = IF FreeSlots(table) = {} THEN untracked \cup {g}
                                                 ELSE untracked
        /\ pc' = "prompt" /\ pids' = <<>> /\ pc = "add"
        /\ UNCHANGED <<handling, st, grp, ws, chld>>
    BY <1>4 DEF AddJob, Return, At, procVars
  <2>4. \A p \in Pids : Live(p) /\ grp[p] = p =>
          p \in Listed \/ p = g \/ p \in untracked
    BY <1>4 DEF Knowledge, LeaderTracked
  <2> HIDE DEF g
  <2>5. WaitOK' /\ ZombiePending' /\ StopSeenGrouped'
    BY <1>4, <2>3
       DEF Knowledge, WaitOK, ZombiePending, StopSeenGrouped, StopSeen
  <2>6. CASE FreeSlots(table) = {}
    <3>1. table' = table /\ untracked' = untracked \cup {g}
      BY <1>4, <2>3, <2>6, AddFull
    <3>2. KnownOK'
      BY <1>4, <2>2, <2>3, <3>1 DEF Knowledge, KnownOK, Spawning
    <3>3. UniqueJobs' /\ DoneMeansReaped' /\ StoppedResumable'
      BY <1>4, <2>3, <3>1
         DEF Knowledge, UniqueJobs, DoneMeansReaped, StoppedResumable,
             StopSeen, Suspended, GroupsIn, Ids
    <3>4. LeaderTracked'
      BY <1>4, <2>3, <2>4, <3>1 DEF LeaderTracked, Live, Listed, GroupsIn
    <3> QED BY <1>4, <2>5, <3>2, <3>3, <3>4 DEF Knowledge
  <2>7. CASE FreeSlots(table) # {}
    <3>1. untracked' = untracked
      BY <1>4, <2>3, <2>7
    <3>2. /\ \A k \in InUse(table)' :
               \/ table'.jobs[k].pid = g
               \/ k \in InUse(table) /\ table'.jobs[k] = table.jobs[k]
          /\ UniqueJobs' /\ DoneMeansReaped'
          /\ g \in Listed'
          /\ Suspended \subseteq Suspended' /\ Listed \subseteq Listed'
      BY <1>4, <2>1, <2>2, <2>3, <2>7, AddedJob DEF Knowledge
    <3>3. KnownOK'
      BY <1>4, <2>2, <2>3, <3>1, <3>2 DEF Knowledge, KnownOK, Spawning
    <3>4. StoppedResumable'
      BY <1>4, <2>3, <3>1, <3>2 DEF Knowledge, StoppedResumable, StopSeen
    <3>5. LeaderTracked'
      BY <1>4, <2>3, <2>4, <3>1, <3>2 DEF LeaderTracked, Live
    <3> QED BY <1>4, <2>5, <3>2, <3>3, <3>4, <3>5 DEF Knowledge
  <2> QED BY <1>4, <2>6, <2>7
<1>5. ASSUME WaitNoChild PROVE Knowledge'
  <2>1. /\ pc = "wait" /\ pc' = "reclaim" /\ Members(pgid) = {}
        /\ UNCHANGED <<handling, pids, pgid, st, grp, ws, chld, untracked>>
    BY <1>5 DEF WaitNoChild, At, procVars, histVars
  <2>2. Shrunk(table, table')
        /\ \A k \in InUse(table) : table.jobs[k].pid # pgid => k \in InUse(table')
    BY <1>5, RemoveTable DEF WaitNoChild, Shape, TypeOK
  <2>3. Suspended \ {pgid} \subseteq Suspended' /\ Listed \ {pgid} \subseteq Listed'
    BY <1>5, <2>2 DEF Suspended, Listed, GroupsIn, Shrunk
  <2>4. \A q \in Pids : Live(q) => grp[q] # pgid
    BY <1>5, <2>1 DEF Members, Exists
  <2>5. KnownOK' /\ ZombiePending' /\ StopSeenGrouped' /\ DoneMeansReaped'
    BY <1>5, <2>1, <2>2
       DEF Knowledge, KnownOK, ZombiePending, StopSeenGrouped, StopSeen,
           DoneMeansReaped, Shrunk, Spawning
  <2>6. UniqueJobs'
    BY <1>5, <2>1, <2>2 DEF Knowledge, UniqueJobs, Ids, Shrunk
  <2>7. \A q \in Pids : (Live(q) /\ grp[q] = q)' =>
          (q \in Listed \/ q \in untracked)'
    BY <1>5, <2>1, <2>3, <2>4 DEF Knowledge, LeaderTracked, WaitOK, Live
  <2>8. LeaderTracked' /\ WaitOK'
    BY <1>5, <2>1, <2>7 DEF Knowledge, WaitOK, LeaderTracked
  <2>9. StoppedResumable'
    BY <1>5, <2>1, <2>3, <2>4 DEF Knowledge, StoppedResumable, StopSeen, Live
  <2> QED BY <1>5, <2>5, <2>6, <2>8, <2>9 DEF Knowledge
<1>6. ASSUME FgResume PROVE Knowledge'
  <2> DEFINE i == JobsFindByPid(table, pgid)
  <2>1. /\ pc = "resume" /\ pc' = "wait"
        /\ UNCHANGED <<handling, pids, pgid, grp, chld, untracked>>
    BY <1>6 DEF FgResume, At, histVars
  <2>2. i \in InUse(table) /\ table.jobs[i].pid = pgid
    BY <1>6, FindByPid DEF FgResume, At, Shape, TypeOK, ResumeOK
  <2>3. pgid \notin untracked /\ st[pgid] # "free" /\ pids = <<>>
    BY <1>6, <2>1, <2>2 DEF Knowledge, KnownOK
  <2>4. CASE table.jobs[i].state = "Stopped"
    <3>1. table' = SetState(table, i, "Running") /\ Continue(Members(pgid))
      BY <1>6, <2>4 DEF FgResume
    <3> HIDE DEF i
    <3>2. /\ KnownOK' /\ UniqueJobs' /\ DoneMeansReaped' /\ ZombiePending'
          /\ StoppedResumable' /\ LeaderTracked' /\ StopSeenGrouped'
          /\ pgid \notin Suspended'
      BY <1>6, <2>1, <2>2, <2>4, <3>1, JobResumed
    <3>3. st'[pgid] # "free"
      <4>1. pgid \in Pids
        BY <1>6, <2>1 DEF Shape, ResumeOK
      <4> QED BY <1>6, <2>3, <3>1, <4>1, ContinueShape DEF Shape
    <3>4. WaitOK'
      BY <1>6, <2>1, <2>3, <3>2, <3>3 DEF WaitOK
    <3> QED BY <1>6, <3>2, <3>4 DEF Knowledge
  <2>5. CASE table.jobs[i].state # "Stopped"
    <3>1. UNCHANGED <<table, st, ws>>
      BY <1>6, <2>5 DEF FgResume
    <3> HIDE DEF i
    <3>2. pgid \notin Suspended
      BY <1>6, <2>2, <2>5 DEF Suspended, GroupsIn, Knowledge, UniqueJobs
    <3> QED BY <1>6, <2>1, <2>3, <3>1, <3>2
               DEF Knowledge, KnownOK, WaitOK, UniqueJobs, DoneMeansReaped,
                   ZombiePending, StoppedResumable, LeaderTracked,
                   StopSeenGrouped, StopSeen, Live, GroupsIn, Suspended,
                   Listed, Ids, Spawning, procVars, histVars, At, Ready
  <2> QED BY <1>6, <2>4, <2>5
<1>7. ASSUME NEW p \in Pids, Fork(p) PROVE Knowledge'
  <2>1. pids \in Seq(Pids) /\ pids' = Append(pids, p) /\ DOMAIN pids' = 1 .. Len(pids) + 1
        /\ pids'[Len(pids) + 1] = p /\ \A i \in DOMAIN pids : pids'[i] = pids[i]
    BY <1>7 DEF Fork, Shape, TypeOK
  <2>2. st' = [st EXCEPT ![p] = "forked"] /\ st \in [Pids -> ProcState] /\ grp[p] = Shell
    BY <1>7 DEF Fork, Shape, TypeOK, SpawnOK
  <2>3. /\ st[p] = "free" /\ st'[p] = "forked"
        /\ \A q \in Pids \ {p} : st'[q] = st[q]
        /\ p \notin untracked
        /\ \A k \in InUse(table) : table.jobs[k].pid # p
    BY <1>7, <2>2 DEF Fork, Knowledge, KnownOK
  <2>4. /\ pc = "fork" /\ pc' = "setpgid"
        /\ UNCHANGED <<handling, table, grp, ws, chld, untracked>>
    BY <1>7 DEF Fork, At, histVars
  <2>5. untracked \subseteq Pids /\ p # Shell
    BY <1>7, ControlAssumption DEF Shape, TypeOK
  <2>6. KnownOK'
    <3>1. \A i \in DOMAIN pids' : i \in DOMAIN pids \/ i = Len(pids) + 1
      BY <1>7, <2>1
    <3>2. \A i \in DOMAIN pids : pids[i] \in Pids
      BY <1>7, <2>1
    <3>3. \A i \in DOMAIN pids : /\ st[pids[i]] # "free" /\ pids[i] \notin untracked
            /\ \A k \in InUse(table) : table.jobs[k].pid # pids[i]
      BY <1>7, <2>4 DEF Knowledge, KnownOK, Spawning
    <3>4. \A i \in DOMAIN pids' : /\ st'[pids'[i]] # "free" /\ pids'[i] \notin untracked
            /\ \A k \in InUse(table) : table.jobs[k].pid # pids'[i]
      BY <1>7, <2>1, <2>3, <3>1, <3>2, <3>3
    <3>5. \A i \in InUse(table) :
            st[table.jobs[i].pid] # "free" /\ table.jobs[i].pid \notin untracked
      BY <1>7 DEF Knowledge, KnownOK
    <3>6. \A q \in untracked : st[q] # "free"
      BY <1>7 DEF Knowledge, KnownOK
    <3> QED BY <1>7, <2>3, <2>4, <2>5, <3>4, <3>5, <3>6, PidsOfTable
               DEF KnownOK
  <2>7. WaitOK' /\ UniqueJobs' /\ ZombiePending'
    BY <1>7, <2>3, <2>4 DEF Knowledge, WaitOK, UniqueJobs, ZombiePending, Ids
  <2>8. DoneMeansReaped'
    BY <1>7, <2>3, <2>4, PidsOfTable DEF Knowledge, DoneMeansReaped
  <2>9. \A q \in Pids : StopSeen(q)' => StopSeen(q)
    BY <1>7, <2>3, <2>4 DEF StopSeen
  <2>10. StoppedResumable' /\ StopSeenGrouped'
    BY <1>7, <2>4, <2>9
       DEF Knowledge, StoppedResumable, StopSeenGrouped, Suspended, GroupsIn
  <2>11. LeaderTracked'
    <3>1. \A q \in Pids : (Live(q) /\ grp[q] = q)' => Live(q) /\ grp[q] = q
      BY <1>7, <2>2, <2>3, <2>4, <2>5 DEF Live
    <3>2. pids # <<>> => pids' # <<>> /\ pids'[1] = pids[1]
      BY <1>7, <2>1
    <3> QED BY <1>7, <2>4, <3>1, <3>2
               DEF Knowledge, LeaderTracked, Listed, GroupsIn
  <2> QED BY <1>7, <2>6, <2>7, <2>8, <2>10, <2>11 DEF Knowledge
<1>8. ASSUME NEW p \in Pids, WaitExited(p) PROVE Quiet
  <2>1. /\ st'[p] = "reaped" /\ ws'[p] = NoStatus /\ grp'[p] = Shell
        /\ \A q \in Pids \ {p} : st'[q] = st[q] /\ ws'[q] = ws[q] /\ grp'[q] = grp[q]
    BY <1>8, ReapShape DEF WaitExited, Shape
  <2> QED BY <1>8, <2>1 DEF WaitExited, Quiet, StopSeen, Live
<1>9. ASSUME NEW p \in Pids, WaitStopped(p) PROVE Knowledge'
  <2>1. /\ pc = "wait" /\ pc' = "reclaim"
        /\ UNCHANGED <<handling, pids, pgid, st, grp, chld>>
        /\ p \in Members(pgid) /\ st[p] = "stopped"
        /\ ws' = [ws EXCEPT ![p] = NoStatus]
    BY <1>9 DEF WaitStopped, At
  <2>2. pgid \in Pids /\ grp[p] = pgid /\ pgid # Shell
    BY <1>9, <2>1, ControlAssumption DEF Shape, ResumeOK, Members
  <2>3. /\ pgid \notin untracked /\ st[pgid] # "free"
        /\ pids # <<>> => pgid = pids[1]
    BY <1>9, <2>1 DEF Knowledge, WaitOK
  <2>4. \A q \in Pids : StopSeen(q)' => StopSeen(q) \/ q = p
    BY <1>9, <2>1 DEF StopSeen, Shape, TypeOK
  <2>5. \A q \in Pids : Live(q) /\ grp[q] = q =>
          q \in Listed \/ q = pgid \/ q \in untracked
    BY <1>9, <2>3 DEF Knowledge, LeaderTracked
  <2>6. ZombiePending' /\ StopSeenGrouped'
    BY <1>9, <2>1, <2>2, <2>4
       DEF Knowledge, ZombiePending, StopSeenGrouped, StopSeen
  <2>7. ASSUME UniqueJobs', DoneMeansReaped', untracked \subseteq untracked',
               \A k \in InUse(table') :
                 st[table'.jobs[k].pid] # "free" /\ table'.jobs[k].pid \notin untracked',
               \A q \in untracked' : st[q] # "free",
               pgid \in Suspended' \/ pgid \in untracked',
               Suspended \ {pgid} \subseteq Suspended' /\ Listed \ {pgid} \subseteq Listed'
        PROVE  Knowledge'
    <3>1. KnownOK'
      BY <1>9, <2>1, <2>7 DEF KnownOK, Spawning
    <3>2. pgid \in Listed' \/ pgid \in untracked'
      BY <1>9, <2>7 DEF Suspended, Listed, GroupsIn
    <3>3. \A q \in Pids : (Live(q) /\ grp[q] = q)' =>
            (q \in Listed \/ q \in untracked)'
      BY <1>9, <2>1, <2>5, <2>7, <3>2 DEF Live
    <3>4. WaitOK'
      BY <1>9, <2>1, <2>3, <3>3 DEF WaitOK
    <3>5. LeaderTracked'
      BY <1>9, <3>3 DEF LeaderTracked
    <3>6. StoppedResumable'
      BY <1>9, <2>1, <2>2, <2>4, <2>7 DEF Knowledge, StoppedResumable, StopSeen
    <3> QED BY <1>9, <2>6, <2>7, <3>1, <3>4, <3>5, <3>6 DEF Knowledge
  <2>8. /\ UniqueJobs /\ DoneMeansReaped
        /\ \A k \in InUse(table) :
             st[table.jobs[k].pid] # "free" /\ table.jobs[k].pid \notin untracked
        /\ \A q \in untracked : st[q] # "free"
        /\ table \in JobsTable
    BY <1>9 DEF Knowledge, KnownOK, Shape, TypeOK
  <2>9. CASE SlotsOfPid(table, pgid) # {}
    <3> DEFINE i == JobsFindByPid(table, pgid)
    <3>1. i \in InUse(table) /\ table.jobs[i].pid = pgid
      BY <1>9, <2>8, <2>9, FindByPid
    <3>2. table' = SetState(table, i, "Stopped") /\ untracked' = untracked
      BY <1>9, <2>9 DEF WaitStopped
    <3> HIDE DEF i
    <3>3. "Stopped" \in JobState
      BY <1>9 DEF JobState
    <3>4. /\ InUse(table') = InUse(table)
          /\ \A k \in InUse(table) :
               /\ table'.jobs[k].pid = table.jobs[k].pid
               /\ table'.jobs[k].state = IF k = i THEN "Stopped" ELSE table.jobs[k].state
          /\ UniqueJobs'
          /\ pgid \in Suspended'
          /\ Suspended \ {pgid} \subseteq Suspended' /\ Listed \ {pgid} \subseteq Listed'
      BY <1>9, <2>8, <3>1, <3>2, <3>3, MarkedJob
    <3>5. DoneMeansReaped'
      BY <1>9, <2>1, <2>8, <3>4 DEF DoneMeansReaped
    <3> QED BY <1>9, <2>7, <2>8, <3>2, <3>4, <3>5
  <2>10. CASE SlotsOfPid(table, pgid) = {}
    <3>1. \A k \in InUse(table) : table.jobs[k].pid # pgid
      BY <1>9, <2>10 DEF SlotsOfPid
    <3>2. /\ table' = JobsAdd(table, pgid, "Stopped")
          /\ untracked' = IF FreeSlots(table) = {} THEN untracked \cup {pgid}
                                                   ELSE untracked
      BY <1>9, <2>10 DEF WaitStopped
    <3>3. CASE FreeSlots(table) = {}
      <4>1. table' = table /\ untracked' = untracked \cup {pgid}
        BY <1>9, <3>2, <3>3, AddFull
      <4>2. UniqueJobs' /\ DoneMeansReaped' /\ Suspended \subseteq Suspended' /\ Listed \subseteq Listed'
        BY <1>9, <2>1, <2>8, <4>1
           DEF UniqueJobs, DoneMeansReaped, Suspended, Listed, GroupsIn, Ids
      <4> QED BY <1>9, <2>3, <2>7, <2>8, <3>1, <4>1, <4>2
    <3>4. CASE FreeSlots(table) # {}
      <4>1. untracked' = untracked
        BY <1>9, <3>2, <3>4
      <4>2. /\ \A k \in InUse(table)' :
                 \/ table'.jobs[k].pid = pgid
                 \/ k \in InUse(table) /\ table'.jobs[k] = table.jobs[k]
            /\ UniqueJobs' /\ DoneMeansReaped'
            /\ pgid \in Suspended'
            /\ Suspended \subseteq Suspended' /\ Listed \subseteq Listed'
        BY <1>9, <2>1, <2>2, <2>8, <3>1, <3>2, <3>4, AddedJob
      <4> QED BY <1>9, <2>3, <2>7, <2>8, <4>1, <4>2
    <3> QED BY <1>9, <3>3, <3>4
  <2> QED BY <1>9, <2>9, <2>10
<1> QED BY <1>1, <1>2, <1>3, <1>4, <1>5, <1>6, <1>7, <1>8, <1>9, QuietStep,
           ShellStepPlain
           DEF ShellStep

\* sigchld_handler keeps the second layer: it marks only Running jobs, of a leader
\* it has collected, and returns when no zombie is left.
LEMMA HandlerKnowledge ==
  ASSUME Shape, Knowledge, Handler
  PROVE  Knowledge'
<1>1. ASSUME NEW p \in Pids, HandlerReap(p) PROVE Knowledge'
  <2>1. /\ UNCHANGED <<pc, handling, pids, pgid, chld, untracked>>
        /\ handling /\ pc \notin Critical
        /\ table' = JobsMarkDone(table, p)
    BY <1>1 DEF HandlerReap, histVars, Shape, MaskOK
  <2>2. /\ st'[p] = "reaped" /\ grp'[p] = Shell
        /\ \A q \in Pids \ {p} : st'[q] = st[q] /\ ws'[q] = ws[q] /\ grp'[q] = grp[q]
    BY <1>1, ReapShape DEF HandlerReap, Shape
  <2>3. /\ \A q \in Pids : StopSeen(q)' => StopSeen(q) /\ grp'[q] = grp[q]
        /\ \A q \in Pids : Live(q)' => Live(q) /\ grp'[q] = grp[q] /\ q # p
        /\ \A q \in Pids : st[q] # "free" => st'[q] # "free"
        /\ \A q \in Pids : st[q] = "reaped" => st'[q] = "reaped"
    BY <1>1, <2>2 DEF StopSeen, Live
  <2>4. ZombiePending' /\ WaitOK' /\ StopSeenGrouped'
    BY <1>1, <2>1, <2>3
       DEF Knowledge, ZombiePending, WaitOK, StopSeenGrouped, Critical
  <2>5. ASSUME InUse(table') = InUse(table), UniqueJobs',
               \A k \in InUse(table) :
                 /\ table'.jobs[k].pid = table.jobs[k].pid
                 /\ table'.jobs[k].state # table.jobs[k].state =>
                      table.jobs[k].pid = p /\ table.jobs[k].state = "Running"
        PROVE  Knowledge'
    <3>1. untracked \subseteq Pids /\ pids \in Seq(Pids)
      BY <1>1 DEF Shape, TypeOK
    <3>2. KnownOK'
      BY <1>1, <2>1, <2>3, <2>5, <3>1, PidsOfTable DEF Knowledge, KnownOK
    <3>3. DoneMeansReaped'
      BY <1>1, <2>2, <2>3, <2>5, PidsOfTable DEF Knowledge, DoneMeansReaped
    <3>4. Suspended \subseteq Suspended'
      BY <1>1, <2>5 DEF Suspended, GroupsIn
    <3>5. Listed \ {p} \subseteq Listed'
      BY <1>1, <2>5 DEF Listed, GroupsIn
    <3>6. StoppedResumable'
      BY <1>1, <2>1, <2>3, <3>4 DEF Knowledge, StoppedResumable
    <3>7. LeaderTracked'
      BY <1>1, <2>1, <2>3, <3>5 DEF Knowledge, LeaderTracked
    <3> QED BY <1>1, <2>4, <2>5, <3>2, <3>3, <3>6, <3>7 DEF Knowledge
  <2>6. table \in JobsTable /\ UniqueJobs /\ "Done" \in JobState
    BY <1>1 DEF Shape, TypeOK, Knowledge, JobState
  <2>7. CASE table' = table
    BY <1>1, <2>5, <2>6, <2>7 DEF UniqueJobs, Ids
  <2>8. CASE \E i \in InUse(table) : /\ table.jobs[i].pid = p
                                     /\ table.jobs[i].state = "Running"
                                     /\ table' = SetState(table, i, "Done")
    <3>1. PICK i \in InUse(table) : /\ table.jobs[i].pid = p
                                    /\ table.jobs[i].state = "Running"
                                    /\ table' = SetState(table, i, "Done")
      BY <1>1, <2>8
    <3> QED BY <1>1, <2>5, <2>6, <3>1, MarkedJob
  <2> QED BY <1>1, <2>1, <2>6, <2>7, <2>8, MarkDone
<1>2. ASSUME HandlerEnter PROVE Knowledge'
  BY <1>2
     DEF HandlerEnter, Knowledge, KnownOK, WaitOK, UniqueJobs, DoneMeansReaped,
         ZombiePending, StoppedResumable, LeaderTracked, StopSeenGrouped,
         StopSeen, Live, GroupsIn, Suspended, Listed, Ids, Spawning, procVars,
         histVars, At, Ready
<1>3. ASSUME HandlerReturn PROVE Knowledge'
  BY <1>3
     DEF HandlerReturn, Drained, Knowledge, KnownOK, WaitOK, UniqueJobs,
         DoneMeansReaped, ZombiePending, StoppedResumable, LeaderTracked,
         StopSeenGrouped, StopSeen, Live, GroupsIn, Suspended, Listed, Ids,
         Spawning, procVars, histVars, At, Ready
<1> QED BY <1>1, <1>2, <1>3 DEF Handler

-----------------------------------------------------------------------------
(* The theorems.                                                           *)

\* The invariant of both layers.
THEOREM Invariant == Spec => []IInv
<1>1. Init => Knowledge
  <2> SUFFICES ASSUME Init PROVE Knowledge
    OBVIOUS
  <2>1. InUse(table) = {} /\ Ids(table) = {}
    BY DEF Init, JobsInit, InUse, Ids
  <2> QED BY <2>1
             DEF Init, Knowledge, KnownOK, WaitOK, UniqueJobs, DoneMeansReaped,
                 ZombiePending, StoppedResumable, LeaderTracked,
                 StopSeenGrouped, StopSeen, Live, Spawning
<1>2. Shape /\ Knowledge /\ [Next]_vars => Knowledge'
  <2> SUFFICES ASSUME Shape, Knowledge, [Next]_vars PROVE Knowledge'
    OBVIOUS
  <2>1. CASE UNCHANGED vars
    BY <2>1, QuietSignal, QuietStep DEF vars, procVars
  <2>2. CASE Next
    BY <2>1, <2>2, UserCommandKnowledge, ShellStepKnowledge, HandlerKnowledge,
       ProgramsKnowledge, UserKnowledge
       DEF Next, Terminated
  <2> QED BY <2>1, <2>2
<1> QED BY <1>1, <1>2, ShapeInvariant, PTL DEF Spec, IInv

\* At all times at most one listed job has a given number, or a given group.
THEOREM JobsUnique == Spec => []UniqueJobs
<1>1. IInv => UniqueJobs
  BY DEF IInv, Knowledge
<1> QED BY <1>1, Invariant, PTL

\* A job marked Done has a leader that was collected, however the handler
\* interrupts the shell.
THEOREM DoneIsReaped == Spec => []DoneMeansReaped
<1>1. IInv => DoneMeansReaped
  BY DEF IInv, Knowledge
<1> QED BY <1>1, Invariant, PTL

\* A zombie is never forgotten: SIGCHLD is pending or its handler at work,
\* although signals do not queue and one handler run collects many children.
THEOREM NoForgottenZombie == Spec => []ZombiePending
<1>1. IInv => ZombiePending
  BY DEF IInv, Knowledge
<1> QED BY <1>1, Invariant, PTL

\* What stopped can be resumed: jobs_mark_done, fg, bg and the foreground wait
\* together never leave a collected stop in a job not marked Stopped.
THEOREM StoppedIsResumable == Spec => []StoppedResumable
<1>1. IInv => StoppedResumable
  BY DEF IInv, Knowledge
<1> QED BY <1>1, Invariant, PTL

\* wait_foreground_group never waits for a stop that was reported already.
THEOREM NoHang == Spec => []NoSilentHang
<1>1. IInv => NoSilentHang
  <2> SUFFICES ASSUME IInv, pc = "wait", NEW p \in Members(pgid), StopSeen(p)
               PROVE  FALSE
    BY DEF NoSilentHang
  <2>1. p \in Pids /\ grp[p] = pgid
    BY DEF Members
  <2>2. pgid \in Suspended \/ pgid \in untracked
    BY <2>1 DEF IInv, Knowledge, StoppedResumable
  <2> QED BY <2>2 DEF IInv, Knowledge, WaitOK
<1> QED BY <1>1, Invariant, PTL

\* No job is lost sight of: the leader of every living group is listed, or in
\* the foreground, or of a group the shell had to give up.
THEOREM LeadersTracked == Spec => []LeaderTracked
<1>1. IInv => LeaderTracked
  BY DEF IInv, Knowledge
<1> QED BY <1>1, Invariant, PTL
=============================================================================

--------------------------- MODULE LifecycleProofs ---------------------------
(***************************************************************************)
(* What the user sees of the job table: proofs that JobControl implements  *)
(* JobLifecycle, that a Done line is printed once, and that no job leaves  *)
(* the table unannounced.  All three follow from the five ways in which a  *)
(* step of shell, handler or kernel can change the table.                  *)
(***************************************************************************)
EXTENDS ForegroundProofs

\* The Done jobs are printed and freed.
Reported ==
  /\ table' = JobsClearDone(table)
  /\ shown' = shown \cup IdsIn(table, "Done")

\* One job changes state: it finishes, is resumed, or is stopped.
Moved(i) ==
  \E s \in JobState :
    /\ table' = SetState(table, i, s)
    /\ \/ table.jobs[i].state = "Running" /\ s = "Done"
       \/ table.jobs[i].state = "Stopped" /\ s = "Running"
       \/ table.jobs[i].state # "Stopped" /\ s = "Stopped"
    /\ UNCHANGED shown

\* A job is entered in a free slot.
Entered(g) ==
  \E s \in {"Running", "Stopped"} :
    /\ FreeSlots(table) # {}
    /\ table' = JobsAdd(table, g, s)
    /\ UNCHANGED shown

\* The foreground wait found the group it waits for gone.
Finished ==
  /\ pc = "wait" /\ pgid \notin Suspended
  /\ table' = JobsRemoveByPid(table, pgid)
  /\ UNCHANGED shown

TableChange ==
  \/ UNCHANGED <<table, shown>>
  \/ Reported \/ Finished
  \/ \E i \in InUse(table) : Moved(i)
  \/ \E g \in Pids : Entered(g)

\* A first step of a command reports the Done jobs or resumes a job.
LEMMA UserCommandTable ==
  ASSUME IInv, UserCommand
  PROVE  TableChange
<1>1. CASE JobsBuiltin
  BY <1>1 DEF JobsBuiltin, TableChange, Reported
<1>2. ASSUME NEW id \in Ids(table), Bg(id) PROVE TableChange
  <2> DEFINE i == JobsFindById(table, id)
  <2>1. i \in InUse(table)
    BY <1>2, FindById DEF Bg, IInv, Shape, TypeOK
  <2>2. UNCHANGED shown /\ "Running" \in JobState
    BY <1>2 DEF Bg, histVars, JobState
  <2>3. CASE table.jobs[i].state = "Stopped"
    <3>1. table' = SetState(table, i, "Running")
      BY <1>2, <2>3 DEF Bg
    <3> HIDE DEF i
    <3> QED BY <2>1, <2>2, <2>3, <3>1 DEF TableChange, Moved
  <2>4. CASE table.jobs[i].state # "Stopped"
    BY <1>2, <2>2, <2>4 DEF Bg, TableChange
  <2> QED BY <2>3, <2>4
<1>3. CASE \/ OtherLine \/ LeaveLoop \/ KillOwnGroup
           \/ \E b \in BOOLEAN, k \in 1 .. MaxStages : ExecutePipeline(b, k)
           \/ \E id \in Ids(table) : FgStart(id) \/ KillFind(id)
           \/ \E p \in Pids : KillPid(p)
  BY <1>3
     DEF OtherLine, LeaveLoop, KillOwnGroup, ExecutePipeline, FgStart, KillFind,
         KillPid, histVars, TableChange
<1> QED BY <1>1, <1>2, <1>3 DEF UserCommand

\* A later step of the shell enters, resumes, stops, reports or forgets a job.
LEMMA ShellStepTable ==
  ASSUME IInv, ShellStep
  PROVE  TableChange
<1>1. CASE PromptNotify
  BY <1>1 DEF PromptNotify, TableChange, Reported
<1>2. CASE AddJob
  <2>1. pids[1] \in Pids
    BY <1>2 DEF AddJob, At, IInv, Shape, SpawnOK, TypeOK
  <2>2. table' = JobsAdd(table, pids[1], "Running") /\ UNCHANGED shown
    BY <1>2 DEF AddJob
  <2>3. CASE FreeSlots(table) = {}
    BY <2>2, <2>3, AddFull DEF TableChange
  <2>4. CASE FreeSlots(table) # {}
    BY <2>1, <2>2, <2>4 DEF TableChange, Entered
  <2> QED BY <2>3, <2>4
<1>3. CASE WaitNoChild
  <2>1. pc = "wait" /\ UNCHANGED shown /\ table' = JobsRemoveByPid(table, pgid)
    BY <1>3 DEF WaitNoChild, At, histVars
  <2>2. pgid \notin Suspended
    BY <2>1 DEF IInv, Knowledge, WaitOK
  <2> QED BY <2>1, <2>2 DEF TableChange, Finished
<1>4. CASE FgResume
  <2> DEFINE i == JobsFindByPid(table, pgid)
  <2>1. i \in InUse(table)
    BY <1>4, FindByPid DEF FgResume, At, IInv, Shape, TypeOK, ResumeOK
  <2>2. UNCHANGED shown /\ "Running" \in JobState
    BY <1>4 DEF FgResume, histVars, JobState
  <2>3. CASE table.jobs[i].state = "Stopped"
    <3>1. table' = SetState(table, i, "Running")
      BY <1>4, <2>3 DEF FgResume
    <3> HIDE DEF i
    <3> QED BY <2>1, <2>2, <2>3, <3>1 DEF TableChange, Moved
  <2>4. CASE table.jobs[i].state # "Stopped"
    BY <1>4, <2>2, <2>4 DEF FgResume, TableChange
  <2> QED BY <2>3, <2>4
<1>5. ASSUME NEW p \in Pids, WaitStopped(p) PROVE TableChange
  <2>1. /\ pc = "wait" /\ UNCHANGED shown /\ "Stopped" \in JobState
        /\ pgid \in Pids /\ pgid \notin Suspended /\ table \in JobsTable
    BY <1>5 DEF WaitStopped, At, JobState, IInv, Shape, ResumeOK, TypeOK,
                Knowledge, WaitOK
  <2>2. CASE SlotsOfPid(table, pgid) # {}
    <3> DEFINE i == JobsFindByPid(table, pgid)
    <3>1. i \in InUse(table) /\ table.jobs[i].pid = pgid
      BY <2>1, <2>2, FindByPid
    <3>2. table' = SetState(table, i, "Stopped")
      BY <1>5, <2>2 DEF WaitStopped
    <3> HIDE DEF i
    <3>3. table.jobs[i].state # "Stopped"
      BY <2>1, <3>1 DEF Suspended, GroupsIn
    <3> QED BY <2>1, <3>1, <3>2, <3>3 DEF TableChange, Moved
  <2>3. CASE SlotsOfPid(table, pgid) = {}
    <3>1. table' = JobsAdd(table, pgid, "Stopped")
      BY <1>5, <2>3 DEF WaitStopped
    <3>2. CASE FreeSlots(table) = {}
      BY <2>1, <3>1, <3>2, AddFull DEF TableChange
    <3>3. CASE FreeSlots(table) # {}
      BY <2>1, <3>1, <3>3 DEF TableChange, Entered
    <3> QED BY <3>2, <3>3
  <2> QED BY <2>2, <2>3
<1>6. CASE \/ SpawnFails \/ ParentSetpgid \/ GiveTerminal \/ Reclaim \/ KillSend
           \/ \E p \in Pids : Fork(p) \/ WaitExited(p)
  BY <1>6
     DEF SpawnFails, ParentSetpgid, GiveTerminal, Reclaim, KillSend, Fork,
         WaitExited, Return, histVars, TableChange
<1> QED BY <1>1, <1>2, <1>3, <1>4, <1>5, <1>6 DEF ShellStep

\* The handler finishes at most one Running job in a round.
LEMMA HandlerTable ==
  ASSUME IInv, Handler
  PROVE  TableChange
<1>1. ASSUME NEW p \in Pids, HandlerReap(p) PROVE TableChange
  <2>1. /\ table' = JobsMarkDone(table, p) /\ UNCHANGED shown
        /\ table \in JobsTable /\ "Done" \in JobState
    BY <1>1 DEF HandlerReap, histVars, IInv, Shape, TypeOK, JobState
  <2> QED BY <2>1, MarkDone DEF TableChange, Moved
<1>2. CASE HandlerEnter \/ HandlerReturn
  BY <1>2 DEF HandlerEnter, HandlerReturn, histVars, TableChange
<1> QED BY <1>1, <1>2 DEF Handler

\* Every step changes the table in one of the five ways, or not at all.
LEMMA TableStep ==
  ASSUME IInv, [Next]_vars
  PROVE  TableChange
<1>1. CASE Programs \/ User \/ Terminated \/ UNCHANGED vars
  <2>1. UNCHANGED <<shellVars, histVars>>
    BY <1>1
       DEF Programs, ChildStart, TtyRead, ExternalKill, ExternalContinue, Exit,
           Terminate, Stop, Catch, User, Key, Terminated, vars
  <2> QED BY <2>1 DEF shellVars, histVars, TableChange
<1> QED BY <1>1, UserCommandTable, ShellStepTable, HandlerTable DEF Next

-----------------------------------------------------------------------------
(* Job numbers.                                                            *)

\* A slot's number is a job number; only one slot has it.
LEMMA OneSlot ==
  ASSUME IInv, NEW i \in InUse(table)
  PROVE  /\ table.jobs[i].job_id \in Ids(table)
         /\ JobsFindById(table, table.jobs[i].job_id) = i
<1>1. table \in JobsTable /\ UniqueJobs
  BY DEF IInv, Shape, TypeOK, Knowledge
<1>2. i \in SlotsOfId(table, table.jobs[i].job_id)
  BY DEF SlotsOfId
<1> QED BY <1>1, <1>2, FindById DEF Ids, UniqueJobs

\* What the jobs of the table and the next number become.
LEMMA ReportedTable ==
  ASSUME IInv, Reported
  PROVE  /\ table'.next_id = table.next_id
         /\ InUse(table') = {k \in InUse(table) : table.jobs[k].state # "Done"}
         /\ \A k \in InUse(table') : table'.jobs[k] = table.jobs[k]
         /\ Ids(table') = Ids(table) \ IdsIn(table, "Done")
<1>1. table \in JobsTable /\ UniqueJobs
  BY DEF IInv, Shape, TypeOK, Knowledge
<1>2. /\ table'.next_id = table.next_id
      /\ InUse(table') = {k \in InUse(table) : table.jobs[k].state # "Done"}
      /\ \A k \in InUse(table') : table'.jobs[k] = table.jobs[k]
  BY <1>1, ClearDoneTable DEF Reported, Shrunk
<1>3. Ids(table') = Ids(table) \ IdsIn(table, "Done")
  BY <1>1, <1>2 DEF Ids, IdsIn, UniqueJobs
<1> QED BY <1>2, <1>3

\* Changing the state of a job changes nothing else in the table.
LEMMA MovedTable ==
  ASSUME IInv, NEW i \in InUse(table), NEW s \in JobState,
         table' = SetState(table, i, s)
  PROVE  /\ table'.next_id = table.next_id
         /\ InUse(table') = InUse(table)
         /\ \A k \in InUse(table) :
              /\ table'.jobs[k].job_id = table.jobs[k].job_id
              /\ table'.jobs[k].state = IF k = i THEN s ELSE table.jobs[k].state
         /\ Ids(table') = Ids(table)
<1>1. /\ table'.next_id = table.next_id
      /\ InUse(table') = InUse(table)
      /\ \A k \in InUse(table) :
           /\ table'.jobs[k].job_id = table.jobs[k].job_id
           /\ table'.jobs[k].state = IF k = i THEN s ELSE table.jobs[k].state
  BY SetStateTable DEF IInv, Shape, TypeOK
<1>2. Ids(table') = Ids(table)
  BY <1>1 DEF Ids
<1> QED BY <1>1, <1>2

\* jobs_add lists one more job, under the next number.
LEMMA EnteredTable ==
  ASSUME IInv, NEW g \in Pids, NEW s \in JobState, FreeSlots(table) # {},
         table' = JobsAdd(table, g, s)
  PROVE  /\ table.next_id \in Nat
         /\ table'.next_id = table.next_id + 1
         /\ \E i \in Slots \ InUse(table) :
              /\ InUse(table') = InUse(table) \cup {i}
              /\ table'.jobs[i].job_id = table.next_id /\ table'.jobs[i].state = s
              /\ \A k \in InUse(table) : table'.jobs[k] = table.jobs[k]
         /\ Ids(table') = Ids(table) \cup {table.next_id}
<1>1. table \in JobsTable /\ table.next_id \in Nat
  BY DEF IInv, Shape, TypeOK, JobsTable
<1>2. PICK i \in Slots \ InUse(table) :
        /\ InUse(table') = InUse(table) \cup {i}
        /\ table'.jobs[i] = [pid |-> g, job_id |-> table.next_id, state |-> s]
        /\ \A k \in InUse(table) : table'.jobs[k] = table.jobs[k]
        /\ table'.next_id = table.next_id + 1
  BY <1>1, AddTable
<1>3. Ids(table') = Ids(table) \cup {table.next_id}
  BY <1>2 DEF Ids
<1> QED BY <1>1, <1>2, <1>3

\* The end of a foreground wait removes at most the group it waited for.
LEMMA FinishedTable ==
  ASSUME IInv, Finished
  PROVE  /\ table'.next_id = table.next_id
         /\ InUse(table') \subseteq InUse(table)
         /\ \A k \in InUse(table') : table'.jobs[k] = table.jobs[k]
         /\ \A k \in InUse(table) \ InUse(table') : table.jobs[k].pid = pgid
         /\ Ids(table') \subseteq Ids(table)
<1>1. Shrunk(table, table')
      /\ \A k \in InUse(table) : table.jobs[k].pid # pgid => k \in InUse(table')
  BY RemoveTable DEF Finished, IInv, Shape, TypeOK
<1>2. Ids(table') \subseteq Ids(table)
  BY <1>1 DEF Ids, Shrunk
<1> QED BY <1>1, <1>2 DEF Shrunk

-----------------------------------------------------------------------------
(* Reports.                                                                *)

\* A job that was reported Done is forgotten, and its number is an old one.
ShownOK == ShownOnce /\ \A id \in shown : id < table.next_id

\* What a step adds to the reports it takes out of the table, and a new job's
\* number was never reported.
LEMMA ShownStep ==
  ASSUME IInv, ShownOK, TableChange
  PROVE  ShownOK'
<1>1. table.next_id \in Nat /\ shown \subseteq Nat
  BY DEF IInv, Shape, TypeOK, JobsTable
<1>2. \A id \in Ids(table) : id < table.next_id
  BY DEF IInv, Knowledge, UniqueJobs
<1>3. CASE UNCHANGED <<table, shown>>
  BY <1>3 DEF ShownOK, ShownOnce
<1>4. CASE Reported
  <2>1. IdsIn(table, "Done") \subseteq Ids(table)
    BY DEF IdsIn, Ids
  <2> QED BY <1>2, <1>4, <2>1, ReportedTable DEF Reported, ShownOK, ShownOnce
<1>5. CASE Finished
  BY <1>5, FinishedTable DEF Finished, ShownOK, ShownOnce
<1>6. ASSUME NEW i \in InUse(table), Moved(i) PROVE ShownOK'
  BY <1>6, MovedTable DEF Moved, ShownOK, ShownOnce
<1>7. ASSUME NEW g \in Pids, Entered(g) PROVE ShownOK'
  <2>1. /\ table'.next_id = table.next_id + 1 /\ UNCHANGED shown
        /\ Ids(table') = Ids(table) \cup {table.next_id}
    BY <1>7, EnteredTable DEF Entered, JobState
  <2>2. table.next_id \notin shown
    BY <1>1 DEF ShownOK
  <2>3. ShownOnce'
    BY <2>1, <2>2 DEF ShownOK, ShownOnce
  <2>4. \A id \in shown : id < table.next_id + 1
    BY <1>1 DEF ShownOK
  <2> QED BY <2>1, <2>3, <2>4 DEF ShownOK
<1> QED BY <1>3, <1>4, <1>5, <1>6, <1>7 DEF TableChange

\* A job whose Done line was printed is never listed again: neither the jobs
\* builtin and the next prompt nor two prompts report the same job.
THEOREM DoneShownOnce == Spec => []ShownOnce
<1>1. Init => ShownOK
  BY DEF Init, ShownOK, ShownOnce
<1>2. IInv /\ ShownOK /\ [Next]_vars => ShownOK'
  BY TableStep, ShownStep
<1>3. ShownOK => ShownOnce
  BY DEF ShownOK
<1> QED BY <1>1, <1>2, <1>3, Invariant, PTL DEF Spec

\* A job leaves the table only when its Done line has been printed, or when
\* the foreground wait found its whole group gone.
THEOREM NothingLostSilently == Spec => NoSilentLoss
<1> DEFINE Told == \A id \in Ids(table) \ Ids(table') : id \in shown' \/ pc = "wait"
<1>1. ASSUME IInv, [Next]_vars PROVE Told
  <2>1. CASE UNCHANGED <<table, shown>>
    BY <2>1
  <2>2. CASE Reported
    BY <1>1, <2>2, ReportedTable DEF Reported
  <2>3. CASE Finished
    BY <2>3 DEF Finished
  <2>4. ASSUME NEW i \in InUse(table), Moved(i) PROVE Told
    BY <1>1, <2>4, MovedTable DEF Moved
  <2>5. ASSUME NEW g \in Pids, Entered(g) PROVE Told
    BY <1>1, <2>5, EnteredTable DEF Entered, JobState
  <2> QED BY <1>1, <2>1, <2>2, <2>3, <2>4, <2>5, TableStep DEF TableChange
<1>2. IInv /\ [Next]_vars => [Told]_vars
  BY <1>1
<1> QED BY <1>2, Invariant, PTL DEF Spec, NoSilentLoss

-----------------------------------------------------------------------------
(* The refinement.                                                         *)

\* The refinement mapping for a table: its listed numbers and their states.
View(t) == [id \in Ids(t) |-> t.jobs[JobsFindById(t, id)].state]

UniqueIds(t) ==
  \A i, j \in InUse(t) : t.jobs[i].job_id = t.jobs[j].job_id => i = j

\* The view has the state of every slot under its number, and nothing else.
LEMMA ViewOfSlots ==
  ASSUME NEW t \in JobsTable, UniqueIds(t)
  PROVE  /\ DOMAIN View(t) = Ids(t)
         /\ \A i \in InUse(t) : /\ t.jobs[i].job_id \in Ids(t)
                                /\ View(t)[t.jobs[i].job_id] = t.jobs[i].state
<1>1. ASSUME NEW i \in InUse(t)
      PROVE  /\ t.jobs[i].job_id \in Ids(t)
             /\ JobsFindById(t, t.jobs[i].job_id) = i
  <2>1. i \in SlotsOfId(t, t.jobs[i].job_id)
    BY DEF SlotsOfId
  <2> QED BY <2>1, FindById DEF Ids, UniqueIds
<1> QED BY <1>1 DEF View

\* A function that has them is the view.
LEMMA SameView ==
  ASSUME NEW t \in JobsTable, UniqueIds(t),
         NEW f, f = [id \in Ids(t) |-> f[id]],
         \A i \in InUse(t) : f[t.jobs[i].job_id] = t.jobs[i].state
  PROVE  View(t) = f
<1>1. ASSUME NEW id \in Ids(t)
      PROVE  View(t)[id] = f[id]
  <2>1. PICK i \in InUse(t) : id = t.jobs[i].job_id
    BY DEF Ids
  <2>2. View(t)[t.jobs[i].job_id] = t.jobs[i].state
    BY ViewOfSlots
  <2> QED BY <2>1, <2>2
<1>2. View(t) = [id \in Ids(t) |-> View(t)[id]]
  BY DEF View
<1> QED BY <1>1, <1>2

\* A table with a free slot lists fewer jobs than it has slots.
LEMMA RoomForOne ==
  ASSUME NEW t \in JobsTable, FreeSlots(t) # {}
  PROVE  Cardinality(Ids(t)) < MAX_JOBS
<1> DEFINE f == [id \in Ids(t) |-> JobsFindById(t, id)]
<1>1. f \in Injection(Ids(t), InUse(t))
  <2>1. ASSUME NEW id \in Ids(t)
        PROVE  /\ JobsFindById(t, id) \in InUse(t)
               /\ t.jobs[JobsFindById(t, id)].job_id = id
    <3>1. SlotsOfId(t, id) # {}
      BY DEF Ids, SlotsOfId
    <3> QED BY <3>1, FindById
  <2> QED BY <2>1 DEF Injection, IsInjective
<1>2. /\ IsFiniteSet(Slots) /\ Cardinality(Slots) = MAX_JOBS
      /\ InUse(t) \subseteq Slots /\ InUse(t) # Slots /\ MAX_JOBS \in Nat
  BY FS_Interval, JobsAssumption DEF Slots, InUse, FreeSlots
<1>3. /\ IsFiniteSet(InUse(t)) /\ Cardinality(InUse(t)) =< MAX_JOBS
      /\ Cardinality(InUse(t)) # MAX_JOBS /\ Cardinality(InUse(t)) \in Nat
  BY <1>2, FS_Subset, FS_CardinalityType
<1> HIDE DEF f
<1>4. IsFiniteSet(Ids(t)) /\ Cardinality(Ids(t)) =< Cardinality(InUse(t))
  BY <1>1, <1>3, FS_Injection
<1>5. Cardinality(Ids(t)) \in Nat
  BY <1>4, FS_CardinalityType
<1> QED BY <1>2, <1>3, <1>4, <1>5

\* The abstract module counts with the same Cardinality.
LEMMA SameCardinality ==
  ASSUME NEW S
  PROVE  Lifecycle!Cardinality(S) = Cardinality(S)
BY DEF Lifecycle!Cardinality, Cardinality

\* Every change of the table is a step of JobLifecycle.
LEMMA LifecycleStep ==
  ASSUME IInv, IInv', TableChange
  PROVE  [Lifecycle!Next]_<<[id \in Ids(table) |-> StateOf(id)], table.next_id>>
<1> DEFINE v == View(table)
           w == View(table')
<1>1. /\ table \in JobsTable /\ table' \in JobsTable
      /\ UniqueIds(table) /\ UniqueIds(table')
  BY DEF IInv, Shape, TypeOK, Knowledge, UniqueJobs, UniqueIds
<1>2. /\ [id \in Ids(table) |-> StateOf(id)] = v
      /\ [id \in Ids(table) |-> StateOf(id)]' = w
  BY DEF View, StateOf
<1>3. /\ DOMAIN v = Ids(table)
      /\ \A i \in InUse(table) : /\ table.jobs[i].job_id \in Ids(table)
                                 /\ v[table.jobs[i].job_id] = table.jobs[i].state
  BY <1>1, ViewOfSlots
<1>4. ASSUME NEW f, f = [id \in Ids(table') |-> f[id]],
             \A i \in InUse(table') : f[table'.jobs[i].job_id] = table'.jobs[i].state
      PROVE  w = f
  BY <1>1, <1>4, SameView
<1> HIDE DEF v, w
<1>5. CASE UNCHANGED <<table, shown>>
  BY <1>5 DEF StateOf
<1>6. CASE Reported
  <2> DEFINE S == {id \in DOMAIN v : v[id] # "Done"}
             f == [id \in S |-> v[id]]
  <2>1. /\ table'.next_id = table.next_id
        /\ InUse(table') = {k \in InUse(table) : table.jobs[k].state # "Done"}
        /\ \A k \in InUse(table') : table'.jobs[k] = table.jobs[k]
    BY <1>6, ReportedTable
  <2>2. Ids(table') = S
    BY <1>3, <2>1 DEF Ids
  <2>3. \A i \in InUse(table') : f[table'.jobs[i].job_id] = table'.jobs[i].state
    BY <1>3, <2>1
  <2>4. w = f
    BY <1>4, <2>2, <2>3
  <2> QED BY <1>2, <2>1, <2>4 DEF Lifecycle!Next, Lifecycle!Report, Lifecycle!Keep
<1>7. ASSUME NEW i \in InUse(table), Moved(i)
      PROVE  Lifecycle!Next
  <2> DEFINE id == table.jobs[i].job_id
  <2>1. PICK s \in JobState :
          /\ table' = SetState(table, i, s)
          /\ \/ table.jobs[i].state = "Running" /\ s = "Done"
             \/ table.jobs[i].state = "Stopped" /\ s = "Running"
             \/ table.jobs[i].state # "Stopped" /\ s = "Stopped"
    BY <1>7 DEF Moved
  <2>2. /\ table'.next_id = table.next_id
        /\ InUse(table') = InUse(table)
        /\ \A k \in InUse(table) :
             /\ table'.jobs[k].job_id = table.jobs[k].job_id
             /\ table'.jobs[k].state = IF k = i THEN s ELSE table.jobs[k].state
        /\ Ids(table') = Ids(table)
    BY <2>1, MovedTable
  <2>3. id \in DOMAIN v /\ v[id] = table.jobs[i].state
    BY <1>3
  <2>4. w = [v EXCEPT ![id] = s]
    <3> DEFINE f == [v EXCEPT ![id] = s]
    <3>1. f = [x \in Ids(table') |-> f[x]]
      BY <1>3, <2>2
    <3>2. \A k \in InUse(table') : f[table'.jobs[k].job_id] = table'.jobs[k].state
      BY <1>1, <1>3, <2>2, <2>3 DEF UniqueIds
    <3> HIDE DEF f
    <3>3. w = f
      BY <1>4, <3>1, <3>2
    <3> QED BY <3>3 DEF f
  <2>5. v[id] \in {"Running", "Done", "Stopped"}
    BY <2>3, PidsOfTable DEF IInv, JobState
  <2> HIDE DEF id
  <2> QED BY <1>2, <2>1, <2>2, <2>3, <2>4, <2>5
             DEF Lifecycle!Next, Lifecycle!Finish, Lifecycle!Suspend,
                 Lifecycle!Resume, Lifecycle!Move
<1>8. ASSUME NEW g \in Pids, Entered(g)
      PROVE  Lifecycle!Next
  <2> DEFINE n == table.next_id
  <2>1. PICK s \in {"Running", "Stopped"} :
          FreeSlots(table) # {} /\ table' = JobsAdd(table, g, s)
    BY <1>8 DEF Entered
  <2>2. /\ table'.next_id = n + 1
        /\ \E i \in Slots \ InUse(table) :
             /\ InUse(table') = InUse(table) \cup {i}
             /\ table'.jobs[i].job_id = n /\ table'.jobs[i].state = s
             /\ \A k \in InUse(table) : table'.jobs[k] = table.jobs[k]
        /\ Ids(table') = Ids(table) \cup {n}
    BY <2>1, EnteredTable DEF JobState
  <2>3. \A k \in InUse(table) : table.jobs[k].job_id # n
    BY <1>1, PidsOfTable DEF IInv, Knowledge, UniqueJobs, Ids
  <2> HIDE DEF n
  <2>4. w = [id \in DOMAIN v \cup {n} |-> IF id = n THEN s ELSE v[id]]
    <3> DEFINE f == [id \in DOMAIN v \cup {n} |-> IF id = n THEN s ELSE v[id]]
    <3>1. f = [id \in Ids(table') |-> f[id]]
      BY <1>3, <2>2
    <3>2. \A k \in InUse(table') : f[table'.jobs[k].job_id] = table'.jobs[k].state
      BY <1>3, <2>2, <2>3
    <3> HIDE DEF f
    <3>3. w = f
      BY <1>4, <3>1, <3>2
    <3> QED BY <3>3 DEF f
  <2>5. Cardinality(DOMAIN v) < MAX_JOBS
    BY <1>1, <1>3, <2>1, RoomForOne
  <2> QED BY <1>2, <2>2, <2>4, <2>5, SameCardinality DEF n, Lifecycle!Next, Lifecycle!New
<1>9. CASE Finished
  <2>1. /\ table'.next_id = table.next_id
        /\ InUse(table') \subseteq InUse(table)
        /\ \A k \in InUse(table') : table'.jobs[k] = table.jobs[k]
        /\ \A k \in InUse(table) \ InUse(table') : table.jobs[k].pid = pgid
    BY <1>9, FinishedTable
  <2>2. CASE InUse(table') = InUse(table)
    <3>1. Ids(table') = DOMAIN v /\ v = [id \in Ids(table) |-> v[id]]
      BY <1>3, <2>1, <2>2 DEF Ids, v, View
    <3>2. w = v
      BY <1>3, <1>4, <2>1, <2>2, <3>1
    <3> QED BY <1>2, <2>1, <3>2
  <2>3. CASE InUse(table') # InUse(table)
    <3>1. PICK i \in InUse(table) \ InUse(table') : table.jobs[i].pid = pgid
      BY <2>1, <2>3
    <3> DEFINE id == table.jobs[i].job_id
               f == [x \in DOMAIN v \ {id} |-> v[x]]
    <3>2. InUse(table') = InUse(table) \ {i}
      BY <2>1, <3>1 DEF IInv, Knowledge, UniqueJobs
    <3>3. id \in DOMAIN v /\ v[id] # "Stopped"
      BY <1>3, <1>9, <3>1 DEF Finished, Suspended, GroupsIn
    <3>4. Ids(table') = DOMAIN v \ {id}
      BY <1>1, <1>3, <2>1, <3>2 DEF Ids, UniqueIds
    <3>5. \A k \in InUse(table') : f[table'.jobs[k].job_id] = table'.jobs[k].state
      BY <1>1, <1>3, <2>1, <3>2 DEF UniqueIds
    <3>6. w = f
      BY <1>4, <3>4, <3>5
    <3> HIDE DEF id
    <3> QED BY <1>2, <2>1, <3>3, <3>6
               DEF Lifecycle!Next, Lifecycle!Forget, Lifecycle!Keep
  <2> QED BY <2>2, <2>3
<1> QED BY <1>5, <1>6, <1>7, <1>8, <1>9 DEF TableChange

\* JobControl implements JobLifecycle: whatever shell, handler and kernel do,
\* numbers are never reused, only a running job becomes Done, a stopped job is
\* never lost, and Done jobs are forgotten together when they are reported.
THEOREM LifecycleImplemented == Spec => ImplementsLifecycle
<1>1. Init => Lifecycle!Init
  <2> SUFFICES ASSUME Init PROVE Lifecycle!Init
    OBVIOUS
  <2>1. Ids(table) = {} /\ table.next_id = 1
    BY DEF Init, JobsInit, Ids, InUse
  <2> QED BY <2>1 DEF Lifecycle!Init
<1>2. IInv /\ IInv' /\ [Next]_vars =>
        [Lifecycle!Next]_<<[id \in Ids(table) |-> StateOf(id)], table.next_id>>
  BY TableStep, LifecycleStep
<1> QED BY <1>1, <1>2, Invariant, PTL DEF Spec, ImplementsLifecycle, Lifecycle!Spec

-----------------------------------------------------------------------------
(* Without stops no listed job goes stale.                                 *)

\* Nothing stops a program: no terminal, or no Ctrl+Z and no reads of it.
NoStops == ~Interactive \/ (Keys \subseteq {SIGINT} /\ ~TtyReads)

Unstopped ==
  /\ \A p \in Pids : Obeys(p)
  /\ Suspended = {}
  /\ \A i \in InUse(table) :
       Exists(table.jobs[i].pid) => grp[table.jobs[i].pid] = table.jobs[i].pid
  /\ ListedJobAlive

\* A step outside the foreground wait that adds no job, collects no leader and
\* moves none keeps it.
LEMMA UnstoppedStep ==
  ASSUME IInv, Unstopped, (\A p \in Pids : Obeys(p))',
         pc # "wait" \/ UNCHANGED <<pc, pgid>>,
         \A i \in InUse(table') :
           /\ i \in InUse(table) /\ table'.jobs[i] = table.jobs[i]
           /\ Exists(table.jobs[i].pid)' = Exists(table.jobs[i].pid)
           /\ grp'[table.jobs[i].pid] = grp[table.jobs[i].pid]
  PROVE  Unstopped'
<1>1. Suspended'= {}
  BY DEF Unstopped, Suspended, GroupsIn
<1>2. ListedJobAlive'
  BY DEF Unstopped, ListedJobAlive, Exists, Live
<1>3. (\A i \in InUse(table) :
        Exists(table.jobs[i].pid) => grp[table.jobs[i].pid] = table.jobs[i].pid)'
  BY DEF Unstopped, Exists, Live
<1> QED BY <1>1, <1>2, <1>3 DEF Unstopped

\* Programs, keys and other sessions keep it: there is no stop signal about.
LEMMA UnstoppedAside ==
  ASSUME NoStops, IInv, Unstopped, Programs \/ User
  PROVE  Unstopped'
<1>1. UNCHANGED <<pc, pgid, table>>
  BY DEF Programs, ChildStart, TtyRead, ExternalKill, ExternalContinue, Exit,
         Terminate, Stop, Catch, User, Key, shellVars
<1>2. Calm /\ ~(\E p \in Pids : TtyRead(p))
  BY ProgramsCalm, UserCalm DEF IInv, NoStops, TtyRead
<1>3. (\A p \in Pids : Obeys(p))'
  <2> USE DEF Unstopped, Obeys, IInv, Shape, TypeOK
  <2>2. ASSUME NEW p \in Pids, NEW status, Die(p, status)
        PROVE  (\A q \in Pids : Obeys(q))'
    BY <2>2 DEF Die
  <2>3. ASSUME NEW p \in Pids, ChildStart(p) PROVE (\A q \in Pids : Obeys(q))'
    BY <2>3 DEF ChildStart
  <2>4. ASSUME NEW p \in Pids, ExternalContinue(p) PROVE (\A q \in Pids : Obeys(q))'
    BY <2>4 DEF ExternalContinue
  <2>5. ASSUME NEW p \in Pids, NEW s \in CatchableSignals, Stop(p, s)
        PROVE  FALSE
    BY <2>5 DEF Stop
  <2>6. ASSUME NEW p \in Pids, NEW s \in CatchableSignals, Catch(p, s)
        PROVE  (\A q \in Pids : Obeys(q))'
    BY <2>6 DEF Catch
  <2>7. ASSUME NEW s \in Keys, Key(s) PROVE (\A q \in Pids : Obeys(q))'
    <3>1. s \notin StopSignals
      BY <2>7 DEF Key, NoStops, StopSignals, SIGINT, SIGTSTP, SIGTTIN
    <3> QED BY <2>7, <3>1 DEF Key, Send
  <2> QED BY <1>2, <2>2, <2>3, <2>4, <2>5, <2>6, <2>7
             DEF Programs, User, Exit, Terminate, ExternalKill
<1>4. \A q \in Pids : Exists(q)' = Exists(q)
  <2>1. ASSUME NEW p \in Pids, NEW status \in WaitStatus, Live(p), Die(p, status)
        PROVE  \A q \in Pids : Exists(q)' = Exists(q)
    BY <2>1, DieShape DEF IInv, Shape, Exists, Live
  <2>2. ASSUME NEW p \in Pids, ChildStart(p) \/ ExternalContinue(p)
                             \/ (\E s \in CatchableSignals : Stop(p, s) \/ Catch(p, s))
        PROVE  \A q \in Pids : Exists(q)' = Exists(q)
    BY <2>2, ContinueShape
       DEF ChildStart, ExternalContinue, Stop, Catch, IInv, Shape, TypeOK, Exists,
           Live
  <2>3. ASSUME NEW p \in Pids, NEW c \in ExitCodes, Exit(p, c)
        PROVE  \A q \in Pids : Exists(q)' = Exists(q)
    BY <2>1, <2>3, NewStatus DEF Exit, Live
  <2>4. ASSUME NEW p \in Pids, NEW s \in CatchableSignals, Terminate(p, s)
        PROVE  \A q \in Pids : Exists(q)' = Exists(q)
    <3>1. s \in {SIGINT, SIGTERM, SIGKILL}
      BY <2>4 DEF Terminate, CatchableSignals
    <3> QED BY <2>1, <2>4, <3>1, NewStatus DEF Terminate, Live
  <2>5. ASSUME NEW p \in Pids, ExternalKill(p)
        PROVE  \A q \in Pids : Exists(q)' = Exists(q)
    BY <2>1, <2>5, NewStatus DEF ExternalKill
  <2>6. CASE User
    BY <2>6 DEF User, Key, Exists, Live
  <2>7. CASE Programs
    <3>1. PICK p \in Pids :
            \/ ChildStart(p) \/ ExternalContinue(p) \/ ExternalKill(p)
            \/ \E c \in ExitCodes : Exit(p, c)
            \/ \E s \in CatchableSignals : Terminate(p, s) \/ Stop(p, s) \/ Catch(p, s)
      BY <1>2, <2>7 DEF Programs
    <3> QED BY <2>2, <2>3, <2>4, <2>5, <3>1
  <2> QED BY <2>6, <2>7
<1>5. ASSUME NEW q \in Pids, grp'[q] # grp[q]
      PROVE  \A i \in InUse(table) : table.jobs[i].pid # q
  <2>1. PICK p \in Pids : ChildStart(p)
    BY <1>5
       DEF Programs, TtyRead, ExternalKill, ExternalContinue, Exit, Terminate,
           Stop, Catch, User, Key
  <2>2. q = p /\ grp[p] = Shell /\ st[p] = "forked"
    BY <1>5, <2>1 DEF ChildStart, JoinGroup, IInv, Shape, TypeOK
  <2>3. pc = "setpgid" /\ pids # <<>> /\ q = pids[Len(pids)]
    BY <2>1, <2>2 DEF IInv, Shape, SpawnOK
  <2>4. Len(pids) \in DOMAIN pids
    BY <2>3 DEF IInv, Shape, TypeOK
  <2> QED BY <2>3, <2>4 DEF IInv, Knowledge, KnownOK, Spawning
<1>6. \A i \in InUse(table) :
        /\ Exists(table.jobs[i].pid)' = Exists(table.jobs[i].pid)
        /\ grp'[table.jobs[i].pid] = grp[table.jobs[i].pid]
  <2>1. SUFFICES ASSUME NEW i \in InUse(table), NEW q, q = table.jobs[i].pid
                 PROVE  Exists(q)' = Exists(q) /\ grp'[q] = grp[q]
    BY <1>1 DEF Exists, Live
  <2>2. q \in Pids
    BY <2>1, PidsOfTable DEF IInv
  <2> QED BY <1>4, <1>5, <2>1, <2>2
<1> QED BY <1>1, <1>3, <1>6, UnstoppedStep

\* The shell's own steps keep it: the wait ends only when the group is gone,
\* and then the job is forgotten.
LEMMA UnstoppedShell ==
  ASSUME IInv, FrontOK, Unstopped, UserCommand \/ ShellStep
  PROVE  Unstopped'
<1>1. (\A p \in Pids : Obeys(p))'
  <2> USE DEF Unstopped, Obeys, IInv, Shape, TypeOK
  <2>1. ASSUME NEW P, Send(SIGTERM, P), UNCHANGED st
        PROVE  (\A p \in Pids : Obeys(p))'
    BY <2>1 DEF Send, StopSignals, SIGTERM, SIGTSTP, SIGTTIN
  <2>2. ASSUME NEW P, Continue(P)
        PROVE  (\A p \in Pids : Obeys(p))'
    BY <2>2 DEF Continue
  <2>3. ASSUME UNCHANGED <<st, pend>> PROVE (\A p \in Pids : Obeys(p))'
    BY <2>3
  <2>4. ASSUME NEW p \in Pids, Fork(p) \/ WaitExited(p)
        PROVE  (\A q \in Pids : Obeys(q))'
    BY <2>4 DEF Fork, WaitExited, Reap
  <2>5. CASE UserCommand
    BY <2>1, <2>2, <2>3, <2>5
       DEF UserCommand, OtherLine, LeaveLoop, JobsBuiltin, KillOwnGroup,
           ExecutePipeline, FgStart, Bg, KillFind, KillPid, procVars
  <2>6. CASE ShellStep
    BY <2>1, <2>2, <2>3, <2>4, <2>6
       DEF ShellStep, PromptNotify, SpawnFails, ParentSetpgid, AddJob,
           GiveTerminal, WaitNoChild, Reclaim, FgResume, KillSend, WaitStopped,
           procVars
  <2> QED BY <2>5, <2>6
<1>2. \A i \in InUse(table) : /\ table.jobs[i].pid \in Pids
                               /\ table.jobs[i].state # "Stopped"
  BY PidsOfTable DEF IInv, Unstopped, Suspended, GroupsIn
<1>3. ASSUME \A i \in InUse(table') : i \in InUse(table) /\ table'.jobs[i] = table.jobs[i],
             UNCHANGED <<st, grp>>, pc # "wait"
      PROVE  Unstopped'
  <2>1. \A i \in InUse(table') : Exists(table.jobs[i].pid)' = Exists(table.jobs[i].pid)
    BY <1>3 DEF Exists, Live
  <2> QED BY <1>1, <1>3, <2>1, UnstoppedStep
<1>4. ASSUME JobsBuiltin \/ PromptNotify PROVE Unstopped'
  <2>1. /\ UNCHANGED <<st, grp>> /\ pc # "wait"
        /\ table' = JobsClearDone(table) /\ table \in JobsTable
    BY <1>4 DEF JobsBuiltin, PromptNotify, At, procVars, IInv, Shape, TypeOK
  <2> QED BY <1>3, <2>1, ClearDoneTable DEF Shrunk
<1>5. ASSUME \/ OtherLine \/ LeaveLoop \/ KillOwnGroup
             \/ \E b \in BOOLEAN, k \in 1 .. MaxStages : ExecutePipeline(b, k)
             \/ \E id \in Ids(table) : FgStart(id) \/ KillFind(id)
             \/ \E p \in Pids : KillPid(p)
             \/ SpawnFails \/ GiveTerminal \/ Reclaim \/ KillSend
      PROVE  Unstopped'
  <2>1. UNCHANGED <<st, grp, table>> /\ pc # "wait"
    BY <1>5
       DEF OtherLine, LeaveLoop, KillOwnGroup, ExecutePipeline, FgStart, KillFind,
           KillPid, SpawnFails, GiveTerminal, Reclaim, KillSend, At, procVars
  <2> QED BY <1>3, <2>1
<1>6. ASSUME NEW id \in Ids(table), Bg(id) PROVE Unstopped'
  <2>1. JobsFindById(table, id) \in InUse(table)
    BY <1>6, FindById DEF Bg, IInv, Shape, TypeOK
  <2>2. UNCHANGED <<st, grp, table>> /\ pc # "wait"
    BY <1>2, <1>6, <2>1 DEF Bg, At
  <2> QED BY <1>3, <2>2
<1>7. ASSUME FgResume PROVE Unstopped'
  <2>1. JobsFindByPid(table, pgid) \in InUse(table)
    BY <1>7, FindByPid DEF FgResume, At, IInv, Shape, TypeOK, ResumeOK
  <2>2. UNCHANGED <<st, grp, table>> /\ pc # "wait"
    BY <1>2, <1>7, <2>1 DEF FgResume, At
  <2> QED BY <1>3, <2>2
<1>8. ASSUME NEW p \in Pids, WaitStopped(p) PROVE FALSE
  BY <1>8 DEF WaitStopped, Unstopped, Obeys
<1>9. ASSUME ParentSetpgid PROVE Unstopped'
  <2> DEFINE p == pids[Len(pids)]
  <2>1. /\ pids # <<>> /\ pids \in Seq(Pids) /\ Len(pids) \in DOMAIN pids
        /\ pc = "setpgid" /\ UNCHANGED <<st, table>>
        /\ \A q \in Pids : q # p => grp'[q] = grp[q]
    BY <1>9 DEF ParentSetpgid, At, IInv, Shape, TypeOK, SpawnOK
  <2>2. \A i \in InUse(table) : table.jobs[i].pid # p
    BY <2>1 DEF IInv, Knowledge, KnownOK, Spawning
  <2>3. \A i \in InUse(table) : Exists(table.jobs[i].pid)' = Exists(table.jobs[i].pid)
    BY <2>1 DEF Exists, Live
  <2> HIDE DEF p
  <2> QED BY <1>1, <1>2, <2>1, <2>2, <2>3, UnstoppedStep
<1>10. ASSUME NEW p \in Pids, Fork(p) PROVE Unstopped'
  <2>1. /\ st[p] = "free" /\ \A q \in Pids : q # p => st'[q] = st[q]
        /\ pc = "fork" /\ UNCHANGED <<grp, table>>
    BY <1>10 DEF Fork, At, IInv, Shape, TypeOK
  <2>2. \A i \in InUse(table) : table.jobs[i].pid # p
    BY <2>1 DEF IInv, Knowledge, KnownOK
  <2>3. \A i \in InUse(table) : Exists(table.jobs[i].pid)' = Exists(table.jobs[i].pid)
    BY <1>2, <2>1, <2>2 DEF Exists, Live
  <2> QED BY <1>1, <2>1, <2>3, UnstoppedStep
<1>11. ASSUME AddJob PROVE Unstopped'
  <2> DEFINE g == pids[1]
  <2>1. /\ g \in Pids /\ 1 \in DOMAIN pids /\ pc = "add" /\ pc' = "prompt"
        /\ table' = JobsAdd(table, g, "Running") /\ UNCHANGED <<st, grp>>
    BY <1>11 DEF AddJob, Return, At, procVars, IInv, Shape, SpawnOK, TypeOK
  <2>2. Exists(g) /\ grp[g] = g
    BY <2>1 DEF FrontOK, StagesOK, Spawning
  <2> HIDE DEF g
  <2>3. CASE FreeSlots(table) = {}
    BY <1>3, <2>1, <2>3, AddFull
  <2>4. CASE FreeSlots(table) # {}
    <3>1. PICK i \in Slots \ InUse(table) :
            /\ InUse(table') = InUse(table) \cup {i}
            /\ table'.jobs[i] = [pid |-> g, job_id |-> table.next_id, state |-> "Running"]
            /\ \A k \in InUse(table) : table'.jobs[k] = table.jobs[k]
      BY <2>1, <2>4, AddTable DEF JobState, IInv, Shape, TypeOK
    <3>2. \A q \in Pids : Exists(q)' = Exists(q)
      BY <2>1 DEF Exists, Live
    <3>3. \A k \in InUse(table) : table.jobs[k].state # "Done" => Exists(table.jobs[k].pid)
      BY <2>1 DEF Unstopped, ListedJobAlive
    <3>4. \A k \in InUse(table') :
            /\ table'.jobs[k].pid \in Pids /\ table'.jobs[k].state # "Stopped"
            /\ table'.jobs[k].state # "Done" => Exists(table'.jobs[k].pid)
            /\ Exists(table'.jobs[k].pid) => grp[table'.jobs[k].pid] = table'.jobs[k].pid
      BY <1>2, <2>1, <2>2, <3>1, <3>3 DEF Unstopped
    <3>5. ListedJobAlive'
      BY <2>1, <3>4 DEF ListedJobAlive, Exists, Live
    <3>6. (\A k \in InUse(table) :
             Exists(table.jobs[k].pid) => grp[table.jobs[k].pid] = table.jobs[k].pid)'
      BY <2>1, <3>4 DEF Exists, Live
    <3>7. Suspended' = {}
      BY <3>4 DEF Suspended, GroupsIn
    <3> QED BY <1>1, <3>5, <3>6, <3>7 DEF Unstopped
  <2> QED BY <2>3, <2>4
<1>12. ASSUME NEW p \in Pids, WaitExited(p) PROVE Unstopped'
  <2>1. /\ p \in Members(pgid) /\ pc = "wait" /\ UNCHANGED <<pc, pgid, table>>
    BY <1>12 DEF WaitExited, At
  <2>2. \A q \in Pids :
          IF q = p THEN st'[q] = "reaped" ELSE st'[q] = st[q] /\ grp'[q] = grp[q]
    BY <1>12, ReapShape DEF WaitExited, IInv, Shape
  <2>3. \A q \in Pids : Exists(q)' <=> Exists(q) /\ q # p
    BY <2>2 DEF Exists, Live
  <2>4. \A i \in InUse(table) : table.jobs[i].pid = p => p = pgid
    BY <2>1 DEF Members, Unstopped
  <2>5. ListedJobAlive'
    <3>1. \A i \in InUse(table) : table.jobs[i].state # "Done" =>
            Exists(table.jobs[i].pid)' \/ pgid = table.jobs[i].pid
      <4> SUFFICES ASSUME NEW i \in InUse(table), table.jobs[i].state # "Done",
                          pgid # table.jobs[i].pid, NEW q, q = table.jobs[i].pid
                   PROVE  Exists(q)'
        BY <2>1 DEF Exists, Live
      <4> QED BY <1>2, <2>3, <2>4 DEF Unstopped, ListedJobAlive
    <3> QED BY <2>1, <3>1 DEF ListedJobAlive
  <2>6. (\A i \in InUse(table) :
           Exists(table.jobs[i].pid) => grp[table.jobs[i].pid] = table.jobs[i].pid)'
    <3> SUFFICES ASSUME NEW i \in InUse(table), NEW q, q = table.jobs[i].pid, Exists(q)'
                 PROVE  grp'[q] = q
      BY <2>1 DEF Exists, Live
    <3> QED BY <1>2, <2>2, <2>3 DEF Unstopped
  <2>7. Suspended' = {}
    BY <2>1 DEF Unstopped, Suspended, GroupsIn
  <2> QED BY <1>1, <2>5, <2>6, <2>7 DEF Unstopped
<1>13. ASSUME WaitNoChild PROVE Unstopped'
  <2>1. /\ pc = "wait" /\ table' = JobsRemoveByPid(table, pgid)
        /\ UNCHANGED <<st, grp>> /\ table \in JobsTable
    BY <1>13 DEF WaitNoChild, At, procVars, IInv, Shape, TypeOK
  <2>2. /\ \A i \in InUse(table') : /\ i \in InUse(table) /\ table'.jobs[i] = table.jobs[i]
                                     /\ table.jobs[i].pid # pgid
    <3>1. Shrunk(table, table')
      BY <2>1, RemoveTable
    <3>2. ASSUME NEW i \in InUse(table), table.jobs[i].pid = pgid
          PROVE  i \notin InUse(table')
      <4>1. i \in SlotsOfPid(table, pgid)
        BY <3>2 DEF SlotsOfPid
      <4>2. JobsFindByPid(table, pgid) = i
        BY <2>1, <3>2, <4>1, FindByPid DEF IInv, Knowledge, UniqueJobs
      <4>3. table' = [table EXCEPT !.jobs[i] = NoJob]
        BY <2>1, <4>1, <4>2 DEF JobsRemoveByPid
      <4> QED BY <2>1, <3>2, <4>3 DEF InUse, JobsTable
    <3> QED BY <3>1, <3>2 DEF Shrunk
  <2>3. \A i \in InUse(table') : table'.jobs[i].state # "Done" => Exists(table'.jobs[i].pid)
    BY <2>2 DEF Unstopped, ListedJobAlive
  <2>4. ListedJobAlive'
    BY <2>1, <2>3 DEF ListedJobAlive, Exists, Live
  <2>5. (\A i \in InUse(table) :
           Exists(table.jobs[i].pid) => grp[table.jobs[i].pid] = table.jobs[i].pid)'
    BY <2>1, <2>2 DEF Unstopped, Exists, Live
  <2>6. Suspended' = {}
    BY <1>2, <2>2 DEF Suspended, GroupsIn
  <2> QED BY <1>1, <2>4, <2>5, <2>6 DEF Unstopped
<1> QED BY <1>4, <1>5, <1>6, <1>7, <1>8, <1>9, <1>10, <1>11, <1>12, <1>13
       DEF UserCommand, ShellStep

\* The handler keeps it: when it collects the leader of a listed job, the job
\* becomes Done in the same round.
LEMMA UnstoppedHandler ==
  ASSUME IInv, Unstopped, Handler
  PROVE  Unstopped'
<1>1. ASSUME HandlerEnter \/ HandlerReturn PROVE Unstopped'
  BY <1>1
     DEF HandlerEnter, HandlerReturn, procVars, Unstopped, Obeys, Suspended,
         GroupsIn, ListedJobAlive, Exists, Live
<1>2. ASSUME NEW p \in Pids, HandlerReap(p) PROVE Unstopped'
  <2>1. /\ table' = JobsMarkDone(table, p) /\ UNCHANGED <<pc, pgid, pend>>
        /\ pc # "wait" /\ table \in JobsTable /\ UniqueJobs
    BY <1>2 DEF HandlerReap, IInv, Shape, MaskOK, Critical, TypeOK, Knowledge
  <2>2. \A q \in Pids :
          IF q = p THEN st'[q] = "reaped" ELSE st'[q] = st[q] /\ grp'[q] = grp[q]
    BY <1>2, ReapShape DEF HandlerReap, IInv, Shape
  <2>3. \A q \in Pids : Exists(q)' <=> Exists(q) /\ q # p
    BY <2>2 DEF Exists, Live
  <2>4. \A i \in InUse(table) : /\ table.jobs[i].pid \in Pids
                                /\ table.jobs[i].state \in {"Running", "Done"}
    BY PidsOfTable DEF IInv, Unstopped, Suspended, GroupsIn, JobState
  <2>5. /\ InUse(table') = InUse(table)
        /\ \A i \in InUse(table) :
             /\ table'.jobs[i].pid = table.jobs[i].pid
             /\ table'.jobs[i].state = IF table.jobs[i].pid = p THEN "Done"
                                                                ELSE table.jobs[i].state
    <3>1. CASE table' = table /\ RunningSlots(table, p) = {}
      BY <2>4, <3>1 DEF RunningSlots, SlotsOfPid
    <3>2. CASE \E k \in InUse(table) : /\ table.jobs[k].pid = p
                                       /\ table' = SetState(table, k, "Done")
      <4>1. PICK k \in InUse(table) : /\ table.jobs[k].pid = p
                                      /\ table' = SetState(table, k, "Done")
        BY <3>2
      <4>2. \A i \in InUse(table) : table.jobs[i].pid = p <=> i = k
        BY <2>1, <4>1 DEF UniqueJobs
      <4>3. "Done" \in JobState
        BY DEF JobState
      <4> QED BY <2>1, <4>1, <4>2, <4>3, SetStateTable
    <3> QED BY <2>1, <3>1, <3>2, MarkDone
  <2>6. (\A q \in Pids : Obeys(q))'
    BY <2>1, <2>2 DEF Unstopped, Obeys
  <2>7. Suspended' = {}
    BY <2>4, <2>5 DEF Suspended, GroupsIn
  <2>8. \A i \in InUse(table) : table.jobs[i].state # "Done" => Exists(table.jobs[i].pid)
    BY <2>1 DEF Unstopped, ListedJobAlive
  <2>9. ListedJobAlive'
    <3> SUFFICES ASSUME NEW i \in InUse(table), NEW q, q = table.jobs[i].pid,
                        table'.jobs[i].state # "Done"
                 PROVE  Exists(q)'
      BY <2>5 DEF ListedJobAlive, Exists, Live
    <3> QED BY <2>3, <2>4, <2>5, <2>8
  <2>10. (\A i \in InUse(table) :
            Exists(table.jobs[i].pid) => grp[table.jobs[i].pid] = table.jobs[i].pid)'
    <3> SUFFICES ASSUME NEW i \in InUse(table), NEW q, q = table.jobs[i].pid, Exists(q)'
                 PROVE  grp'[q] = q
      BY <2>5 DEF Exists, Live
    <3> QED BY <2>2, <2>3, <2>4 DEF Unstopped
  <2> QED BY <2>6, <2>7, <2>9, <2>10 DEF Unstopped
<1> QED BY <1>1, <1>2 DEF Handler

\* Where nothing can stop a program, the end of a listed job's leader never
\* goes unnoticed: the handler marks the job Done in the round that collects
\* it, or the wait that collected it is still on the job.
THEOREM NoStaleJob == NoStops => (Spec => []ListedJobAlive)
<1> SUFFICES ASSUME NoStops PROVE Spec => []ListedJobAlive
  OBVIOUS
<1>1. Init => Unstopped
  <2> SUFFICES ASSUME Init PROVE Unstopped
    OBVIOUS
  <2>1. InUse(table) = {}
    BY DEF Init, JobsInit, InUse
  <2> QED BY <2>1
             DEF Init, Unstopped, Obeys, Suspended, GroupsIn, ListedJobAlive
<1>2. IInv /\ FrontOK /\ Unstopped /\ [Next]_vars => Unstopped'
  <2> SUFFICES ASSUME IInv, FrontOK, Unstopped, [Next]_vars PROVE Unstopped'
    OBVIOUS
  <2>1. CASE UNCHANGED vars
    BY <2>1
       DEF vars, shellVars, procVars, Unstopped, Obeys, Suspended, GroupsIn,
           ListedJobAlive, Exists, Live
  <2> QED BY <2>1, UnstoppedAside, UnstoppedShell, UnstoppedHandler
             DEF Next, Terminated
<1>3. Unstopped => ListedJobAlive
  BY DEF Unstopped
<1> QED BY <1>1, <1>2, <1>3, Invariant, FrontInvariant, PTL DEF Spec
=============================================================================

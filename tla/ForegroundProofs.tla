-------------------------- MODULE ForegroundProofs --------------------------
(***************************************************************************)
(* Third layer of the proofs about JobControl: the command in the          *)
(* foreground.  Its group, the terminal it owns and the statuses its wait  *)
(* collects, through every interleaving with the children's own steps.     *)
(***************************************************************************)
EXTENDS JobControlProofs

\* A process group is named after a process that has been forked: the group a
\* pipeline is about to open has no members yet.
GroupsKnown == \A p \in Pids : grp[p] \in Pids => st[grp[p]] # "free"

\* While SIGCHLD is blocked no stage is collected before the wait; a stage is
\* in the group unless the parent's setpgid for it is still to come, and the
\* group holds nobody but stages.
StagesOK ==
  /\ pc \in Spawning => \A i \in DOMAIN pids : Exists(pids[i])
  /\ pc \in Spawning \cup {"wait"} => \A i \in DOMAIN pids :
       Exists(pids[i]) => \/ grp[pids[i]] = pids[1]
                          \/ pc = "setpgid" /\ i = Len(pids)
  /\ pc \in Spawning \cup {"wait"} /\ pids # <<>> =>
       Members(pids[1]) \subseteq Range(pids)

\* The terminal is the shell's until a foreground group is complete or a job
\* is resumed, and that group's as long as it has a process.
TerminalOK ==
  Interactive =>
    /\ pc \in {"prompt", "read", "kill"} \cup Spawning => tty = Shell
    /\ pc \in {"resume", "wait"} /\ Members(pgid) # {} => tty = pgid

\* The stages the foreground wait has collected.
Gone == {c[1] : c \in collected}

\* Each stage is there or was collected by the wait, and the result is the
\* status of one of those.
CollectedOK ==
  /\ pc \notin {"wait", "reclaim"} => collected = {}
  /\ pc = "wait" /\ collected # {} => \E c \in collected : c[2] = result
  /\ pc = "wait" /\ pids # <<>> =>
       /\ Gone \subseteq Range(pids)
       /\ \A i \in DOMAIN pids : Exists(pids[i]) \/ pids[i] \in Gone
  /\ ForegroundStatus

FrontOK == GroupsKnown /\ StagesOK /\ TerminalOK /\ CollectedOK

-----------------------------------------------------------------------------
(* Steps beside the shell's own.                                           *)

\* What the third layer needs of a step that is not the shell's: nobody is
\* born, nobody is collected in a critical section, and nobody changes group
\* but the newest stage, which joins its pipeline.
Calm ==
  /\ UNCHANGED <<pc, pids, pgid, result, collected, tty>>
  /\ \A q \in Pids :
       /\ st[q] # "free" => st'[q] # "free"
       /\ Exists(q)' => Exists(q)
       /\ Exists(q) => Exists(q)' \/ pc \notin Critical
       /\ \/ grp'[q] = grp[q]
          \/ grp'[q] = Shell /\ ~Exists(q)'
          \/ pc = "setpgid" /\ q = pids[Len(pids)] /\ grp'[q] = pids[1]

\* A calm step keeps the third layer.
LEMMA CalmStep ==
  ASSUME Shape, Knowledge, FrontOK, Calm
  PROVE  FrontOK'
<1>1. pids \in Seq(Pids) /\ (pc = "setpgid" => pids # <<>>)
  BY DEF Shape, TypeOK, SpawnOK
<1>2. \A i \in DOMAIN pids : pids[i] \in Pids /\ pids[i] \in Range(pids)
  BY <1>1 DEF Range
<1>3. pids # <<>> => 1 \in DOMAIN pids /\ Len(pids) \in DOMAIN pids
  BY <1>1
<1>4. GroupsKnown'
  <2>1. pc = "setpgid" => st[pids[1]] # "free"
    BY <1>1, <1>3 DEF Knowledge, KnownOK, Spawning
  <2>2. \A q \in Pids : grp'[q] \in Pids => st[grp'[q]] # "free"
    BY <2>1, ControlAssumption DEF Calm, FrontOK, GroupsKnown
  <2> QED BY <2>2 DEF Calm, GroupsKnown
<1>5. StagesOK'
  <2>1. pc \in Spawning => pc \in Critical
    BY DEF Spawning, Critical
  <2>2. pc \in Spawning => \A i \in DOMAIN pids : Exists(pids[i])'
    BY <1>2, <2>1 DEF Calm, FrontOK, StagesOK
  <2>3. ASSUME pc \in Spawning \cup {"wait"}, NEW i \in DOMAIN pids, Exists(pids[i])'
        PROVE  grp'[pids[i]] = pids[1] \/ (pc = "setpgid" /\ i = Len(pids))
    <3>1. pids[1] # Shell
      BY <1>2, <1>3, ControlAssumption
    <3>2. Exists(pids[i])
      BY <1>2, <2>3 DEF Calm
    <3> QED BY <1>2, <2>3, <3>1, <3>2 DEF Calm, FrontOK, StagesOK
  <2>4. ASSUME pc \in Spawning \cup {"wait"}, pids # <<>>,
               NEW q \in Pids, Exists(q)', grp'[q] = pids[1]
        PROVE  q \in Range(pids)
    <3>1. pids[1] # Shell /\ Exists(q)
      BY <1>2, <1>3, <2>4, ControlAssumption DEF Calm
    <3>2. grp[q] = pids[1] \/ q = pids[Len(pids)]
      BY <2>4, <3>1 DEF Calm
    <3> QED BY <1>2, <1>3, <2>4, <3>1, <3>2 DEF FrontOK, StagesOK, Members
  <2>5. pc' = pc /\ pids' = pids
    BY DEF Calm
  <2> QED BY <2>2, <2>3, <2>4, <2>5 DEF StagesOK, Members
<1>6. ASSUME pc \in {"resume", "wait"}
      PROVE  Members(pgid)' \subseteq Members(pgid)
  <2>1. pgid \in Pids /\ pgid # Shell
    BY <1>6, ControlAssumption DEF Shape, ResumeOK
  <2> QED BY <1>6, <2>1 DEF Calm, Members
<1>7. TerminalOK'
  BY <1>6 DEF Calm, FrontOK, TerminalOK
<1>8. CollectedOK'
  <2>1. pc = "reclaim" => Members(pgid) \subseteq Members(pgid)'
    BY DEF Calm, Members, Critical
  <2>2. ForegroundStatus'
    BY <2>1 DEF Calm, FrontOK, CollectedOK, ForegroundStatus
  <2>3. pc = "wait" => \A i \in DOMAIN pids : Exists(pids[i]) => Exists(pids[i])'
    BY <1>2 DEF Calm, Critical
  <2> QED BY <2>2, <2>3 DEF Calm, FrontOK, CollectedOK, Gone
<1> QED BY <1>4, <1>5, <1>7, <1>8 DEF FrontOK

\* A signal that is only made pending, or discarded, is calm.
LEMMA CalmSignal ==
  ASSUME UNCHANGED <<shellVars, st, grp, tty, histVars>>
  PROVE  Calm
BY DEF shellVars, histVars, Calm, Exists, Live

\* A death is calm: the dead stays a member until it is collected.
LEMMA CalmDeath ==
  ASSUME NEW p \in Pids, NEW status \in WaitStatus, Shape, Live(p), Die(p, status),
         UNCHANGED <<shellVars, grp, tty, histVars>>
  PROVE  Calm
BY DieShape DEF shellVars, histVars, Shape, Calm, Exists, Live

\* SIGCONT is calm: it wakes processes.
LEMMA CalmContinue ==
  ASSUME NEW P, Shape, Continue(P),
         UNCHANGED <<pc, pids, pgid, result, collected, tty, grp>>
  PROVE  Calm
BY ContinueShape DEF Shape, Calm, Exists, Live

\* Programs, the kernel and other sessions are calm.
LEMMA ProgramsCalm ==
  ASSUME Shape, Programs
  PROVE  Calm
<1>1. ASSUME NEW p \in Pids, ChildStart(p) PROVE Calm
  <2>1. st'[p] = "running" /\ \A q \in Pids \ {p} : st'[q] = st[q]
    BY <1>1 DEF ChildStart, Shape, TypeOK
  <2>2. CASE grp[p] = Shell
    <3>1. pc = "setpgid" /\ p = pids[Len(pids)]
      BY <1>1, <2>2 DEF ChildStart, Shape, SpawnOK
    <3>2. grp'[p] = pids[1] /\ \A q \in Pids \ {p} : grp'[q] = grp[q]
      BY <1>1, <2>2 DEF ChildStart, JoinGroup, Shape, TypeOK
    <3> QED BY <1>1, <2>1, <3>1, <3>2
               DEF ChildStart, shellVars, histVars, Calm, Exists, Live
  <2>3. CASE grp[p] # Shell
    BY <1>1, <2>1, <2>3
       DEF ChildStart, JoinGroup, shellVars, histVars, Calm, Exists, Live
  <2> QED BY <2>2, <2>3
<1>2. ASSUME NEW p \in Pids, TtyRead(p) PROVE Calm
  BY <1>2, CalmSignal DEF TtyRead
<1>3. ASSUME NEW p \in Pids, ExternalKill(p) PROVE Calm
  <2>1. [how |-> "signaled", n |-> SIGKILL] \in WaitStatus
    BY NewStatus
  <2> QED BY <1>3, <2>1, CalmDeath DEF ExternalKill
<1>4. ASSUME NEW p \in Pids, ExternalContinue(p) PROVE Calm
  BY <1>4, CalmContinue DEF ExternalContinue, shellVars, histVars
<1>5. ASSUME NEW p \in Pids, NEW c \in ExitCodes, Exit(p, c) PROVE Calm
  <2>1. [how |-> "exited", n |-> c] \in WaitStatus /\ Live(p)
    BY <1>5, NewStatus DEF Exit, Live
  <2> QED BY <1>5, <2>1, CalmDeath DEF Exit
<1>6. ASSUME NEW p \in Pids, NEW s \in CatchableSignals, Terminate(p, s) PROVE Calm
  <2>1. s \in {SIGINT, SIGTERM, SIGKILL}
    BY <1>6 DEF Terminate, CatchableSignals
  <2>2. [how |-> "signaled", n |-> s] \in WaitStatus /\ Live(p)
    BY <1>6, <2>1, NewStatus DEF Terminate, Live
  <2> QED BY <1>6, <2>2, CalmDeath DEF Terminate
<1>7. ASSUME NEW p \in Pids, NEW s \in CatchableSignals, Stop(p, s) PROVE Calm
  BY <1>7 DEF Stop, shellVars, histVars, Shape, TypeOK, Calm, Exists, Live
<1>8. ASSUME NEW p \in Pids, NEW s \in CatchableSignals, Catch(p, s) PROVE Calm
  BY <1>8, CalmSignal DEF Catch
<1> QED BY <1>1, <1>2, <1>3, <1>4, <1>5, <1>6, <1>7, <1>8 DEF Programs

\* The user's keys are calm, and so is the handler: it collects children only
\* outside the critical sections.
LEMMA UserCalm ==
  ASSUME User
  PROVE  Calm
BY CalmSignal DEF User, Key

\* The handler takes nobody in a critical section and moves nobody.
LEMMA HandlerCalm ==
  ASSUME Shape, Handler
  PROVE  Calm
<1>1. ASSUME NEW p \in Pids, HandlerReap(p) PROVE Calm
  <2>1. pc \notin Critical
    BY <1>1 DEF HandlerReap, Shape, MaskOK
  <2>2. \A q \in Pids :
          IF q = p THEN st'[q] = "reaped" /\ grp'[q] = Shell
                   ELSE st'[q] = st[q] /\ grp'[q] = grp[q]
    BY <1>1, ReapShape DEF HandlerReap, Shape
  <2> QED BY <1>1, <2>1, <2>2 DEF HandlerReap, histVars, Calm, Exists, Live
<1>2. ASSUME HandlerEnter PROVE Calm
  BY <1>2 DEF HandlerEnter, procVars, histVars, Calm, Exists, Live
<1>3. ASSUME HandlerReturn PROVE Calm
  BY <1>3 DEF HandlerReturn, procVars, histVars, Calm, Exists, Live
<1> QED BY <1>1, <1>2, <1>3 DEF Handler

-----------------------------------------------------------------------------
(* Steps of the shell.                                                     *)

\* A command that starts or ends without a pipeline of its own in hand keeps
\* the third layer, provided the terminal goes where TerminalOK says.
LEMMA EmptyHanded ==
  ASSUME FrontOK, UNCHANGED <<st, grp>>, pids' = <<>>, collected' = {},
         pc' \notin {"wait", "reclaim"}, TerminalOK'
  PROVE  FrontOK'
BY DEF FrontOK, GroupsKnown, StagesOK, CollectedOK, ForegroundStatus

\* The first step of every command keeps the third layer.
LEMMA UserCommandFront ==
  ASSUME Shape, Knowledge, FrontOK, UserCommand
  PROVE  FrontOK'
<1>1. pc = "read" /\ pids = <<>> /\ collected = {} /\ (Interactive => tty = Shell)
  BY DEF UserCommand, OtherLine, LeaveLoop, JobsBuiltin, KillOwnGroup,
         ExecutePipeline, FgStart, Bg, KillFind, KillPid, At, Knowledge, KnownOK,
         FrontOK, CollectedOK, TerminalOK
<1>2. ASSUME OtherLine \/ LeaveLoop \/ JobsBuiltin \/ KillOwnGroup
             \/ (\E p \in Pids : KillPid(p)) \/ (\E id \in Ids(table) : KillFind(id))
      PROVE  FrontOK'
  <2>1. /\ UNCHANGED <<st, grp, pids, collected, tty>>
        /\ pc' \in {"prompt", "exited", "killed", "kill"}
    BY <1>2 DEF OtherLine, LeaveLoop, JobsBuiltin, KillOwnGroup, KillPid,
                KillFind, procVars, histVars
  <2>2. TerminalOK'
    BY <1>1, <2>1 DEF TerminalOK
  <2> QED BY <1>1, <2>1, <2>2, EmptyHanded
<1>3. ASSUME NEW b \in BOOLEAN, NEW k \in 1 .. MaxStages, ExecutePipeline(b, k)
      PROVE  FrontOK'
  <2>1. UNCHANGED <<st, grp, pids, collected, tty>> /\ pc' = "fork"
    BY <1>3 DEF ExecutePipeline, procVars, histVars
  <2>2. TerminalOK'
    BY <1>1, <2>1 DEF TerminalOK
  <2> QED BY <1>1, <2>1, <2>2, EmptyHanded
<1>4. ASSUME NEW id \in Ids(table), FgStart(id) PROVE FrontOK'
  <2>1. UNCHANGED <<st, grp, pids, collected>> /\ pc' = "resume"
    BY <1>4 DEF FgStart, procVars, histVars
  <2>2. TcSetPgrp(pgid')
    BY <1>4 DEF FgStart
  <2>3. Interactive /\ Members(pgid') # {} => tty' = pgid'
    BY <2>2 DEF TcSetPgrp
  <2>4. Members(pgid)' = Members(pgid')
    BY <2>1 DEF Members, Exists, Live
  <2>5. TerminalOK'
    BY <2>1, <2>3, <2>4 DEF TerminalOK, Spawning
  <2> QED BY <1>1, <2>1, <2>5, EmptyHanded
<1>5. ASSUME NEW id \in Ids(table), Bg(id) PROVE FrontOK'
  <2>1. UNCHANGED <<pids, collected, tty, grp>> /\ pc' = "prompt"
    BY <1>5 DEF Bg, histVars
  <2>2. \A q \in Pids : st[q] # "free" => st'[q] # "free"
    <3>1. UNCHANGED st \/ \E P : Continue(P)
      BY <1>5 DEF Bg
    <3> QED BY <3>1, ContinueShape DEF Shape
  <2>3. TerminalOK'
    BY <1>1, <2>1 DEF TerminalOK
  <2> QED BY <1>1, <2>1, <2>2, <2>3
             DEF FrontOK, GroupsKnown, StagesOK, CollectedOK, ForegroundStatus,
                 Spawning
<1> QED BY <1>2, <1>3, <1>4, <1>5 DEF UserCommand

\* Each fork and each setpgid of spawn_pipeline keeps the third layer.
LEMMA SpawnFront ==
  ASSUME Shape, Knowledge, FrontOK, ParentSetpgid \/ \E p \in Pids : Fork(p)
  PROVE  FrontOK'
<1>1. ASSUME NEW p \in Pids, Fork(p) PROVE FrontOK'
  <2>1. /\ pids \in Seq(Pids) /\ pids' = Append(pids, p)
        /\ DOMAIN pids' = 1 .. Len(pids) + 1 /\ Len(pids') = Len(pids) + 1
        /\ pids'[Len(pids) + 1] = p /\ \A i \in DOMAIN pids : pids'[i] = pids[i]
    BY <1>1 DEF Fork, Shape, TypeOK
  <2>2. /\ st[p] = "free" /\ st'[p] = "forked" /\ grp[p] = Shell
        /\ \A q \in Pids \ {p} : st'[q] = st[q]
        /\ pc = "fork" /\ pc' = "setpgid"
        /\ UNCHANGED <<grp, collected, tty>>
    BY <1>1 DEF Fork, At, histVars, Shape, TypeOK, SpawnOK
  <2>3. \A i \in DOMAIN pids : pids[i] \in Pids /\ pids[i] # p
    BY <2>1, <2>2 DEF Knowledge, KnownOK, Spawning
  <2>4. \A i \in DOMAIN pids' : i \in DOMAIN pids \/ i = Len(pids')
    BY <2>1
  <2>5. \A i \in DOMAIN pids : Exists(pids[i]) /\ grp[pids[i]] = pids[1]
    BY <2>2 DEF FrontOK, StagesOK, Spawning
  <2>6. \A q \in Pids : q # p => Exists(q)' = Exists(q)
    BY <2>2 DEF Exists, Live
  <2>7. Exists(p)'
    BY <2>2 DEF Exists, Live
  <2>8. (\A i \in DOMAIN pids : Exists(pids[i]))'
    <3>1. \A q \in Pids : Exists(q) => Exists(q)'
      BY <2>6, <2>7
    <3>2. \A i \in DOMAIN pids' : pids'[i] \in Pids /\ (pids'[i] = p \/ Exists(pids'[i]))
      BY <2>1, <2>3, <2>4, <2>5
    <3> QED BY <2>7, <3>1, <3>2 DEF Exists, Live
  <2>9. \A i \in DOMAIN pids' : grp'[pids'[i]] = pids'[1] \/ i = Len(pids')
    <3>1. pids # <<>> => pids'[1] = pids[1]
      BY <2>1
    <3> QED BY <2>1, <2>2, <2>4, <2>5, <3>1
  <2>10. \A q \in Pids : Exists(q)' /\ grp'[q] = pids'[1] => q \in Range(pids')
    <3>1. p \in Range(pids') /\ Range(pids) \subseteq Range(pids')
      BY <2>1 DEF Range
    <3>2. CASE pids = <<>>
      <4>1. pids'[1] = p
        BY <2>1, <3>2
      <4>2. \A q \in Pids : grp'[q] # p
        BY <2>2 DEF FrontOK, GroupsKnown
      <4> QED BY <4>1, <4>2
    <3>3. CASE pids # <<>>
      <4>1. pids'[1] = pids[1]
        BY <2>1, <3>3
      <4>2. Members(pids[1]) \subseteq Range(pids)
        BY <2>2, <3>3 DEF FrontOK, StagesOK, Spawning
      <4> QED BY <2>2, <2>6, <3>1, <4>1, <4>2 DEF Members
    <3> QED BY <3>2, <3>3
  <2>11. StagesOK'
    BY <2>2, <2>8, <2>9, <2>10 DEF StagesOK, Members
  <2>12. GroupsKnown'
    BY <2>2 DEF FrontOK, GroupsKnown
  <2> QED BY <2>2, <2>11, <2>12
             DEF FrontOK, TerminalOK, CollectedOK, ForegroundStatus, Spawning
<1>2. ASSUME ParentSetpgid PROVE FrontOK'
  <2> DEFINE p == pids[Len(pids)]
  <2>1. /\ pids \in Seq(Pids) /\ pids # <<>> /\ pids[1] \in Pids /\ p \in Pids
        /\ 1 \in DOMAIN pids /\ Len(pids) \in DOMAIN pids
    BY <1>2 DEF ParentSetpgid, At, Shape, SpawnOK, TypeOK
  <2>2. /\ grp'[p] = pids[1] /\ \A q \in Pids \ {p} : grp'[q] = grp[q]
        /\ pc = "setpgid" /\ pc' \in {"fork", "add", "give"}
        /\ UNCHANGED <<st, pids, collected, tty>>
    BY <1>2, <2>1 DEF ParentSetpgid, At, histVars, Shape, TypeOK
  <2>3. \A i \in DOMAIN pids : pids[i] \in Pids /\ pids[i] \in Range(pids)
    BY <2>1 DEF Range
  <2>4. p \in Range(pids) /\ \A i \in DOMAIN pids : i = Len(pids) => pids[i] = p
    BY <2>1, <2>3
  <2> HIDE DEF p
  <2>5. \A i \in DOMAIN pids : Exists(pids[i])'
    BY <2>2, <2>3 DEF FrontOK, StagesOK, Spawning, Exists, Live
  <2>6. \A i \in DOMAIN pids : grp'[pids[i]] = pids[1]
    <3>1. SUFFICES ASSUME NEW i \in DOMAIN pids, pids[i] # p
                   PROVE  grp[pids[i]] = pids[1]
      BY <2>2, <2>3
    <3> QED BY <2>2, <2>4, <3>1 DEF FrontOK, StagesOK, Spawning
  <2>7. \A q \in Pids : Exists(q)' /\ grp'[q] = pids[1] => q \in Range(pids)
    BY <2>1, <2>2, <2>4 DEF FrontOK, StagesOK, Spawning, Members, Exists, Live
  <2>8. StagesOK'
    BY <2>2, <2>5, <2>6, <2>7 DEF StagesOK, Members
  <2>9. GroupsKnown'
    <3>1. st[pids[1]] # "free"
      BY <2>1, <2>2 DEF Knowledge, KnownOK, Spawning
    <3> QED BY <2>2, <3>1 DEF FrontOK, GroupsKnown
  <2> QED BY <2>2, <2>8, <2>9
             DEF FrontOK, TerminalOK, CollectedOK, ForegroundStatus, Spawning
<1> QED BY <1>1, <1>2

\* The foreground wait keeps the third layer: it collects a stage, gives up at
\* a stop of a process that stays a member, or ends with no member left.
LEMMA WaitFront ==
  ASSUME Shape, Knowledge, FrontOK,
         WaitNoChild \/ \E p \in Pids : WaitExited(p) \/ WaitStopped(p)
  PROVE  FrontOK'
<1>1. /\ pc = "wait" /\ (pids # <<>> => pgid = pids[1])
      /\ pgid \in Pids /\ pgid # Shell
      /\ \A i \in DOMAIN pids : pids[i] \in Pids
      /\ UNCHANGED <<pids, pgid, tty>>
  BY ControlAssumption
     DEF WaitNoChild, WaitExited, WaitStopped, At, histVars, Knowledge, WaitOK,
         Shape, ResumeOK, TypeOK
<1>2. ASSUME NEW p \in Pids, WaitExited(p) PROVE FrontOK'
  <2> DEFINE code == StatusToCode(ws[p])
  <2>1. /\ pc' = "wait" /\ p \in Members(pgid) /\ result' = code
        /\ collected' = collected \cup {<<p, code>>}
    BY <1>1, <1>2 DEF WaitExited
  <2>2. \A q \in Pids :
          IF q = p THEN st'[q] = "reaped" /\ grp'[q] = Shell
                   ELSE st'[q] = st[q] /\ grp'[q] = grp[q]
    BY <1>2, ReapShape DEF WaitExited, Shape
  <2> HIDE DEF code
  <2>3. \A q \in Pids : q # p => Exists(q)' = Exists(q)
    BY <2>2 DEF Exists, Live
  <2>4. ~Exists(p)'
    BY <2>2 DEF Exists, Live
  <2>5. Members(pgid)' \subseteq Members(pgid)
    BY <1>1, <2>2, <2>3, <2>4 DEF Members
  <2>6. GroupsKnown'
    BY <2>2, ControlAssumption DEF FrontOK, GroupsKnown
  <2>7. StagesOK'
    <3>1. \A i \in DOMAIN pids : Exists(pids[i])' => grp'[pids[i]] = pids[1]
      BY <1>1, <2>2, <2>3, <2>4 DEF FrontOK, StagesOK
    <3>2. pids # <<>> => Members(pids[1])' \subseteq Range(pids)
      BY <1>1, <2>5 DEF FrontOK, StagesOK
    <3> QED BY <1>1, <2>1, <3>1, <3>2 DEF StagesOK, Spawning
  <2>8. TerminalOK'
    BY <1>1, <2>1, <2>5 DEF FrontOK, TerminalOK, Spawning
  <2>9. CollectedOK'
    <3> DEFINE t == <<p, code>>
    <3>1. Gone' = Gone \cup {p}
      <4>1. t[1] = p /\ collected' = collected \cup {t}
        BY <2>1
      <4> HIDE DEF t
      <4> QED BY <4>1 DEF Gone
    <3>2. <<p, code>> \in collected' /\ <<p, code>>[2] = result'
      BY <2>1
    <3>3. pids # <<>> => p \in Range(pids)
      BY <1>1, <2>1 DEF FrontOK, StagesOK
    <3>4. ForegroundStatus'
      BY <2>1 DEF ForegroundStatus
    <3>5. pids # <<>> => /\ Gone' \subseteq Range(pids)
                         /\ \A i \in DOMAIN pids : Exists(pids[i])' \/ pids[i] \in Gone'
      BY <1>1, <2>3, <3>1, <3>3 DEF FrontOK, CollectedOK
    <3> QED BY <1>1, <2>1, <3>2, <3>4, <3>5 DEF CollectedOK
  <2> QED BY <2>6, <2>7, <2>8, <2>9 DEF FrontOK
<1>3. ASSUME NEW p \in Pids, WaitStopped(p) PROVE FrontOK'
  <2>1. /\ pc' = "reclaim" /\ p \in Members(pgid)
        /\ UNCHANGED <<st, grp, collected>>
    BY <1>3 DEF WaitStopped
  <2>2. p \in Members(pgid)'
    BY <1>1, <2>1 DEF Members, Exists, Live
  <2> QED BY <1>1, <2>1, <2>2
             DEF FrontOK, GroupsKnown, StagesOK, TerminalOK, CollectedOK,
                 ForegroundStatus, Spawning
<1>4. ASSUME WaitNoChild PROVE FrontOK'
  <2>1. /\ pc' = "reclaim" /\ Members(pgid) = {}
        /\ UNCHANGED <<st, grp, collected, result>>
    BY <1>4 DEF WaitNoChild, procVars, histVars
  <2>2. ASSUME pids # <<>>
        PROVE  Gone = Range(pids) /\ \E c \in collected : c[2] = result
    <3>1. \A i \in DOMAIN pids : ~Exists(pids[i])
      BY <1>1, <2>1, <2>2 DEF FrontOK, StagesOK, Members
    <3>2. \A i \in DOMAIN pids : pids[i] \in Gone
      BY <1>1, <2>2, <3>1 DEF FrontOK, CollectedOK
    <3>3. Gone = Range(pids)
      BY <1>1, <2>2, <3>2 DEF FrontOK, CollectedOK, Range
    <3>4. 1 \in DOMAIN pids
      BY <2>2 DEF Shape, TypeOK
    <3>5. collected # {}
      BY <3>2, <3>4 DEF Gone
    <3> QED BY <1>1, <3>3, <3>5 DEF FrontOK, CollectedOK
  <2>3. ForegroundStatus'
    BY <1>1, <2>1, <2>2 DEF ForegroundStatus, Gone
  <2> QED BY <1>1, <2>1, <2>3
             DEF FrontOK, GroupsKnown, StagesOK, TerminalOK, CollectedOK, Spawning
<1> QED BY <1>2, <1>3, <1>4

\* Every later step of the shell keeps the third layer.
LEMMA ShellStepFront ==
  ASSUME Shape, Knowledge, FrontOK, ShellStep
  PROVE  FrontOK'
<1>1. ASSUME PromptNotify PROVE FrontOK'
  <2>1. /\ UNCHANGED <<st, grp, pids, collected, tty>> /\ pids = <<>>
        /\ pc = "prompt" /\ pc' = "read" /\ collected = {}
    BY <1>1 DEF PromptNotify, At, procVars, Knowledge, KnownOK, FrontOK, CollectedOK
  <2>2. TerminalOK'
    BY <2>1 DEF FrontOK, TerminalOK
  <2> QED BY <2>1, <2>2, EmptyHanded
<1>2. ASSUME SpawnFails \/ AddJob \/ KillSend PROVE FrontOK'
  <2>1. /\ UNCHANGED <<st, grp, tty>> /\ Return
        /\ pc \in {"fork", "add", "kill"}
    BY <1>2 DEF SpawnFails, AddJob, KillSend, At, procVars
  <2>2. TerminalOK'
    BY <2>1 DEF Return, FrontOK, TerminalOK, Spawning
  <2> QED BY <2>1, <2>2, EmptyHanded DEF Return
<1>3. ASSUME Reclaim PROVE FrontOK'
  <2>1. UNCHANGED <<st, grp>> /\ Return /\ (Interactive => tty' = Shell)
    BY <1>3 DEF Reclaim, TcSetPgrp, procVars
  <2>2. TerminalOK'
    BY <2>1 DEF Return, TerminalOK
  <2> QED BY <2>1, <2>2, EmptyHanded DEF Return
<1>4. ASSUME GiveTerminal PROVE FrontOK'
  <2>1. /\ UNCHANGED <<st, grp, pids, collected>> /\ TcSetPgrp(pids[1])
        /\ pc = "give" /\ pc' = "wait" /\ pgid' = pids[1]
    BY <1>4 DEF GiveTerminal, At, procVars, histVars
  <2>2. Members(pgid)' = Members(pids[1])
    BY <2>1 DEF Members, Exists, Live
  <2>3. TerminalOK'
    BY <2>1, <2>2 DEF TcSetPgrp, TerminalOK, Spawning
  <2>4. collected = {} /\ \A i \in DOMAIN pids : Exists(pids[i])
    BY <2>1 DEF FrontOK, CollectedOK, StagesOK, Spawning
  <2>5. \A i \in DOMAIN pids : Exists(pids[i])' = Exists(pids[i])
    BY <2>1 DEF Exists, Live
  <2>6. CollectedOK'
    BY <2>1, <2>4, <2>5 DEF CollectedOK, Gone, ForegroundStatus
  <2>7. StagesOK'
    BY <2>1 DEF FrontOK, StagesOK, Spawning, Members, Exists, Live
  <2> QED BY <2>1, <2>3, <2>6, <2>7 DEF FrontOK, GroupsKnown
<1>5. ASSUME FgResume PROVE FrontOK'
  <2>1. /\ UNCHANGED <<grp, pids, pgid, collected, tty>> /\ pids = <<>>
        /\ pc = "resume" /\ pc' = "wait" /\ collected = {}
    BY <1>5 DEF FgResume, At, histVars, Knowledge, KnownOK, FrontOK, CollectedOK
  <2>2. \A q \in Pids : (st[q] # "free" => st'[q] # "free") /\ (Exists(q)' => Exists(q))
    <3>1. UNCHANGED st \/ \E P : Continue(P)
      BY <1>5 DEF FgResume
    <3> QED BY <3>1, ContinueShape DEF Shape, Exists, Live
  <2>3. TerminalOK'
    BY <2>1, <2>2 DEF FrontOK, TerminalOK, Members, Spawning
  <2> QED BY <2>1, <2>2, <2>3
             DEF FrontOK, GroupsKnown, StagesOK, CollectedOK, ForegroundStatus,
                 Spawning
<1> QED BY <1>1, <1>2, <1>3, <1>4, <1>5, SpawnFront, WaitFront DEF ShellStep

-----------------------------------------------------------------------------
(* The theorems.                                                           *)

\* The invariant of the third layer.
THEOREM FrontInvariant == Spec => []FrontOK
<1>1. Init => FrontOK
  BY ControlAssumption
     DEF Init, FrontOK, GroupsKnown, StagesOK, TerminalOK, CollectedOK,
         ForegroundStatus, Spawning
<1>2. Shape /\ Knowledge /\ FrontOK /\ [Next]_vars => FrontOK'
  <2> SUFFICES ASSUME Shape, Knowledge, FrontOK, [Next]_vars PROVE FrontOK'
    OBVIOUS
  <2>1. CASE UNCHANGED vars
    BY <2>1, CalmSignal, CalmStep DEF vars, procVars
  <2>2. CASE Next
    BY <2>1, <2>2, UserCommandFront, ShellStepFront, HandlerCalm, ProgramsCalm,
       UserCalm, CalmStep
       DEF Next, Terminated
  <2> QED BY <2>1, <2>2
<1> QED BY <1>1, <1>2, Invariant, PTL DEF Spec, IInv

\* spawn_pipeline leaves every stage that still exists in the group of the
\* first, whichever of parent and child called setpgid first.
THEOREM GroupsFormed == Spec => []GroupFormed
<1>1. FrontOK => GroupFormed
  BY DEF FrontOK, StagesOK, GroupFormed, Spawning
<1> QED BY <1>1, FrontInvariant, PTL

\* The terminal is the shell's at every prompt, and the foreground group's as
\* long as the shell waits for a member of it.
THEOREM TerminalOwned == Spec => []TerminalOwner
<1>1. FrontOK => TerminalOwner
  BY DEF FrontOK, TerminalOK, TerminalOwner
<1> QED BY <1>1, FrontInvariant, PTL

\* A foreground pipeline that finished was collected by its own wait, stage by
\* stage, and returns the status of one of them.
THEOREM StatusIsAStages == Spec => []ForegroundStatus
<1>1. FrontOK => ForegroundStatus
  BY DEF FrontOK, CollectedOK
<1> QED BY <1>1, FrontInvariant, PTL

\* A signal that is sent is the only one that can be new.
LEMMA SentAlone ==
  ASSUME NEW s, NEW P, Send(s, P), NEW p \in Pids
  PROVE  pend'[p] \ pend[p] \subseteq {s}
BY DEF Send

\* The job that fg resumes owns the terminal before any of its members can be
\* woken, so none is stopped for reading it.
THEOREM ResumedReads == Spec => ResumedMayRead
<1> DEFINE Reads == pids = <<>> /\ pc \in {"resume", "wait"} =>
                      \A p \in Pids : grp[p] = pgid => ~Refused(p)
<1>1. Shape /\ FrontOK /\ [Next]_vars => [Reads]_vars
  <2> SUFFICES ASSUME Shape, FrontOK, Next, pc \in {"resume", "wait"},
                      NEW p \in Pids, grp[p] = pgid, Refused(p)
               PROVE  FALSE
    OBVIOUS
  <2> USE DEF Refused
  <2>1. SIGTTIN \in pend'[p] /\ SIGTTIN \notin pend[p]
    OBVIOUS
  <2>2. ASSUME NEW s, NEW P, Send(s, P) PROVE s = SIGTTIN
    BY <2>1, <2>2, SentAlone
  <2>3. CASE UserCommand
    BY <2>3
       DEF UserCommand, OtherLine, LeaveLoop, JobsBuiltin, KillOwnGroup,
           ExecutePipeline, FgStart, Bg, KillFind, KillPid, At
  <2>4. ASSUME NEW P, Continue(P) PROVE FALSE
    BY <2>1, <2>4 DEF Continue
  <2>5. CASE ShellStep
    <3>1. \/ WaitNoChild \/ FgResume \/ \E q \in Pids : WaitExited(q) \/ WaitStopped(q)
      BY <2>5
         DEF ShellStep, PromptNotify, SpawnFails, ParentSetpgid, AddJob,
             GiveTerminal, Reclaim, KillSend, Fork, At
    <3>2. UNCHANGED pend \/ Continue(Members(pgid))
      BY <3>1 DEF WaitNoChild, FgResume, WaitExited, WaitStopped, procVars
    <3> QED BY <2>1, <2>4, <3>2
  <2>6. CASE Handler
    BY <2>1, <2>6 DEF Handler, HandlerEnter, HandlerReap, HandlerReturn, procVars
  <2>7. CASE Programs
    <3>1. ASSUME NEW q \in Pids, TtyRead(q) PROVE FALSE
      <4>1. p \in Members(grp[q])
        BY <2>1, <3>1 DEF TtyRead, Send
      <4>2. grp[q] = pgid /\ Members(pgid) # {}
        BY <4>1 DEF Members
      <4>3. tty = pgid
        BY <3>1, <4>2 DEF TtyRead, FrontOK, TerminalOK
      <4> QED BY <3>1, <4>2, <4>3 DEF TtyRead
    <3>2. ASSUME NEW q \in Pids, ExternalContinue(q) PROVE FALSE
      BY <2>4, <3>2 DEF ExternalContinue
    <3>3. ASSUME NEW q \in Pids, NEW status, Die(q, status) PROVE FALSE
      BY <2>1, <3>3 DEF Die, Shape, TypeOK
    <3>4. ASSUME NEW q \in Pids, ExternalKill(q) PROVE FALSE
      BY <3>3, <3>4 DEF ExternalKill
    <3>5. ASSUME NEW q \in Pids, ChildStart(q) PROVE FALSE
      BY <2>1, <3>5 DEF ChildStart
    <3>6. ASSUME NEW q \in Pids, NEW c, Exit(q, c) PROVE FALSE
      BY <3>3, <3>6 DEF Exit
    <3>7. ASSUME NEW q \in Pids, NEW s, Terminate(q, s) PROVE FALSE
      BY <3>3, <3>7 DEF Terminate
    <3>8. ASSUME NEW q \in Pids, NEW s, Stop(q, s) \/ Catch(q, s) PROVE FALSE
      BY <2>1, <3>8 DEF Stop, Catch, Shape, TypeOK
    <3> QED
      BY <2>7, <3>1, <3>2, <3>4, <3>5, <3>6, <3>7, <3>8 DEF Programs
  <2>8. CASE User
    BY <2>2, <2>8, ControlAssumption
       DEF User, Key, SIGINT, SIGTSTP, SIGTTIN
  <2>9. CASE Terminated
    BY <2>1, <2>9 DEF Terminated, vars, procVars
  <2> QED BY <2>3, <2>5, <2>6, <2>7, <2>8, <2>9 DEF Next
<1> QED BY <1>1, Invariant, FrontInvariant, PTL DEF Spec, IInv, ResumedMayRead

-----------------------------------------------------------------------------
(* Resuming a job resumes all of it.                                       *)

\* No program reads the terminal: the stops of a group come from Ctrl+Z, and
\* SIGTTIN, of which the shell learns nothing, from nowhere.
NoReads == ~(Interactive /\ TtyReads)

\* The process neither is stopped nor is about to be.
Obeys(p) == st[p] # "stopped" /\ pend[p] \cap StopSignals = {}

RunGroups == GroupsIn({"Running"})

\* A member of a Running job that is stopped, or about to be, is in the
\* foreground.  To be inductive this needs that stages under way are not, that
\* Ctrl+Z reaches the foreground group alone, and that the wait leaves a job
\* either Stopped or forgotten.
Resumed ==
  /\ \A p \in Pids : Exists(p) /\ grp[p] \in RunGroups =>
       Obeys(p) \/ (pc \in {"resume", "wait"} /\ pgid = grp[p])
  /\ pc \in Spawning => \A p \in Pids :
       Exists(p) /\ (grp[p] = Shell \/ (pids # <<>> /\ grp[p] = pids[1])) => Obeys(p)
  /\ Interactive /\ pc \in {"resume", "wait", "reclaim"} => tty \in {Shell, pgid}
  /\ pc = "reclaim" => pgid \notin RunGroups
  /\ \A p \in Pids : Exists(p) /\ grp[p] = Shell =>
       pc = "setpgid" /\ p = pids[Len(pids)] /\ st[p] \in {"forked", "zombie"}
  /\ \A p \in Pids : st[p] = "free" => pend[p] = {}

\* A step beside the shell's that stops nobody new keeps it.
LEMMA ResumedAside ==
  ASSUME Resumed, UNCHANGED <<pc, pids, pgid, table, tty>>,
         NEW p \in Pids, \A q \in Pids : q # p =>
           st'[q] = st[q] /\ pend'[q] = pend[q] /\ grp'[q] = grp[q],
         st[p] # "free", Exists(p)' => Exists(p) /\ (Obeys(p) => Obeys(p)'),
         st'[p] # "free",
         \/ grp'[p] = grp[p] /\ (grp[p] = Shell => st'[p] \in {"forked", "zombie"})
         \/ grp'[p] = Shell /\ ~Exists(p)'
         \/ pc = "setpgid" /\ grp[p] = Shell /\ grp'[p] = pids[1] /\ pids # <<>>
            /\ pids[1] # Shell
  PROVE  Resumed'
<1>1. \A q \in Pids : /\ Exists(q)' => Exists(q)
                      /\ Exists(q)' /\ Obeys(q) => Obeys(q)'
                      /\ st'[q] = "free" => st[q] = "free" /\ pend'[q] = pend[q]
  BY DEF Exists, Live, Obeys
<1>2. \A q \in Pids : Exists(q)' =>
        \/ grp'[q] = grp[q] /\ (grp[q] = Shell =>
                                 st'[q] = st[q] \/ st'[q] \in {"forked", "zombie"})
        \/ pc = "setpgid" /\ grp[q] = Shell /\ grp'[q] = pids[1] /\ pids # <<>>
           /\ pids[1] # Shell
  OBVIOUS
<1>3. RunGroups' = RunGroups
  BY DEF RunGroups, GroupsIn
<1>4. \A q \in Pids : Exists(q)' /\ grp'[q] \in RunGroups =>
        Obeys(q)' \/ (pc \in {"resume", "wait"} /\ pgid = grp'[q])
  BY <1>1, <1>2 DEF Resumed, Spawning
<1>5. pc \in Spawning => \A q \in Pids :
        Exists(q)' /\ (grp'[q] = Shell \/ (pids # <<>> /\ grp'[q] = pids[1])) => Obeys(q)'
  BY <1>1, <1>2 DEF Resumed
<1>6. \A q \in Pids : Exists(q)' /\ grp'[q] = Shell =>
        pc = "setpgid" /\ q = pids[Len(pids)] /\ st'[q] \in {"forked", "zombie"}
  BY <1>1, <1>2 DEF Resumed
<1> QED BY <1>1, <1>3, <1>4, <1>5, <1>6 DEF Resumed

\* Programs, the kernel and other sessions keep it, if nobody reads the terminal.
LEMMA ProgramsResumed ==
  ASSUME NoReads, Shape, Resumed, Programs
  PROVE  Resumed'
<1> USE DEF shellVars, Shape, TypeOK
<1>1. ASSUME NEW p \in Pids, NEW status, st[p] # "free", Exists(p), Die(p, status),
             UNCHANGED <<shellVars, grp, tty>>
      PROVE  Resumed'
  <2>1. st'[p] = "zombie" /\ pend'[p] = {}
        /\ \A q \in Pids : q # p => st'[q] = st[q] /\ pend'[q] = pend[q]
    BY <1>1 DEF Die
  <2> QED BY <1>1, <2>1, ResumedAside DEF Obeys
<1>2. ASSUME NEW p \in Pids, ChildStart(p) PROVE Resumed'
  <2>1. /\ st[p] = "forked" /\ st'[p] = "running" /\ pend' = pend
        /\ \A q \in Pids : q # p => st'[q] = st[q] /\ grp'[q] = grp[q]
        /\ UNCHANGED <<pc, pids, pgid, table, tty>>
    BY <1>2 DEF ChildStart, JoinGroup
  <2>2. Exists(p) /\ (Obeys(p) => Obeys(p)')
    BY <2>1 DEF Exists, Live, Obeys
  <2>3. CASE grp[p] = Shell
    <3>1. pc = "setpgid" /\ pids # <<>> /\ grp'[p] = pids[1] /\ pids[1] # Shell
      BY <1>2, <2>1, <2>3, ControlAssumption DEF ChildStart, JoinGroup, SpawnOK
    <3> QED BY <2>1, <2>2, <2>3, <3>1, ResumedAside
  <2>4. CASE grp[p] # Shell
    BY <1>2, <2>1, <2>2, <2>4, ResumedAside DEF ChildStart, JoinGroup
  <2> QED BY <2>3, <2>4
<1>3. ASSUME NEW p \in Pids, TtyRead(p) PROVE FALSE
  BY <1>3 DEF TtyRead, NoReads
<1>4. ASSUME NEW p \in Pids, ExternalKill(p) PROVE Resumed'
  BY <1>1, <1>4 DEF ExternalKill, Exists, Live
<1>5. ASSUME NEW p \in Pids, ExternalContinue(p) PROVE Resumed'
  <2>1. /\ st[p] = "stopped" /\ st'[p] = "running"
        /\ pend'[p] = pend[p] \ StopSignals
        /\ \A q \in Pids : q # p => st'[q] = st[q] /\ pend'[q] = pend[q]
        /\ UNCHANGED <<pc, pids, pgid, table, tty, grp>>
    BY <1>5 DEF ExternalContinue, Continue
  <2>2. Exists(p) /\ Obeys(p)' /\ grp[p] # Shell
    BY <2>1 DEF Exists, Live, Obeys, Resumed
  <2> QED BY <2>1, <2>2, ResumedAside
<1>6. ASSUME NEW p \in Pids, NEW c \in ExitCodes, Exit(p, c) PROVE Resumed'
  BY <1>1, <1>6 DEF Exit, Exists, Live
<1>7. ASSUME NEW p \in Pids, NEW s \in CatchableSignals, Terminate(p, s)
      PROVE  Resumed'
  BY <1>1, <1>7 DEF Terminate, Exists, Live
<1>8. ASSUME NEW p \in Pids, NEW s \in CatchableSignals, Stop(p, s)
      PROVE  Resumed'
  <2>1. /\ st[p] = "running" /\ st'[p] = "stopped" /\ ~Obeys(p)
        /\ \A q \in Pids : q # p => st'[q] = st[q] /\ pend'[q] = pend[q]
        /\ UNCHANGED <<pc, pids, pgid, table, tty, grp>>
    BY <1>8 DEF Stop, Obeys
  <2>2. Exists(p) /\ grp[p] # Shell
    BY <2>1 DEF Exists, Live, Resumed
  <2> QED BY <2>1, <2>2, ResumedAside
<1>9. ASSUME NEW p \in Pids, NEW s \in CatchableSignals, Catch(p, s)
      PROVE  Resumed'
  <2>1. /\ st[p] = "running" /\ pend'[p] = pend[p] \ {s}
        /\ \A q \in Pids : q # p => pend'[q] = pend[q]
        /\ UNCHANGED <<pc, pids, pgid, table, tty, grp, st>>
    BY <1>9 DEF Catch
  <2>2. Exists(p) /\ grp[p] # Shell /\ (Obeys(p) => Obeys(p)')
    BY <2>1 DEF Exists, Live, Obeys, Resumed
  <2> QED BY <2>1, <2>2, ResumedAside
<1> QED BY <1>2, <1>3, <1>4, <1>5, <1>6, <1>7, <1>8, <1>9 DEF Programs

\* Ctrl+Z stops the foreground group alone: at the prompt the terminal is the
\* shell's, whose group has no other member, and a child still in it, just
\* forked, ignores the keys.
LEMMA UserResumed ==
  ASSUME Shape, FrontOK, Resumed, User
  PROVE  Resumed'
<1>1. PICK s \in Keys : Key(s)
  BY DEF User
<1>2. /\ Alive /\ Interactive /\ Send(s, Members(tty))
      /\ UNCHANGED <<pc, pids, pgid, table, tty, st, grp>>
  BY <1>1 DEF Key, shellVars
<1>3. s # SIGTERM
  BY ControlAssumption DEF SIGINT, SIGTSTP, SIGTERM
<1>4. \A p \in Pids :
        /\ Exists(p)' = Exists(p)
        /\ pend'[p] = IF p \in Members(tty) /\ Accepts(p, s) THEN pend[p] \cup {s}
                                                             ELSE pend[p]
  BY <1>2 DEF Send, Exists, Live
<1>5. \A p \in Members(tty) : Accepts(p, s) =>
        pc \in {"resume", "wait", "reclaim"} /\ tty = pgid /\ grp[p] = tty
  <2> SUFFICES ASSUME NEW p \in Members(tty), Accepts(p, s)
               PROVE  pc \in {"resume", "wait", "reclaim"} /\ tty = pgid /\ grp[p] = tty
    OBVIOUS
  <2>1. p \in Pids /\ Exists(p) /\ grp[p] = tty
    BY DEF Members
  <2>2. st[p] \notin {"forked", "zombie"}
    BY <1>3 DEF Accepts
  <2>3. tty # Shell
    BY <2>1, <2>2 DEF Resumed
  <2>4. pc \in {"resume", "wait", "reclaim"}
    BY <1>2, <2>3 DEF FrontOK, TerminalOK, Spawning, Alive, Shape, TypeOK, PC
  <2> QED BY <1>2, <2>1, <2>3, <2>4 DEF Resumed
<1>6. \A p \in Pids : Exists(p) /\ Obeys(p) =>
        Obeys(p)' \/ (pc \in {"resume", "wait", "reclaim"} /\ pgid = grp[p])
  BY <1>2, <1>4, <1>5 DEF Obeys
<1>7. RunGroups' = RunGroups
  BY <1>2 DEF RunGroups, GroupsIn
<1>8. \A p \in Pids : Exists(p) /\ grp[p] \in RunGroups =>
        Obeys(p)' \/ (pc \in {"resume", "wait"} /\ pgid = grp[p])
  BY <1>6 DEF Resumed
<1>9. pc \in Spawning => \A p \in Pids :
        Exists(p) /\ (grp[p] = Shell \/ (pids # <<>> /\ grp[p] = pids[1])) => Obeys(p)'
  BY <1>6 DEF Resumed, Spawning
<1>10. \A p \in Pids : st[p] = "free" => pend'[p] = {}
  BY <1>4 DEF Resumed, Members, Exists, Live
<1> QED BY <1>2, <1>4, <1>7, <1>8, <1>9, <1>10 DEF Resumed

\* So does a step outside the foreground that lists no more jobs as Running
\* and stops nobody.
LEMMA ResumedElsewhere ==
  ASSUME Shape, Resumed, RunGroups' \subseteq RunGroups,
         pc \notin {"setpgid", "resume", "wait"},
         pc' \notin {"setpgid", "resume", "wait", "reclaim"},
         pc' \in Spawning => pids' = <<>>,
         \A p \in Pids :
           /\ Exists(p)' => Exists(p) /\ grp'[p] = grp[p] /\ (Obeys(p) => Obeys(p)')
           /\ st'[p] = "free" => st[p] = "free" /\ pend'[p] = pend[p]
  PROVE  Resumed'
<1>1. \A p \in Pids : Exists(p)' /\ grp'[p] \in RunGroups' => Obeys(p)'
  BY DEF Resumed
<1>2. \A p \in Pids : Exists(p)' => grp'[p] # Shell
  BY DEF Resumed
<1>3. \A p \in Pids : st'[p] = "free" => pend'[p] = {}
  BY DEF Resumed
<1> QED BY <1>1, <1>2, <1>3 DEF Resumed

\* Marking a job changes what runs by that job's group alone.
LEMMA RunGroupsMarked ==
  ASSUME Shape, UniqueJobs, NEW i \in InUse(table), NEW s \in JobState,
         table' = SetState(table, i, s), NEW g, g = table.jobs[i].pid
  PROVE  IF s = "Running" THEN RunGroups' \subseteq RunGroups \cup {g}
                          ELSE RunGroups' \subseteq RunGroups \ {g}
<1>1. /\ InUse(table)' = InUse(table)
      /\ \A k \in InUse(table) :
           /\ table'.jobs[k].pid = table.jobs[k].pid
           /\ table'.jobs[k].state = IF k = i THEN s ELSE table.jobs[k].state
  BY MarkedJob
<1> QED BY <1>1 DEF RunGroups, GroupsIn, UniqueJobs

\* The handler keeps it: it lists a job as Done, outside the critical sections.
LEMMA HandlerResumed ==
  ASSUME Shape, Knowledge, Resumed, Handler
  PROVE  Resumed'
<1>1. pc \notin Critical /\ pc' = pc /\ pids' = pids
  BY DEF Handler, HandlerEnter, HandlerReap, HandlerReturn, Shape, MaskOK
<1>2. ASSUME NEW p \in Pids, HandlerReap(p) PROVE Resumed'
  <2>1. RunGroups' \subseteq RunGroups
    <3>1. table' = JobsMarkDone(table, p) /\ table \in JobsTable /\ "Done" \in JobState
      BY <1>2 DEF HandlerReap, Shape, TypeOK, JobState
    <3>2. CASE table' = table
      BY <3>2 DEF RunGroups, GroupsIn
    <3>3. CASE table' # table
      <4>1. PICK i \in InUse(table) : table' = SetState(table, i, "Done")
        BY <3>1, <3>3, MarkDone
      <4> QED BY <3>1, <4>1, RunGroupsMarked DEF Knowledge
    <3> QED BY <3>2, <3>3
  <2>2. \A q \in Pids :
          IF q = p THEN st'[q] = "reaped" ELSE st'[q] = st[q] /\ grp'[q] = grp[q]
    BY <1>2, ReapShape DEF HandlerReap, Shape
  <2>3. pend' = pend
    BY <1>2 DEF HandlerReap
  <2> QED BY <1>1, <2>1, <2>2, <2>3, ResumedElsewhere
             DEF Critical, Spawning, Exists, Live, Obeys
<1>3. ASSUME HandlerEnter \/ HandlerReturn PROVE Resumed'
  <2>1. UNCHANGED <<table, st, grp, pend>>
    BY <1>3 DEF HandlerEnter, HandlerReturn, procVars
  <2>2. RunGroups' = RunGroups
    BY <2>1 DEF RunGroups, GroupsIn
  <2> QED BY <1>1, <2>1, <2>2, ResumedElsewhere
             DEF Critical, Spawning, Exists, Live, Obeys
<1> QED BY <1>2, <1>3 DEF Handler

\* SIGCONT to a group frees all its members of pending and effective stops,
\* and stops nobody.
LEMMA ContinueObeys ==
  ASSUME Shape, NEW P, Continue(P)
  PROVE  \A p \in Pids : /\ Exists(p)' = Exists(p)
                         /\ st'[p] = "free" <=> st[p] = "free"
                         /\ p \in P \/ Obeys(p) => Obeys(p)'
                         /\ pend[p] = {} => pend'[p] = {}
<1>1. \A p \in Pids : st'[p] = IF p \in P /\ st[p] = "stopped" THEN "running" ELSE st[p]
  BY ContinueShape DEF Shape
<1>2. \A p \in Pids : pend'[p] = IF p \in P THEN pend[p] \ StopSignals ELSE pend[p]
  BY DEF Continue
<1> QED BY <1>1, <1>2 DEF Exists, Live, Obeys

\* SIGTERM stops nobody.
LEMMA TermObeys ==
  ASSUME NEW P, Send(SIGTERM, P), UNCHANGED st
  PROVE  \A p \in Pids : /\ Exists(p)' = Exists(p)
                         /\ Obeys(p) => Obeys(p)'
                         /\ st[p] = "free" => pend'[p] = pend[p]
<1>1. \A p \in Pids : pend'[p] = IF p \in P /\ Accepts(p, SIGTERM)
                                   THEN pend[p] \cup {SIGTERM} ELSE pend[p]
  BY DEF Send
<1>2. SIGTERM \notin StopSignals
  BY DEF StopSignals, SIGTERM, SIGTSTP, SIGTTIN
<1> QED BY <1>1, <1>2 DEF Exists, Live, Obeys, Accepts

\* The first step of every command keeps it; bg resumes the whole group.
LEMMA UserCommandResumed ==
  ASSUME Shape, Knowledge, FrontOK, Resumed, UserCommand
  PROVE  Resumed'
<1>1. pc = "read" /\ pids = <<>> /\ (Interactive => tty = Shell)
  BY DEF UserCommand, OtherLine, LeaveLoop, JobsBuiltin, KillOwnGroup,
         ExecutePipeline, FgStart, Bg, KillFind, KillPid, At, Knowledge, KnownOK,
         FrontOK, TerminalOK
<1>2. ASSUME \/ OtherLine \/ LeaveLoop
             \/ \E b \in BOOLEAN, k \in 1 .. MaxStages : ExecutePipeline(b, k)
             \/ \E id \in Ids(table) : KillFind(id)
      PROVE  Resumed'
  <2>1. /\ UNCHANGED <<table, st, grp, pend, pids>>
        /\ pc' \in {"prompt", "exited", "fork", "kill"}
    BY <1>2 DEF OtherLine, LeaveLoop, ExecutePipeline, KillFind, procVars
  <2>2. RunGroups' = RunGroups
    BY <2>1 DEF RunGroups, GroupsIn
  <2> QED BY <1>1, <2>1, <2>2, ResumedElsewhere DEF Exists, Live, Obeys
<1>3. ASSUME KillOwnGroup \/ \E p \in Pids : KillPid(p) PROVE Resumed'
  <2>1. /\ UNCHANGED <<table, st, grp, pids>> /\ pc' \in {"prompt", "killed"}
        /\ \E P : Send(SIGTERM, P)
    BY <1>3 DEF KillOwnGroup, KillPid
  <2>2. RunGroups' = RunGroups
    BY <2>1 DEF RunGroups, GroupsIn
  <2> QED BY <1>1, <2>1, <2>2, TermObeys, ResumedElsewhere DEF Spawning
<1>4. ASSUME JobsBuiltin PROVE Resumed'
  <2>1. /\ table' = JobsClearDone(table) /\ table \in JobsTable
        /\ UNCHANGED <<st, grp, pend, pids>> /\ pc' = "prompt"
    BY <1>4 DEF JobsBuiltin, procVars, Shape, TypeOK
  <2>2. RunGroups' \subseteq RunGroups
    BY <2>1, ClearDoneTable DEF Shrunk, RunGroups, GroupsIn
  <2> QED BY <1>1, <2>1, <2>2, ResumedElsewhere DEF Spawning, Exists, Live, Obeys
<1>5. ASSUME NEW id \in Ids(table), FgStart(id) PROVE Resumed'
  <2>1. /\ UNCHANGED <<table, st, grp, pend, pids>> /\ pc' = "resume"
        /\ TcSetPgrp(pgid')
    BY <1>5 DEF FgStart, procVars
  <2>2. RunGroups' = RunGroups
    BY <2>1 DEF RunGroups, GroupsIn
  <2>3. Interactive => tty' \in {Shell, pgid'}
    BY <1>1, <2>1 DEF TcSetPgrp
  <2>4. \A p \in Pids : Exists(p)' = Exists(p) /\ Obeys(p)' = Obeys(p)
    BY <2>1 DEF Exists, Live, Obeys
  <2> QED BY <1>1, <2>1, <2>2, <2>3, <2>4 DEF Resumed, Spawning
<1>6. ASSUME NEW id \in Ids(table), Bg(id) PROVE Resumed'
  <2> DEFINE i == JobsFindById(table, id)
             g == table.jobs[i].pid
  <2>1. i \in InUse(table)
    BY <1>6, FindById DEF Bg, Shape, TypeOK
  <2>2. UNCHANGED <<grp, pids>> /\ pc' = "prompt" /\ "Running" \in JobState
    BY <1>6 DEF Bg, JobState
  <2>3. CASE table.jobs[i].state = "Stopped"
    <3>1. table' = SetState(table, i, "Running") /\ Continue(Members(g))
      BY <1>6, <2>3 DEF Bg
    <3> HIDE DEF i
    <3>2. RunGroups' \subseteq RunGroups \cup {g}
      BY <2>1, <2>2, <3>1, RunGroupsMarked DEF Knowledge
    <3> HIDE DEF g
    <3>3. \A p \in Pids : Exists(p)' /\ grp'[p] \in RunGroups' => Obeys(p)'
      BY <1>1, <2>2, <3>1, <3>2, ContinueObeys DEF Members, Resumed
    <3>4. \A p \in Pids : /\ Exists(p)' => grp'[p] # Shell
                          /\ st'[p] = "free" => pend'[p] = {}
      BY <1>1, <2>2, <3>1, ContinueObeys DEF Resumed
    <3> QED BY <2>2, <3>3, <3>4 DEF Resumed, Spawning
  <2>4. CASE table.jobs[i].state # "Stopped"
    <3>1. UNCHANGED <<table, st, pend>>
      BY <1>6, <2>4 DEF Bg
    <3>2. RunGroups' = RunGroups
      BY <3>1 DEF RunGroups, GroupsIn
    <3> QED BY <1>1, <2>2, <3>1, <3>2, ResumedElsewhere
               DEF Spawning, Exists, Live, Obeys
  <2> QED BY <2>3, <2>4
<1> QED BY <1>2, <1>3, <1>4, <1>5, <1>6 DEF UserCommand

\* Starting a pipeline keeps it: its stages, which ignore the keys until they
\* are in their group, run when the job is entered or waited for.
LEMMA SpawnResumed ==
  ASSUME Shape, Knowledge, FrontOK, Resumed,
         ParentSetpgid \/ AddJob \/ GiveTerminal \/ \E p \in Pids : Fork(p)
  PROVE  Resumed'
<1>1. /\ pids \in Seq(Pids) /\ pc \in Spawning
      /\ pids # <<>> => 1 \in DOMAIN pids /\ pids[1] \in Pids /\ pids[1] # Shell
      /\ pc # "fork" => pids # <<>>
  BY ControlAssumption
     DEF ParentSetpgid, AddJob, GiveTerminal, Fork, At, Spawning, Shape, TypeOK,
         SpawnOK
<1>2. \A p \in Pids : Exists(p) =>
        /\ grp[p] \in RunGroups => Obeys(p)
        /\ grp[p] = Shell \/ (pids # <<>> /\ grp[p] = pids[1]) => Obeys(p)
  BY <1>1 DEF Resumed, Spawning
<1>3. ASSUME NEW p \in Pids, Fork(p) PROVE Resumed'
  <2>1. /\ pc = "fork" /\ pc' = "setpgid" /\ UNCHANGED <<table, grp, pend>>
        /\ st[p] = "free" /\ st'[p] = "forked" /\ grp[p] = Shell /\ pend[p] = {}
        /\ \A q \in Pids \ {p} : st'[q] = st[q]
    BY <1>3 DEF Fork, At, Shape, TypeOK, SpawnOK, Resumed
  <2>2. /\ pids' = Append(pids, p) /\ pids'[Len(pids')] = p
        /\ pids'[1] = IF pids = <<>> THEN p ELSE pids[1]
    BY <1>1, <1>3 DEF Fork
  <2>3. Obeys(p)' /\ \A q \in Pids \ {p} : Exists(q)' = Exists(q) /\ Obeys(q)' = Obeys(q)
    BY <2>1 DEF Obeys, Exists, Live
  <2>4. RunGroups' = RunGroups
    BY <2>1 DEF RunGroups, GroupsIn
  <2>5. \A q \in Pids : grp[q] # p
    BY <2>1 DEF FrontOK, GroupsKnown
  <2>6. \A q \in Pids : Exists(q)' /\ grp'[q] \in RunGroups' => Obeys(q)'
    BY <1>2, <2>1, <2>3, <2>4
  <2>7. \A q \in Pids : Exists(q)' /\ (grp'[q] = Shell \/ grp'[q] = pids'[1]) => Obeys(q)'
    BY <1>2, <2>1, <2>2, <2>3, <2>5
  <2>8. \A q \in Pids : Exists(q)' /\ grp'[q] = Shell => q = p
    BY <2>1, <2>3 DEF Resumed
  <2>9. \A q \in Pids : st'[q] = "free" => pend'[q] = {}
    BY <2>1 DEF Resumed
  <2> QED BY <2>1, <2>2, <2>6, <2>7, <2>8, <2>9 DEF Resumed
<1>4. ASSUME ParentSetpgid PROVE Resumed'
  <2> DEFINE p == pids[Len(pids)]
  <2>1. pc = "setpgid" /\ p \in Pids /\ grp[p] \in {Shell, pids[1]}
    BY <1>1, <1>4 DEF ParentSetpgid, At, Shape, SpawnOK
  <2>2. /\ grp'[p] = pids[1] /\ \A q \in Pids \ {p} : grp'[q] = grp[q]
        /\ UNCHANGED <<table, st, pend, pids>> /\ pc' \in {"fork", "add", "give"}
    BY <1>4, <2>1 DEF ParentSetpgid, Shape, TypeOK
  <2>3. Exists(p) => Obeys(p)
    BY <1>1, <1>2, <2>1
  <2>4. \A q \in Pids : Exists(q) /\ q # p => grp[q] # Shell
    BY DEF Resumed
  <2> HIDE DEF p
  <2>5. RunGroups' = RunGroups
    BY <2>2 DEF RunGroups, GroupsIn
  <2>6. \A q \in Pids : Exists(q)' = Exists(q) /\ Obeys(q)' = Obeys(q)
    BY <2>2 DEF Exists, Live, Obeys
  <2>7. \A q \in Pids : Exists(q)' =>
          /\ grp'[q] \in RunGroups' => Obeys(q)'
          /\ pids' # <<>> /\ grp'[q] = pids'[1] => Obeys(q)'
          /\ grp'[q] # Shell
    BY <1>1, <1>2, <2>1, <2>2, <2>3, <2>4, <2>5, <2>6
  <2> QED BY <2>2, <2>7 DEF Resumed
<1>5. ASSUME AddJob PROVE Resumed'
  <2>1. /\ table' = JobsAdd(table, pids[1], "Running") /\ Return /\ pc = "add"
        /\ UNCHANGED <<st, grp, pend>>
    BY <1>5 DEF AddJob, At, procVars
  <2>2. RunGroups' \subseteq RunGroups \cup {pids[1]}
    <3>1. CASE FreeSlots(table) = {}
      BY <2>1, <3>1, AddFull DEF RunGroups, GroupsIn
    <3>2. CASE FreeSlots(table) # {}
      <4>1. \A k \in InUse(table) : table.jobs[k].pid # pids[1]
        BY <1>1, <2>1 DEF Knowledge, KnownOK
      <4>2. \A k \in InUse(table)' :
              \/ table'.jobs[k].pid = pids[1]
              \/ k \in InUse(table) /\ table'.jobs[k] = table.jobs[k]
        BY <1>1, <2>1, <3>2, <4>1, AddedJob DEF Knowledge
      <4> QED BY <4>2 DEF RunGroups, GroupsIn
    <3> QED BY <3>1, <3>2
  <2>3. \A p \in Pids : Exists(p)' = Exists(p) /\ Obeys(p)' = Obeys(p)
    BY <2>1 DEF Exists, Live, Obeys
  <2>4. \A p \in Pids : /\ Exists(p)' /\ grp'[p] \in RunGroups' => Obeys(p)'
                        /\ Exists(p)' => grp'[p] # Shell
    BY <1>1, <1>2, <2>1, <2>2, <2>3 DEF Resumed
  <2> QED BY <2>1, <2>4 DEF Return, Resumed, Spawning
<1>6. ASSUME GiveTerminal PROVE Resumed'
  <2>1. /\ pc = "give" /\ pc' = "wait" /\ pgid' = pids[1] /\ TcSetPgrp(pids[1])
        /\ UNCHANGED <<table, st, grp, pend, pids>>
    BY <1>6 DEF GiveTerminal, At, procVars
  <2>2. Interactive => tty' \in {Shell, pgid'}
    BY <1>1, <2>1 DEF TcSetPgrp, FrontOK, TerminalOK
  <2>3. RunGroups' = RunGroups
    BY <2>1 DEF RunGroups, GroupsIn
  <2>4. \A p \in Pids : Exists(p)' = Exists(p) /\ Obeys(p)' = Obeys(p)
    BY <2>1 DEF Exists, Live, Obeys
  <2> QED BY <1>2, <2>1, <2>2, <2>3, <2>4 DEF Resumed, Spawning
<1> QED BY <1>3, <1>4, <1>5, <1>6

\* fg and the foreground wait keep it: fg resumes the whole group, a wait that
\* ends at a stop leaves the job Stopped, and one that ends without children
\* leaves no job of that group.
LEMMA WaitResumed ==
  ASSUME Shape, Knowledge, Resumed,
         FgResume \/ WaitNoChild \/ \E p \in Pids : WaitExited(p) \/ WaitStopped(p)
  PROVE  Resumed'
<1>1. /\ pc \in {"resume", "wait"} /\ pgid \in Pids /\ table \in JobsTable
      /\ UNCHANGED <<pids, pgid, tty>>
  BY DEF FgResume, WaitNoChild, WaitExited, WaitStopped, At, Shape, TypeOK,
         ResumeOK, histVars
<1>2. ASSUME NEW p \in Pids, WaitExited(p) PROVE Resumed'
  <2>1. /\ UNCHANGED <<pc, pids, pgid, table, tty, pend>>
        /\ st[p] = "zombie" /\ Exists(p)
    BY <1>2 DEF WaitExited, Exists
  <2>2. /\ st'[p] = "reaped" /\ grp'[p] = Shell
        /\ \A q \in Pids : q # p => st'[q] = st[q] /\ grp'[q] = grp[q]
    BY <1>2, ReapShape DEF WaitExited, Shape
  <2>3. ~Exists(p)'
    BY <2>2 DEF Exists, Live
  <2> QED BY <2>1, <2>2, <2>3, ResumedAside
<1>3. ASSUME FgResume PROVE Resumed'
  <2> DEFINE i == JobsFindByPid(table, pgid)
  <2>1. /\ pc = "resume" /\ pc' = "wait" /\ UNCHANGED grp /\ "Running" \in JobState
        /\ i \in InUse(table) /\ table.jobs[i].pid = pgid
    BY <1>1, <1>3, FindByPid DEF FgResume, At, Shape, ResumeOK, JobState
  <2>2. RunGroups' \subseteq RunGroups \cup {pgid}
    <3>1. table' = table \/ table' = SetState(table, i, "Running")
      BY <1>3 DEF FgResume
    <3> HIDE DEF i
    <3>2. CASE table' = table
      BY <3>2 DEF RunGroups, GroupsIn
    <3> QED BY <2>1, <3>1, <3>2, RunGroupsMarked DEF Knowledge
  <2>3. \A p \in Pids : /\ Exists(p)' = Exists(p)
                        /\ Obeys(p) => Obeys(p)'
                        /\ st'[p] = "free" => pend'[p] = {}
    <3>1. UNCHANGED <<st, pend>> \/ \E P : Continue(P)
      BY <1>3 DEF FgResume
    <3>2. CASE UNCHANGED <<st, pend>>
      BY <3>2 DEF Exists, Live, Obeys, Resumed
    <3> QED BY <3>1, <3>2, ContinueObeys DEF Resumed
  <2>4. \A p \in Pids : Exists(p)' /\ grp'[p] \in RunGroups' => Obeys(p)' \/ pgid = grp'[p]
    BY <2>1, <2>2, <2>3 DEF Resumed
  <2> QED BY <1>1, <2>1, <2>3, <2>4 DEF Resumed, Spawning
<1>4. ASSUME pc = "wait", pc' = "reclaim", UNCHANGED <<st, grp, pend>>,
             RunGroups' \subseteq RunGroups \ {pgid}
      PROVE  Resumed'
  <2>1. \A p \in Pids : Exists(p)' = Exists(p) /\ Obeys(p)' = Obeys(p)
    BY <1>4 DEF Exists, Live, Obeys
  <2> QED BY <1>1, <1>4, <2>1 DEF Resumed, Spawning
<1>5. ASSUME NEW p \in Pids, WaitStopped(p) PROVE Resumed'
  <2>1. /\ pc = "wait" /\ pc' = "reclaim" /\ UNCHANGED <<st, grp, pend>>
        /\ "Stopped" \in JobState
    BY <1>5 DEF WaitStopped, At, JobState
  <2>2. CASE SlotsOfPid(table, pgid) # {}
    <3> DEFINE i == JobsFindByPid(table, pgid)
    <3>1. i \in InUse(table) /\ table.jobs[i].pid = pgid
      BY <1>1, <2>2, FindByPid
    <3>2. table' = SetState(table, i, "Stopped")
      BY <1>5, <2>2 DEF WaitStopped
    <3> HIDE DEF i
    <3>3. RunGroups' \subseteq RunGroups \ {pgid}
      BY <2>1, <3>1, <3>2, RunGroupsMarked DEF Knowledge
    <3> QED BY <1>4, <2>1, <3>3
  <2>3. CASE SlotsOfPid(table, pgid) = {}
    <3>1. \A k \in InUse(table) : table.jobs[k].pid # pgid
      BY <2>3 DEF SlotsOfPid
    <3>2. table' = JobsAdd(table, pgid, "Stopped")
      BY <1>5, <2>3 DEF WaitStopped
    <3>3. RunGroups' \subseteq RunGroups \ {pgid}
      <4>1. CASE FreeSlots(table) = {}
        BY <3>1, <3>2, <4>1, AddFull DEF RunGroups, GroupsIn
      <4>2. CASE FreeSlots(table) # {}
        <5>1. /\ \A k \in InUse(table)' :
                   \/ table'.jobs[k].pid = pgid
                   \/ k \in InUse(table) /\ table'.jobs[k] = table.jobs[k]
              /\ UniqueJobs' /\ pgid \in Suspended'
          BY <1>1, <2>1, <3>1, <3>2, <4>2, AddedJob DEF Knowledge
        <5>2. pgid \notin RunGroups'
          BY <5>1 DEF UniqueJobs, Suspended, RunGroups, GroupsIn
        <5> QED BY <5>1, <5>2 DEF RunGroups, GroupsIn
      <4> QED BY <4>1, <4>2
    <3> QED BY <1>4, <2>1, <3>3
  <2> QED BY <2>2, <2>3
<1>6. ASSUME WaitNoChild PROVE Resumed'
  <2>1. /\ pc = "wait" /\ pc' = "reclaim" /\ UNCHANGED <<st, grp, pend>>
        /\ table' = JobsRemoveByPid(table, pgid)
    BY <1>6 DEF WaitNoChild, At, procVars
  <2>2. Shrunk(table, table') /\ SlotsOfPid(table', pgid) = {}
    BY <1>1, <2>1, RemoveTable DEF Knowledge, UniqueJobs
  <2>3. RunGroups' \subseteq RunGroups \ {pgid}
    BY <2>2 DEF Shrunk, SlotsOfPid, RunGroups, GroupsIn
  <2> QED BY <1>4, <2>1, <2>3
<1> QED BY <1>2, <1>3, <1>5, <1>6

\* Every later step of the shell keeps it.
LEMMA ShellStepResumed ==
  ASSUME Shape, Knowledge, FrontOK, Resumed, ShellStep
  PROVE  Resumed'
<1>1. ASSUME PromptNotify PROVE Resumed'
  <2>1. /\ table' = JobsClearDone(table) /\ table \in JobsTable
        /\ UNCHANGED <<st, grp, pend>> /\ pc = "prompt" /\ pc' = "read"
    BY <1>1 DEF PromptNotify, At, procVars, Shape, TypeOK
  <2>2. RunGroups' \subseteq RunGroups
    BY <2>1, ClearDoneTable DEF Shrunk, RunGroups, GroupsIn
  <2> QED BY <2>1, <2>2, ResumedElsewhere DEF Spawning, Exists, Live, Obeys
<1>2. ASSUME SpawnFails \/ Reclaim PROVE Resumed'
  <2>1. /\ UNCHANGED <<table, st, grp, pend>>
        /\ pc \in {"fork", "reclaim"} /\ pc' = "prompt"
    BY <1>2 DEF SpawnFails, Reclaim, At, Return, procVars
  <2>2. RunGroups' = RunGroups
    BY <2>1 DEF RunGroups, GroupsIn
  <2> QED BY <2>1, <2>2, ResumedElsewhere DEF Spawning, Exists, Live, Obeys
<1>3. ASSUME KillSend PROVE Resumed'
  <2>1. /\ UNCHANGED <<table, st, grp>> /\ pc = "kill" /\ pc' = "prompt"
        /\ Send(SIGTERM, Members(pgid))
    BY <1>3 DEF KillSend, At, Return
  <2>2. RunGroups' = RunGroups
    BY <2>1 DEF RunGroups, GroupsIn
  <2> QED BY <2>1, <2>2, TermObeys, ResumedElsewhere DEF Spawning
<1> QED BY <1>1, <1>2, <1>3, SpawnResumed, WaitResumed DEF ShellStep

\* Where no program reads the terminal, a job listed as Running has no stopped
\* member, unless it is in the foreground: fg and bg resume the whole group,
\* whichever of its members the wait knew to be stopped, and Ctrl+Z reaches no
\* job behind the shell's back.
THEOREM ResumedRuns == NoReads => (Spec => []RunningJobRuns)
<1> SUFFICES ASSUME NoReads PROVE Spec => []RunningJobRuns
  OBVIOUS
<1>1. Init => Resumed
  BY DEF Init, Resumed, Exists, Live, Spawning
<1>2. IInv /\ FrontOK /\ Resumed /\ [Next]_vars => Resumed'
  <2> SUFFICES ASSUME Shape, Knowledge, FrontOK, Resumed, [Next]_vars PROVE Resumed'
    BY DEF IInv
  <2>1. CASE UNCHANGED vars
    BY <2>1 DEF vars, shellVars, procVars, Resumed, Exists, Live, Obeys, RunGroups,
                GroupsIn
  <2> QED BY <2>1, UserCommandResumed, ShellStepResumed, HandlerResumed,
             ProgramsResumed, UserResumed
             DEF Next, Terminated
<1>3. Resumed => RunningJobRuns
  BY DEF Resumed, RunningJobRuns, RunGroups, Obeys, Exists, Live, Foreground
<1> QED BY <1>1, <1>2, <1>3, Invariant, FrontInvariant, PTL DEF Spec
=============================================================================

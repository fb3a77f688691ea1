----------------------------- MODULE ReplProofs -----------------------------
(***************************************************************************)
(* What is proved of the main loop, for every input and every capacity:    *)
(* the history it keeps is the log BoundedLog specifies, it frees what it  *)
(* allocates and closes what it opens before it reads the next line, every *)
(* variable keeps its type, the line is parsed as the grammar says, the    *)
(* expansion keeps the order of the words, and a pipeline's stages leave   *)
(* the shell's own state alone.                                            *)
(***************************************************************************)
EXTENDS ReplProperties, LineTheorems

-----------------------------------------------------------------------------
(* The ring of History.tla is a log that forgets its oldest entry, for     *)
(* every HISTORY_CAPACITY.                                                 *)

\* A ring whose cursor and counters agree.
RingOK(h) ==
  /\ h.entries = [s \in Slots |-> h.entries[s]]
  /\ h.size \in 0 .. HISTORY_CAPACITY
  /\ h.next \in Slots
  /\ h.total \in Nat /\ h.size <= h.total

\* What BoundedLog does to a log that has become too long.
LastEntries(s) == IF Len(s) <= HISTORY_CAPACITY THEN s ELSE Tail(s)

-----------------------------------------------------------------------------
\* The cursor wraps at most once.
LEMMA Wrap ==
  ASSUME NEW a \in Nat, a < 2 * HISTORY_CAPACITY
  PROVE  a % HISTORY_CAPACITY =
           IF a < HISTORY_CAPACITY THEN a ELSE a - HISTORY_CAPACITY
BY HistoryAssumption

\* The k-th remembered line is in the slot that is size + 1 - k behind the
\* cursor.
SlotOf(next, size, k) ==
  IF next - size + k - 1 < 0 THEN next - size + k - 1 + HISTORY_CAPACITY
                             ELSE next - size + k - 1

\* The slot history_print takes for the k-th line is the one SlotOf says.
LEMMA PrintedSlot ==
  ASSUME NEW h, RingOK(h), NEW k \in 1 .. h.size
  PROVE  (Oldest(h) + k - 1) % HISTORY_CAPACITY = SlotOf(h.next, h.size, k)
<1> USE HistoryAssumption DEF RingOK, Slots
<1>1. Oldest(h) = IF h.next - h.size < 0 THEN h.next - h.size + HISTORY_CAPACITY
                                         ELSE h.next - h.size
  <2> DEFINE a == h.next - h.size + HISTORY_CAPACITY
  <2>1. a \in Nat /\ a < 2 * HISTORY_CAPACITY
    OBVIOUS
  <2>2. Oldest(h) = a % HISTORY_CAPACITY
    BY DEF Oldest
  <2>3. Oldest(h) = IF a < HISTORY_CAPACITY THEN a ELSE a - HISTORY_CAPACITY
    BY <2>1, <2>2, Wrap
  <2> QED BY <2>3
<1>2. Oldest(h) + k - 1 \in Nat /\ Oldest(h) + k - 1 < 2 * HISTORY_CAPACITY
  BY <1>1
<1> QED BY <1>1, <1>2, Wrap DEF SlotOf

\* The cursor moves to the next slot, or back to the first.
LEMMA NextWraps ==
  ASSUME NEW h, RingOK(h)
  PROVE  NextSlot(h) = IF h.next + 1 < HISTORY_CAPACITY THEN h.next + 1 ELSE 0
<1> DEFINE a == h.next + 1
<1>1. a \in Nat /\ a <= HISTORY_CAPACITY /\ a < 2 * HISTORY_CAPACITY
  BY HistoryAssumption DEF RingOK, Slots
<1> HIDE DEF a
<1>2. a % HISTORY_CAPACITY = IF a < HISTORY_CAPACITY THEN a ELSE a - HISTORY_CAPACITY
  BY <1>1, Wrap
<1>3. a % HISTORY_CAPACITY = IF a < HISTORY_CAPACITY THEN a ELSE 0
  BY <1>1, <1>2, HistoryAssumption
<1> QED BY <1>3 DEF NextSlot, a

\* Storing a line keeps the ring a ring.
LEMMA StoreRing ==
  ASSUME NEW h, RingOK(h), NEW l
  PROVE  RingOK(HistoryStore(h, l))
<1> USE HistoryAssumption DEF RingOK, Slots, HistoryStore
<1>1. NextSlot(h) \in Slots
  <2>1. NextSlot(h) = IF h.next + 1 < HISTORY_CAPACITY THEN h.next + 1 ELSE 0
    BY NextWraps
  <2> QED BY <2>1
<1> DEFINE new == HistoryStore(h, l)
<1>2. new.entries = [s \in Slots |-> new.entries[s]]
  <2>1. new.entries = [h.entries EXCEPT ![h.next] = l]
    OBVIOUS
  <2> QED BY <2>1
<1>3. new.size \in 0 .. HISTORY_CAPACITY /\ new.total \in Nat /\ new.size <= new.total
  OBVIOUS
<1>4. new.next = NextSlot(h)
  OBVIOUS
<1> HIDE DEF HistoryStore
<1> QED BY <1>1, <1>2, <1>3, <1>4

\* After a store the cursor's old slot is that of the last line, and the
\* lines that are still remembered are in other slots, where they were.
LEMMA StoredSlots ==
  ASSUME NEW next \in Slots, NEW size \in 0 .. HISTORY_CAPACITY,
         NEW next2 \in Int, NEW size2 \in Int,
         next2 = IF next + 1 < HISTORY_CAPACITY THEN next + 1 ELSE 0,
         size2 = IF size < HISTORY_CAPACITY THEN size + 1 ELSE size
  PROVE  /\ SlotOf(next2, size2, size2) = next
         /\ \A k \in 1 .. size2 - 1 :
              /\ SlotOf(next2, size2, k) = SlotOf(next, size, k + size + 1 - size2)
              /\ SlotOf(next2, size2, k) \in Slots \ {next}
<1> USE HistoryAssumption DEF Slots, SlotOf
<1>1. CASE size < HISTORY_CAPACITY
  BY <1>1
<1>2. CASE size = HISTORY_CAPACITY
  BY <1>2
<1> QED BY <1>1, <1>2

\* What history_print lists after a line was stored is what it listed before
\* with the line at the end, without the oldest if there are too many.
THEOREM StoreAppends ==
  ASSUME NEW h, RingOK(h), NEW l
  PROVE  HistoryPrint(HistoryStore(h, l)) =
           LastEntries(Append(HistoryPrint(h), <<h.total + 1, l>>))
<1> DEFINE new == HistoryStore(h, l)
           old == HistoryPrint(h)
           entry == <<h.total + 1, l>>
           shift == h.size + 1 - new.size
<1> USE HistoryAssumption DEF RingOK, Slots
<1>1. RingOK(new)
  BY StoreRing
<1>2. /\ new.size = IF h.size < HISTORY_CAPACITY THEN h.size + 1 ELSE h.size
      /\ new.total = h.total + 1
      /\ new.next = IF h.next + 1 < HISTORY_CAPACITY THEN h.next + 1 ELSE 0
      /\ \A s \in Slots : new.entries[s] = IF s = h.next THEN l ELSE h.entries[s]
  <2>1. NextSlot(h) = IF h.next + 1 < HISTORY_CAPACITY THEN h.next + 1 ELSE 0
    BY NextWraps
  <2> QED BY <2>1 DEF HistoryStore
<1>3. /\ SlotOf(new.next, new.size, new.size) = h.next
      /\ \A k \in 1 .. new.size - 1 :
           /\ SlotOf(new.next, new.size, k) = SlotOf(h.next, h.size, k + h.size + 1 - new.size)
           /\ SlotOf(new.next, new.size, k) \in Slots \ {h.next}
  <2> HIDE DEF new
  <2>1. new.next \in Int /\ new.size \in Int
    BY <1>2
  <2> QED BY <1>2, <2>1, StoredSlots
<1> HIDE DEF new
<1>4. HistoryPrint(new) = [k \in 1 .. new.size |->
                             IF k = new.size THEN entry ELSE old[k + shift]]
  <2>1. ASSUME NEW k \in 1 .. new.size
        PROVE  /\ HistoryPrint(new)[k] =
                    <<new.total - new.size + k, new.entries[SlotOf(new.next, new.size, k)]>>
    BY <1>1, PrintedSlot DEF HistoryPrint
  <2>2. ASSUME NEW k \in 1 .. h.size
        PROVE  old[k] = <<h.total - h.size + k, h.entries[SlotOf(h.next, h.size, k)]>>
    BY PrintedSlot DEF HistoryPrint
  <2>3. HistoryPrint(new)[new.size] = entry
    <3>1. new.size \in 1 .. new.size /\ new.total - new.size + new.size = h.total + 1
      BY <1>2
    <3>2. new.entries[h.next] = l
      BY <1>2
    <3>3. HistoryPrint(new)[new.size] = <<new.total - new.size + new.size,
                                          new.entries[SlotOf(new.next, new.size, new.size)]>>
      BY <2>1, <3>1
    <3> QED BY <1>3, <3>1, <3>2, <3>3
  <2>4. ASSUME NEW k \in 1 .. new.size - 1
        PROVE  HistoryPrint(new)[k] = old[k + shift]
    <3>1. /\ SlotOf(new.next, new.size, k) = SlotOf(h.next, h.size, k + shift)
          /\ SlotOf(new.next, new.size, k) \in Slots \ {h.next}
      <4>1. k + h.size + 1 - new.size = k + shift
        BY <1>2
      <4> QED BY <1>3, <4>1
    <3>2. k + shift \in 1 .. h.size /\ k \in 1 .. new.size
      BY <1>2
    <3>3. h.total - h.size + (k + shift) = new.total - new.size + k
      <4>1. /\ new.size \in Int /\ new.total = h.total + 1
            /\ h.size \in Int /\ h.total \in Int /\ k \in Int
        BY <1>2
      <4> HIDE DEF RingOK
      <4> QED BY <4>1
    <3>4. new.entries[SlotOf(new.next, new.size, k)] = h.entries[SlotOf(h.next, h.size, k + shift)]
      BY <1>2, <3>1
    <3>5. old[k + shift] = <<h.total - h.size + (k + shift), h.entries[SlotOf(h.next, h.size, k + shift)]>>
      BY <2>2, <3>2
    <3> QED BY <2>1, <3>2, <3>3, <3>4, <3>5
  <2>5. \A k \in 1 .. new.size : k = new.size \/ k \in 1 .. new.size - 1
    BY <1>2
  <2>6. HistoryPrint(new) = [k \in 1 .. new.size |-> HistoryPrint(new)[k]]
    BY DEF HistoryPrint
  <2> QED BY <2>3, <2>4, <2>5, <2>6
<1> HIDE DEF entry
<1> DEFINE S == {old[k] : k \in 1 .. h.size} \cup {entry}
<1>5. old \in Seq(S) /\ Len(old) = h.size
  <2>1. old = [k \in 1 .. h.size |-> old[k]]
    BY DEF HistoryPrint
  <2> HIDE DEF old
  <2>2. old \in [1 .. h.size -> S] /\ h.size \in Nat
    BY <2>1
  <2>3. old \in Seq(S)
    BY <2>2, SeqDef
  <2> QED BY <2>2, <2>3, LenProperties
<1> HIDE DEF old
<1>6. Append(old, entry) = [k \in 1 .. h.size + 1 |->
                              IF k = h.size + 1 THEN entry ELSE old[k]]
  BY <1>5
<1>7. Len(Append(old, entry)) = h.size + 1
  BY <1>6
<1>8. HistoryPrint(new) = LastEntries(Append(old, entry))
  <2>1. CASE h.size < HISTORY_CAPACITY
    <3>1. new.size = h.size + 1 /\ shift = 0
      BY <1>2, <2>1
    <3> HIDE DEF shift
    <3>2. HistoryPrint(new) = Append(old, entry)
      BY <1>4, <1>6, <3>1
    <3> QED BY <1>7, <2>1, <3>2 DEF LastEntries
  <2>2. CASE h.size = HISTORY_CAPACITY
    <3>1. new.size = h.size /\ shift = 1
      BY <1>2, <2>2
    <3> HIDE DEF shift
    <3>2. HistoryPrint(new) = Tail(Append(old, entry))
      BY <1>4, <1>6, <1>7, <3>1 
    <3> QED BY <1>7, <2>2, <3>2 DEF LastEntries
  <2> QED BY <2>1, <2>2
<1> QED BY <1>8 DEF new, old, entry

-----------------------------------------------------------------------------
(* The input and the body of the loop                                      *)

\* The lines stdio has read ahead are lines of the input.
InputOK ==
  /\ script \in Scripts /\ kind \in Kinds
  /\ offset \in 0 .. Len(script)
  /\ buf \in Seq(1 .. Len(script))
  /\ \A k \in KidIds : kids[k].unread \in Nat
  /\ DOMAIN kids = KidIds

\* Where in the body of the loop the pipeline owns strings and descriptors.
LoopOK ==
  /\ pc \in {"prompt", "exited"} => doc = <<>>
  /\ pc \in {"prompt", "heredoc", "expand", "exited"} => heap = {}
  /\ pc \in {"execute", "wait"} => heap = Pointers(commands)
  /\ wild = {}

-----------------------------------------------------------------------------
\* Every script is a sequence of lines, and the line numbers of the input
\* name its lines.
LEMMA ScriptLines ==
  ASSUME InputOK
  PROVE  /\ Len(script) \in Nat /\ DOMAIN script = 1 .. Len(script)
         /\ \A k \in 1 .. Len(script) : script[k] \in Lines /\ script[k] \in Seq(STRING)
<1> DEFINE Q == Seq(STRING)
<1>1. script \in Seq(Q)
  BY ReplAssumption DEF InputOK
<1> HIDE DEF Q
<1>2. Len(script) \in Nat /\ DOMAIN script = 1 .. Len(script)
  BY <1>1
<1>3. \A k \in 1 .. Len(script) : script[k] \in Range(script) /\ script[k] \in Q
  BY <1>1, <1>2 DEF Range
<1> QED BY <1>2, <1>3 DEF Lines, InputOK, Q

\* A line leaves the buffer.
LEMMA TakeInput ==
  ASSUME InputOK, NEW b \in BOOLEAN, Take(b), UNCHANGED <<script, kind, offset, kids>>
  PROVE  InputOK'
<1>1. buf' = Tail(buf) /\ buf # <<>>
  BY DEF Take
<1>2. buf' \in Seq(1 .. Len(script))
  BY <1>1 DEF InputOK
<1> QED BY <1>2 DEF InputOK

\* A pipeline that is started keeps the number of lines that were read ahead.
LEMMA StartInput ==
  ASSUME InputOK, NEW k \in KidIds, NEW fate, Start(k, fate),
         UNCHANGED <<script, kind, offset, buf>>
  PROVE  InputOK'
<1>1. Len(buf) \in Nat
  BY DEF InputOK
<1> QED BY <1>1 DEF InputOK, Start

\* Whatever the shell and the programs do with the input, the shell reads
\* lines of it.
LEMMA InputStep ==
  ASSUME InputOK, Next
  PROVE  InputOK'
<1> USE ScriptLines DEF inputVars, children
<1>1. CASE Refill
  <2>1. PICK n \in 1 .. Len(script) - offset :
          buf' = [k \in 1 .. n |-> offset + k] /\ offset' = offset + n
    <3> DEFINE left == Min({Len(script) - offset, BlockLines})
               counts == CASE kind = "terminal" -> {1}
                           [] kind = "pipe"     -> 1 .. left
                           [] kind = "file"     -> {left}
    <3>1. Len(script) - offset \in Nat \ {0} /\ BlockLines \in Nat \ {0}
      BY <1>1, ReplAssumption DEF Refill, InputOK
    <3>2. left \in Nat \ {0} /\ left <= Len(script) - offset
      BY <3>1, MinOfTwo
    <3>3. \E n \in counts : buf' = [k \in 1 .. n |-> offset + k] /\ offset' = offset + n
      BY <1>1 DEF Refill
    <3> HIDE DEF left
    <3>4. kind \in {"terminal", "pipe", "file"}
      BY ReplAssumption DEF InputOK
    <3>5. counts \subseteq 1 .. Len(script) - offset
      BY <3>1, <3>2, <3>4
    <3> QED BY <3>3, <3>5
  <2>2. buf' \in [1 .. n -> 1 .. Len(script)] /\ n \in Nat
    BY <2>1 DEF InputOK
  <2>3. buf' \in Seq(1 .. Len(script))
    BY <2>2, SeqDef
  <2> QED BY <1>1, <2>1, <2>3 DEF Refill, InputOK
<1>2. ASSUME NEW strdup, TakeCommand(strdup) PROVE InputOK'
  BY <1>2, TakeInput DEF TakeCommand
<1>3. CASE HeredocLine \/ HeredocWriteFails
  BY <1>3, TakeInput DEF HeredocLine, HeredocWriteFails, session
<1>4. CASE \/ EndOfInput \/ OpenHeredoc \/ HeredocAtEnd \/ HeredocsCollected
           \/ ExpandPipeline \/ Crash
  BY <1>4 DEF EndOfInput, OpenHeredoc, HeredocAtEnd, HeredocsCollected,
              ExpandPipeline, Crash, InputOK
<1>5. CASE OpenHeredocFails \/ RunBuiltin \/ WaitDone
  BY <1>5 DEF OpenHeredocFails, RunBuiltin, WaitDone, EndOfBody, InputOK
<1>6. CASE SpawnFails
  <2>1. UNCHANGED <<script, kind, offset, buf>>
    BY <1>6 DEF SpawnFails, EndOfBody
  <2>2. CASE UNCHANGED kids
    BY <2>1, <2>2 DEF InputOK
  <2>3. CASE \E k \in KidIds, fate \in AllFates : Start(k, fate)
    BY <2>1, <2>3, StartInput
  <2> QED BY <1>6, <2>2, <2>3 DEF SpawnFails
<1>7. ASSUME NEW k \in KidIds, NEW fate \in AllFates,
             ExecuteBackground(k, fate) \/ ExecuteForeground(k, fate)
      PROVE  InputOK'
  BY <1>7, StartInput DEF ExecuteBackground, ExecuteForeground, EndOfBody
<1>8. ASSUME NEW k \in KidIds, KidReads(k) PROVE InputOK'
  <2>1. offset' \in 0 .. Len(script)
    <3> DEFINE upto == offset + (IF Interactive THEN 1 ELSE BlockLines)
    <3>1. Len(script) \in Nat /\ upto \in Nat /\ offset \in Nat
      BY ReplAssumption DEF InputOK
    <3>2. offset' \in offset + 1 .. Min({Len(script), upto})
      BY <1>8 DEF KidReads
    <3> HIDE DEF upto
    <3>3. Min({Len(script), upto}) \in Nat /\ Min({Len(script), upto}) <= Len(script)
      BY <3>1, MinOfTwo
    <3> QED BY <3>1, <3>2, <3>3
  <2> QED BY <1>8, <2>1 DEF KidReads, InputOK
<1>9. ASSUME NEW k \in KidIds, KidStep(k) PROVE InputOK'
  <2>1. kids' = [kids EXCEPT ![k] = NoKid] /\ UNCHANGED <<script, kind, buf>>
    BY <1>9 DEF KidStep, KidEnds, KidExits
  <2>2. offset' \in 0 .. Len(script)
    BY <1>9 DEF KidStep, KidEnds, KidExits, InputOK
  <2> QED BY <2>1, <2>2 DEF InputOK, NoKid
<1>10. CASE Terminated
  BY <1>10 DEF Terminated, vars, InputOK
<1> QED BY <1>1, <1>2, <1>3, <1>4, <1>5, <1>6, <1>7, <1>8, <1>9, <1>10
        DEF Next, ShellStep

-----------------------------------------------------------------------------
\* All that can happen to the history: the line of a command is stored, or
\* the session ends.
LEMMA HistoryStep ==
  ASSUME InputOK, [Next]_vars
  PROVE  \/ UNCHANGED history
         \/ \E l \in Lines : history' = HistoryStore(history, l)
         \/ history' = HistoryInit
<1> USE DEF session
<1>1. ASSUME NEW strdup, TakeCommand(strdup)
      PROVE  \/ UNCHANGED history
             \/ \E l \in Lines : history' = HistoryStore(history, l)
  <2>1. Head(buf) \in 1 .. Len(script)
    BY <1>1 DEF TakeCommand, Take, InputOK
  <2>2. script[Head(buf)] \in Lines
    BY <2>1, ScriptLines
  <2> QED BY <1>1, <2>2 DEF TakeCommand, HistoryAdd
<1>2. CASE EndOfInput
  BY <1>2 DEF EndOfInput
<1>3. CASE \/ Refill \/ OpenHeredoc \/ HeredocLine \/ HeredocAtEnd
           \/ HeredocsCollected \/ HeredocWriteFails \/ ExpandPipeline \/ Crash
  BY <1>3 DEF Refill, OpenHeredoc, HeredocLine, HeredocAtEnd,
              HeredocsCollected, HeredocWriteFails, ExpandPipeline, Crash
<1>4. ASSUME NEW ran, EndOfBody(ran)
      PROVE  UNCHANGED history \/ history' = HistoryInit
  BY <1>4 DEF EndOfBody
<1>5. CASE OpenHeredocFails \/ RunBuiltin \/ SpawnFails \/ WaitDone
  BY <1>4, <1>5 DEF OpenHeredocFails, RunBuiltin, SpawnFails, WaitDone
<1>6. ASSUME NEW k \in KidIds, NEW fate \in AllFates,
             ExecuteBackground(k, fate) \/ ExecuteForeground(k, fate)
      PROVE  UNCHANGED history \/ history' = HistoryInit
  BY <1>4, <1>6 DEF ExecuteBackground, ExecuteForeground
<1>7. ASSUME NEW k \in KidIds, KidReads(k) \/ KidStep(k)
      PROVE  UNCHANGED history
  BY <1>7 DEF KidReads, KidStep, KidEnds, KidExits
<1>8. CASE Terminated \/ UNCHANGED vars
  BY <1>8 DEF Terminated, vars
<1> QED BY <1>1, <1>2, <1>3, <1>5, <1>6, <1>7, <1>8 DEF Next, ShellStep

\* The empty ring is a ring, and an empty log.
LEMMA EmptyRing == RingOK(HistoryInit) /\ HistoryPrint(HistoryInit) = <<>>
BY HistoryAssumption DEF RingOK, HistoryInit, Slots, HistoryPrint

\* The history is a ring of lines throughout.
THEOREM RingInvariant == Spec => [](InputOK /\ RingOK(history))
<1>1. Init => InputOK /\ RingOK(history)
  <2> SUFFICES ASSUME Init PROVE InputOK /\ RingOK(history)
    OBVIOUS
  <2>1. script \in Scripts /\ Len(script) \in Nat
    <3> DEFINE Q == Seq(STRING)
    <3>1. script \in Seq(Q)
      BY ReplAssumption DEF Init
    <3> HIDE DEF Q
    <3> QED BY <3>1 DEF Init
  <2>2. InputOK
    BY <2>1, EmptySeq DEF Init, InputOK, NoKid
  <2> QED BY <2>2, EmptyRing DEF Init
<1>2. ASSUME InputOK, RingOK(history), [Next]_vars
      PROVE  InputOK' /\ RingOK(history)'
  <2>1. InputOK'
    <3>1. CASE Next
      BY <1>2, <3>1, InputStep
    <3>2. CASE UNCHANGED vars
      BY <1>2, <3>2 DEF vars, inputVars, children, InputOK
    <3> QED BY <1>2, <3>1, <3>2
  <2>2. RingOK(history')
    BY <1>2, HistoryStep, StoreRing, EmptyRing
  <2> QED BY <2>1, <2>2
<1> QED BY <1>1, <1>2, PTL DEF Spec

\* The refinement: what history_print lists is the log of BoundedLog, for
\* every capacity of the ring and every session.
THEOREM HistoryIsLog == Spec => ImplementsLog
<1>1. Init => Log!Init
  BY EmptyRing DEF Init, Log!Init, HistoryInit
<1>2. ASSUME InputOK, RingOK(history), [Next]_vars
      PROVE  [Log!Next]_<<HistoryPrint(history), history.total>>
  <2>1. CASE UNCHANGED history
    BY <2>1
  <2>2. ASSUME NEW l \in Lines, history' = HistoryStore(history, l)
        PROVE  Log!Add(l)
    <3>1. history'.total = history.total + 1
      BY <2>2 DEF HistoryStore
    <3>2. HistoryPrint(history') =
            LastEntries(Append(HistoryPrint(history), <<history.total + 1, l>>))
      BY <1>2, <2>2, StoreAppends
    <3> QED BY <3>1, <3>2 DEF Log!Add, Log!LastOf, LastEntries
  <2>3. CASE history' = HistoryInit
    BY <2>3, EmptyRing DEF Log!Next, Log!Forget, HistoryInit
  <2> QED BY <1>2, <2>1, <2>2, <2>3, HistoryStep DEF Log!Next
<1> QED BY <1>1, <1>2, RingInvariant, PTL DEF Spec, ImplementsLog, Log!Spec

-----------------------------------------------------------------------------
\* The end of the loop's body leaves nothing behind, if it frees what the
\* pipeline owns when it owns anything.
LEMMA EndOfBodyLoop ==
  ASSUME LoopOK, NEW ran \in BOOLEAN, EndOfBody(ran),
         heap = IF ran THEN Pointers(commands) ELSE {}
  PROVE  LoopOK'
<1>1. heap' = {} /\ wild' = {}
  BY DEF EndOfBody, ToFree, LoopOK
<1>2. doc' = <<>> /\ pc' \in {"prompt", "exited"}
  BY DEF EndOfBody, CloseHeredocs
<1> QED BY <1>1, <1>2 DEF LoopOK

\* Every way through the body of the loop.
LEMMA LoopStep ==
  ASSUME LoopOK, [Next]_vars
  PROVE  LoopOK'
<1> USE DEF ghosts
<1>1. CASE \/ Refill \/ EndOfInput \/ OpenHeredoc \/ HeredocLine
           \/ HeredocAtEnd \/ HeredocsCollected \/ HeredocWriteFails
  BY <1>1 DEF Refill, WantsLine, EndOfInput, OpenHeredoc, HeredocLine,
              HeredocAtEnd, HeredocsCollected, HeredocWriteFails, LoopOK
<1>2. ASSUME NEW strdup, TakeCommand(strdup) PROVE LoopOK'
  BY <1>2 DEF TakeCommand, LoopOK
<1>3. CASE OpenHeredocFails
  BY <1>3, EndOfBodyLoop DEF OpenHeredocFails, LoopOK
<1>4. CASE ExpandPipeline \/ Crash
  BY <1>4 DEF ExpandPipeline, Crash, LoopOK
<1>5. CASE RunBuiltin \/ WaitDone \/ SpawnFails
  BY <1>5, EndOfBodyLoop DEF RunBuiltin, WaitDone, SpawnFails, ToExecutor, LoopOK
<1>6. ASSUME NEW k \in KidIds, NEW fate \in AllFates, ExecuteBackground(k, fate)
      PROVE  LoopOK'
  BY <1>6, EndOfBodyLoop DEF ExecuteBackground, ToExecutor, LoopOK
<1>7. ASSUME NEW k \in KidIds, NEW fate \in AllFates, ExecuteForeground(k, fate)
      PROVE  LoopOK'
  BY <1>7 DEF ExecuteForeground, ToExecutor, LoopOK
<1>8. ASSUME NEW k \in KidIds, KidReads(k) \/ KidStep(k)
      PROVE  LoopOK'
  BY <1>8 DEF KidReads, KidStep, KidEnds, KidExits, LoopOK
<1>9. CASE Terminated \/ UNCHANGED vars
  BY <1>9 DEF Terminated, vars, LoopOK
<1> QED BY <1>1, <1>2, <1>3, <1>4, <1>5, <1>6, <1>7, <1>8, <1>9
        DEF Next, ShellStep

\* What the loop holds at each of its places holds in every session.
LEMMA LoopInvariant == Spec => []LoopOK
<1>1. Init => LoopOK
  BY DEF Init, LoopOK
<1>2. LoopOK /\ [Next]_vars => LoopOK'
  BY LoopStep
<1> QED BY <1>1, <1>2, PTL DEF Spec

\* Whatever a line does and whatever fails on the way (an allocation, a
\* temporary file, a write, pipe or fork), the shell is back at its prompt
\* with every string that expansion allocated freed once.
THEOREM NothingLeft == Spec => []HeapBalanced
<1>1. LoopOK => HeapBalanced
  BY DEF LoopOK, HeapBalanced
<1> QED BY <1>1, LoopInvariant, PTL

\* Back at the prompt the shell has closed every here-document of the line,
\* those of a line that was given up midway included.
THEOREM NothingOpen == Spec => []NoDescriptorLeft
<1>1. LoopOK => NoDescriptorLeft
  BY DEF LoopOK, NoDescriptorLeft
<1> QED BY <1>1, LoopInvariant, PTL

-----------------------------------------------------------------------------
(* The state of the session and of the pipeline                            *)

\* The programs that hold the input.
ChildrenOK ==
  /\ \A k \in KidIds : kids[k].fate \in AllFates \cup {"none"}
  /\ waited \in KidIds

\* What builtins change.
SessionOK ==
  /\ history.total <= MaxTotal
  /\ last_status \in Codes /\ cwd \in DOMAIN Matches /\ should_exit \in BOOLEAN
  /\ env \in [DOMAIN Env0 -> Word]

\* From the prompt on the pipeline is that of the line; expansion leaves its
\* stages and their here-documents.
PipelineOK ==
  /\ line \in Seq(STRING)
  /\ parsed = [k \in DOMAIN script |-> ParsePipeline(script[k])]
  /\ pc \in {"prompt", "heredoc", "expand", "execute", "wait", "exited",
             "crashed"}
  /\ pc \in {"prompt", "exited"} => commands = <<>>
  /\ pc \in {"heredoc", "expand"} => commands = ParsePipeline(line)
  /\ pc \notin {"prompt", "exited"} =>
       /\ ParsePipeline(line) # None /\ ParsePipeline(line) # <<>>
       /\ DOMAIN commands = DOMAIN ParsePipeline(line)
       /\ Len(commands) = Len(ParsePipeline(line))
       /\ \A c \in DOMAIN commands :
            commands[c].delim = ParsePipeline(line)[c].delim

\* Of the here-documents: there is one place for each stage, one of them at
\* most is being read, and those that are torn belong to a stage.
DocumentsOK ==
  /\ eof \in BOOLEAN
  /\ doc \in Seq(Seq(Nat) \cup {None})
  /\ pc \notin {"prompt", "exited"} => Len(doc) = Len(commands)
  /\ reading # 0 => /\ pc = "heredoc" /\ reading \in DOMAIN commands
                    /\ doc[reading] \in Seq(Nat)
  /\ torn \subseteq DOMAIN commands

-----------------------------------------------------------------------------
\* A step is one of the shell's, or the shell's state stays as it is.
LEMMA OthersStep ==
  ASSUME [Next]_vars
  PROVE  \/ ShellStep
         \/ /\ UNCHANGED <<script, parsed, kind, faulty, pc, buf, eof, commands>>
            /\ UNCHANGED <<doc, reading, torn, heap, history, last_status, should_exit>>
            /\ UNCHANGED <<env, cwd, line, taken, highest, wild>>
<1> USE DEF inputVars, session, ghosts
<1>1. CASE \E k \in KidIds : KidReads(k)
  BY <1>1 DEF KidReads
<1>2. CASE \E k \in KidIds : KidStep(k)
  BY <1>2 DEF KidStep, KidEnds, KidExits
<1>3. CASE Terminated \/ UNCHANGED vars
  BY <1>3 DEF Terminated, vars
<1> QED BY <1>1, <1>2, <1>3 DEF Next

\* Every step leaves the children with a fate, and the wait with a child.
LEMMA ChildrenStep ==
  ASSUME InputOK, ChildrenOK, [Next]_vars
  PROVE  ChildrenOK'
<1> USE DEF children, ChildrenOK
<1>1. DOMAIN kids = KidIds
  BY DEF InputOK
<1>2. ASSUME NEW k \in KidIds, kids' = [kids EXCEPT ![k] = NoKid], UNCHANGED waited
      PROVE  ChildrenOK'
  BY <1>1, <1>2 DEF NoKid
<1>3. ASSUME NEW k \in KidIds, NEW fate \in AllFates, Start(k, fate)
      PROVE  \A j \in KidIds : kids'[j].fate \in AllFates \cup {"none"}
  BY <1>1, <1>3 DEF Start
<1>4. ASSUME NEW strdup, TakeCommand(strdup) PROVE ChildrenOK'
  BY <1>4 DEF TakeCommand
<1>5. CASE \/ Refill \/ EndOfInput \/ OpenHeredoc \/ HeredocLine
           \/ HeredocAtEnd \/ HeredocsCollected \/ HeredocWriteFails
           \/ OpenHeredocFails \/ ExpandPipeline \/ Crash \/ RunBuiltin \/ WaitDone
  BY <1>5 DEF Refill, EndOfInput, OpenHeredoc, HeredocLine, HeredocAtEnd,
              HeredocsCollected, HeredocWriteFails, OpenHeredocFails,
              ExpandPipeline, Crash, RunBuiltin, WaitDone
<1>6. CASE SpawnFails
  BY <1>3, <1>6 DEF SpawnFails
<1>7. ASSUME NEW k \in KidIds, NEW fate \in AllFates,
             ExecuteBackground(k, fate) \/ ExecuteForeground(k, fate)
      PROVE  ChildrenOK'
  BY <1>3, <1>7 DEF ExecuteBackground, ExecuteForeground
<1>8. ASSUME NEW k \in KidIds, KidReads(k) \/ KidStep(k) PROVE ChildrenOK'
  BY <1>2, <1>8 DEF KidReads, KidStep, KidEnds, KidExits
<1>9. CASE Terminated \/ UNCHANGED vars
  BY <1>9 DEF Terminated, vars
<1> QED BY <1>4, <1>5, <1>6, <1>7, <1>8, <1>9 DEF Next, ShellStep

\* What a builtin leaves is a session.
LEMMA BuiltinTypes ==
  ASSUME SessionOK, NEW cmd, Arg(cmd, 1) \in Builtins,
         NEW r \in BuiltinResults(cmd)
  PROVE  /\ r.status \in Codes /\ r.env \in [DOMAIN Env0 -> Word]
         /\ r.cwd \in DOMAIN Matches /\ r.exit \in BOOLEAN
<1> DEFINE name == Arg(cmd, 1)
           arg  == Arg(cmd, 2)
           dir  == IF arg = None THEN env["HOME"] ELSE arg
           Good(x) == /\ x.status \in Codes /\ x.env \in [DOMAIN Env0 -> Word]
                      /\ x.cwd \in DOMAIN Matches /\ x.exit \in BOOLEAN
<1> HIDE DEF name, arg
<1> USE DEF SessionOK, Codes
<1>1. CASE name = "cd"
  <2>1. \/ r = [status |-> 0, env |-> env, cwd |-> dir, exit |-> should_exit]
             /\ dir \in DOMAIN Matches
        \/ r = [status |-> 1, env |-> env, cwd |-> cwd, exit |-> should_exit]
    BY <1>1 DEF BuiltinResults, name, arg
  <2> HIDE DEF dir
  <2> QED BY <2>1
<1>2. CASE name = "exit"
  <2>1. \E s \in {last_status, 0, 1} :
          r = [status |-> s, env |-> env, cwd |-> cwd, exit |-> TRUE]
    BY <1>2 DEF BuiltinResults, name, arg
  <2> QED BY <2>1
<1>3. CASE name = "export"
  <2>1. \/ /\ r = [status |-> 0,
                   env |-> [env EXCEPT ![AssignOf[arg][1]] = AssignOf[arg][2]],
                   cwd |-> cwd, exit |-> should_exit]
           /\ arg \in DOMAIN AssignOf
        \/ r = [status |-> 1, env |-> env, cwd |-> cwd, exit |-> should_exit]
    BY <1>3 DEF BuiltinResults, name, arg
  <2>2. ASSUME arg \in DOMAIN AssignOf
        PROVE  [env EXCEPT ![AssignOf[arg][1]] = AssignOf[arg][2]] \in [DOMAIN Env0 -> Word]
    <3>1. AssignOf[arg][2] \in Word
      BY <2>2, ReplAssumption DEF Word
    <3> QED BY <3>1
  <2> QED BY <2>1, <2>2
<1>4. CASE name \in {"history", "help", "jobs"}
  <2>1. r = [status |-> 0, env |-> env, cwd |-> cwd, exit |-> should_exit]
    BY <1>4 DEF BuiltinResults, name, arg
  <2> QED BY <2>1
<1>5. CASE name \in {"fg", "bg", "kill"}
  <2>1. \E s \in {0, 1} : r = [status |-> s, env |-> env, cwd |-> cwd, exit |-> should_exit]
    BY <1>5 DEF BuiltinResults, name, arg
  <2> QED BY <2>1
<1> QED BY <1>1, <1>2, <1>3, <1>4, <1>5 DEF name, Builtins

\* Every step leaves the status, the environment and the directory typed.
LEMMA SessionStep ==
  ASSUME InputOK, RingOK(history), SessionOK, [Next]_vars
  PROVE  SessionOK'
<1> USE DEF session, SessionOK
<1>1. HistoryInit.total <= MaxTotal
  BY ReplAssumption DEF HistoryInit
<1>2. ASSUME NEW strdup, TakeCommand(strdup) PROVE SessionOK'
  <2>1. history.total \in Nat /\ history.total < MaxTotal
    BY <1>2 DEF TakeCommand, RingOK
  <2>2. history'.total \in {history.total, history.total + 1}
    BY <1>2 DEF TakeCommand, HistoryAdd, HistoryStore
  <2>3. UNCHANGED <<last_status, should_exit, env, cwd>>
    BY <1>2 DEF TakeCommand
  <2> QED BY <2>1, <2>2, <2>3, ReplAssumption
<1>3. CASE \/ Refill \/ OpenHeredoc \/ HeredocLine \/ HeredocAtEnd
           \/ HeredocsCollected \/ HeredocWriteFails \/ ExpandPipeline \/ Crash
  BY <1>3 DEF Refill, OpenHeredoc, HeredocLine, HeredocAtEnd,
              HeredocsCollected, HeredocWriteFails, ExpandPipeline, Crash
<1>4. CASE EndOfInput
  BY <1>1, <1>4 DEF EndOfInput
<1>5. ASSUME NEW ran, EndOfBody(ran) PROVE history'.total <= MaxTotal
  BY <1>1, <1>5 DEF EndOfBody
<1>6. CASE OpenHeredocFails \/ WaitDone \/ SpawnFails
  BY <1>5, <1>6 DEF OpenHeredocFails, WaitDone, SpawnFails, Codes
<1>7. CASE RunBuiltin
  <2>1. Arg(commands[1], 1) \in Builtins
    BY <1>7 DEF RunBuiltin, Standalone, Nameless, Arg
  <2>2. PICK r \in BuiltinResults(commands[1]) :
          /\ last_status' = r.status /\ env' = r.env /\ cwd' = r.cwd
          /\ should_exit' = r.exit
    BY <1>7 DEF RunBuiltin
  <2>3. history'.total <= MaxTotal
    BY <1>5, <1>7 DEF RunBuiltin
  <2> QED BY <2>1, <2>2, <2>3, BuiltinTypes
<1>8. ASSUME NEW k \in KidIds, NEW fate \in AllFates,
             ExecuteBackground(k, fate) \/ ExecuteForeground(k, fate)
      PROVE  SessionOK'
  BY <1>5, <1>8 DEF ExecuteBackground, ExecuteForeground, Codes
<1>9. CASE UNCHANGED <<history, last_status, should_exit, env, cwd>>
  BY <1>9
<1> QED BY <1>2, <1>3, <1>4, <1>6, <1>7, <1>8, <1>9, OthersStep DEF ShellStep

\* The stages that parse_pipeline finds.
LEMMA StagesOf ==
  ASSUME NEW l \in Seq(STRING), ParsePipeline(l) # None
  PROVE  /\ Len(ParsePipeline(l)) \in Nat
         /\ DOMAIN ParsePipeline(l) = 1 .. Len(ParsePipeline(l))
         /\ \A c \in DOMAIN ParsePipeline(l) : ParsePipeline(l)[c] \in Stage
<1>1. ParsePipeline(l) \in Seq(NamedStage)
  BY PipelineType
<1> QED BY <1>1 DEF NamedStage

\* The line that is taken, and what it was parsed as.
LEMMA TakenLine ==
  ASSUME InputOK, PipelineOK, NEW strdup, TakeCommand(strdup)
  PROVE  /\ Head(buf) \in 1 .. Len(script) /\ line' \in Seq(STRING)
         /\ parsed[Head(buf)] = ParsePipeline(line')
<1>1. Head(buf) \in 1 .. Len(script)
  BY DEF TakeCommand, Take, InputOK
<1>2. line' = script[Head(buf)] /\ script[Head(buf)] \in Seq(STRING)
  BY <1>1, ScriptLines DEF TakeCommand
<1> QED BY <1>1, <1>2, ScriptLines DEF PipelineOK

\* expand_pipeline leaves the stages and their here-documents.
LEMMA ExpandedStages ==
  ASSUME PipelineOK, ExpandPipeline
  PROVE  /\ DOMAIN commands' = DOMAIN commands /\ Len(commands') = Len(commands)
         /\ \A c \in DOMAIN commands : commands'[c].delim = commands[c].delim
<1>1. /\ Len(commands) \in Nat /\ DOMAIN commands = 1 .. Len(commands)
      /\ \A c \in DOMAIN commands : commands[c] \in Stage
  BY StagesOf DEF ExpandPipeline, PipelineOK
<1>2. \A c \in DOMAIN commands : \A fault : Expanded(c, fault).delim = commands[c].delim
  BY <1>1 DEF Expanded, ExpandCommand, Stage
<1> HIDE DEF Expanded
<1>3. PICK c, fault :
        commands' = [d \in DOMAIN commands |->
                       Expanded(d, IF d = c THEN fault ELSE NoFault(commands[d]))]
  BY DEF ExpandPipeline
<1> QED BY <1>1, <1>2, <1>3

\* Every step leaves the pipeline what the line was parsed as.
LEMMA PipelineStep ==
  ASSUME InputOK, PipelineOK, [Next]_vars
  PROVE  PipelineOK'
<1> USE DEF inputVars, ghosts
<1>1. ASSUME NEW strdup, TakeCommand(strdup) PROVE PipelineOK'
  <2>1. /\ line' \in Seq(STRING) /\ parsed[Head(buf)] = ParsePipeline(line')
        /\ UNCHANGED <<script, parsed>> /\ pc = "prompt"
    BY <1>1, TakenLine DEF TakeCommand
  <2>2. CASE ParsePipeline(line') \in {None, <<>>}
    BY <1>1, <2>1, <2>2 DEF TakeCommand, PipelineOK
  <2>3. CASE ParsePipeline(line') \notin {None, <<>>}
    <3>1. commands' = ParsePipeline(line') /\ pc' = "heredoc"
      BY <1>1, <2>1, <2>3 DEF TakeCommand
    <3> QED BY <2>1, <2>3, <3>1 DEF PipelineOK
  <2> QED BY <2>2, <2>3
<1>2. CASE \/ Refill \/ OpenHeredoc \/ HeredocLine \/ HeredocAtEnd
           \/ HeredocsCollected \/ HeredocWriteFails
  BY <1>2 DEF Refill, OpenHeredoc, HeredocLine, HeredocAtEnd,
              HeredocsCollected, HeredocWriteFails, PipelineOK
<1>3. CASE EndOfInput
  BY <1>3 DEF EndOfInput, PipelineOK
<1>4. ASSUME NEW ran, EndOfBody(ran) PROVE PipelineOK'
  BY <1>4 DEF EndOfBody, PipelineOK
<1>5. CASE OpenHeredocFails \/ RunBuiltin \/ SpawnFails \/ WaitDone
  BY <1>4, <1>5 DEF OpenHeredocFails, RunBuiltin, SpawnFails, WaitDone
<1>6. CASE ExpandPipeline
  <2>1. UNCHANGED <<script, parsed, line>> /\ pc = "expand" /\ pc' = "execute"
    BY <1>6 DEF ExpandPipeline
  <2> QED BY <1>6, <2>1, ExpandedStages DEF PipelineOK
<1>7. CASE Crash
  BY <1>7 DEF Crash, PipelineOK
<1>8. ASSUME NEW k \in KidIds, NEW fate \in AllFates, ExecuteBackground(k, fate)
      PROVE  PipelineOK'
  BY <1>4, <1>8 DEF ExecuteBackground
<1>9. ASSUME NEW k \in KidIds, NEW fate \in AllFates, ExecuteForeground(k, fate)
      PROVE  PipelineOK'
  BY <1>9 DEF ExecuteForeground, ToExecutor, PipelineOK
<1>10. CASE UNCHANGED <<script, parsed, pc, commands, line>>
  BY <1>10 DEF PipelineOK
<1> QED BY <1>1, <1>2, <1>3, <1>5, <1>6, <1>7, <1>8, <1>9, <1>10, OthersStep
        DEF ShellStep

\* Every step leaves a place per stage, and one document at most being read.
LEMMA DocumentsStep ==
  ASSUME InputOK, LoopOK, PipelineOK, DocumentsOK, [Next]_vars
  PROVE  DocumentsOK'
<1> DEFINE Document == Seq(Nat) \cup {None}
<1> USE DEF DocumentsOK
<1>1. \A k \in 1 .. Len(buf) : buf[k] \in Nat
  BY ScriptLines DEF InputOK
<1>2. ASSUME NEW strdup, TakeCommand(strdup) PROVE DocumentsOK'
  <2>1. /\ line' \in Seq(STRING) /\ parsed[Head(buf)] = ParsePipeline(line')
        /\ UNCHANGED <<eof, reading>> /\ pc = "prompt" /\ reading = 0
    BY <1>2, TakenLine DEF TakeCommand
  <2>2. CASE ParsePipeline(line') \in {None, <<>>}
    BY <1>2, <2>1, <2>2 DEF TakeCommand
  <2>3. torn' = {}
    BY <1>2, <2>1 DEF TakeCommand, PipelineOK
  <2>4. CASE ParsePipeline(line') \notin {None, <<>>}
    <3>1. /\ commands' = ParsePipeline(line')
          /\ doc' = [c \in DOMAIN ParsePipeline(line') |-> None]
      BY <1>2, <2>1, <2>4 DEF TakeCommand
    <3>2. Len(doc') = Len(commands') /\ doc' \in Seq(Document)
      <4>1. /\ Len(ParsePipeline(line')) \in Nat
            /\ DOMAIN ParsePipeline(line') = 1 .. Len(ParsePipeline(line'))
        BY <2>1, <2>4, StagesOf
      <4>2. doc' \in [1 .. Len(commands') -> Document]
        BY <3>1, <4>1
      <4> HIDE DEF Document
      <4>3. doc' \in Seq(Document)
        BY <3>1, <4>1, <4>2, SeqDef
      <4> QED BY <3>1, <4>1, <4>2, <4>3, LenProperties
    <3> QED BY <2>1, <2>3, <3>1, <3>2
  <2> QED BY <2>2, <2>4
<1>3. CASE OpenHeredoc
  <2>1. UNCHANGED <<eof, commands, pc, torn>> /\ pc = "heredoc"
    BY <1>3 DEF OpenHeredoc
  <2>2. Due \subseteq 1 .. Len(commands) /\ Due # {} /\ Len(commands) \in Nat
        /\ DOMAIN commands = 1 .. Len(commands)
    BY <1>3, StagesOf DEF OpenHeredoc, Due, PipelineOK
  <2>3. Min(Due) \in Due
    <3>1. Due \in SUBSET Nat
      BY <2>2
    <3> QED BY <2>2, <3>1, LeastNatural DEF Min
  <2>4. doc' \in Seq(Document) /\ Len(doc') = Len(doc) /\ doc'[Min(Due)] = <<>>
    <3>1. doc' = [doc EXCEPT ![Min(Due)] = <<>>] /\ <<>> \in Document
      BY <1>3 DEF OpenHeredoc
    <3>2. Min(Due) \in 1 .. Len(doc)
      BY <2>1, <2>2, <2>3
    <3> HIDE DEF Document
    <3> QED BY <3>1, <3>2, ExceptSeq DEF Document
  <2> QED BY <1>3, <2>1, <2>2, <2>3, <2>4 DEF OpenHeredoc
<1>4. CASE HeredocLine
  <2>1. UNCHANGED <<eof, commands, pc, torn>> /\ pc = "heredoc" /\ reading # 0
    BY <1>4 DEF HeredocLine
  <2>2. reading \in 1 .. Len(doc) /\ doc[reading] \in Seq(Nat)
    BY <2>1, StagesOf DEF PipelineOK
  <2>3. Head(buf) \in Nat
    BY <1>1, <1>4 DEF HeredocLine, Take, InputOK
  <2>4. CASE reading' = 0 /\ UNCHANGED doc
    BY <2>1, <2>4
  <2>5. CASE /\ doc' = [doc EXCEPT ![reading] = Append(@, Head(buf))]
             /\ UNCHANGED reading
    <3>1. Append(doc[reading], Head(buf)) \in Seq(Nat)
      BY <2>2, <2>3
    <3> DEFINE new == Append(doc[reading], Head(buf))
    <3>2. doc' = [doc EXCEPT ![reading] = new] /\ new \in Document
      BY <2>5, <3>1
    <3> HIDE DEF Document, new
    <3>3. doc' \in Seq(Document) /\ Len(doc') = Len(doc) /\ doc'[reading] = new
      BY <2>2, <3>2, ExceptSeq DEF Document
    <3> QED BY <2>1, <2>5, <3>1, <3>3 DEF Document, new
  <2> QED BY <1>4, <2>4, <2>5 DEF HeredocLine
<1>5. CASE HeredocWriteFails \/ HeredocAtEnd
  BY <1>5 DEF HeredocWriteFails, HeredocAtEnd
<1>6. CASE \/ Refill \/ EndOfInput \/ HeredocsCollected \/ Crash
  BY <1>6 DEF Refill, EndOfInput, HeredocsCollected, Crash
<1>7. CASE ExpandPipeline
  BY <1>7, ExpandedStages DEF ExpandPipeline
<1>8. ASSUME NEW ran, EndOfBody(ran), pc # "heredoc" \/ reading = 0 PROVE DocumentsOK'
  BY <1>8 DEF EndOfBody, CloseHeredocs
<1>9. CASE OpenHeredocFails \/ RunBuiltin \/ SpawnFails \/ WaitDone
  BY <1>8, <1>9 DEF OpenHeredocFails, RunBuiltin, SpawnFails, WaitDone, ToExecutor
<1>10. ASSUME NEW k \in KidIds, NEW fate \in AllFates, ExecuteBackground(k, fate)
      PROVE  DocumentsOK'
  BY <1>8, <1>10 DEF ExecuteBackground, ToExecutor
<1>11. ASSUME NEW k \in KidIds, NEW fate \in AllFates, ExecuteForeground(k, fate)
      PROVE  DocumentsOK'
  BY <1>11 DEF ExecuteForeground, ToExecutor
<1>12. CASE UNCHANGED <<eof, pc, commands, doc, reading, torn>>
  BY <1>12
<1> QED BY <1>2, <1>3, <1>4, <1>5, <1>6, <1>7, <1>9, <1>10, <1>11, <1>12, OthersStep
        DEF ShellStep

-----------------------------------------------------------------------------
\* All of it together.
SessionInv ==
  /\ InputOK /\ RingOK(history) /\ LoopOK
  /\ ChildrenOK /\ SessionOK /\ PipelineOK /\ DocumentsOK

\* The inductive invariant of the main loop: input, history, loop, children,
\* session, pipeline and here-documents.
THEOREM SessionInvariant == Spec => []SessionInv
<1>1. Init => ChildrenOK /\ SessionOK /\ PipelineOK /\ DocumentsOK
  <2> SUFFICES ASSUME Init PROVE ChildrenOK /\ SessionOK /\ PipelineOK /\ DocumentsOK
    OBVIOUS
  <2>1. ChildrenOK
    BY ReplAssumption DEF Init, ChildrenOK, KidIds, NoKid
  <2>2. SessionOK
    <3>1. env \in [DOMAIN Env0 -> Word] /\ cwd \in DOMAIN Matches
      BY Zenon, ReplAssumption DEF Init
    <3>2. history.total = 0 /\ MaxTotal \in Nat
      BY ReplAssumption DEF Init, HistoryInit
    <3>3. should_exit \in BOOLEAN /\ last_status \in Codes
      BY DEF Init, Codes
    <3>4. history.total <= MaxTotal
      BY <3>2
    <3> QED BY <3>1, <3>3, <3>4 DEF SessionOK
  <2>3. PipelineOK
    BY DEF Init, PipelineOK
  <2>4. DocumentsOK
    BY EmptySeq DEF Init, DocumentsOK
  <2> QED BY <2>1, <2>2, <2>3, <2>4
<1>2. SessionInv /\ [Next]_vars =>
        (ChildrenOK /\ SessionOK /\ PipelineOK /\ DocumentsOK)'
  BY ChildrenStep, SessionStep, PipelineStep, DocumentsStep DEF SessionInv
<1> QED BY <1>1, <1>2, RingInvariant, LoopInvariant, PTL DEF Spec, SessionInv

\* Every variable has its type: the parser's answer fits into the pipeline,
\* a builtin leaves a directory that exists, the counter of the history
\* stays in its bound.
THEOREM TypeInvariant == Spec => []TypeOK
<1>1. SessionInv => TypeOK
  <2> SUFFICES ASSUME SessionInv PROVE TypeOK
    OBVIOUS
  <2> USE DEF SessionInv
  <2>1. offset \in 0 .. Len(script) /\ kind \in Kinds /\ Range(buf) \subseteq 1 .. Len(script)
    BY DEF InputOK, Range
  <2>2. Len(commands) <= MAX_COMMANDS /\ Len(doc) <= MAX_COMMANDS
    <3>1. CASE pc \in {"prompt", "exited"}
      BY <3>1, ParserAssumption DEF PipelineOK, LoopOK
    <3>2. CASE pc \notin {"prompt", "exited"}
      BY <3>2, PipelineType DEF PipelineOK, DocumentsOK
    <3> QED BY <3>1, <3>2
  <2>3. /\ history.size \in 0 .. HISTORY_CAPACITY /\ history.next \in Slots
        /\ history.total \in 0 .. MaxTotal
    BY ReplAssumption DEF RingOK, SessionOK
  <2> QED BY <2>1, <2>2, <2>3
          DEF TypeOK, ChildrenOK, SessionOK, PipelineOK, DocumentsOK
<1> QED BY <1>1, SessionInvariant, PTL

\* The parser finds in every line that is taken what the grammar says is
\* there, whatever the sizes of its vectors.
THEOREM Parses == Spec => []ParsesGrammar
<1>1. SessionInv => ParsesGrammar
  BY LineReadsAs DEF SessionInv, PipelineOK, ParsesGrammar
<1> QED BY <1>1, SessionInvariant, PTL

-----------------------------------------------------------------------------
\* What the arguments become together if nothing fails.
Whole(args, e, status, dir) ==
  FlattenSeq([k \in DOMAIN args |-> WordsOf(args[k], e, status, dir, "none")])

\* The vector fits, and holds the beginning of all words if nothing fails.
VectorOK(new, all, complete) ==
  /\ Len(new) < MAX_ARGS
  /\ complete => /\ Len(new) = Min({Len(all), MAX_ARGS - 1})
                 /\ new = SubSeq(all, 1, Len(new))

\* The vector of one stage.
LEMMA ExpandedArgs ==
  ASSUME NEW args \in Seq(STRING), NEW e, EnvOK(e), NEW status,
         NEW dir \in DOMAIN Matches, NEW fault, NEW complete \in BOOLEAN,
         complete => \A k \in DOMAIN args : fault[k] = "none"
  PROVE  VectorOK(ExpandArgs(args, e, status, dir, fault),
                  Whole(args, e, status, dir), complete)
<1> DEFINE all == Whole(args, e, status, dir)
           new == ExpandArgs(args, e, status, dir, fault)
           big == AllWords(args, e, status, dir, fault)
           M   == MAX_ARGS - 1
<1>1. big \in Seq(Word) /\ new = Beginning(big, M)
  BY ExpandArgsBeginning
<1>2. M \in Nat /\ M < MAX_ARGS /\ MAX_ARGS \in Nat
  BY ParserAssumption
<1>3. complete => big = all
  BY DEF AllWords, Whole
<1> HIDE DEF all, new, big, M
<1>4. /\ Len(new) = IF Len(big) <= M THEN Len(big) ELSE M
      /\ Len(big) \in Nat
  BY <1>1, <1>2, BeginningOf
<1>5. Min({Len(big), M}) = Len(new) /\ Len(new) < MAX_ARGS
  BY <1>2, <1>4, MinOfTwo
<1>6. new = SubSeq(big, 1, Len(new))
  BY <1>1, <1>5 DEF Beginning
<1>7. VectorOK(new, all, complete)
  BY <1>3, <1>5, <1>6 DEF VectorOK, M
<1> QED BY <1>7 DEF all, new

\* The property, stage by stage.
VectorsOK ==
  pc = "execute" =>
    \A c \in DOMAIN commands :
      VectorOK(commands[c].args,
               Whole(ParsePipeline(line)[c].args, env, last_status, cwd), ~faulty)

\* Expansion gives every stage a vector that fits, and all of its words if
\* nothing fails.
LEMMA ExpansionStep ==
  ASSUME SessionInv, ExpandPipeline
  PROVE  VectorsOK'
<1> USE DEF SessionInv
<1>1. /\ line \in Seq(STRING) /\ ParsePipeline(line) # None
      /\ commands = ParsePipeline(line)
      /\ UNCHANGED <<line, env, last_status, cwd, faulty>>
  BY DEF ExpandPipeline, PipelineOK, session, ghosts, inputVars
<1>2. \A c \in DOMAIN commands : commands[c] \in Stage
  BY <1>1, StagesOf
<1>3. EnvOK(env) /\ cwd \in DOMAIN Matches
  BY ReplAssumption DEF EnvOK, SessionOK
<1>4. PICK x, f :
        /\ ~faulty => f = NoFault(commands[x])
        /\ commands' = [d \in DOMAIN commands |->
                          Expanded(d, IF d = x THEN f ELSE NoFault(commands[d]))]
  BY DEF ExpandPipeline
<1>5. ASSUME NEW c \in DOMAIN commands
      PROVE  VectorOK(commands'[c].args,
                      Whole(commands[c].args, env, last_status, cwd), ~faulty)
  <2> DEFINE words == commands[c].args
             fault == IF c = x THEN f ELSE NoFault(commands[c])
  <2>1. words \in Seq(STRING)
    BY <1>2 DEF Stage
  <2>2. commands'[c].args = ExpandArgs(words, env, last_status, cwd, fault.args)
    <3>1. commands'[c] = ExpandCommand(commands[c], env, last_status, cwd, fault)
      BY <1>4 DEF Expanded
    <3>2. commands[c] \in Stage
      BY <1>2
    <3> HIDE DEF fault
    <3> QED BY <3>1, <3>2 DEF ExpandCommand, Stage
  <2>3. ~faulty => \A k \in DOMAIN words : fault.args[k] = "none"
    <3> SUFFICES ASSUME ~faulty PROVE \A k \in DOMAIN words : fault.args[k] = "none"
      OBVIOUS
    <3>1. fault = NoFault(commands[c])
      BY <1>4
    <3>2. DOMAIN words = 1 .. Len(commands[c].args)
      BY <2>1
    <3> HIDE DEF fault, words
    <3> QED BY <3>1, <3>2 DEF NoFault
  <2> HIDE DEF fault, words
  <2>4. VectorOK(ExpandArgs(words, env, last_status, cwd, fault.args),
                 Whole(words, env, last_status, cwd), ~faulty)
    BY <1>3, <2>1, <2>3, ExpandedArgs
  <2> QED BY <2>2, <2>4 DEF words
<1>6. DOMAIN commands' = DOMAIN commands
  BY <1>4
<1> QED BY <1>1, <1>5, <1>6 DEF VectorsOK

\* The vectors given to exec fit and hold the beginning of what the line
\* expands to, for every line and every size of the vector.
THEOREM Expands == Spec => []ExpandsInOrder
<1>1. Init => VectorsOK
  BY DEF Init, VectorsOK
<1>2. SessionInv /\ VectorsOK /\ [Next]_vars => VectorsOK'
  <2> SUFFICES ASSUME SessionInv, VectorsOK, [Next]_vars PROVE VectorsOK'
    OBVIOUS
  <2>1. CASE ExpandPipeline
    BY <2>1, ExpansionStep
  <2>2. ASSUME pc' # "execute" PROVE VectorsOK'
    BY <2>2 DEF VectorsOK
  <2>3. ASSUME NEW strdup, TakeCommand(strdup) PROVE pc' # "execute"
    BY <2>3 DEF TakeCommand
  <2>4. CASE \/ Refill \/ EndOfInput \/ OpenHeredoc \/ HeredocLine
             \/ HeredocAtEnd \/ HeredocsCollected \/ HeredocWriteFails \/ Crash
    <3>1. pc' # "execute"
      BY <2>4 DEF Refill, WantsLine, EndOfInput, OpenHeredoc, HeredocLine,
                  HeredocAtEnd, HeredocsCollected, HeredocWriteFails, Crash
    <3> QED BY <2>2, <3>1
  <2>5. ASSUME NEW ran, EndOfBody(ran) PROVE pc' # "execute"
    BY <2>5 DEF EndOfBody
  <2>6. CASE OpenHeredocFails \/ RunBuiltin \/ SpawnFails \/ WaitDone
    BY <2>2, <2>5, <2>6 DEF OpenHeredocFails, RunBuiltin, SpawnFails, WaitDone
  <2>7. ASSUME NEW k \in KidIds, NEW fate \in AllFates,
               ExecuteBackground(k, fate) \/ ExecuteForeground(k, fate)
        PROVE  pc' # "execute"
    BY <2>5, <2>7 DEF ExecuteBackground, ExecuteForeground
  <2>8. CASE UNCHANGED <<faulty, pc, commands, env, last_status, cwd, line>>
    BY <2>8 DEF VectorsOK
  <2> QED BY <2>1, <2>2, <2>3, <2>4, <2>6, <2>7, <2>8, OthersStep DEF ShellStep
<1>3. VectorsOK => ExpandsInOrder
  BY Zenon DEF VectorsOK, VectorOK, Whole, ExpandsInOrder
<1> QED BY <1>1, <1>2, <1>3, SessionInvariant, PTL DEF Spec

-----------------------------------------------------------------------------
\* Only a command that is alone on its line changes the directory, the
\* environment or whether the shell goes on.
THEOREM Isolated == Spec => SubshellIsolated
<1> DEFINE Alone == Cardinality({n \in DOMAIN Segments(line) :
                      ParseCommand(Segments(line)[n]).args # <<>>}) = 1
<1>1. SessionInv /\ RunBuiltin => Alone
  <2> SUFFICES ASSUME SessionInv, RunBuiltin PROVE Alone
    OBVIOUS
  <2>1. /\ line \in Seq(STRING) /\ ParsePipeline(line) # None
        /\ Len(ParsePipeline(line)) = 1
    BY DEF RunBuiltin, Standalone, SessionInv, PipelineOK
  <2> QED BY <2>1, OneStageOneCommand
<1>2. [Next]_vars => RunBuiltin \/ UNCHANGED <<env, cwd, should_exit>>
  <2> SUFFICES ASSUME [Next]_vars PROVE RunBuiltin \/ UNCHANGED <<env, cwd, should_exit>>
    OBVIOUS
  <2> USE DEF session
  <2>1. ASSUME NEW strdup, TakeCommand(strdup) PROVE UNCHANGED <<env, cwd, should_exit>>
    BY <2>1 DEF TakeCommand
  <2>2. CASE \/ Refill \/ EndOfInput \/ OpenHeredoc \/ HeredocLine
             \/ HeredocAtEnd \/ HeredocsCollected \/ HeredocWriteFails
             \/ OpenHeredocFails \/ ExpandPipeline \/ Crash
    BY <2>2 DEF Refill, EndOfInput, OpenHeredoc, HeredocLine, HeredocAtEnd,
                HeredocsCollected, HeredocWriteFails, OpenHeredocFails,
                ExpandPipeline, Crash
  <2>3. CASE SpawnFails \/ WaitDone
    BY <2>3 DEF SpawnFails, WaitDone
  <2>4. ASSUME NEW k \in KidIds, NEW fate \in AllFates,
               ExecuteBackground(k, fate) \/ ExecuteForeground(k, fate)
        PROVE  UNCHANGED <<env, cwd, should_exit>>
    BY <2>4 DEF ExecuteBackground, ExecuteForeground
  <2> QED BY <2>1, <2>2, <2>3, <2>4, OthersStep DEF ShellStep
<1>3. SessionInv /\ [Next]_vars =>
        [<<env, cwd, should_exit>>' # <<env, cwd, should_exit>> => Alone]_vars
  <2> HIDE DEF Alone
  <2> QED BY <1>1, <1>2
<1> QED BY <1>3, SessionInvariant, PTL DEF Spec, SubshellIsolated
=============================================================================

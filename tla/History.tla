------------------------------- MODULE History -------------------------------
(***************************************************************************)
(* The ring of history.c as a value: entries[], size, next and total.      *)
(* Slots are numbered from 0, as in the code.                              *)
(***************************************************************************)
EXTENDS Integers, Sequences

CONSTANTS HISTORY_CAPACITY,
          NoLine   \* NULL: an empty slot

ASSUME HistoryAssumption == HISTORY_CAPACITY \in Nat \ {0}

Slots == 0 .. HISTORY_CAPACITY - 1

HistoryInit == [entries |-> [s \in Slots |-> NoLine],
                size |-> 0, next |-> 0, total |-> 0]

\* Variant: the cursor runs out of the array.
NextSlotBeyond(h) == h.next + 1

NextSlot(h) == (h.next + 1) % HISTORY_CAPACITY

\* Overwrite the oldest slot once the ring is full.
HistoryStore(h, line) ==
  [entries |-> [h.entries EXCEPT ![h.next] = line],
   next    |-> NextSlot(h),
   size    |-> IF h.size < HISTORY_CAPACITY THEN h.size + 1 ELSE h.size,
   total   |-> h.total + 1]

IsBlank(line) == line = <<>>

\* Blank lines are skipped, and so is a line strdup has no memory for.
HistoryAdd(h, line, strdup) ==
  IF IsBlank(line) \/ ~strdup THEN h ELSE HistoryStore(h, line)

\* Variant: the oldest entry is taken to be in slot 0.
OldestIsFirst(h) == 0

\* The oldest entry sits `size` slots behind the write cursor.
Oldest(h) == (h.next - h.size + HISTORY_CAPACITY) % HISTORY_CAPACITY

\* What history_print lists: numbers and lines, oldest first.
HistoryPrint(h) ==
  [i \in 1 .. h.size |->
     <<h.total - h.size + i, h.entries[(Oldest(h) + i - 1) % HISTORY_CAPACITY]>>]
=============================================================================
